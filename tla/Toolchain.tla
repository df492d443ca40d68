----------------------------- MODULE Toolchain ------------------------------
(***************************************************************************)
(* Compiler and emulator together (main of cli/main.c, then emu): a text   *)
(* is parsed function by function and, with -d, compiled at some -O, its   *)
(* image loaded and run to the end; what comes of it is compared with what *)
(* the text was written from.                                              *)
(***************************************************************************)
EXTENDS Emulator, Parser, Source

\* Records [text, options, means]: a text, the options [O, d], and <<the module
\* the text is written from>>, or <<>> if it is none of the language.
CONSTANT Sources

VARIABLES
  means,                \* of the source, and the
  options,              \* it is compiled with
  parser,               \* the parser's state, NULL when the compiler has ended
  phase,                \* parsing, parsed, refused, aborted or loaded
  memh                  \* the file: the words of the image

tvars == <<evars, means, options, parser, phase, memh>>

Parsed  == [strings |-> parser.strings, functions |-> parser.functions]
Dumped  == Optimised(Parsed, options.O)
HasMain == \E k \in DOMAIN parser.functions : parser.functions[k].name = "main"

TInit ==
  /\ \E source \in Sources :
       means = source.means /\ options = source.options /\ parser = lexer_init(source.text)
  /\ phase = "parsing"
  /\ memh = <<>>
  /\ Loaded(memh)

StartsFunction == parser.tok \in {"fnc", "__stdcall", "__cdecl", "__fastcall"}
Parsing        == phase = "parsing" /\ UNCHANGED <<evars, means, options, memh>>

\* Inside a literal that never ends the parser does not come back.
ParseFunction ==
  /\ Parsing /\ StartsFunction
  /\ \E r \in {parse_fnc(parser)} :
       /\ ~r.p.spins
       /\ parser' = r.p
       /\ phase' = IF r.e = NULL THEN "refused" ELSE "parsing"

ParseIllegal ==
  /\ Parsing /\ ~StartsFunction /\ parser.tok # "EOF"
  /\ phase' = "refused"
  /\ UNCHANGED parser

ParseOnly ==
  /\ Parsing /\ parser.tok = "EOF" /\ ~options.d
  /\ phase' = "parsed"
  /\ UNCHANGED parser

NoEntry ==              \* cg_precode_template asserts that there is an entry
  /\ Parsing /\ parser.tok = "EOF" /\ options.d /\ ~HasMain
  /\ phase' = "aborted"
  /\ UNCHANGED parser

NoBody ==               \* folding has removed all that a function does
  /\ Parsing /\ parser.tok = "EOF" /\ options.d /\ HasMain /\ ~HasBodies(Dumped)
  /\ phase' = "aborted"
  /\ UNCHANGED parser

CompileAndLoad ==
  /\ phase = "parsing" /\ parser.tok = "EOF" /\ options.d /\ HasMain /\ HasBodies(Dumped)
  /\ phase' = "loaded"
  /\ memh' = Compile(Dumped)
  /\ lmem' = LoadedMem(memh') /\ mode' = LoadedMode(memh')
  /\ parser' = NULL
  /\ UNCHANGED <<pc, r_regs, r_sr, uart_tx_buf, uart, means, options>>

RunStep == phase = "loaded" /\ Next /\ UNCHANGED <<means, options, parser, phase, memh>>

TNext == ParseFunction \/ ParseIllegal \/ ParseOnly \/ NoEntry \/ NoBody \/ CompileAndLoad \/ RunStep

\* emu_run is a loop that nothing suspends.
ToolchainSpec == TInit /\ [][TNext]_tvars /\ WF_tvars(RunStep)
-----------------------------------------------------------------------------
(* A text is accepted only as the module it was written from, and refused  *)
(* only if it was written from none: functions, scopes, precedence, blocks *)
(* and strings survive the lexer and the parser (parser.c).  A module with *)
(* a main aborts the compiler only when it folds.                          *)
ParsesBack ==
  /\ phase = "parsing" /\ parser.tok = "EOF" /\ (options.d => HasMain) => means = <<Parsed>>
  /\ phase = "refused" \/ (phase = "aborted" /\ ~HasMain) => means = <<>>
  /\ phase = "aborted" /\ HasMain => means = <<Parsed>> /\ options.O > 0

(* A compiled module that halts has left the value of main's last item in  *)
(* Ax and has written the bytes its source says, at either level: the      *)
(* templates, the labels and constant folding against what emu_exec does.  *)
ComputesMeaning ==
  mode = "halted" =>
    LET end == Meaning(means[1]) IN r_regs[Ax] = end.val /\ uart_tx_buf = end.out

(* The stack, the frames and the variables stay out of the code: no store  *)
(* of a compiled module changes a word of its image (strings included).    *)
CodeIntact == \A a \in 1 .. Len(memh) : lmem[a - 1] = memh[a]

(* The compiler keeps to the instructions, operands and conditions on      *)
(* which emulator and core do the same (template_impl.c, prco_isa.c).      *)
SameOnCore == phase = "loaded" /\ mode = "running" => ~Diverges

(* An image that is loaded runs to main's HALT: every loop, call and return *)
(* of a compiled module leads on to it.                                    *)
RunsToEnd == phase = "loaded" ~> mode = "halted"
=============================================================================
