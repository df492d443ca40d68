# PRCO304: a verification project

PRCO304 is a 16-bit processor for a Spartan-6 board, written in Verilog, with a
C compiler for a small language, an emulator, a UART and the board's top level.
This directory models the program in TLA+, checks the models with TLC and proves
theorems about them with TLAPS. Paths are relative to the repository
(`prco_core/rtl/` holds the hardware, `prco_compiler/` the software).

## Inventory

| component | state | operations and interaction |
|---|---|---|
| core control, `prco_core.v` | `pc`, `core_state`, `r_cpu_init`, `i_ce_reg`, `q_ce`, the memory port, the write-back operand | issues a fetch (`q_ce`), counts `pc`, runs the five-state branch sequence, waits for `i_step` in debug mode; wires the other modules into a ring |
| decoder, `prco_decoder.v` | latched instruction and control outputs, `q_ce`, `q_fetch` | decodes on the memory's pulse; NOP and unknown opcodes hand the token straight back, an unknown opcode halts |
| register file, `prco_regs.v` | eight registers, two read ports, `q_ce_alu`, `q_ce_fetch` | reads on any pulse, writes on `i_we`, clears on reset |
| ALU, `prco_alu.v` | `q_result`, `r_sr`, `q_ce_reg`, `q_ce_ram`, `q_should_branch` | one operation per pulse, flags on CMP |
| memory, `prco_lmem.v` | 256 words, `q_mem_douta`, `q_ce_dec`, `q_ce_reg` | fetch, load, store through one port |
| FIFO, `uart/fifo.v` | pointers, EMPTY, FULL, memory | push, pop, both at once, flush, disable, reset |
| UART, `uart/uart.v` | two state machines with dividers, countdowns, shift registers | start bit, eight bits, two stop bits; sampling in the middle of a bit |
| buffered UART, `uart/uart_fifo.v` | `tx_fifo_pop`, two FIFOs, a UART | pops a byte into the transmitter when it is idle |
| board, `impl/xc6lx9_minispartanp.v` | synchroniser, timer, debounced level, edge detector, one-edge reset | turns a bouncing button into step pulses |
| emulator, `emu/emu.c` | pc, registers, flags, 255 words, a transmit buffer | decode, execute, branch, until HALT |
| lexer and parser, `libprco/parser.c`, `tok_prec.inc.c` | current token, the last identifier, number and literal, locals and parameters, the module's lists | text to tree by recursive descent and precedence climbing |
| port block, `prco_io.v` | one byte | latches what a WRITE sends |
| UART echo, `uart/uart_echo.v` | `tx_byte`, `transmit`, `rx_fifo_pop`, a buffered UART | sends back every byte it receives |
| constant folding, `libprco/opt.c` | the tree | folds constant operators, splices constant ifs |
| code generator, `libprco/arch/template_impl.c` | the instruction list, the current function | one routine per node; operands on the stack |
| assembler, same file | the instruction list | replaces label ids by 8-bit addresses |
| encoders, `libprco/arch/prco_isa.c` | none | instruction words and their assertions |
| the rest: `ast.c`, `list.c`, `module.c`, `gen.c`, `dbug.c`, `target.c`, `cli/main.c`, benches, `getopt.h` | little or none | allocation, printing, option parsing, stimuli, vendored code |

How they interact. The hardware is one clock domain: at a rising edge every
`always` block reads all registers and sets its own. Control passes between the
core's modules as one-edge chip enables, a token going round a ring: core -> memory
-> decoder -> registers -> ALU -> (memory ->) registers -> core. The UART is reached
by a WRITE instruction that pulses `transmit` for an edge; the program never hears
back. The compiler is a sequence of passes over one tree and one instruction list,
whose last product is the image that memory and emulator load.

What is hard. The ring has no back pressure: a token lost stops the core, a token
doubled executes two instructions at once, and the branch path doubles it on
purpose. Fetch and store share a port. Single stepping lets an outside event fall on
any edge of the ring. FIFO and transmitter are coupled by a registered pulse
computed from flags an edge old. The receiver samples an asynchronous line with its
own clock. The button bounces. On the software side: a parser that reports and goes on, scopes in globals, unchecked bounds, label
resolution with three meanings of an id, and a stack discipline spread over a
dozen routines. `PROJECT.json` lists these hazards by line.

What makes each component correct:

- core: the ring holds one token; what is decoded is what `pc` pointed at, after every store; each trip round the ring is one instruction of a sequential machine; it goes on until HALT;
- FIFO: a bounded queue with flags that tell its occupancy;
- UART: what is received is what was sent, in time, under bounded drift and noise;
- buffered UART: every accepted byte is sent once, in order;
- board: one pulse per press, pulses far apart;
- emulator: computes what the core computes;
- board as a whole: one instruction per press, every byte written reaches the line;
- echo: every byte comes back once, in order;
- parser: a text is accepted as the module it was written from, or refused;
- compiler: the code emitted for an expression leaves its value in Ax and Sp where it was; labels resolve to their targets; folding preserves values.

## Modules

| module | models | reads |
|---|---|---|
| `PrcoIsa` | fields, control outputs and ALU functions of an instruction word | - |
| `PrcoMachine` | abstract: a machine that executes one instruction per step | `PrcoIsa` |
| `PrcoCore` | the clocked core: `Tick` is one rising edge, a conjunction of one operator per always block | `PrcoIsa` |
| `PrcoCoreArch` | `PrcoCore` with the history variable `arch`, and the refinement of `PrcoMachine` | `PrcoCore` |
| `Fifo` | the FIFO as functions of a register record and an input record, one per always block | - |
| `FifoQueue` | abstract: a bounded queue | - |
| `FifoClient` | one FIFO under every input, and the refinement of `FifoQueue` | `Fifo` |
| `Uart` | transmitter and receiver, one action per state and outcome | - |
| `UartLink` | two stations with clocks of their own and a noisy line | `Uart` |
| `UartFifo` | the buffered port: UART, two FIFOs, `tx_fifo_pop` | `Uart`, `Fifo` |
| `Echo` | `uart_echo.v` around the port, and a station with the same UART on its line; for its invariant, the two directions as instances of `UartLink` | `UartFifo`, `UartLink` |
| `Board` | the debouncer, the button free at every edge | - |
| `System` | the whole board on one clock: `SystemTick` is one edge of core, button, serial port and `prco_io` | `PrcoCoreArch`, `Board`, `UartFifo` |
| `Emulator` | `emu.c`: one action per case of `emu_exec`, with decoding and the next pc; compared with `PrcoMachine` | `PrcoIsa` |
| `Encoders` | the two forms of a word `prco_isa.c` encodes | `PrcoIsa` |
| `Codegen` | the compiler behind its parser as functions: `opt_cf`, instructions, templates, `assembler_labels`, the image | `Encoders` |
| `Parser` | lexer and parser as functions of the parser's state, one per `parse_...` | `Codegen` |
| `Source` | reference: how a module is written down and what it means | `Codegen` |
| `Toolchain` | a text parsed function by function, compiled, loaded and run | `Emulator`, `Parser`, `Source` |
| `MCPrcoCore`, `MCSystem`, `MCFifo`, `MCEmulator`, `MCToolchain` | programs, clients, files and sources for TLC | |
| `PrcoIsa_proofs` | theorems: what decoding and the ALU return, what decoding makes of the encoders' words | `Encoders` |
| `PrcoCore_proofs` | theorems: types, the token, data, the refinement of `PrcoMachine` | `PrcoCoreArch`, `PrcoIsa_proofs` |
| `Emulator_proofs` | theorems: types, equivalence with `PrcoMachine` | `Emulator`, `PrcoIsa_proofs` |
| `System_proofs` | theorems: the board's types, the stepped core, the order of the bytes sent | `System`, `PrcoCore_proofs` |
| `Fifo_proofs`, `UartLink_proofs`, `Board_proofs` | theorems on the peripherals | `FifoClient`, `UartLink`, `Board` |
| `Echo_proofs` | theorems: types, flags and order of the echo | `Echo`, two instances of `UartLink_proofs` |

State and actions keep the source's names. In `PrcoCore` the registers of a module are
one record, so `core.i_ce_reg` is `i_ce_reg` of `prco_core.v`; the decoder's latched
fields `q_op`, `q_seld`, `q_imm8`, `q_simm5` are the one register `ctl.q_instr` they
are cut from. `CoreControl` has an action per branch of the control block:
reset, halt, issue, wait, and the branch sequence load, delay (two edges), fetch.
A pulse that a block takes down in the same edge it would raise it (`if(q_ce) q_ce
<= 0` at the end of a block) is the conjunct `~spent`.

`Emulator` has the fields of `prco_emu_core` as variables and a `mode`: a failed
assertion of `assert_opcode` ends in `aborted`, an index outside `lmem` or `uart_tx_buf` in
`undefined`, which stands for all that C allows from there on. A `Parser` function takes the
parser's globals as one record and answers the record after it with the list it returns; a text is
a sequence of lexemes, a token its spelling. `System` does not assume the core's environment
(`StepAllowed`, a free `tx_fifo_full`): it wires in the board and the port and shows, as `RefinesCore`, that
they are such an environment. `Codegen` has one operator per
template, with the template's name. A tree is a record, a list linked by `next` a
sequence. `opt_cf` changes lists in place that others still point to; the model answers both the
list returned and the list as left behind, which is what the sharing comes down to.
A label's id is the node's place in the tree, which is unique as `NEW_ASM_ID` is.

## What the models take for granted

- *Synthesised reading.* A block sees the others' registers as before the edge.
  `uart.v` and the decoder's fields are assigned with `=`, so a simulator may order
  them differently against the blocks that read them; a netlist may not. Likewise
  the ALU's `ret` (`prco_alu.v:35`) starts from 0 in every evaluation; a simulator
  that keeps it would leave Z set after the first equality.
- Registers without an initial value hold 0 after configuration.
- Reset is up for a number of edges at power-on and never again, which is what the
  board's top level does (one edge); the benches hold it for a few.
- The debug switch does not move during a run: `i_mode` is chosen initially.
- Addresses reach the RAM modulo its depth; 16 words stand for 256.
- In `PrcoCore` the UART's `tx_fifo_full` is a free input, and one of `PrcoMachine`: `arch` keeps the
  flag of each retirement, so a WRITE loses its byte when the flag is up and only then. `System` has the real one. The port's `rx` is a wire that nothing drives (`prco_core.v:300`)
  and whose bytes nobody reads: it stands at the idle level.
- In `UartLink` the line is pulled low only while both ends are idle, and a byte is sent only to a receiver
  that is idle again. A frame that begins while the receiver still gets over noise (`RX_ERROR`, `RX_DELAY_RESTART`)
  is not part of it: the code has no means to take such a frame.
- The station that talks to `uart_echo` runs on the same clock; `UartLink` has the drift.
- While a UART state machine is idle its divider and countdown run freely and are
  assigned before they are read; these values are left out.
- A text is lexemes without white space or lines: `line_buf`, which a line of 80 characters overruns
  (`parser.c:283`), is left out. `proto_already_exists` returns no value when it finds nothing
  (`parser.c:633`); its caller is given NULL then, as the builds tried do.
- The emulator's printing is left out, with the tables of names it indexes. So are
  images of more than 255 words, at which the loader runs past `lmem`.
- Allocation and
  freeing of nodes are left out; where folding shares nodes, `module_free` frees them twice,
  after the image is written.

## Runs

| run | question | bounds | result |
|---|---|---|---|
| `core_run` | free running, does the ring hold one token, does each fetch see every store, is each stage's data what the sequential machine makes of the instruction (`DataInv`), is the pipeline that machine, does it go on? | all programs of up to three instructions from a pool that has each kind, four longer ones (a counting loop, a call and return through the stack, code that patches itself, arithmetic across zero), reset of one or two edges, 16 words | passes |
| `system_step` | the whole board, stepping: does every press issue one instruction and nothing else does, is the board the environment the core was checked with, is the core still the sequential machine, are its bytes all sent in order, do button, core and port keep the time with each other that this rests on (`StepInv`)? | programs without jumps: every pair of eight kinds of instruction around a WRITE, two longer ones; the button free at every edge, 29 edges between samples, divider 1, so that two presses can be 57 edges apart: a frame (44) and the 13 edges that `FrameFits` asks for besides, no more | passes |
| `core_jump` | and with jumps? | long programs, pulses 20 edges apart | **violated** |
| `fifo_queue` | is the FIFO a bounded queue? push with pop at 2 .. Depth - 2 values only | depth 4, three values: each occupancy, each wrap, all input combinations | passes |
| `uart_link` | does every byte arrive as sent and in time, and are the two stations always within half a bit of each other (`LinkInv`)? | divider 3, drift of 5 edges per frame in any pattern, two glitches of up to 6 edges, four bytes with runs and alternations | passes |
| `uart_echo` | does every byte that a station sends come back, once and in order? | divider 1, depth 4, two byte values, 46 edges from byte to byte (what the echo takes for one) or any longer pause | passes |
| `core_uart` | and the bytes a free-running program writes? | four WRITEs, an instruction between two | **violated** |
| `board` | are step pulses far apart, is every held level seen? | period 8 | passes |
| `emulator` | is a step of `emu.c` a step of the core's machine? | every opcode with two destinations and 13 low bytes (each condition, offsets, signs), on 11 pairs of operands at the edges of sign, word and memory; a loop that fills the transmit buffer, a word made at run time, a jump out of memory to an address whose low bits name a jump to itself | passes |
| `compiled` | is a text accepted as the module it was written from, or refused; does the code compute what the source means, leave itself alone, stay on common ground of emulator and core, and halt? | compiled at -O0 and -O1: nested expressions of three operators, every pair of eight statements over a variable, folded ifs, nested calls, recursion to depth 4, loops in functions, strings; parsed only: every operator between operands of every kind nested on either side, every statement in every other; refused: nine breaches of scope, no body, no `main`, use before declaration, tokens that are none, an end too early, a literal that does not end | passes |
| `compiled_fold` | and with two folded statements in a row? | three-statement bodies | **violated** |
| `parser_headers` | is a text refused that has no expression in the header of an if, for or UART1? | five of them | **violated** |

The bounds are tight where they can be: a drift of twice the divider (half a bit)
breaks `uart_link`, and one edge less between two bytes (a station at full speed) breaks `uart_echo`: the echo
takes 44 * CLOCK_DIVIDE + 2 edges for a byte and a station's UART 44 * CLOCK_DIVIDE + 1, so an unbroken stream
piles up in `tx_fifo` until a byte is lost there. The divider and the
period scale time only: every comparison in the source is with zero or with the
reload value. Depth 4 is the least with an occupancy at which pushing and
popping at once is harmless (2).

Each property has a mutant in `PROJECT.json`: a definition of the model replaced by a
plausible mistake, under which TLC finds the property violated.

### What the violated runs show

- `core_jump`: `core_state` 4 raises `q_ce` whatever `i_mode` says and without counting
  `pc` on. Free running the spare token re-fetches the same word on the next edge and
  `pc` is counted then, so the double pulse collapses into one. In single-step mode the
  first pulse executes the target at once and the next step executes it again: in the
  counterexample a loop counter goes down twice per iteration.
- `core_uart`: `tx_fifo_pop` is a register. On the edge on which the transmitter takes
  a byte it is computed from `is_transmitting` still low and `tx_fifo_empty` still low,
  stays up and pops a second byte that the transmitter, busy now, does not take. In the
  counterexample the program writes 72, 73, 74, 75; 73 and 74 wait together while 72 is sent, and
  74 is gone. A program is safe only if no two bytes ever wait, that is, if it leaves
  a frame (44 * CLOCK_DIVIDE + 2 edges) between WRITEs or waits in a delay loop as the demos do. Stepped
  by hand it always does, which `system_step` shows.
- `parser_headers`: `parse_if_expr`, `parse_for_expr` and `parse_port_uart1` build their node whatever
  `parse_expr` answers. `if (t) {UART1(65);}` with `t` declared nowhere is reported and compiled all
  the same, into a jump on what Ax happens to hold. At -O1 `opt_cf` follows the NULL and the compiler crashes.
- `compiled_fold`: a folded `if` is replaced by its body, spliced before the next item as that
  was before it is folded itself. If that is a foldable `if` too, it stays in the list
  with all that follows both in its body and behind it: `if(1){3;} if(1){3;} UART1(65);` sends `A` twice at -O1.

### Where emulator and core part

`Diverges` in `Emulator` is exact: `AgreesWithCore` is an equivalence over the steps that C
defines (those that stay inside `lmem` and `uart_tx_buf`), so each line of it is a
difference, and by `EmulatorAgreesWithCore` there is no other for any program. They differ on SUB (which the core does
not decode), opcodes the emulator skips or asserts on, memory word 255 and wrapped addresses, the
overflow flag (never set by `alu_cmp`), jumps on S, on not S or GE with S clear, on L with Z set,
SET with LE (0 on the core), WRITE's register (regD in `emu.c`; on the core the
register in the rA field, which the port's number leaves at Ax), a WRITE to another port (which the emulator ignores and the
core, whose port has no number, sends), and a full transmit buffer (the machine's `tx_fifo_full` stands down here, as the emulator's port is never full). `SameOnCore` shows that the code the
compiler emits for the sources of `compiled` meets none of them.

`Codegen` was compared with the compiler itself: over 800 random programs of its grammar, at both
levels, gave the same image word for word. So was `Parser`: the texts of `test/tests` and odd ones around every
production, 60 at both levels, gave the same image or the same refusal.

### The FIFO's flags

EMPTY is set by `next_read_ptr == write_ptr` although the same edge may write (`fifo.v:157`), so a push with a pop
while one value is held leaves EMPTY over that value, against the port's comment at `fifo.v:43`. The same holds for FULL
with one place left (`fifo.v:175`), and for a push with a pop at either end, where the flag falls.
`Both <- {1}` in `Fifo_run.cfg` shows it; `OccupancyCorrect` says that these are the only cases, and `FlagsHonest`
that the echo, whose bytes are a frame apart, meets none of them (`EchoFlagsHonest`).

A guard that cannot be seen: without `!transmit` (`uart_echo.v:102`) the echo would push each byte twice, and
the second pop of `tx_fifo_pop` would remove the copy. The two mistakes cancel, and no property can tell.

### What the parser takes besides

`ParsesBack` is about texts with all their brackets. The parser accepts more, which the model does too:

- `;` is white space (`lexer_next`), so a parenthesis that begins a statement makes a call of a name before it.
- Closing brackets may be missing: `lexer_match_next` reports and goes on.
- Comparisons bind tighter than `+` and `-`; `GE` is a token without a precedence and ends its expression; `*` and `/` are
  refused by the lexer, though `test/tests/binary_ops_3.prco` uses `*`.
- A call whose later argument fails to parse passes `check_call` when the arguments before it are
  as many as the parameters, and has none.
- Two functions may have one name; the assembler (`template_impl.c:146`) then goes on after the first
  it finds and puts the bitwise or of their addresses into the call. `Codegen` is for distinct names.
- `@` takes the whole expression that follows.

### What the sources of `compiled` leave out

Each of these breaks `ComputesMeaning` or `SameOnCore`, so it is kept out and listed here:

- `-`: the operands are subtracted the wrong way round, and the core has no SUB; `<=`: right on the emulator, always 0 on the core.
- A local used before every local of its function is declared (`int a = 5; int b = 1 + a; int c = 0;`): offsets
  count from the newest local, so `a` lies below Sp and the next push overwrites it.
- A call without arguments inside an expression (`1 + (2 + f())`): `cg_call_template` pushes Ax for
  it and pops nothing.
- Numbers above 255, folded or written: MOVI keeps eight bits.
- Two folded statements in a row (`compiled_fold`), and a declaration inside an if that folding removes (its
  variable keeps offset 0, the place of the caller's Bp).

All of these are in the functions as modelled: a source that has one, added to `MCToolchain`, shows it.

One is among the sources: an `if` that folding removes and that is all its function does. `main(){if(0){3;}}` compiles at
-O0 and fails `assert(f->body)` (`template_impl.c:752`) at -O1; `NoBody` is that step, and `ParsesBack` says that at -O0
nothing stops the compiler at a module with a `main`.

### Fairness

`WF(NextArch)`, `WF(Both)`, `WF(Idle)`, `WF(SystemNext)`: an oscillator drives the clock, so there is
always another edge. `WF(RunStep)`: `emu_run` is a loop that nothing suspends. No fairness is assumed of inputs: a step pulse, a WRITE or a
button press may never come.

## Proofs

Proved by TLAPS, for every value of the constants:

| theorem | assumptions | argument |
|---|---|---|
| `TypeCorrect` | the named assumptions on constants | `TypeOK` is inductive; `PrcoIsa_proofs` shows each ALU function stays within 16 bits |
| `RegistersEncoded`, `ImmediatesEncoded` | none: every opcode, register and integer operand | the fields of a sum of multiples of 2048, 256 and 32 |
| `TokenCorrect` | none on program or depth | `TokenInv` with `TypeOK` is inductive: one lemma per phase of the ring |
| `OneInstructionAtATime` | free running only (`Modes = {0}`) | from `TokenInv`: every phase is a `Stage(n)` with one pulse up |
| `FetchIsAlone` | none | from `TokenInv` |
| `DataCorrect` | none; says something of mode 0 only | `DataInv` with `TokenInv` is inductive: one lemma per phase |
| `DecodesTheRightWord` | none; says something of mode 0 only | from `DataInv`'s fetch and decode phases |
| `PipelineImplementsMachine` | free running only (`Modes = {0}`) | from `DataInv`: the edge that retires is a step of `PrcoMachine`, every other a stutter |
| `SystemTypeCorrect` | the named assumptions on constants; both modes | `TypeOK` with the ranges of button, port and `owed` is inductive |
| `ButtonPaces` | stepping (`SteppingAssumption`) | `Paced` is inductive |
| `BoardPacesTheCore` | stepping | from `Paced`: a press finds `env.wait` at zero, so every edge of the board is an edge of `SpecArch` |
| `StepInvariant` | stepping; no jump taken (`[]NoJump`) | `StepInv` is inductive, with the core's invariants carried over by `BoardPacesTheCore` |
| `OneInstructionPerPress`, `SteppingImplementsMachine` | the same | from `StepInv` |
| `BytesSentInOrder` | the same, and a frame fits between two presses (`FrameFits`) | from `StepInv`'s `PortKeepsUp` |
| `EmulatorTypeCorrect` | the image files are sequences of words | inductive over the cases of `emu_exec` |
| `EmulatorAgreesWithCore` | the same | types, then action by action: both sides of the equivalence computed from the word and its operands |
| `FifoTypeCorrect` | - | inductive |
| `OccupancyCorrect` | `Both` within `2 .. Depth - 2` | `Occupancy` with `TypeOK` is inductive: the pointers differ by the count modulo the depth, and the flags tell apart 0 and Depth |
| `FifoImplementsQueue` | `Both` within `2 .. Depth - 2` | from `Occupancy`: the slots from the read pointer on, modulo the depth, are the queue |
| `LinkTypeCorrect` | - | inductive |
| `LinkInvariant` | drift (`Slips`) below, noise (`GlitchEdges`) at most `2 * ClockDivide` edges, half a bit | `LinkInv` with `TypeOK` is inductive |
| `LinkDeliversTheByte`, `LinkDeliversInTime`, `LinkErrorsComeFromNoise` | the same | from `LinkInv`, one conjunct each |
| `EchoTypeCorrect`, `EchoInvariant` | the station leaves at least `44 * ClockDivide + 2` edges from byte to byte | `EchoInv` with `TypeOK` and `tx_byte` in `Data` is inductive: one lemma per stage of a byte in the port, `LinkStep` for each line |
| `EchoFlagsHonest`, `EchoCorrect` | the same | from `EchoInv` |
| `BoardTypeCorrect`, `PulsesInvariant`, `PulsesAreApart` | `Period > 1` | `PulsesInv` with `TypeOK` is inductive |
| `HeldInvariant`, `HeldLevelIsSeen` | `Period > 1` | `HeldInv` with `TypeOK` is inductive |

*Why `OneInstruction` needs a strengthening.* That at most one of nine pulses is up
is not inductive: it says nothing of the fetch side, of `i_ce_reg`, nor of a branch in
progress, so a state may satisfy it in which the fetch is about to issue a second
token. `TokenInv` names the eight phases of a trip: reset, ready, fetch, decode, work
(stages 1 to 9), branch, refetch, redecode. The last two are the double
pulse of a taken jump: memory's `spent` rule swallows the second decode pulse, which is why the
double token becomes one. The proof goes phase by phase, showing
which phases an edge can lead to; it needs the agreement between `ctl.q_req_ram` and
the opcode to know that a load passes the memory stage.

*Why `DataInv`.* That a retiring instruction does what `PrcoMachine` does is known only at the last edge of a
trip, and depends on values latched up to eight edges before. `DataInv` says, for each phase and stage,
what the registers between the modules hold as a function of `arch`, the machine's state before the
instruction: in fetch the word at `arch`'s pc, then its fields, its operands, its result,
and from the edge on which a store, a stack move or a write-back lands, the memory and registers
after it. The doubled pulse of a jump is harmless because both fetches are of the same word.
The stages of one trip depend on `TokenInv`: that nothing else writes meanwhile is the token's uniqueness.

*Why `StepInv`.* `OnePerPress` depends on how long ago the last press was, which no register of the core
holds. Button, core and port have counters of their own, which nothing but their common clock ties together. The invariant has four parts:

- `Paced`: the debouncer's timer and level and the edge detector say how many edges of `StepGap` may be left
  (`env.wait`); a press needs a sample that saw the button released, hence two periods.
- `Stepped`: the core waits in the ready phase, or an instruction is under way at stage `n` and at most `n + 1`
  edges of the gap are gone. An instruction takes eleven edges at most, so a press finds it over.
- `DataHeld`: what `DataInv` says of the registers, for the stepped core. The lemmas of `PrcoCore_proofs` on the data do not ask for a mode:
  they ask that the token flows, which free running and a press at rest both give.
- `PortKeepsUp`: the port holds one byte at most, the one that is owed, and what is left of
  pushing, popping and sending it (`PortLeft`, at most two edges and a frame) is over before the next press.
  So a WRITE never finds a byte waiting, which is when `core_uart` loses one.

`SteppingAssumption` is the top level's: `i_mode` is 1 and two presses are at least two samples of 2^16 edges apart (`PORTC3_LGWAIT`),
so that any `StepGap` up to `2 * Period - 1` may be chosen; a frame at `CLOCK_DIVIDE` 109 is 4796 edges. `[]NoJump` is
needed: a taken jump runs its target without a press, which `core_jump` shows. Every program
without a JMP that is taken meets it, among them those of `system_step`.

*The emulator.* Both programs are functions of the same word and operands, but written differently:
`emu_exec` takes signs from C's integer promotions and an arithmetic shift, the core from bit slices.
The proof goes by the cases of `emu_exec`, showing in each that pc, flags, registers and memory are the
machine's if and only if `Diverges` is false; a step that C leaves undefined has no next state to compare.

*Why `LinkInv`.* `ReceivesWhatWasSent` is about the moment the byte is delivered. The invariant places both
machines in the frame by a number of the bit and the edges left to the frame's end, says that the
receiver is always waiting for the middle of the bit now on the line or of the next one, and that their
places differ by the receiver's late start plus the drift so far, hence by less than half a bit. The
bits that the receiver has taken in are then those that the transmitter has shifted out. With
`CLOCK_DIVIDE` 109 the bound is a drift of 217 edges in a frame of 4800 (4.5 per cent).

*Why `EchoInv`.* `EchoesInOrder` speaks of the edge on which the station hears a byte; `FlagsHonest` depends on
pushes and pops of four blocks never meeting. `EchoInv` says where each byte owed is. The two directions are
lines between equal clocks without noise, so the invariant holds `LinkInv` twice, as instances of `UartLink` whose
`sent` is the last byte owed on the way in (`Coming`) and the first on the way back (`Going`); at most one byte is on each.
Between the lines a byte is alone in the port, in one of three stages: `Stored` in `rx_fifo`, `Fetched` from it,
`Queued` in `tx_fifo`. What ties these together is time:

- `Paced`: the station's pause and its frame run down together, so a byte that has been received leaves
  `PeerGap - 38 * ClockDivide - 2` edges before the next can start;
- in `Empty`, the transmitter's frame (`BusyFor`) is over at most three edges after the next byte can be received
  (`NextIn`): the three that it spends in the port. So two bytes never wait, `tx_fifo_pop`'s second edge finds
  `tx_fifo` empty, and no push meets a pop.

A byte put on the line back has 44 * ClockDivide edges to go and finds `PeerGap - 2` to the next, which is why the bound
on `PeerGap` is what it is. It is a bound on the station, which nothing in the repository limits. With an edge less the
transmitter falls behind by an edge a byte, and when it is a frame behind, two bytes wait: TLC finds `FlagsHonest` and
then `EchoesInOrder` violated after 44 bytes at divider 1, which is 4800 at 109, whatever the depth.
TLC agrees with `EchoInv` for `Echo_run.cfg` and for dividers 2 and 3 with gaps of 90, 95 and 134.

*The encoders.* `assert_opcode` asserts of an encoded word that it holds the fields it was made of. The
theorems say so for every operand, and of the immediates exactly which come back from the decoder as what they were:
0 to 255 where it extends by zeros (MOVI, WRITE), -128 to 127 where it extends the sign (ADDI, SUBI), -16 to 15
for LW and SW. Nothing in `template_impl.c` asks whether a number is in that range before it makes a MOVI of it.

*Why `PulsesInv`.* `PulsesApart` says nothing between pulses; the invariant bounds
`since` below by where the timer stands and by whether the debounced level has
fallen since the last pulse, which takes a sampling period of its own. *Why `HeldInv`.* `HeldIsSeen` speaks of
one age only; the invariant says from which age on each of the three registers must have the level, the last one
depending on how long ago the timer sampled.

Checked by TLC only:

- stepping through a jump: `core_jump` is about one, and what holds of jumps that are stepped is not stated;
- everything of `Toolchain` but the encoders: trees are recursive, `Codegen`, `Parser`, `Source` and `Toolchain` use
  RECURSIVE operators, and what they compute for every tree needs an induction over data;
- all liveness (`KeepsIssuing`, `Delivers`, `SendsAll`, `EchoesAll`, `RunsToEnd`), which the prover cannot do.

## Plan

In order of importance:

1. Core, FIFO, UART, board: written, checked, first theorems (done).
2. `Emulator` against `PrcoMachine`, `Codegen` and `Toolchain`: written, checked (done).
3. `Parser` in front of `Codegen`; `System`, the core with button and serial port, and `Echo`: written,
   checked (done).
4. Proofs of the free-running core (types, token, data, refinement), the emulator's equivalence, the FIFO as a
   queue, the serial link, the debouncer (done).
5. Proofs of the whole board: types, the button as the core's environment, stepping, the order of the bytes (done).
6. Proofs of the echo: where each byte is on its way there and back, the flags, the order; of the encoders against
   the decoder (done).
7. Open: what holds of jumps that are stepped (a taken jump runs its target at once, so the sequential machine would
   have to take two steps for a press); a station whose clock drifts against the echo's.

## Not modelled

`test_state` and `test_bin` of the top level (read by nothing); moving the mode switch during a run; the
parser's stack of files (only one is ever opened) and path handling; source lines and white space; allocation, printing,
option parsing, `cg_postcode` and the comments of listings; encoders that nothing calls; vendored code, constraint
files and the benches.
