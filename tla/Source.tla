------------------------------- MODULE Source -------------------------------
(***************************************************************************)
(* The source language without its compiler: how a module is written down  *)
(* and what it means.  Both are references that the tool chain is compared *)
(* with; neither follows the code's algorithms.                            *)
(***************************************************************************)
EXTENDS Codegen
LOCAL INSTANCE SequencesExt

(* Comparisons bind tighter than sums; operators of one level associate to *)
(* the left; whatever takes a whole expression goes into parentheses when  *)
(* it is an operand.  Parentheses are written only where these rules need  *)
(* them, and a declaration with its first assignment as one statement.     *)
OpLevel(o)  == IF o \in {"+", "-"} THEN 1 ELSE 2
Level(e) ==
  CASE e.type = "AST_BIN" -> OpLevel(e.op)
    [] e.type \in {"AST_NUM", "AST_VAR_REF", "AST_CALL", "AST_CSTRING"} -> 3
    [] OTHER -> 0

Lex(words) == [i \in DOMAIN words |-> [text |-> words[i]]]

RECURSIVE ItemText(_, _)
Operand(m, e, level) ==
  IF Level(e[1]) < level THEN Lex(<<"(">>) \o ItemText(m, e[1]) \o Lex(<<")">>)
  ELSE ItemText(m, e[1])

StartsWith(b, i) ==     \* item i declares the variable that the next item sets
  /\ i < Len(b) /\ b[i].type = "AST_LOCAL_VAR" /\ b[i + 1].type = "AST_ASSIGNMENT"
  /\ b[i].var = b[i + 1].var

BlockText(m, b) ==
  Lex(<<"{">>)
  \o FlattenSeq([i \in DOMAIN b |-> IF StartsWith(b, i) THEN Lex(<<"int">>)
                                    ELSE ItemText(m, b[i]) \o Lex(<<";">>)])
  \o Lex(<<"}">>)

Header(m, word, parts, between) ==
  Lex(<<word, "(">>)
  \o FlattenSeq([k \in DOMAIN parts |->
       (IF k = 1 THEN <<>> ELSE Lex(<<between>>)) \o Operand(m, parts[k], 0)])
  \o Lex(<<")">>)

Literal(m, id) == m.strings[CHOOSE k \in DOMAIN m.strings : m.strings[k].string_id = id].chars

ItemText(m, e) ==
  CASE e.type = "AST_NUM" -> <<[number |-> e.num]>>
    [] e.type = "AST_BIN" ->
         Operand(m, e.lhs, OpLevel(e.op)) \o Lex(<<e.op>>) \o Operand(m, e.rhs, OpLevel(e.op) + 1)
    [] e.type = "AST_CALL" -> Header(m, e.callee, SubSeq(e.args, 1, e.argc), ",")
    [] e.type = "AST_IF" ->
         Header(m, "if", <<e.cond>>, "") \o BlockText(m, e.then)
         \o (IF e.els = <<>> THEN <<>> ELSE Lex(<<"else">>) \o BlockText(m, e.els))
    [] e.type = "AST_FOR" ->
         Header(m, "for", <<e.start, e.cond, e.step>>, ";") \o BlockText(m, e.body)
    [] e.type = "AST_WHILE" -> Header(m, "while", <<e.cond>>, "") \o BlockText(m, e.body)
    [] e.type = "AST_LOCAL_VAR" -> Lex(<<"int", e.var>>)
    [] e.type = "AST_VAR_REF" -> Lex(<<e.var>>)
    [] e.type = "AST_ASSIGNMENT" -> Lex(<<e.var, "=">>) \o Operand(m, e.val, 0)
    [] e.type = "AST_UART" -> Header(m, "UART1", <<e.val>>, "")
    [] e.type = "AST_CSTRING" -> <<[literal |-> Literal(m, e.string_id), closed |-> TRUE]>>
    [] e.type = "AST_DEREF" -> Lex(<<"@">>) \o Operand(m, e.item, 0)

FunctionText(m, f) ==
  (IF f.params = <<>> THEN Lex(<<"__stdcall", "fnc">>) ELSE Lex(<<"fnc">>))
  \o Lex(<<f.name, "(">>)
  \o FlattenSeq([k \in DOMAIN f.params |->
       Lex(IF k = 1 THEN <<"int", f.params[k]>> ELSE <<",", f.params[k]>>)])
  \o Lex(<<")">>) \o BlockText(m, f.body)

\* A module lists its functions newest first.
Text(m) == FlattenSeq(Reverse([k \in DOMAIN m.functions |-> FunctionText(m, m.functions[k])]))
-----------------------------------------------------------------------------
(* What a source module means.  An item evaluated in state s gives the     *)
(* state after it: env the variables of the function, val the value of the *)
(* last item evaluated, out the bytes written.  A string's value is its    *)
(* address; the k-th character of string i is at StringBase * i + k.       *)
StringBase == 1000

FunctionNamed(m, name) ==
  m.functions[CHOOSE k \in DOMAIN m.functions : m.functions[k].name = name]

CharAt(m, address) ==
  LET k == CHOOSE j \in DOMAIN m.strings : m.strings[j].string_id = address \div StringBase
      i == (address % StringBase) + 1
  IN IF i > Len(m.strings[k].chars) THEN 0 ELSE m.strings[k].chars[i]

Applied(o, l, r) ==
  CASE o = "+" -> Wrap(l + r)
    [] o = "-" -> Wrap(l - r)
    [] o = "LE" -> IF l <= r THEN 1 ELSE 0
    [] o = "<" -> IF l < r THEN 1 ELSE 0
    [] o = ">" -> IF l > r THEN 1 ELSE 0

RECURSIVE Does(_, _, _), Passes(_, _, _, _), Repeats(_, _, _, _)

\* Arguments are evaluated from the left and handed over by value.
Passes(m, args, values, s) ==
  IF Len(values) = Len(args) THEN [values |-> values, s |-> s]
  ELSE LET next == Does(m, args[Len(values) + 1], s)
       IN Passes(m, args, Append(values, next.val), next)

Calls(m, c, s) ==
  LET f    == FunctionNamed(m, c.callee)
      args == Passes(m, SubSeq(c.args, 1, c.argc), <<>>, s)
      end  == Does(m, f.body, [args.s EXCEPT !.env =
                 [x \in {f.params[i] : i \in DOMAIN f.params} \cup
                        {f.locals[i] : i \in DOMAIN f.locals} |->
                    IF \E i \in DOMAIN f.params : f.params[i] = x
                    THEN args.values[Index(f.params, x)] ELSE 0]])
  IN [end EXCEPT !.env = s.env]

Repeats(m, cond, body, s) ==
  LET c == Does(m, cond, s)
  IN IF c.val = 0 THEN c ELSE Repeats(m, cond, body, Does(m, body, c))

DoesItem(m, e, s) ==
  CASE e.type = "AST_NUM" -> [s EXCEPT !.val = e.num]
    [] e.type = "AST_BIN" ->
         LET l == Does(m, e.lhs, s)
             r == Does(m, e.rhs, l)
         IN [r EXCEPT !.val = Applied(e.op, l.val, r.val)]
    [] e.type = "AST_CALL" -> Calls(m, e, s)
    [] e.type = "AST_IF" ->
         LET c == Does(m, e.cond, s)
         IN Does(m, IF c.val # 0 THEN e.then ELSE e.els, c)
    [] e.type = "AST_FOR" -> Repeats(m, e.cond, e.body \o e.step, Does(m, e.start, s))
    [] e.type = "AST_WHILE" -> Repeats(m, e.cond, e.body, s)
    [] e.type = "AST_LOCAL_VAR" -> s
    [] e.type = "AST_VAR_REF" -> [s EXCEPT !.val = s.env[e.var]]
    [] e.type = "AST_ASSIGNMENT" ->
         LET v == Does(m, e.val, s) IN [v EXCEPT !.env[e.var] = v.val]
    [] e.type = "AST_UART" ->
         LET v == Does(m, e.val, s) IN [v EXCEPT !.out = Append(v.out, v.val % 256)]
    [] e.type = "AST_CSTRING" -> [s EXCEPT !.val = StringBase * e.string_id]
    [] e.type = "AST_DEREF" ->
         LET a == Does(m, e.item, s) IN [a EXCEPT !.val = CharAt(m, a.val)]

Does(m, block, s) ==
  IF block = <<>> THEN s ELSE Does(m, Tail(block), DoesItem(m, Head(block), s))

Meaning(m) == Calls(m, [callee |-> "main", args |-> <<>>, argc |-> 0],
                    [env |-> <<>>, val |-> 0, out |-> <<>>])
=============================================================================
