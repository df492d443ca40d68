---------------------------- MODULE MCToolchain -----------------------------
(* Source modules for the tool chain: families of expressions and of       *)
(* statement lists, and whole modules like those of test/tests.            *)
EXTENDS Toolchain
LOCAL INSTANCE SequencesExt

Call(f, args) == CallOf(f, IF args = <<>> THEN <<NULL>> ELSE args, Len(args))

Function(name, params, locals, body) ==
  [name |-> name, params |-> params, locals |-> locals, body |-> body]
\* Functions and locals are listed newest first, as the parser leaves them.
Module(functions)           == [strings |-> <<>>, functions |-> functions]
WithStrings(m, strings)     == [m EXCEPT !.strings = strings]
Main(locals, body)          == Function("main", <<>>, locals, body)
MainOnly(body)              == Module(<<Main(<<>>, body)>>)

\* Expressions: a constant, the operators the lexer knows and the core runs,
\* and their nesting on either side.
Leaves      == {Num(0), Num(3), Num(60)}
Ops         == {"+", "<", ">"}
Exprs1      == {Bin(o, l, r) : o \in Ops, l \in Leaves, r \in Leaves}
Exprs2      == {Bin(o, l, r) : o \in Ops, l \in Exprs1, r \in Leaves}
          \cup {Bin(o, l, r) : o \in Ops, l \in {Num(3)}, r \in Exprs1}
Expressions == {MainOnly(e) : e \in Exprs2}

\* Statement lists over one variable: anything after anything.
Statements ==
  {Num(7), Var("a"), Assign("a", Bin("+", Var("a"), Num(1))), Uart1(Var("a")),
   Assign("a", Bin("+", Num(2), Num(3))),
   If(Bin("<", Var("a"), Num(2)), Uart1(Num(65)) \o Num(1), NULL),
   If(Var("a"), Assign("a", Num(0)), Uart1(Num(66))),
   While(Bin("<", Var("a"), Num(3)), Assign("a", Bin("+", Var("a"), Num(2))))}
Lists == {Module(<<Main(<<"a">>, Local("a") \o Assign("a", Num(v)) \o s \o t)>>) :
            v \in {0, 1}, s \in Statements, t \in Statements}

\* An if that folding resolves, before a statement and after one it leaves be.
FoldedIfs == {If(Num(1), Num(3) \o Uart1(Num(4)), NULL), If(Num(0), Num(3), NULL),
              If(Num(0), Num(3), Num(4) \o Uart1(Num(5))),
              If(Bin(">", Num(2), Num(1)), Num(3), Num(4))}
Folded == {MainOnly(Uart1(Num(65)) \o i \o s) : i \in FoldedIfs,
             s \in {Uart1(Num(66)), Bin("+", Num(1), Bin("+", Num(2), Num(3)))}}

\* One function calling another with the other's results.
Add  == Function("add", <<"x", "y">>, <<>>, Bin("+", Var("x"), Var("y")))
Less == Function("less", <<"x", "y">>, <<"t">>,
          Local("t") \o Assign("t", Bin("<", Var("x"), Var("y"))) \o Uart1(Var("t")) \o Var("t"))
Nested == Module(<<Main(<<>>, Bin("+", Num(1), Call("add",
            <<Call("less", <<Num(3), Num(4)>>), Call("add", <<Num(5), Num(6)>>)>>))), Less, Add>>)

\* A call without arguments, as a statement of its own.
Greet    == Function("greet", <<>>, <<>>, Uart1(Num(71)))
Greeting == Module(<<Main(<<>>, Call("greet", <<>>) \o Num(9)), Greet>>)

\* Recursion: the sum 1 + .. + n, counted up to the bound.
Sum == Function("sum", <<"i", "n">>, <<>>,
  If(Bin("<", Var("n"), Var("i")), Num(0),
     Bin("+", Var("i"), Call("sum", <<Bin("+", Var("i"), Num(1)), Var("n")>>))))
Recursive == {Module(<<Main(<<>>, Call("sum", <<Num(1), Num(n)>>)), Sum>>) : n \in 0 .. 3}

\* The multiplication of test/tests/mul_*.prco: a loop in a loop in a function.
Mul == Function("mul", <<"a", "b">>, <<"r", "i">>,
  Local("i") \o Local("r") \o Assign("i", Num(0)) \o Assign("r", Num(0))
  \o For(Assign("i", Num(0)), Bin("<", Var("i"), Var("a")),
         Assign("i", Bin("+", Var("i"), Num(1))), Assign("r", Bin("+", Var("r"), Var("b"))))
  \o Var("r"))
Multiply == {Module(<<Main(<<>>, Uart1(Call("mul", <<Num(a), Num(b)>>))), Mul>>) :
               a \in {0, 3}, b \in {5}}

\* Strings: printed by a loop through a function's pointer parameter.
Puts == Function("puts", <<"s">>, <<"c">>,
  Local("c") \o Assign("c", Deref(Var("s")))
  \o While(Var("c"), Uart1(Var("c")) \o Assign("s", Bin("+", Var("s"), Num(1)))
                     \o Assign("c", Deref(Var("s")))))
Strings == WithStrings(
  Module(<<Main(<<>>, Call("puts", <<CString(1)>>) \o Call("puts", <<CString(2)>>)), Puts>>),
  <<[string_id |-> 2, chars |-> <<33>>], [string_id |-> 1, chars |-> <<72, 105>>]>>)

Modules == Expressions \cup Lists \cup Folded \cup {Nested, Greeting, Strings} \cup Recursive \cup Multiply

Written(m, O)  == [text |-> Text(m), options |-> [O |-> O, d |-> TRUE], means |-> <<m>>]
OnlyParsed(m)  == [Written(m, 0) EXCEPT !.options.d = FALSE]
Rejected(text) == [text |-> text, options |-> [O |-> 0, d |-> TRUE], means |-> <<>>]

\* What is only parsed: every operator between operands of every kind, nested
\* on either side, and every statement in every other.
Operands == {Num(1), Var("a"), Assign("a", Num(2)), Call("less", <<Num(4), Var("a")>>), Deref(Var("a"))}
AllOps   == {"+", "-", "LE", "<", ">"}
Bins     == {Bin(o, l, r) : o \in AllOps, l \in Operands, r \in Operands}
Nestings == {Bin(o, l, r) : o \in AllOps, l \in Bins, r \in {Var("a"), Assign("a", Num(2))}}
       \cup {Bin(o, l, r) : o \in AllOps, l \in {Num(1), Deref(Var("a"))}, r \in Bins}
       \cup {Bin(o, l, Bin(q, Num(1), Var("a"))) : o \in AllOps, q \in AllOps,
               l \in {Bin(s, Num(2), Num(3)) : s \in AllOps}}
Within(b) == {While(Var("a"), b), Uart1(b), Deref(b), If(Num(1), b, NULL), If(b, Num(1), b \o Num(2)),
              For(Assign("a", Num(1)), Var("a"), b, b \o b)}
Nested2   == UNION {Within(b) : b \in UNION {Within(c) : c \in {Num(1), Var("a")}}}
InMain(e) == Module(<<Main(<<"a">>, Local("a") \o e \o Num(9)), Less>>)
Parsings  == {OnlyParsed(InMain(e)) : e \in Nestings \cup Nested2}

\* Modules that break a rule of scope, in a statement, a condition, an operand
\* or an argument: the name is declared nowhere, later, or in the function
\* before; the function is unknown or has another number of parameters.
Unscoped ==
  {Var("t"), Assign("t", Num(1)), While(Var("t"), Num(1)), Bin("+", Num(1), Var("t")),
   Call("less", <<Num(1), Var("t")>>), Call("less", <<Num(1)>>), Call("more", <<Num(1), Num(2)>>),
   If(Num(1), Var("t"), NULL), Deref(Var("t"))}
Refused ==
  {Rejected(Text(Module(<<Main(<<>>, Num(1) \o s \o Num(2)), Less>>))) : s \in Unscoped}
  \cup {Rejected(Text(MainOnly(NULL))), Rejected(Text(Module(<<Less>>))),
        Rejected(Text(MainOnly(Var("b") \o Local("b")))), Rejected(Lex(<<"main", "(", ")">>)),
        Rejected(Lex(<<"fnc", "main", "(", ")", "{", "main", "*", "main", "}">>)),
        Rejected(Lex(<<"fnc", "main", "(", ")", "{">>) \o <<[literal |-> <<72>>, closed |-> FALSE]>>)}

\* An if that folding removes, with nothing behind it: at -O1 a body is missing.
Hollow == {MainOnly(If(Num(0), Uart1(Num(65)), NULL)),
           Module(<<Main(<<>>, Call("greet", <<>>) \o Num(9)),
                    [Greet EXCEPT !.body = If(Bin("<", Num(2), Num(1)), @, NULL)]>>)}

CompiledSources ==
  {Written(m, O) : m \in Modules \cup Hollow, O \in {0, 1}} \cup Refused \cup Parsings

\* Two statements that folding removes, one behind the other, before a third.
FoldTwice == {MainOnly(a \o b \o c) :
                a \in {Num(1), Bin("+", Num(1), Num(2)), If(Num(1), Num(3), NULL)},
                b \in {Num(2), If(Num(1), Num(3), NULL)},
                c \in {Uart1(Num(65)), Num(7)}}
FoldedSources == {Written(m, O) : m \in FoldTwice, O \in {0, 1}}

\* An expression that is none, in the headers and bodies whose code does not look.
Headless ==
  {If(Var("t"), Uart1(Num(65)), NULL), Uart1(Var("t")), If(Num(0), Num(1), Var("t")),
   For(Var("t"), Num(0), Num(1), Num(2)), For(Num(0), Num(0), Num(1), Var("t"))}
HeaderSources == {Rejected(Text(MainOnly(Uart1(Num(66)) \o s \o Num(1)))) : s \in Headless}
=============================================================================
