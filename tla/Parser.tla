------------------------------- MODULE Parser -------------------------------
(***************************************************************************)
(* The lexer and the recursive-descent parser (parser.c, tok_prec.inc.c).  *)
(*                                                                         *)
(* A text is a sequence of lexemes: [text |-> word or character], [number  *)
(* |-> n] or, one lexeme with its quotes, [literal |-> characters, closed  *)
(* |-> whether the second quote comes].  White space is left out.  A token *)
(* is named by its spelling, or "ID", "NUM", "EOF", "ERROR".               *)
(*                                                                         *)
(* Every parse function takes the parser's state p and returns [p, e]: the *)
(* state after it and the list at the pointer it returns, NULL or items.   *)
(*   in      what the lexer has not read      tok        current token     *)
(*   str, num, lit  the last identifier, number and literal lexed          *)
(*   locals, params, protos, strings, functions  the lists, heads first    *)
(*   uid     g_uid                            spins      for ever in a loop *)
(***************************************************************************)
EXTENDS Codegen
LOCAL INSTANCE SequencesExt

NULL      == <<>>
Res(p, e) == [p |-> p, e |-> e]
Fails(p)  == Res(p, NULL)

Reserved     == {"int", "fnc", "ext", "if", "for", "while", "else", "ret", "call", "PORT1",
                 "UART1", "LE", "GE", "__stdcall", "__cdecl", "__fastcall"}
Singles      == {"+", "-", "(", ")", ",", "{", "}", "=", "<", ">", "@"}
UnknownChars == {"*", "/"}
Conventions  == <<"__stdcall", "__cdecl", "__fastcall">>
LiteralMax   == 255

\* lexer_eat with lexer_next; an unknown character is never read past.
RECURSIVE lexer_eat(_)
lexer_eat(p) ==
  IF p.in = <<>> THEN [p EXCEPT !.tok = "EOF"]
  ELSE LET l    == Head(p.in)
           rest == [p EXCEPT !.in = Tail(@)]
       IN CASE "number" \in DOMAIN l  -> [rest EXCEPT !.tok = "NUM", !.num = l.number]
            [] "literal" \in DOMAIN l -> [rest EXCEPT !.tok = "quote", !.lit = l]
            [] l.text = ";"           -> lexer_eat(rest)
            [] l.text = "var"         -> [rest EXCEPT !.tok = "int"]
            [] l.text \in Reserved \cup Singles -> [rest EXCEPT !.tok = l.text]
            [] l.text \in UnknownChars -> [p EXCEPT !.tok = "ERROR"]
            [] OTHER                  -> [rest EXCEPT !.tok = "ID", !.str = l.text]

lexer_init(text) ==
  lexer_eat([in |-> text, tok |-> "EOF", str |-> NULL, num |-> 0, lit |-> NULL, locals |-> <<>>,
             params |-> <<>>, protos |-> <<>>, strings |-> <<>>, functions |-> <<>>, uid |-> 0,
             spins |-> FALSE])

\* lexer_match_opt, and lexer_match_next as its callers use it: none looks at
\* the answer, so a token that does not match is only reported.
Match(p, t)    == IF p.tok = t THEN lexer_eat(p) ELSE p
Matches(p, ts) == FoldLeft(Match, p, ts)

get_tok_prec(tok) ==
  CASE tok \in {"LE", "<", ">"} -> 80
    [] tok \in {"+", "-"}       -> 60
    [] OTHER                    -> -1

RECURSIVE parse_expr(_), parse_primary(_)

\* The result r, if it is one, as the child of a new node e.
Node(r, e) == IF r.e = NULL THEN r ELSE Res(r.p, e)
-----------------------------------------------------------------------------
(* Prototypes and scope. *)
RECURSIVE proto_args(_, _)
proto_args(p, args) ==
  IF p.tok \notin {"ID", "int"} THEN [p |-> Match(p, ")"), args |-> args]
  ELSE LET name == Match(p, "int")            \* whatever comes next is eaten as one
       IN proto_args(Match(lexer_eat(name), ","), Append(args, name.str))

\* proto_already_exists answers NULL when it finds a duplicate; when it finds
\* nothing it returns no value, and the builds answer NULL then as well.
parse_proto(p) ==
  LET name == Matches(p, Conventions \o <<"fnc">>)
      r    == proto_args(Matches(name, <<"ID", "(", "int">>), <<>>)
  IN [r.p EXCEPT !.params = r.args,
                 !.protos = <<[name |-> name.str, argc |-> Len(r.args)]>> \o @]

get_var(p, ident) == \E i \in DOMAIN (p.params \o p.locals) : (p.params \o p.locals)[i] = ident

\* The first prototype of that name decides.
check_call(p, ident, argc) ==
  LET named == SelectSeq(p.protos, LAMBDA q : q.name = ident)
  IN named # <<>> /\ named[1].argc = argc

RECURSIVE call_args(_, _)
call_args(p, args) ==
  LET a == parse_expr(p)
      more == Append(args, a.e)
  IN CASE a.e = NULL    -> [p |-> a.p, args |-> NULL, argc |-> Len(args)]
       [] a.p.tok = ")" -> [p |-> a.p, args |-> more, argc |-> Len(more)]
       [] OTHER         -> call_args(Match(a.p, ","), more)

Arguments(open) ==
  IF open.tok = ")" THEN [p |-> open, args |-> <<NULL>>, argc |-> 0] ELSE call_args(open, <<>>)

CheckedCall(ident, a) ==
  LET end == Match(a.p, ")")
  IN IF check_call(end, ident, a.argc) THEN Res(end, CallOf(ident, a.args, a.argc)) ELSE Fails(end)

parse_call(p, ident) == CheckedCall(ident, Arguments(Match(p, "(")))

parse_assignment(p, ident) ==
  LET val == parse_expr(Match(p, "="))
  IN IF get_var(p, ident) THEN Node(val, Assign(ident, val.e)) ELSE Fails(Match(p, "="))

parse_ident(p) ==
  LET next == Match(p, "ID")
  IN CASE next.tok = "("       -> parse_call(next, p.str)
       [] next.tok = "="       -> parse_assignment(next, p.str)
       [] get_var(next, p.str) -> Res(next, Var(p.str))
       [] OTHER                -> Fails(next)

\* A name that is declared already is a reference, also when its assignment
\* has failed.
parse_var(p) ==
  LET name  == Match(p, "int")
      ident == name.str
      new   == ~get_var(name, ident)
      next  == [Match(name, "ID") EXCEPT !.locals = IF new THEN <<ident>> \o @ ELSE @]
      a     == parse_assignment(next, ident)
      first == IF new THEN Local(ident) ELSE Var(ident)
  IN CASE next.tok # "=" -> Res(next, first)
       [] new            -> Node(a, first \o a.e)
       [] OTHER          -> IF a.e = NULL THEN Res(a.p, first) ELSE a
-----------------------------------------------------------------------------
(* Expressions. *)
parse_paren(p) ==
  LET r == parse_expr(lexer_eat(p))
  IN IF r.p.tok = ")" THEN Res(lexer_eat(r.p), r.e) ELSE Fails(r.p)

\* parse_ascii fills a buffer up to the second quote: without one, or when the
\* buffer is full before it, its loop reads and stores nothing for ever.
parse_cstring(p) ==
  IF ~p.lit.closed \/ Len(p.lit.literal) > LiteralMax
  THEN Fails([p EXCEPT !.in = <<>>, !.tok = "EOF", !.spins = TRUE])
  ELSE LET id == p.uid + 1
       IN Res([lexer_eat(p) EXCEPT !.uid = id,
                 !.strings = <<[string_id |-> id, chars |-> p.lit.literal]>> \o @],
              CString(id))

\* The operand is the whole expression that follows.
parse_deref(p) == LET r == parse_expr(Match(p, "@")) IN Node(r, Deref(r.e))

parse_primary(p) ==
  CASE p.tok = "int"   -> parse_var(p)
    [] p.tok = "ID"    -> parse_ident(p)
    [] p.tok = "NUM"   -> Res(lexer_eat(p), Num(p.num))
    [] p.tok = "("     -> parse_paren(p)
    [] p.tok = "quote" -> parse_cstring(p)
    [] p.tok = "@"     -> parse_deref(p)
    [] OTHER           -> Fails(p)

RECURSIVE parse_bin_rhs(_, _, _)

\* rhs with the operators behind it that bind tighter than prec.
Tighter(rhs, prec) ==
  IF rhs.e # NULL /\ prec < get_tok_prec(rhs.p.tok)
  THEN parse_bin_rhs(prec + 1, rhs.p, rhs.e) ELSE rhs

Joined(min_prec, op, lhs, rhs) ==
  IF rhs.e = NULL THEN rhs ELSE parse_bin_rhs(min_prec, rhs.p, Bin(op, lhs, rhs.e))

parse_bin_rhs(min_prec, p, lhs) ==
  LET prec == get_tok_prec(p.tok)
  IN IF prec < min_prec THEN Res(p, lhs)
     ELSE Joined(min_prec, p.tok, lhs, Tighter(parse_primary(lexer_eat(p)), prec))
-----------------------------------------------------------------------------
(* Statements.  A header's or a body's NULL is passed on unless the code   *)
(* looks at it, which parse_while_expr does for its condition alone.       *)
RECURSIVE block_items(_, _)
AfterItem(r, list) ==
  IF r.e = NULL THEN [p |-> r.p, e |-> NULL, ended |-> FALSE] ELSE block_items(r.p, list \o r.e)

block_items(p, list) ==
  IF p.tok = "}" THEN [p |-> p, e |-> list, ended |-> TRUE] ELSE AfterItem(parse_expr(p), list)

EndBlock(braced, b) == Res(IF braced /\ b.ended THEN Match(b.p, "}") ELSE b.p, b.e)
parse_block(p)      == EndBlock(p.tok = "{", block_items(Match(p, "{"), <<>>))

\* for and else eat the braces themselves.
BracedBlock(p) == LET b == parse_block(Match(p, "{")) IN Res(Match(b.p, "}"), b.e)

parse_if_expr(p) ==
  LET cond == parse_expr(Matches(p, <<"if", "(">>))
      then == parse_block(Match(cond.p, ")"))
      els  == IF then.p.tok = "else" THEN BracedBlock(lexer_eat(then.p)) ELSE Fails(then.p)
  IN Res(els.p, If(cond.e, then.e, els.e))

parse_for_expr(p) ==
  LET start == parse_expr(Matches(p, <<"for", "(">>))
      cond  == parse_expr(start.p)
      step  == parse_expr(cond.p)
      body  == BracedBlock(Match(step.p, ")"))
  IN Res(body.p, For(start.e, cond.e, step.e, body.e))

parse_port_uart1(p) ==
  LET val == parse_expr(Matches(p, <<"UART1", "(">>)) IN Res(Match(val.p, ")"), Uart1(val.e))

parse_while_expr(p) ==
  LET cond == parse_expr(Matches(p, <<"while", "(">>))
      body == parse_block(Match(cond.p, ")"))
  IN IF cond.e = NULL THEN cond ELSE Res(body.p, While(cond.e, body.e))

AfterLhs(lhs) == IF lhs.e = NULL THEN lhs ELSE parse_bin_rhs(0, lhs.p, lhs.e)

parse_expr(p) ==
  CASE p.tok = "if"    -> parse_if_expr(p)
    [] p.tok = "for"   -> parse_for_expr(p)
    [] p.tok = "while" -> parse_while_expr(p)
    [] p.tok = "UART1" -> parse_port_uart1(p)
    [] OTHER           -> AfterLhs(parse_primary(p))

NewFunction(p, body) ==
  [name |-> p.protos[1].name, params |-> p.params, locals |-> p.locals, body |-> body]

\* Mutant: a function inherits the locals of the one before.
FncKeepsLocals(b) ==
  LET f == NewFunction(b.p, b.e)
  IN IF b.e = NULL THEN b
     ELSE Res([b.p EXCEPT !.functions = <<f>> \o @, !.params = <<>>], <<f>>)

EndFunction(b) ==
  LET f == NewFunction(b.p, b.e)
  IN IF b.e = NULL THEN b
     ELSE Res([b.p EXCEPT !.functions = <<f>> \o @, !.locals = <<>>, !.params = <<>>], <<f>>)

parse_fnc(p) == EndFunction(parse_block(parse_proto(p)))
=============================================================================
