------------------------------ MODULE Codegen -------------------------------
(***************************************************************************)
(* The compiler behind its parser: constant folding (opt.c), the code      *)
(* templates, the assembler and the file it writes (template_impl.c), with *)
(* the instructions of prco_isa.c; their words are made by Encoders.       *)
(*                                                                         *)
(* A module is [strings, functions]; a function is [name, params, locals,  *)
(* body], locals newest first as append_ll_item_head leaves them; a list   *)
(* of ast_items linked by next is a sequence, and so is each child (NULL   *)
(* is <<>>); a call's args is a sequence of such lists.  An asm_list entry *)
(* carries the flag the assembler reads, id and ast; the flags VAR and     *)
(* DECL, which the code does not have, mark the entries that read and that *)
(* set a variable's bp_offset.                                             *)
(***************************************************************************)
EXTENDS Encoders, Sequences
LOCAL INSTANCE SequencesExt

(* What ast_expr_create makes of each kind of node: a list of one item.    *)
Num(n)            == <<[type |-> "AST_NUM", num |-> n]>>
Bin(o, l, r)      == <<[type |-> "AST_BIN", op |-> o, lhs |-> l, rhs |-> r]>>
CallOf(f, args, argc) ==
  <<[type |-> "AST_CALL", callee |-> f, args |-> args, argc |-> argc]>>
If(c, t, e)       == <<[type |-> "AST_IF", cond |-> c, then |-> t, els |-> e]>>
For(s, c, i, b)   == <<[type |-> "AST_FOR", start |-> s, cond |-> c, step |-> i, body |-> b]>>
While(c, b)       == <<[type |-> "AST_WHILE", cond |-> c, body |-> b]>>
Local(x)          == <<[type |-> "AST_LOCAL_VAR", var |-> x]>>
Var(x)            == <<[type |-> "AST_VAR_REF", var |-> x]>>
Assign(x, v)      == <<[type |-> "AST_ASSIGNMENT", var |-> x, val |-> v]>>
Uart1(v)          == <<[type |-> "AST_UART", val |-> v]>>
Deref(e)          == <<[type |-> "AST_DEREF", item |-> e]>>
CString(i)        == <<[type |-> "AST_CSTRING", string_id |-> i]>>

Ax == 0
Bx == 1
Cx == 2
Bp == REG_BP
Sp == REG_SP
-----------------------------------------------------------------------------
(* Constant folding.  opt_cf(node) answers ret, the list at the pointer it *)
(* returns, and node, the list at the pointer it was given, whose items it *)
(* has changed in place: what else still points there sees the latter.     *)
IsNum(e) == e[1].type = "AST_NUM"

FoldBin(o, l, r) ==
  CASE o = "+" -> l + r
    [] o = "-" -> l - r
    [] o = "LE" -> IF l <= r THEN 1 ELSE 0
    [] o = "<" -> IF l < r THEN 1 ELSE 0
    [] o = ">" -> IF l > r THEN 1 ELSE 0

RECURSIVE opt_cf(_)
SelfCf(e) == opt_cf(e).ret

FoldChildren(h) ==
  CASE h.type = "AST_ASSIGNMENT" -> [h EXCEPT !.val = SelfCf(@)]
    [] h.type = "AST_IF"         -> [h EXCEPT !.cond = SelfCf(@)]
    [] h.type = "AST_BIN"        -> [h EXCEPT !.lhs = SelfCf(@), !.rhs = SelfCf(@)]
    [] OTHER                     -> h

\* The body an if with a constant condition is replaced by, linked on to next.
Taken(h) == IF h.cond[1].num # 0 THEN "then" ELSE "els"

opt_cf(e) ==
  LET h    == FoldChildren(Head(e))
      next == IF Len(e) > 1 THEN opt_cf(Tail(e)) ELSE [ret |-> <<>>, node |-> <<>>]
      kept == <<h>> \o next.ret
      body == h[Taken(h)] \o next.node
  IN CASE h.type = "AST_IF" /\ IsNum(h.cond) ->
            [ret |-> body,
             node |-> IF h[Taken(h)] = <<>> THEN kept
                      ELSE <<[h EXCEPT ![Taken(h)] = body]>> \o next.ret]
       [] h.type = "AST_BIN" /\ IsNum(h.lhs) /\ IsNum(h.rhs) ->
            [ret |-> Num(FoldBin(h.op, h.lhs[1].num, h.rhs[1].num)) \o next.node,
             node |-> kept]
       [] OTHER -> [ret |-> kept, node |-> kept]
-----------------------------------------------------------------------------
(* The instructions and the entries of asm_list. *)
Tagged(word, flag, id) == [opcode |-> word, flag |-> flag, id |-> id]
Asm(word)              == Tagged(word, "none", 0)

mov_ri(rd, imm8)  == Asm(opcode_ri(OP_MOVI, rd, imm8))
mov_rr(rd, ra)    == Asm(opcode_rr(OP_MOV, rd, ra, 0))
add_rr(rd, ra)    == Asm(opcode_rr(OP_ADD, rd, ra, 0))
sub_rr(rd, ra)    == Asm(opcode_rr(OP_SUB, rd, ra, 0))
add_ri(rd, imm8)  == Asm(opcode_ri(OP_ADDI, rd, imm8))
cmp_rr(rd, ra)    == Asm(opcode_rr(OP_CMP, rd, ra, 0))
set_ri(rd, cond)  == Asm(opcode_ri(OP_SET, rd, cond))
lw(rd, ra)        == Asm(opcode_rr(OP_LW, rd, ra, 0))
sw(rd, ra)        == Asm(opcode_rr(OP_SW, rd, ra, 0))
jmp_rc(rd, cond)  == Asm(opcode_ri(OP_JMP, rd, cond))
write(rd, port)   == Asm(opcode_ri(OP_WRITE, rd, port))
halt              == Asm(opcode_rr(OP_HALT, 0, 0, 0))

\* A MOVI the assembler fills in, and the NOP a jump goes to.
To(rd, flag, id)  == Tagged(opcode_ri(OP_MOVI, rd, 0), flag, id)
JmpTo(rd, cond, id) == <<To(rd, "ASM_JMP_JMP", id), jmp_rc(rd, cond)>>
JmpDest(id)       == <<Tagged(0, "ASM_JMP_DEST", id)>>

cg_push_prco(rd)  == <<add_ri(Sp, -1), sw(rd, Sp)>>
cg_pop_prco(rd)   == <<lw(rd, Sp), add_ri(Sp, 1)>>
-----------------------------------------------------------------------------
(* The templates.  at is the item's place in the tree: it makes the ids    *)
(* that NEW_ASM_ID gives unique.                                           *)
RECURSIVE cg_expr_template(_, _)
Child(e, at, k) == cg_expr_template(e, Append(at, k))

cg_number_template(n) == <<mov_ri(Ax, n.num)>>      \* more than 8 bits are cut off

\* Mutant: less or equal for less.
BinLessOrEqual(b, at) ==
  Child(b.lhs, at, 1) \o cg_push_prco(Ax) \o Child(b.rhs, at, 2) \o cg_pop_prco(Cx) \o
  CASE b.op = "+" -> <<add_rr(Ax, Cx)>>
    [] b.op = "<" -> <<cmp_rr(Cx, Ax), set_ri(Ax, JMP_JLE)>>
    [] b.op = ">" -> <<cmp_rr(Cx, Ax), set_ri(Ax, JMP_JG)>>

\* The five operators that lexer and precedences let through.
cg_bin_template(b, at) ==
  Child(b.lhs, at, 1) \o cg_push_prco(Ax) \o Child(b.rhs, at, 2) \o cg_pop_prco(Cx) \o
  CASE b.op = "+" -> <<add_rr(Ax, Cx)>>
    [] b.op = "-" -> <<sub_rr(Ax, Cx)>>                 \* right minus left
    [] b.op = "LE" -> <<cmp_rr(Cx, Ax), set_ri(Ax, JMP_JLE)>>
    [] b.op = "<" -> <<cmp_rr(Cx, Ax), set_ri(Ax, JMP_JL)>>
    [] b.op = ">" -> <<cmp_rr(Cx, Ax), set_ri(Ax, JMP_JG)>>

\* Mutant: the arguments stay on the stack.
CallKeepsArgs(c, at) ==
  FlattenSeq([k \in DOMAIN c.args |-> Child(c.args[k], at, k) \o cg_push_prco(Ax)])
  \o <<To(Cx, "ASM_CALL_NEXT", 0)>> \o cg_push_prco(Cx)
  \o <<To(Cx, "ASM_FUNC_CALL", c.callee), jmp_rc(Cx, JMP_J)>>

\* Without arguments args is one node without an item: Ax is pushed once.
cg_call_template(c, at) ==
  FlattenSeq([k \in DOMAIN c.args |-> Child(c.args[k], at, k) \o cg_push_prco(Ax)])
  \o <<To(Cx, "ASM_CALL_NEXT", 0)>> \o cg_push_prco(Cx)
  \o <<To(Cx, "ASM_FUNC_CALL", c.callee), jmp_rc(Cx, JMP_J), add_ri(Sp, c.argc)>>

cg_if_template(v, at) ==
  LET jmp_else  == Append(at, 4)
      jmp_after == Append(at, 5)
      jmp_false == IF v.els = <<>> THEN jmp_after ELSE jmp_else
  IN Child(v.cond, at, 1) \o <<mov_ri(Cx, 0), cmp_rr(Ax, Cx)>> \o JmpTo(Bx, JMP_JE, jmp_false)
     \o Child(v.then, at, 2)
     \o (IF v.els = <<>> THEN <<>>
         ELSE JmpTo(Bx, JMP_J, jmp_after) \o JmpDest(jmp_else) \o Child(v.els, at, 3))
     \o JmpDest(jmp_after)

\* Mutant: the jump out of the loop has the id of the jump back.
LoopExitsToCond(cond, body, at) ==
  JmpDest(Append(at, 5)) \o cond \o <<mov_ri(Bx, 0), cmp_rr(Ax, Bx)>>
  \o JmpTo(Bx, JMP_JE, Append(at, 5)) \o body
  \o JmpTo(Bx, JMP_J, Append(at, 5)) \o JmpDest(Append(at, 6))

Loop(cond, body, at) ==
  JmpDest(Append(at, 5)) \o cond \o <<mov_ri(Bx, 0), cmp_rr(Ax, Bx)>>
  \o JmpTo(Bx, JMP_JE, Append(at, 6)) \o body
  \o JmpTo(Bx, JMP_J, Append(at, 5)) \o JmpDest(Append(at, 6))

cg_for_template(a, at) ==
  Child(a.start, at, 1) \o
  Loop(Child(a.cond, at, 2), Child(a.body, at, 3) \o Child(a.step, at, 4), at)
cg_while_template(v, at) == Loop(Child(v.cond, at, 1), Child(v.body, at, 2), at)

WithBpOffset(op, x)       == <<Tagged(op.opcode, "VAR", x)>>
\* Mutant: the value's register for the base.
AssignThroughAx(a, at) == Child(a.val, at, 1) \o WithBpOffset(sw(Ax, Ax), a.var)
cg_assignment_template(a, at) == Child(a.val, at, 1) \o WithBpOffset(sw(Ax, Bp), a.var)
cg_var_ref_template(v)    == WithBpOffset(lw(Ax, Bp), v.var)
cg_local_decl_template(v) == <<Tagged(opcode_ri(OP_SUBI, Sp, 1), "DECL", v.var)>>

cg_port_uart_template(v, at) == Append(Child(v.val, at, 1), write(Ax, 0))
cg_cstring_ref(v)            == <<To(Ax, "ASM_POINTER", v.string_id)>>
cg_deref_template(v, at)     == Append(Child(v.item, at, 1), lw(Ax, Ax))

CgItem(e, at) ==
  CASE e.type = "AST_NUM"        -> cg_number_template(e)
    [] e.type = "AST_CSTRING"    -> cg_cstring_ref(e)
    [] e.type = "AST_DEREF"      -> cg_deref_template(e, at)
    [] e.type = "AST_BIN"        -> cg_bin_template(e, at)
    [] e.type = "AST_CALL"       -> cg_call_template(e, at)
    [] e.type = "AST_IF"         -> cg_if_template(e, at)
    [] e.type = "AST_FOR"        -> cg_for_template(e, at)
    [] e.type = "AST_WHILE"      -> cg_while_template(e, at)
    [] e.type = "AST_LOCAL_VAR"  -> cg_local_decl_template(e)
    [] e.type = "AST_VAR_REF"    -> cg_var_ref_template(e)
    [] e.type = "AST_ASSIGNMENT" -> cg_assignment_template(e, at)
    [] e.type = "AST_UART"       -> cg_port_uart_template(e, at)

cg_expr_template(e, at) == FlattenSeq([i \in DOMAIN e |-> CgItem(e[i], Append(at, i))])
-----------------------------------------------------------------------------
(* Functions, strings, labels and the file. *)
Index(s, x) == CHOOSE i \in DOMAIN s : s[i] = x

\* Parameters have their offset from the parser.  A declaration gives offsets
\* to its variable and to all locals declared later; until then they are 0.
BpOffset(f, code, i) ==
  LET x == code[i].id
      Older(j) == code[j].flag = "DECL" /\ Index(f.locals, code[j].id) >= Index(f.locals, x)
  IN CASE x \in ToSet(f.params) -> Len(f.params) + 2 - Index(f.params, x)
       [] x \in ToSet(f.locals) -> IF \E j \in 1 .. i - 1 : Older(j) THEN -Index(f.locals, x)
                                   ELSE 0

BpOffsets(f, code) ==
  [i \in DOMAIN code |->
     IF code[i].flag = "VAR" THEN Asm(code[i].opcode + (BpOffset(f, code, i) % 32))
     ELSE code[i]]

cg_sf_start(f) ==
  <<Tagged(opcode_ri(OP_ADDI, Sp, -1), "ASM_FUNC_START", f.name), sw(Bp, Sp), mov_rr(Bp, Sp)>>
cg_sf_exit == <<mov_rr(Sp, Bp)>> \o cg_pop_prco(Bp)

cg_function_template(f, at) ==
  BpOffsets(f, cg_sf_start(f) \o cg_expr_template(f.body, at) \o cg_sf_exit)
  \o (IF f.name = "main" THEN <<halt>> ELSE Append(cg_pop_prco(Cx), jmp_rc(Cx, JMP_J)))

StringWords(s) ==
  [k \in 1 .. Len(s.chars) + 1 |->
     IF k > Len(s.chars) THEN Tagged(0, "ASM_ASCII", 0)
     ELSE Tagged(s.chars[k], "ASM_ASCII", IF k = 1 THEN s.string_id ELSE 0)]

cg_precode_template(m) ==
  <<To(Bx, "ASM_FUNC_CALL", "main"), jmp_rc(Bx, JMP_J)>>
  \o FlattenSeq([k \in DOMAIN m.strings |-> StringWords(m.strings[k])])

cg_dump(m) ==
  cg_precode_template(m)
  \o FlattenSeq([k \in DOMAIN m.functions |-> cg_function_template(m.functions[k], <<k>>)])

\* The entries whose offset the assembler puts into entry i.
Targets(code, i) ==
  LET Find(flag) == {j \in DOMAIN code : code[j].flag = flag /\ code[j].id = code[i].id}
  IN CASE code[i].flag = "ASM_POINTER"   -> Find("ASM_ASCII")
       [] code[i].flag = "ASM_CALL_NEXT" -> {i + 5}
       [] code[i].flag = "ASM_FUNC_CALL" -> Find("ASM_FUNC_START")
       [] code[i].flag = "ASM_JMP_JMP"   -> Find("ASM_JMP_DEST")
       [] OTHER                          -> {}

assembler_labels(code) ==
  [i \in DOMAIN code |->
     LET found == Targets(code, i)
     IN code[i].opcode + IF found = {} THEN 0 ELSE ((CHOOSE j \in found : TRUE) - 1) % 256]

\* main of the compiler, with -O: what module_dump gets, and the words of
\* verilog_memh.txt that come of it.
Optimised(m, O) ==
  IF O = 0 THEN m
  ELSE [m EXCEPT !.functions = [k \in DOMAIN @ |-> [@[k] EXCEPT !.body = SelfCf(@)]]]

\* cg_function_template asserts of each function that it has a body.
HasBodies(m) == \A k \in DOMAIN m.functions : m.functions[k].body # <<>>

Compile(m) == assembler_labels(cg_dump(m))
=============================================================================
