------------------------------- MODULE PrcoIsa -------------------------------
(***************************************************************************)
(* The combinational part of the PRCO304 core: the fields of a 16-bit      *)
(* instruction word and the control outputs the decoder derives from its   *)
(* opcode (prco_decoder.v), and the functions the ALU computes             *)
(* (prco_alu.v).  No state: PrcoCore clocks these functions through the    *)
(* pipeline, PrcoMachine applies them one whole instruction at a time.     *)
(***************************************************************************)
EXTENDS Integers

Word     == 0 .. 65535          \* a register, an address or a memory word
Reg      == 0 .. 7              \* Ax Bx Cx X0 X1 SR BP SP
REG_BP   == 6
REG_SP   == 7
NoWrap(i) == i                   \* mutant
Wrap(i)  == i % 65536           \* what a 16-bit register keeps of i

OP_NOP   == 0
OP_LW    == 1
OP_SW    == 2
OP_MOV   == 3
OP_MOVI  == 4
OP_ADD   == 8
OP_ADDI  == 9
OP_SUB   == 10              \* not decoded by the core
OP_SUBI  == 11
OP_JMP   == 12
OP_CMP   == 13
OP_HALT  == 18              \* not decoded by the core: halts like any such word
OP_WRITE == 19
OP_SET   == 21

\* The opcodes with a branch of their own in handle_opcode; its default
\* branch halts the core on every other one.
Decoded == {OP_NOP, OP_LW, OP_SW, OP_MOV, OP_MOVI, OP_ADD, OP_ADDI, OP_SUBI,
            OP_JMP, OP_CMP, OP_WRITE, OP_SET}

JMP_J    == 0
JMP_JE   == 1
JMP_JNE  == 2
JMP_JG   == 3
JMP_JGE  == 4
JMP_JL   == 5
JMP_JLE  == 6
JMP_JS   == 7
JMP_JNS  == 8
-----------------------------------------------------------------------------
(* Instruction fields: i_instr[15:11], [10:8], [7:5], [7:0] and [4:0].     *)
Op(w)    == w \div 2048
Rd(w)    == (w \div 256) % 8
Ra(w)    == (w \div 32) % 8
Imm8(w)  == w % 256
Simm5(w) == w % 32

\* SET sends its own Rd to the second read port, every other opcode its Ra.
SelA(w)   == IF Op(w) = OP_SET THEN Rd(w) ELSE Ra(w)

RegWe(op) == op \in {OP_MOVI, OP_MOV, OP_ADD, OP_ADDI, OP_SUBI, OP_LW,
                     OP_JMP, OP_SET}
ReqRam(op)    == op \in {OP_LW, OP_SW}
ReqRamWe(op)  == op = OP_SW
NewUart(op)   == op = OP_WRITE
Halts(op)     == op \notin Decoded
SkipsAlu(op)  == op = OP_NOP \/ Halts(op)     \* q_fetch instead of q_ce
-----------------------------------------------------------------------------
Signed8(i)  == IF i < 128 THEN i ELSE i - 256
Signed5(i)  == IF i < 16 THEN i ELSE i - 32

(* The status register: the three bits r_sr can ever hold.                 *)
Flags == [Z : BOOLEAN, S : BOOLEAN, O : BOOLEAN]
ClearFlags == [Z |-> FALSE, S |-> FALSE, O |-> FALSE]

func_alu_cmp(data, datb) ==
  LET tmp == Wrap(data - datb)
  IN  [Z |-> tmp = 0,
       S |-> tmp \div 32768 = 1,
       O |-> tmp \div 16384 \in {1, 2}]

func_alu_should_jmp(cond, sr) ==
  \/ cond = JMP_J
  \/ cond = JMP_JE  /\ sr.Z
  \/ cond = JMP_JNE /\ ~sr.Z
  \/ cond = JMP_JS  /\ sr.S
  \/ cond = JMP_JNS /\ ~sr.S
  \/ cond = JMP_JG  /\ ~sr.Z /\ sr.S = sr.O
  \/ cond = JMP_JGE /\ sr.S = sr.O
  \/ cond = JMP_JL  /\ sr.S # sr.O
  \/ cond = JMP_JLE /\ (sr.Z \/ sr.S # sr.O)

func_alu_should_set(cond, sr) ==
  \/ cond = JMP_JE /\ sr.Z
  \/ cond = JMP_JL /\ sr.S # sr.O
  \/ cond = JMP_JG /\ ~sr.Z /\ sr.S = sr.O

\* q_result for opcode op: data and datb are r[Rd] and r[SelA].
AluResult(op, data, datb, imm8, simm5, sr) ==
  CASE op \in {OP_LW, OP_SW}       -> Wrap(datb + Signed5(simm5))
    [] op = OP_JMP                 -> data
    [] op = OP_SET                 -> IF func_alu_should_set(imm8, sr) THEN 1 ELSE 0
    [] op \in {OP_MOV, OP_WRITE}   -> datb
    [] op = OP_MOVI                -> imm8
    [] op = OP_ADD                 -> Wrap(data + datb)
    [] op = OP_ADDI                -> Wrap(data + Signed8(imm8))
    [] op = OP_SUBI                -> Wrap(data - Signed8(imm8))
    [] OTHER                       -> 0
=============================================================================
