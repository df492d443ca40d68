----------------------------- MODULE PrcoMachine -----------------------------
(***************************************************************************)
(* What the core promises to a program: a sequential machine that executes *)
(* one whole instruction per step.  PrcoCoreArch shows that the clocked    *)
(* pipeline of PrcoCore implements it.                                     *)
(***************************************************************************)
EXTENDS PrcoIsa

CONSTANTS
  MemDepth,   \* words in r_lmem (P_LMEM_DEPTH + 1 = 256 in the source)
  Programs    \* the memory images $readmemh may leave in r_lmem

VARIABLES
  pc,         \* address of the next instruction
  r_regs,     \* the eight registers
  r_lmem,     \* the memory
  r_sr,       \* the flags of the last CMP
  halted,     \* an opcode outside Decoded has been executed
  uart,       \* the byte the last instruction handed to the UART, or NoByte
  tx_fifo_full    \* an input: the UART's flag as that instruction ended

mvars == <<pc, r_regs, r_lmem, r_sr, halted, uart, tx_fifo_full>>

NoByte == 256                       \* not a byte
MemIndex(a) == a % MemDepth         \* only the low address lines reach the RAM

ResetRegs == [r \in Reg |-> IF r = REG_SP THEN 255 ELSE 0]

Init ==
  /\ pc = 0
  /\ r_regs = ResetRegs
  /\ r_lmem \in Programs
  /\ r_sr = ClearFlags
  /\ halted = FALSE
  /\ uart = NoByte
  /\ tx_fifo_full = FALSE
-----------------------------------------------------------------------------
Instr == r_lmem[MemIndex(pc)]
Data  == r_regs[Rd(Instr)]
Datb  == r_regs[SelA(Instr)]
Value == AluResult(Op(Instr), Data, Datb, Imm8(Instr), Simm5(Instr), r_sr)

GoOn   == pc' = Wrap(pc + 1)
Silent == uart' = NoByte

Nop ==
  /\ Op(Instr) = OP_NOP
  /\ GoOn /\ Silent
  /\ UNCHANGED <<r_regs, r_lmem, r_sr, halted>>

Compute ==      \* MOV, MOVI, ADD, ADDI, SUBI, SET: a register gets the ALU's result
  /\ RegWe(Op(Instr)) /\ ~ReqRam(Op(Instr)) /\ Op(Instr) # OP_JMP
  /\ r_regs' = [r_regs EXCEPT ![Rd(Instr)] = Value]
  /\ GoOn /\ Silent
  /\ UNCHANGED <<r_lmem, r_sr, halted>>

Load ==
  /\ Op(Instr) = OP_LW
  /\ r_regs' = [r_regs EXCEPT ![Rd(Instr)] = r_lmem[MemIndex(Value)]]
  /\ GoOn /\ Silent
  /\ UNCHANGED <<r_lmem, r_sr, halted>>

Store ==
  /\ Op(Instr) = OP_SW
  /\ r_lmem' = [r_lmem EXCEPT ![MemIndex(Value)] = Data]
  /\ GoOn /\ Silent
  /\ UNCHANGED <<r_regs, r_sr, halted>>

Compare ==
  /\ Op(Instr) = OP_CMP
  /\ r_sr' = func_alu_cmp(Data, Datb)
  /\ GoOn /\ Silent
  /\ UNCHANGED <<r_regs, r_lmem, halted>>

Jump ==
  /\ Op(Instr) = OP_JMP
  /\ IF func_alu_should_jmp(Imm8(Instr), r_sr) THEN pc' = Data ELSE GoOn
  /\ Silent
  /\ UNCHANGED <<r_regs, r_lmem, r_sr, halted>>

Write ==        \* whatever port it names; the byte is lost when the UART's FIFO is full
  /\ Op(Instr) = OP_WRITE
  /\ GoOn
  /\ uart' = IF tx_fifo_full' THEN NoByte ELSE Value % 256
  /\ UNCHANGED <<r_regs, r_lmem, r_sr, halted>>

Halt ==
  /\ Halts(Op(Instr))
  /\ halted' = TRUE
  /\ GoOn /\ Silent
  /\ UNCHANGED <<r_regs, r_lmem, r_sr>>

Next ==
  /\ ~halted
  /\ tx_fifo_full' \in BOOLEAN
  /\ Nop \/ Compute \/ Load \/ Store \/ Compare \/ Jump \/ Write \/ Halt

Spec == Init /\ [][Next]_mvars
=============================================================================
