------------------------------ MODULE Emulator ------------------------------
(***************************************************************************)
(* The emulator (emu.c): one action per case of emu_exec, each with the    *)
(* decoding before it and the program counter's update after it.  Where C  *)
(* leaves the outcome open (an index outside an array) the model stops in  *)
(* mode "undefined", which stands for everything the process may do then;  *)
(* a failed assertion stops it in mode "aborted".                          *)
(***************************************************************************)
EXTENDS PrcoIsa, Sequences

CONSTANT MemFiles       \* the files verilog_memh.txt may be: sequences of words

ASSUME EmulatorAssumption == MemFiles \subseteq Seq(Word)

VARIABLES
  pc,
  r_regs,
  r_sr,                 \* bits 0 and 1 of r_sr; alu_cmp never sets another
  lmem,
  uart_tx_buf,          \* the bytes written; uart_tx_buf_i is its length
  mode,                 \* running, halted, aborted or undefined
  uart                  \* history: the byte the last instruction wrote, or NoByte

evars == <<pc, r_regs, r_sr, lmem, uart_tx_buf, mode, uart>>

MemWords   == 255       \* lmem[0xff]: one word less than the core's r_lmem
TxBufMax   == 128       \* uart_tx_buf_i is a signed char: 127 is the last good index
NoByte     == 256

OP_PUSH == 5
OP_POP  == 6
OP_BEQ  == 7
OP_NEG  == 14
OP_CALL == 15
OP_RET  == 16
OP_SPC  == 17
OP_READ == 20
UART1   == 0

\* assert_opcode has no case for these.
Undecodable(op) == op \in {OP_BEQ, OP_SPC} \/ op > OP_SET
\* emu_exec's default branch.
Ignored         == {OP_PUSH, OP_POP, OP_NEG, OP_CALL, OP_RET, OP_READ}

emu_decode(mc) ==
  [op   |-> mc \div 2048,  regD  |-> (mc \div 256) % 8,  regA |-> (mc \div 32) % 8,
   imm8 |-> mc % 256,      simm5 |-> Signed5(mc % 32),   port |-> mc % 256]

\* Mutant: an unsigned comparison.
alu_cmp_unsigned(a, b) == [Z |-> a = b, S |-> a < b]

alu_cmp(a, b) == [Z |-> a = b, S |-> Wrap(a - b) \div 32768 = 1]

alu_should_jmp(imm8) ==
  \/ imm8 = JMP_J
  \/ imm8 = JMP_JE  /\ r_sr.Z
  \/ imm8 = JMP_JNE /\ ~r_sr.Z
  \/ imm8 = JMP_JS  /\ ~r_sr.S
  \/ imm8 = JMP_JG  /\ ~r_sr.Z /\ ~r_sr.S
  \/ imm8 \in {JMP_JL, JMP_JLE} /\ (r_sr.Z \/ r_sr.S)     \* JL falls through

alu_should_set(imm8) ==
  \/ imm8 = JMP_JE  /\ r_sr.Z
  \/ imm8 = JMP_JL  /\ r_sr.S
  \/ imm8 = JMP_JLE /\ (r_sr.Z \/ r_sr.S)
  \/ imm8 = JMP_JG  /\ ~r_sr.Z /\ ~r_sr.S

\* emu_load_mem decodes each word it loads: an undecodable one aborts at once.
LoadedMem(file)  == [a \in 0 .. MemWords - 1 |-> IF a < Len(file) THEN file[a + 1] ELSE 0]
LoadedMode(file) == IF \E i \in DOMAIN file : Undecodable(emu_decode(file[i]).op)
                    THEN "aborted" ELSE "running"

Loaded(file) ==
  /\ pc = 0
  /\ r_regs = [r \in Reg |-> IF r = REG_SP THEN 255 ELSE 0]
  /\ r_sr = [Z |-> FALSE, S |-> FALSE]
  /\ lmem = LoadedMem(file)
  /\ mode = LoadedMode(file)
  /\ uart_tx_buf = <<>>
  /\ uart = NoByte

Init == \E file \in MemFiles : Loaded(file)
-----------------------------------------------------------------------------
InMem(a) == a \in 0 .. MemWords - 1
op       == emu_decode(lmem[pc])                    \* core.current_op, if InMem(pc)
Address  == r_regs[op.regA] + op.simm5              \* an int: it does not wrap

Runs(o)  == mode = "running" /\ InMem(pc) /\ op.op = o
Step     == pc' = Wrap(pc + 1) /\ UNCHANGED mode    \* pc++ after emu_exec
Quiet    == uart' = NoByte /\ UNCHANGED uart_tx_buf
SetD(v)  == r_regs' = [r_regs EXCEPT ![op.regD] = v]
RegD     == r_regs[op.regD]
RegA     == r_regs[op.regA]

\* The cases that only write r_regs[op->regD].
Result ==
  CASE op.op = OP_ADD  -> Wrap(RegD + RegA)
    [] op.op = OP_ADDI -> Wrap(RegD + Signed8(op.imm8))
    [] op.op = OP_SUB  -> Wrap(RegD - RegA)
    [] op.op = OP_SUBI -> Wrap(RegD - Signed8(op.imm8))
    [] op.op = OP_MOV  -> RegA
    [] op.op = OP_MOVI -> op.imm8
    [] op.op = OP_SET  -> IF alu_should_set(op.imm8) THEN 1 ELSE 0

Alu ==
  /\ \E o \in {OP_ADD, OP_ADDI, OP_SUB, OP_SUBI, OP_MOV, OP_MOVI, OP_SET} : Runs(o)
  /\ SetD(Result)
  /\ Step /\ Quiet
  /\ UNCHANGED <<r_sr, lmem>>

NopOrIgnored ==
  /\ \E o \in Ignored \cup {OP_NOP} : Runs(o)
  /\ Step /\ Quiet
  /\ UNCHANGED <<r_regs, r_sr, lmem>>

Sw ==
  /\ Runs(OP_SW) /\ InMem(Address)
  /\ lmem' = [lmem EXCEPT ![Address] = RegD]
  /\ Step /\ Quiet
  /\ UNCHANGED <<r_regs, r_sr>>

Lw ==
  /\ Runs(OP_LW) /\ InMem(Address)
  /\ SetD(lmem[Address])
  /\ Step /\ Quiet
  /\ UNCHANGED <<r_sr, lmem>>

Cmp ==
  /\ Runs(OP_CMP)
  /\ r_sr' = alu_cmp(RegD, RegA)
  /\ Step /\ Quiet
  /\ UNCHANGED <<r_regs, lmem>>

Jmp ==          \* should_branch is set here and taken down in the same turn of emu_run
  /\ Runs(OP_JMP)
  /\ IF alu_should_jmp(op.imm8) THEN pc' = RegD ELSE pc' = Wrap(pc + 1)
  /\ Quiet
  /\ UNCHANGED <<r_regs, r_sr, lmem, mode>>

\* Mutant: the buffer is written past its end.
WriteUnchecked ==
  /\ Runs(OP_WRITE)
  /\ IF op.port = UART1
     THEN uart_tx_buf' = Append(uart_tx_buf, RegD % 256) /\ uart' = RegD % 256
     ELSE Quiet
  /\ Step
  /\ UNCHANGED <<r_regs, r_sr, lmem>>

Write ==
  /\ Runs(OP_WRITE)
  /\ op.port = UART1 => Len(uart_tx_buf) < TxBufMax
  /\ IF op.port = UART1
     THEN uart_tx_buf' = Append(uart_tx_buf, RegD % 256) /\ uart' = RegD % 256
     ELSE Quiet
  /\ Step
  /\ UNCHANGED <<r_regs, r_sr, lmem>>

Halt ==         \* emu_run leaves its loop before emu_exec and before pc++
  /\ Runs(OP_HALT)
  /\ mode' = "halted"
  /\ Quiet
  /\ UNCHANGED <<pc, r_regs, r_sr, lmem>>

Abort ==        \* assert_opcode
  /\ mode = "running" /\ InMem(pc) /\ Undecodable(op.op)
  /\ mode' = "aborted"
  /\ UNCHANGED <<pc, r_regs, r_sr, lmem, uart_tx_buf, uart>>

Overrun ==      \* an index that C does not check
  /\ mode = "running"
  /\ \/ ~InMem(pc)
     \/ InMem(pc) /\ op.op \in {OP_LW, OP_SW} /\ ~InMem(Address)
     \/ Runs(OP_WRITE) /\ op.port = UART1 /\ Len(uart_tx_buf) = TxBufMax
  /\ mode' = "undefined"
  /\ UNCHANGED <<pc, r_regs, r_sr, lmem, uart_tx_buf, uart>>

Next == Alu \/ NopOrIgnored \/ Sw \/ Lw \/ Cmp \/ Jmp \/ Write \/ Halt \/ Abort \/ Overrun

Spec == Init /\ [][Next]_evars
-----------------------------------------------------------------------------
(* The state in range; the index of the transmit buffer never passes 128. *)
TypeOK ==
  /\ pc \in Word
  /\ r_regs \in [Reg -> Word]
  /\ r_sr \in [Z : BOOLEAN, S : BOOLEAN]
  /\ lmem \in [0 .. MemWords - 1 -> Word]
  /\ uart_tx_buf \in Seq(0 .. 255) /\ Len(uart_tx_buf) <= TxBufMax
  /\ mode \in {"running", "halted", "aborted", "undefined"}
  /\ uart \in 0 .. 256

(* The machine the core implements, over the emulator's state: a word of   *)
(* memory the emulator lacks, no overflow flag, pc counted on by a HALT.   *)
Machine == INSTANCE PrcoMachine WITH
  MemDepth <- MemWords + 1, Programs <- {},
  pc     <- IF mode = "halted" THEN Wrap(pc + 1) ELSE pc,
  r_lmem <- [a \in 0 .. MemWords |-> IF a = MemWords THEN 0 ELSE lmem[a]],
  r_sr   <- [Z |-> r_sr.Z, S |-> r_sr.S, O |-> FALSE],
  halted <- mode = "halted",
  tx_fifo_full <- FALSE       \* the emulator's port is never full

\* The instructions on which emu.c and the core part, each with the state
\* that tells them apart.
OtherJump == RegD # Wrap(pc + 1) /\     \* a jump to the next word is no jump
  \/ op.imm8 = JMP_JS
  \/ op.imm8 \in {JMP_JGE, JMP_JNS} /\ ~r_sr.S
  \/ op.imm8 = JMP_JL /\ r_sr.Z /\ ~r_sr.S

Diverges ==
  \/ ~InMem(pc)
  \/ InMem(pc) /\
     \/ op.op \in Ignored \cup {OP_SUB} \/ Undecodable(op.op)      \* the core halts
     \/ op.op \in {OP_LW, OP_SW} /\ ~InMem(Address)
     \/ op.op = OP_CMP /\ Wrap(RegD - RegA) \div 16384 \in {1, 2}   \* the core sets O
     \/ op.op = OP_JMP /\ OtherJump
     \/ op.op = OP_SET /\ op.imm8 = JMP_JLE /\ (r_sr.Z \/ r_sr.S)  \* the core sets 0
     \/ op.op = OP_WRITE /\ op.port # UART1          \* the core has one port
     \/ op.op = OP_WRITE /\ op.port = UART1 /\
          (RegD % 256 # RegA % 256 \/ Len(uart_tx_buf) = TxBufMax)

\* The process is still the emulator: C defines what it does.
Defined == mode \in {"running", "halted"}

(* On every other instruction, and on no such one, the emulator takes a    *)
(* step and it is a step of the machine that the core implements:          *)
(* registers, memory, flags, next pc, the byte written, and when to stop   *)
(* (emu_exec and emu_run against prco_decoder.v and prco_alu.v).           *)
AgreesWithCore == [][Defined' /\ Machine!Next <=> ~Diverges]_evars
=============================================================================
