--------------------------- MODULE Emulator_proofs ---------------------------
(* Proofs about the emulator, for every program file: its state stays in   *)
(* range, and its instructions are the core's but for the listed ones.     *)
EXTENDS Emulator, PrcoIsa_proofs, SequenceTheorems

(* The emulator's decoding of a word is the core's.                        *)
LEMMA DecodedFields ==
  ASSUME NEW w \in Word
  PROVE  /\ emu_decode(w).op = Op(w) /\ emu_decode(w).op \in 0 .. 31
         /\ emu_decode(w).regD = Rd(w) /\ emu_decode(w).regD \in Reg
         /\ emu_decode(w).regA = Ra(w) /\ emu_decode(w).regA \in Reg
         /\ emu_decode(w).imm8 = Imm8(w) /\ emu_decode(w).imm8 \in 0 .. 255
         /\ emu_decode(w).simm5 = Signed5(Simm5(w))
         /\ emu_decode(w).simm5 \in -16 .. 15
         /\ emu_decode(w).port = Imm8(w)
<1>1. /\ emu_decode(w).op = Op(w)
      /\ emu_decode(w).regD = Rd(w)
      /\ emu_decode(w).regA = Ra(w)
      /\ emu_decode(w).imm8 = Imm8(w)
      /\ emu_decode(w).simm5 = Signed5(Simm5(w))
      /\ emu_decode(w).port = Imm8(w)
  BY DEF emu_decode, Op, Rd, Ra, Imm8, Simm5
<1>2. \A i \in 0 .. 31 : Signed5(i) \in -16 .. 15
  BY DEF Signed5
<1>. QED
  BY <1>1, <1>2, FieldTypes

(* The instruction at a pc inside the memory.                              *)
LEMMA CurrentOp ==
  ASSUME TypeOK, InMem(pc)
  PROVE  /\ lmem[pc] \in Word
         /\ op.op = Op(lmem[pc]) /\ op.op \in 0 .. 31
         /\ op.regD = Rd(lmem[pc]) /\ op.regD \in Reg
         /\ op.regA = Ra(lmem[pc]) /\ op.regA \in Reg
         /\ op.imm8 = Imm8(lmem[pc]) /\ op.imm8 \in 0 .. 255
         /\ op.simm5 = Signed5(Simm5(lmem[pc])) /\ op.simm5 \in -16 .. 15
         /\ op.port = Imm8(lmem[pc])
         /\ RegD \in Word /\ RegA \in Word
<1>1. lmem[pc] \in Word
  BY DEF TypeOK, InMem
<1>2. op = emu_decode(lmem[pc])
  BY DEF op
<1>3. /\ op.op = Op(lmem[pc]) /\ op.op \in 0 .. 31
      /\ op.regD = Rd(lmem[pc]) /\ op.regD \in Reg
      /\ op.regA = Ra(lmem[pc]) /\ op.regA \in Reg
      /\ op.imm8 = Imm8(lmem[pc]) /\ op.imm8 \in 0 .. 255
      /\ op.simm5 = Signed5(Simm5(lmem[pc])) /\ op.simm5 \in -16 .. 15
      /\ op.port = Imm8(lmem[pc])
  BY <1>1, <1>2, DecodedFields
<1>4. RegD \in Word /\ RegA \in Word
  BY <1>3 DEF TypeOK, RegD, RegA
<1>. QED
  BY <1>1, <1>3, <1>4

(* What the ALU instructions put in a register is a word.                  *)
LEMMA ResultType ==
  ASSUME TypeOK, InMem(pc),
         op.op \in {OP_ADD, OP_ADDI, OP_SUB, OP_SUBI, OP_MOV, OP_MOVI, OP_SET}
  PROVE  Result \in Word
<1>1. RegD \in Int /\ RegA \in Int /\ Signed8(op.imm8) \in Int
  <2>1. RegD \in Word /\ RegA \in Word /\ op.imm8 \in 0 .. 255
    BY CurrentOp
  <2>2. (\A w \in Word : w \in Int) /\ (\A i \in 0 .. 255 : Signed8(i) \in Int)
    BY WordRange DEF Signed8
  <2>. QED
    BY <2>1, <2>2
<1>2. /\ Wrap(RegD + RegA) \in Word /\ Wrap(RegD + Signed8(op.imm8)) \in Word
      /\ Wrap(RegD - RegA) \in Word /\ Wrap(RegD - Signed8(op.imm8)) \in Word
  BY <1>1, WrapType
<1>3. /\ RegA \in Word /\ op.imm8 \in Word
      /\ (IF alu_should_set(op.imm8) THEN 1 ELSE 0) \in Word
  <2>1. RegA \in Word /\ op.imm8 \in 0 .. 255
    BY CurrentOp
  <2>2. (\A i \in 0 .. 255 : i \in Word) /\ 0 \in Word /\ 1 \in Word
    BY WordRange
  <2>. QED
    BY <2>1, <2>2
<1>. USE DEF OP_ADD, OP_ADDI, OP_SUB, OP_SUBI, OP_MOV, OP_MOVI, OP_SET
<1>4. CASE op.op = OP_ADD
  BY <1>2, <1>4 DEF Result
<1>5. CASE op.op = OP_ADDI
  BY <1>2, <1>5 DEF Result
<1>6. CASE op.op = OP_SUB
  BY <1>2, <1>6 DEF Result
<1>7. CASE op.op = OP_SUBI
  BY <1>2, <1>7 DEF Result
<1>8. CASE op.op = OP_MOV
  BY <1>3, <1>8 DEF Result
<1>9. CASE op.op = OP_MOVI
  BY <1>3, <1>9 DEF Result
<1>10. CASE op.op = OP_SET
  BY <1>3, <1>10 DEF Result
<1>. QED
  BY <1>4, <1>5, <1>6, <1>7, <1>8, <1>9, <1>10

(* The registers keep their widths, pc and memory too, and the transmit    *)
(* buffer's index never passes its end, whatever the program.              *)
THEOREM EmulatorTypeCorrect == Spec => []TypeOK
<1>1. Init => TypeOK
  <2> SUFFICES ASSUME NEW file \in MemFiles, Loaded(file) PROVE TypeOK
    BY DEF Init
  <2>1. file \in Seq(Word) /\ 0 \in Word /\ 255 \in Word
    BY EmulatorAssumption, WordFacts
  <2>2. LoadedMem(file) \in [0 .. MemWords - 1 -> Word]
    <3>1. \A a \in Nat : a < Len(file) => file[a + 1] \in Word
      <4>1. \A n \in 1 .. Len(file) : file[n] \in Word
        BY <2>1, ElementOfSeq
      <4>2. Len(file) \in Nat
        BY <2>1, LenProperties
      <4>. QED
        BY <4>1, <4>2
    <3>2. \A a \in 0 .. MemWords - 1 : a \in Nat
      BY DEF MemWords
    <3>3. \A a \in 0 .. MemWords - 1 : (IF a < Len(file) THEN file[a + 1] ELSE 0) \in Word
      BY <2>1, <3>1, <3>2
    <3>. QED
      BY <3>3 DEF LoadedMem
  <2>3. LoadedMode(file) \in {"running", "halted", "aborted", "undefined"}
    BY DEF LoadedMode
  <2>4. <<>> \in Seq(0 .. 255) /\ Len(<<>>) <= TxBufMax
    BY EmptySeq DEF TxBufMax
  <2>. QED
    BY <2>1, <2>2, <2>3, <2>4 DEF Loaded, TypeOK, NoByte
<1>2. TypeOK /\ [Next]_evars => TypeOK'
  <2> SUFFICES ASSUME TypeOK, [Next]_evars PROVE TypeOK'
    OBVIOUS
  <2>1. Wrap(pc + 1) \in Word
    BY WordFacts DEF TypeOK
  <2>2. CASE Alu
    <3>1. InMem(pc) /\ Result \in Word /\ op.regD \in Reg
      BY <2>2, ResultType, CurrentOp DEF Alu, Runs
    <3>2. r_regs' \in [Reg -> Word]
      BY <2>2, <3>1 DEF Alu, SetD, TypeOK
    <3>. QED
      BY <2>1, <2>2, <3>2 DEF Alu, Step, Quiet, TypeOK, NoByte
  <2>3. CASE NopOrIgnored
    BY <2>1, <2>3 DEF NopOrIgnored, Step, Quiet, TypeOK, NoByte
  <2>4. CASE Sw
    <3>1. RegD \in Word /\ Address \in 0 .. MemWords - 1
      BY <2>4, CurrentOp DEF Sw, Runs, InMem
    <3>2. lmem' \in [0 .. MemWords - 1 -> Word]
      BY <2>4, <3>1 DEF Sw, TypeOK
    <3>. QED
      BY <2>1, <2>4, <3>2 DEF Sw, Step, Quiet, TypeOK, NoByte
  <2>5. CASE Lw
    <3>1. op.regD \in Reg /\ Address \in 0 .. MemWords - 1
      BY <2>5, CurrentOp DEF Lw, Runs, InMem
    <3>2. r_regs' \in [Reg -> Word]
      BY <2>5, <3>1 DEF Lw, SetD, TypeOK
    <3>. QED
      BY <2>1, <2>5, <3>2 DEF Lw, Step, Quiet, TypeOK, NoByte
  <2>6. CASE Cmp
    <3>1. r_sr' \in [Z : BOOLEAN, S : BOOLEAN]
      BY <2>6 DEF Cmp, alu_cmp
    <3>. QED
      BY <2>1, <2>6, <3>1 DEF Cmp, Step, Quiet, TypeOK, NoByte
  <2>7. CASE Jmp
    <3>1. pc' \in Word
      BY <2>1, <2>7, CurrentOp DEF Jmp, Runs
    <3>. QED
      BY <2>7, <3>1 DEF Jmp, Quiet, TypeOK, NoByte
  <2>8. CASE Write
    <3>1. RegD % 256 \in 0 .. 255
      <4>1. RegD \in Word
        BY <2>8, CurrentOp DEF Write, Runs
      <4>2. \A w \in Word : w % 256 \in 0 .. 255
        BY LowByte
      <4>. QED
        BY <4>1, <4>2
    <3>2. CASE op.port = UART1
      <4>1. uart_tx_buf \in Seq(0 .. 255) /\ Len(uart_tx_buf) < TxBufMax
        BY <2>8, <3>2 DEF Write, TypeOK
      <4>2. /\ uart_tx_buf' = Append(uart_tx_buf, RegD % 256)
            /\ uart' = RegD % 256
        BY <2>8, <3>2 DEF Write
      <4>3. uart_tx_buf' \in Seq(0 .. 255) /\ Len(uart_tx_buf') = Len(uart_tx_buf) + 1
        BY <3>1, <4>1, <4>2, AppendProperties
      <4>4. Len(uart_tx_buf') <= TxBufMax
        BY <4>1, <4>3, LenProperties DEF TxBufMax
      <4>. QED
        BY <2>1, <2>8, <3>1, <4>2, <4>3, <4>4 DEF Write, Step, TypeOK
    <3>3. CASE op.port # UART1
      BY <2>1, <2>8, <3>3 DEF Write, Step, Quiet, TypeOK, NoByte
    <3>. QED
      BY <3>2, <3>3
  <2>9. CASE Halt
    BY <2>9 DEF Halt, Quiet, TypeOK, NoByte
  <2>10. CASE Abort
    BY <2>10 DEF Abort, TypeOK
  <2>11. CASE Overrun
    BY <2>11 DEF Overrun, TypeOK
  <2>12. CASE UNCHANGED evars
    BY <2>12 DEF evars, TypeOK
  <2>. QED
    BY <2>2, <2>3, <2>4, <2>5, <2>6, <2>7, <2>8, <2>9, <2>10, <2>11, <2>12 DEF Next
<1>. QED
  BY <1>1, <1>2, PTL DEF Spec

(* The machine instance has the instruction set of the core.               *)
LEMMA MachineIsa ==
  /\ \A w : /\ Machine!Op(w) = Op(w) /\ Machine!Rd(w) = Rd(w) /\ Machine!SelA(w) = SelA(w)
            /\ Machine!Imm8(w) = Imm8(w) /\ Machine!Simm5(w) = Simm5(w)
            /\ Machine!Wrap(w) = Wrap(w)
  /\ \A o, data, datb, imm8, simm5, sr :
       Machine!AluResult(o, data, datb, imm8, simm5, sr) =
         AluResult(o, data, datb, imm8, simm5, sr)
  /\ \A data, datb : Machine!func_alu_cmp(data, datb) = func_alu_cmp(data, datb)
  /\ \A cond, sr : Machine!func_alu_should_jmp(cond, sr) <=> func_alu_should_jmp(cond, sr)
  /\ \A o : /\ Machine!RegWe(o) <=> RegWe(o)
            /\ Machine!ReqRam(o) <=> ReqRam(o)
            /\ Machine!Halts(o) <=> Halts(o)
  /\ Machine!OP_NOP = OP_NOP /\ Machine!OP_LW = OP_LW /\ Machine!OP_SW = OP_SW
  /\ Machine!OP_JMP = OP_JMP /\ Machine!OP_CMP = OP_CMP /\ Machine!OP_WRITE = OP_WRITE
  /\ Machine!NoByte = NoByte
<1> USE DEF Machine!OP_NOP, OP_NOP, Machine!OP_LW, OP_LW, Machine!OP_SW, OP_SW, Machine!OP_MOV,
            OP_MOV, Machine!OP_MOVI, OP_MOVI, Machine!OP_ADD, OP_ADD, Machine!OP_ADDI, OP_ADDI,
            Machine!OP_SUBI, OP_SUBI, Machine!OP_JMP, OP_JMP, Machine!OP_CMP, OP_CMP,
            Machine!OP_WRITE, OP_WRITE, Machine!OP_SET, OP_SET, Machine!NoByte, NoByte
<1>1. \A w : /\ Machine!Op(w) = Op(w) /\ Machine!Rd(w) = Rd(w) /\ Machine!SelA(w) = SelA(w)
             /\ Machine!Imm8(w) = Imm8(w) /\ Machine!Simm5(w) = Simm5(w)
             /\ Machine!Wrap(w) = Wrap(w)
  BY DEF Machine!Op, Op, Machine!Rd, Rd, Machine!SelA, SelA, Machine!Ra, Ra, Machine!Imm8, Imm8,
         Machine!Simm5, Simm5, Machine!Wrap, Wrap
<1>2. \A cond, sr : /\ Machine!func_alu_should_jmp(cond, sr) <=> func_alu_should_jmp(cond, sr)
                    /\ Machine!func_alu_should_set(cond, sr) <=> func_alu_should_set(cond, sr)
  BY DEF Machine!func_alu_should_jmp, func_alu_should_jmp, Machine!func_alu_should_set,
         func_alu_should_set, Machine!JMP_J, JMP_J, Machine!JMP_JE, JMP_JE, Machine!JMP_JNE,
         JMP_JNE, Machine!JMP_JS, JMP_JS, Machine!JMP_JNS, JMP_JNS, Machine!JMP_JG, JMP_JG,
         Machine!JMP_JGE, JMP_JGE, Machine!JMP_JL, JMP_JL, Machine!JMP_JLE, JMP_JLE
<1>3. ASSUME NEW o, NEW data, NEW datb, NEW imm8, NEW simm5, NEW sr
      PROVE  Machine!AluResult(o, data, datb, imm8, simm5, sr) =
               AluResult(o, data, datb, imm8, simm5, sr)
  BY <1>1, <1>2 DEF Machine!AluResult, AluResult, Machine!Signed5, Signed5, Machine!Signed8, Signed8
<1>4. \A data, datb : Machine!func_alu_cmp(data, datb) = func_alu_cmp(data, datb)
  BY <1>1 DEF Machine!func_alu_cmp, func_alu_cmp
<1>5. \A o : /\ Machine!RegWe(o) <=> RegWe(o)
             /\ Machine!ReqRam(o) <=> ReqRam(o)
             /\ Machine!Halts(o) <=> Halts(o)
  BY DEF Machine!RegWe, RegWe, Machine!ReqRam, ReqRam, Machine!Halts, Halts, Machine!Decoded, Decoded
<1>. QED
  BY <1>1, <1>2, <1>3, <1>4, <1>5

\* The flags as the core has them: the emulator never sets the overflow.
CoreFlags == [Z |-> r_sr.Z, S |-> r_sr.S, O |-> FALSE]

\* What the core's second read port holds.
Datb == IF op.op = OP_SET THEN RegD ELSE RegA

(* A memory index below the emulator's size is the core's index too.       *)
LEMMA SmallIndex ==
  ASSUME NEW a \in Int, InMem(a)
  PROVE  Machine!MemIndex(a) = a /\ Wrap(a) = a /\ a \in 0 .. MemWords /\ a # MemWords
  BY DEF InMem, MemWords, Machine!MemIndex, Wrap

(* The machine's view of the emulator's current instruction.               *)
LEMMA MachineView ==
  ASSUME TypeOK, mode = "running", InMem(pc)
  PROVE  /\ Machine!Instr = lmem[pc] /\ Op(Machine!Instr) = op.op
         /\ Rd(Machine!Instr) = op.regD /\ Imm8(Machine!Instr) = op.imm8
         /\ Machine!Data = RegD /\ Machine!Datb = Datb
         /\ Machine!Value = AluResult(op.op, RegD, Datb, op.imm8, Simm5(lmem[pc]), CoreFlags)
<1>1. pc \in Int
  BY WordRange DEF TypeOK
<1>2. Machine!MemIndex(pc) = pc /\ pc \in 0 .. MemWords /\ pc # MemWords
  BY <1>1, SmallIndex
<1>3. Machine!Instr = lmem[pc]
  BY <1>2 DEF Machine!Instr
<1>4. /\ op.op = Op(lmem[pc]) /\ op.regD = Rd(lmem[pc]) /\ op.regA = Ra(lmem[pc])
      /\ op.imm8 = Imm8(lmem[pc])
  BY CurrentOp
<1>5. Machine!Data = RegD
  BY <1>3, <1>4, MachineIsa DEF Machine!Data, RegD
<1>6. Machine!Datb = Datb
  <2>1. SelA(lmem[pc]) = IF op.op = OP_SET THEN op.regD ELSE op.regA
    BY <1>4 DEF SelA
  <2>. QED
    BY <1>3, <2>1, MachineIsa DEF Machine!Datb, Datb, RegD, RegA
<1>7. Machine!Value = AluResult(op.op, RegD, Datb, op.imm8, Simm5(lmem[pc]), CoreFlags)
  BY <1>3, <1>4, <1>5, <1>6, MachineIsa DEF Machine!Value, CoreFlags
<1>. QED
  BY <1>3, <1>4, <1>5, <1>6, <1>7

\* The opcodes whose only effect is their register.
ComputeOps == {OP_MOV, OP_MOVI, OP_ADD, OP_ADDI, OP_SUBI, OP_SET}

(* The machine has one action for each opcode.                             *)
LEMMA MachineDispatch ==
  ASSUME TypeOK, mode = "running", InMem(pc)
  PROVE  /\ Halts(op.op)            => (Machine!Next <=> Machine!Halt)
         /\ op.op = OP_NOP          => (Machine!Next <=> Machine!Nop)
         /\ op.op \in ComputeOps    => (Machine!Next <=> Machine!Compute)
         /\ op.op = OP_LW           => (Machine!Next <=> Machine!Load)
         /\ op.op = OP_SW           => (Machine!Next <=> Machine!Store)
         /\ op.op = OP_CMP          => (Machine!Next <=> Machine!Compare)
         /\ op.op = OP_JMP          => (Machine!Next <=> Machine!Jump)
         /\ op.op = OP_WRITE        => (Machine!Next <=> Machine!Write)
<1>1. /\ Machine!Nop => op.op = OP_NOP
      /\ Machine!Compute => RegWe(op.op) /\ ~ReqRam(op.op) /\ op.op # OP_JMP
      /\ Machine!Load => op.op = OP_LW
      /\ Machine!Store => op.op = OP_SW
  BY MachineView, MachineIsa
     DEF Machine!Nop, Machine!Compute, Machine!Load, Machine!Store
<1>2. /\ Machine!Compare => op.op = OP_CMP
      /\ Machine!Jump => op.op = OP_JMP
      /\ Machine!Write => op.op = OP_WRITE
      /\ Machine!Halt => Halts(op.op)
  BY MachineView, MachineIsa
     DEF Machine!Compare, Machine!Jump, Machine!Write, Machine!Halt
<1>3. RegWe(op.op) /\ ~ReqRam(op.op) /\ op.op # OP_JMP => op.op \in ComputeOps
  BY DEF RegWe, ReqRam, ComputeOps
<1>4. Halts(op.op) => op.op \notin ComputeOps \cup {OP_NOP, OP_LW, OP_SW, OP_CMP, OP_JMP, OP_WRITE}
  BY DEF Halts, Decoded, ComputeOps
<1>5. op.op \in ComputeOps => op.op \notin {OP_NOP, OP_LW, OP_SW, OP_CMP, OP_JMP, OP_WRITE}
  BY DEF ComputeOps, OP_NOP, OP_LW, OP_SW, OP_MOV, OP_MOVI, OP_ADD, OP_ADDI, OP_SUBI, OP_JMP,
         OP_CMP, OP_WRITE, OP_SET
<1>6. Machine!Next <=> \/ Machine!Nop \/ Machine!Compute \/ Machine!Load \/ Machine!Store
                       \/ Machine!Compare \/ Machine!Jump \/ Machine!Write \/ Machine!Halt
  BY DEF Machine!Next
<1>. QED
  BY <1>1, <1>2, <1>3, <1>4, <1>5, <1>6 DEF OP_NOP, OP_LW, OP_SW, OP_JMP, OP_CMP, OP_WRITE

(* What a step that goes on to the next word is to the machine.            *)
LEMMA GoesOn ==
  ASSUME TypeOK, mode = "running", Step
  PROVE  /\ Defined' /\ Machine!GoOn
         /\ Quiet => Machine!Silent
         /\ (mode' = "halted") = (mode = "halted")
         /\ ~Machine!Halt
<1>1. mode' = "running" /\ pc' = Wrap(pc + 1)
  BY DEF Step
<1>2. Machine!GoOn
  BY <1>1, MachineIsa DEF Machine!GoOn
<1>3. Quiet => Machine!Silent
  BY MachineIsa DEF Quiet, Machine!Silent
<1>4. (mode' = "halted") = (mode = "halted")
  BY <1>1
<1>5. ~Machine!Halt
  BY <1>1 DEF Machine!Halt
<1>. QED
  BY <1>1, <1>2, <1>3, <1>4, <1>5 DEF Defined

(* The ALU's result is the core's, but for SET with JLE.                   *)
LEMMA ResultIsValue ==
  ASSUME TypeOK, mode = "running", InMem(pc), op.op \in ComputeOps
  PROVE  IF op.op = OP_SET /\ op.imm8 = JMP_JLE /\ (r_sr.Z \/ r_sr.S)
         THEN Result = 1 /\ Machine!Value = 0
         ELSE Result = Machine!Value
<1>. USE DEF OP_LW, OP_SW, OP_JMP, OP_WRITE, OP_ADD, OP_ADDI, OP_SUB, OP_SUBI, OP_MOV, OP_MOVI,
             OP_SET
<1>1. Machine!Value = AluResult(op.op, RegD, Datb, op.imm8, Simm5(lmem[pc]), CoreFlags)
  BY MachineView
<1>2. CASE op.op = OP_ADD
  BY <1>1, <1>2 DEF Result, AluResult, Datb
<1>3. CASE op.op = OP_ADDI
  BY <1>1, <1>3 DEF Result, AluResult
<1>4. CASE op.op = OP_SUBI
  BY <1>1, <1>4 DEF Result, AluResult
<1>5. CASE op.op = OP_MOV
  BY <1>1, <1>5 DEF Result, AluResult, Datb
<1>6. CASE op.op = OP_MOVI
  BY <1>1, <1>6 DEF Result, AluResult
<1>7. CASE op.op = OP_SET
  <2>1. r_sr.Z \in BOOLEAN /\ r_sr.S \in BOOLEAN
    BY DEF TypeOK
  <2>2. func_alu_should_set(op.imm8, CoreFlags)
          <=> \/ op.imm8 = JMP_JE /\ r_sr.Z
              \/ op.imm8 = JMP_JL /\ r_sr.S
              \/ op.imm8 = JMP_JG /\ ~r_sr.Z /\ ~r_sr.S
    BY <2>1 DEF func_alu_should_set, CoreFlags
  <2>3. Result = IF alu_should_set(op.imm8) THEN 1 ELSE 0
    BY <1>7 DEF Result
  <2>4. Machine!Value = IF func_alu_should_set(op.imm8, CoreFlags) THEN 1 ELSE 0
    BY <1>1, <1>7 DEF AluResult
  <2>. QED
    BY <1>7, <2>2, <2>3, <2>4 DEF alu_should_set, JMP_JE, JMP_JL, JMP_JG, JMP_JLE
<1>. QED
  BY <1>2, <1>3, <1>4, <1>5, <1>6, <1>7 DEF ComputeOps

LEMMA AluAgrees ==
  ASSUME TypeOK, Alu
  PROVE  Defined' /\ Machine!Next <=> ~Diverges
<1>1. mode = "running" /\ InMem(pc) /\ (op.op = OP_SUB \/ op.op \in ComputeOps)
  BY DEF Alu, Runs, ComputeOps
<1>2. /\ Defined' /\ Machine!GoOn /\ Machine!Silent /\ ~Machine!Halt
      /\ (mode' = "halted") = (mode = "halted")
  BY <1>1, GoesOn DEF Alu
<1>3. CASE op.op = OP_SUB
  <2>1. Halts(op.op)
    BY <1>3 DEF Halts, Decoded, OP_NOP, OP_LW, OP_SW, OP_MOV, OP_MOVI, OP_ADD, OP_ADDI, OP_SUB,
                OP_SUBI, OP_JMP, OP_CMP, OP_WRITE, OP_SET
  <2>2. Diverges
    BY <1>1, <1>3 DEF Diverges
  <2>. QED
    BY <1>1, <1>2, <2>1, <2>2, MachineDispatch
<1>4. CASE op.op \in ComputeOps
  <2>1. /\ RegWe(op.op) /\ ~ReqRam(op.op) /\ op.op # OP_JMP
        /\ op.op \notin Ignored \cup {OP_SUB, OP_LW, OP_SW, OP_CMP, OP_WRITE}
        /\ ~Undecodable(op.op)
    BY <1>4 DEF ComputeOps, RegWe, ReqRam, Ignored, Undecodable, OP_LW, OP_SW, OP_MOV, OP_MOVI,
                OP_ADD, OP_ADDI, OP_SUB, OP_SUBI, OP_JMP, OP_CMP, OP_WRITE, OP_SET, OP_PUSH,
                OP_POP, OP_NEG, OP_CALL, OP_RET, OP_READ, OP_BEQ, OP_SPC
  <2>2. Diverges <=> op.op = OP_SET /\ op.imm8 = JMP_JLE /\ (r_sr.Z \/ r_sr.S)
    BY <1>1, <2>1 DEF Diverges
  <2>3. Machine!Next <=> r_regs' = [r_regs EXCEPT ![op.regD] = Machine!Value]
    <3>1. Machine!Compute <=> r_regs' = [r_regs EXCEPT ![op.regD] = Machine!Value]
      BY <1>1, <1>2, <2>1, MachineView, MachineIsa DEF Machine!Compute, Alu
    <3>. QED
      BY <1>1, <1>4, <3>1, MachineDispatch
  <2>4. r_regs' = [r_regs EXCEPT ![op.regD] = Result]
    BY DEF Alu, SetD
  <2>5. op.regD \in DOMAIN r_regs
    BY <1>1, CurrentOp DEF TypeOK
  <2>6. r_regs' = [r_regs EXCEPT ![op.regD] = Machine!Value] <=> Result = Machine!Value
    BY <2>4, <2>5
  <2>. QED
    BY <1>1, <1>2, <1>4, <2>2, <2>3, <2>6, ResultIsValue
<1>. QED
  BY <1>1, <1>3, <1>4

LEMMA NopAgrees ==
  ASSUME TypeOK, NopOrIgnored
  PROVE  Defined' /\ Machine!Next <=> ~Diverges
<1>1. mode = "running" /\ InMem(pc) /\ (op.op = OP_NOP \/ op.op \in Ignored)
  BY DEF NopOrIgnored, Runs
<1>2. /\ Defined' /\ Machine!GoOn /\ Machine!Silent /\ ~Machine!Halt
      /\ (mode' = "halted") = (mode = "halted")
  BY <1>1, GoesOn DEF NopOrIgnored
<1>. USE DEF Ignored, Decoded, OP_NOP, OP_LW, OP_SW, OP_MOV, OP_MOVI, OP_ADD, OP_ADDI, OP_SUB,
             OP_SUBI, OP_JMP, OP_CMP, OP_WRITE, OP_SET, OP_PUSH, OP_POP, OP_NEG, OP_CALL,
             OP_RET, OP_READ, OP_BEQ, OP_SPC
<1>3. CASE op.op = OP_NOP
  <2>1. ~Diverges
    BY <1>1, <1>3 DEF Diverges, Undecodable
  <2>2. Machine!Nop
    BY <1>1, <1>2, <1>3, MachineView, MachineIsa DEF Machine!Nop, NopOrIgnored
  <2>. QED
    BY <1>1, <1>2, <1>3, <2>1, <2>2, MachineDispatch
<1>4. CASE op.op \in Ignored
  <2>1. Halts(op.op)
    BY <1>4 DEF Halts
  <2>2. Diverges
    BY <1>1, <1>4 DEF Diverges
  <2>. QED
    BY <1>1, <1>2, <2>1, <2>2, MachineDispatch
<1>. QED
  BY <1>1, <1>3, <1>4

(* A data address inside the memory is the core's.                         *)
LEMMA AddressIsValue ==
  ASSUME TypeOK, mode = "running", InMem(pc), op.op \in {OP_LW, OP_SW}, InMem(Address)
  PROVE  /\ Machine!MemIndex(Machine!Value) = Address
         /\ Address \in 0 .. MemWords /\ Address # MemWords
<1>1. Address \in Int
  BY DEF InMem
<1>2. Machine!MemIndex(Address) = Address /\ Wrap(Address) = Address
      /\ Address \in 0 .. MemWords /\ Address # MemWords
  BY <1>1, SmallIndex
<1>3. Datb = RegA
  BY DEF Datb, OP_LW, OP_SW, OP_SET
<1>4. Machine!Value = Wrap(Datb + Signed5(Simm5(lmem[pc])))
  BY MachineView DEF AluResult, OP_LW, OP_SW, OP_JMP, OP_SET, OP_MOV, OP_WRITE, OP_MOVI, OP_ADD,
                     OP_ADDI, OP_SUBI
<1>5. Address = Datb + Signed5(Simm5(lmem[pc]))
  BY <1>3, CurrentOp DEF Address, RegA
<1>. QED
  BY <1>2, <1>4, <1>5

LEMMA LwAgrees ==
  ASSUME TypeOK, Lw
  PROVE  Defined' /\ Machine!Next <=> ~Diverges
<1>1. mode = "running" /\ InMem(pc) /\ op.op = OP_LW /\ InMem(Address)
  BY DEF Lw, Runs
<1>2. /\ Defined' /\ Machine!GoOn /\ Machine!Silent
      /\ (mode' = "halted") = (mode = "halted")
  BY <1>1, GoesOn DEF Lw
<1>3. ~Diverges
  BY <1>1 DEF Diverges, Undecodable, Ignored, OP_LW, OP_SW, OP_CMP, OP_JMP, OP_SET, OP_WRITE,
              OP_SUB, OP_PUSH, OP_POP, OP_NEG, OP_CALL, OP_RET, OP_READ, OP_BEQ, OP_SPC
<1>4. /\ Machine!MemIndex(Machine!Value) = Address
      /\ Address \in 0 .. MemWords /\ Address # MemWords
  BY <1>1, AddressIsValue
<1>5. r_regs' = [r_regs EXCEPT ![op.regD] = lmem[Address]]
  BY DEF Lw, SetD
<1>6. Machine!Load
  BY <1>1, <1>2, <1>4, <1>5, MachineView, MachineIsa DEF Machine!Load, Lw
<1>. QED
  BY <1>1, <1>2, <1>3, <1>6, MachineDispatch

LEMMA SwAgrees ==
  ASSUME TypeOK, Sw
  PROVE  Defined' /\ Machine!Next <=> ~Diverges
<1>1. mode = "running" /\ InMem(pc) /\ op.op = OP_SW /\ InMem(Address)
  BY DEF Sw, Runs
<1>2. /\ Defined' /\ Machine!GoOn /\ Machine!Silent
      /\ (mode' = "halted") = (mode = "halted")
  BY <1>1, GoesOn DEF Sw
<1>3. ~Diverges
  BY <1>1 DEF Diverges, Undecodable, Ignored, OP_LW, OP_SW, OP_CMP, OP_JMP, OP_SET, OP_WRITE,
              OP_SUB, OP_PUSH, OP_POP, OP_NEG, OP_CALL, OP_RET, OP_READ, OP_BEQ, OP_SPC
<1>4. /\ Machine!MemIndex(Machine!Value) = Address
      /\ Address \in 0 .. MemWords /\ Address # MemWords
  BY <1>1, AddressIsValue
<1>5. lmem' = [lmem EXCEPT ![Address] = RegD] /\ DOMAIN lmem = 0 .. MemWords - 1
  BY DEF Sw, TypeOK
<1>6. [a \in 0 .. MemWords |-> IF a = MemWords THEN 0 ELSE lmem'[a]]
        = [[a \in 0 .. MemWords |-> IF a = MemWords THEN 0 ELSE lmem[a]]
             EXCEPT ![Address] = RegD]
  <2>1. MemWords \in Nat
    BY DEF MemWords
  <2>2. \A a \in 0 .. MemWords : a # MemWords =>
          lmem'[a] = IF a = Address THEN RegD ELSE lmem[a]
    BY <1>5, <2>1
  <2>. QED
    BY <1>4, <2>2
<1>7. Machine!Store
  BY <1>1, <1>2, <1>4, <1>6, MachineView, MachineIsa DEF Machine!Store, Sw
<1>. QED
  BY <1>1, <1>2, <1>3, <1>7, MachineDispatch

(* The emulator's comparison is the core's without the overflow flag.      *)
LEMMA CompareFlags ==
  ASSUME NEW a \in Word, NEW b \in Word
  PROVE  [Z |-> alu_cmp(a, b).Z, S |-> alu_cmp(a, b).S, O |-> FALSE] = func_alu_cmp(a, b)
           <=> ~(Wrap(a - b) \div 16384 \in {1, 2})
<1>1. a \in Int /\ 0 <= a /\ a <= 65535 /\ b \in Int /\ 0 <= b /\ b <= 65535
  BY WordRange
<1>2. Wrap(a - b) = 0 <=> a = b
  BY <1>1 DEF Wrap
<1> DEFINE over == Wrap(a - b) \div 16384 \in {1, 2}
<1>3. /\ alu_cmp(a, b).Z = func_alu_cmp(a, b).Z
      /\ alu_cmp(a, b).S = func_alu_cmp(a, b).S
      /\ func_alu_cmp(a, b).O = over
  BY <1>2 DEF alu_cmp, func_alu_cmp
<1>4. over \in BOOLEAN
  OBVIOUS
<1>. HIDE DEF over
<1>5. func_alu_cmp(a, b) = [Z |-> func_alu_cmp(a, b).Z, S |-> func_alu_cmp(a, b).S,
                            O |-> func_alu_cmp(a, b).O]
  BY DEF func_alu_cmp
<1>6. func_alu_cmp(a, b) = [Z |-> alu_cmp(a, b).Z, S |-> alu_cmp(a, b).S, O |-> over]
  BY <1>3, <1>5
<1>7. ASSUME NEW z, NEW s, NEW f \in BOOLEAN, NEW r, r = [Z |-> z, S |-> s, O |-> f]
      PROVE  [Z |-> z, S |-> s, O |-> FALSE] = r <=> ~f
  BY <1>7
<1>8. [Z |-> alu_cmp(a, b).Z, S |-> alu_cmp(a, b).S, O |-> FALSE] = func_alu_cmp(a, b)
        <=> ~over
  BY ONLY <1>4, <1>6, <1>7
<1>. QED
  BY ONLY <1>8 DEF over

LEMMA CmpAgrees ==
  ASSUME TypeOK, Cmp
  PROVE  Defined' /\ Machine!Next <=> ~Diverges
<1>1. mode = "running" /\ InMem(pc) /\ op.op = OP_CMP
  BY DEF Cmp, Runs
<1>2. /\ Defined' /\ Machine!GoOn /\ Machine!Silent
      /\ (mode' = "halted") = (mode = "halted")
  BY <1>1, GoesOn DEF Cmp
<1>3. Diverges <=> Wrap(RegD - RegA) \div 16384 \in {1, 2}
  BY <1>1 DEF Diverges, Undecodable, Ignored, OP_LW, OP_SW, OP_CMP, OP_JMP, OP_SET, OP_WRITE,
              OP_SUB, OP_PUSH, OP_POP, OP_NEG, OP_CALL, OP_RET, OP_READ, OP_BEQ, OP_SPC
<1>4. Datb = RegA
  BY <1>1 DEF Datb, OP_CMP, OP_SET
<1>5. Machine!Compare <=> [Z |-> r_sr'.Z, S |-> r_sr'.S, O |-> FALSE] = func_alu_cmp(RegD, RegA)
  BY <1>1, <1>2, <1>4, MachineView, MachineIsa DEF Machine!Compare, Cmp
<1>6. r_sr' = alu_cmp(RegD, RegA) /\ RegD \in Word /\ RegA \in Word
  BY <1>1, CurrentOp DEF Cmp
<1>7. Machine!Compare <=> ~Diverges
  <2>1. /\ r_sr'.Z = alu_cmp(RegD, RegA).Z
        /\ r_sr'.S = alu_cmp(RegD, RegA).S
    BY <1>6
  <2>. QED
    BY <1>3, <1>5, <1>6, <2>1, CompareFlags
<1>. QED
  BY <1>1, <1>2, <1>7, MachineDispatch

\* The conditions on which emulator and core decide otherwise.
Decides == \/ op.imm8 = JMP_JS
           \/ op.imm8 \in {JMP_JGE, JMP_JNS} /\ ~r_sr.S
           \/ op.imm8 = JMP_JL /\ r_sr.Z /\ ~r_sr.S

LEMMA JumpsDiffer ==
  ASSUME TypeOK, InMem(pc)
  PROVE  (alu_should_jmp(op.imm8) <=> func_alu_should_jmp(op.imm8, CoreFlags)) <=> ~Decides
<1>1. r_sr.Z \in BOOLEAN /\ r_sr.S \in BOOLEAN
  BY DEF TypeOK
<1>2. func_alu_should_jmp(op.imm8, CoreFlags)
        <=> \/ op.imm8 = JMP_J
            \/ op.imm8 = JMP_JE  /\ r_sr.Z
            \/ op.imm8 = JMP_JNE /\ ~r_sr.Z
            \/ op.imm8 = JMP_JS  /\ r_sr.S
            \/ op.imm8 = JMP_JNS /\ ~r_sr.S
            \/ op.imm8 = JMP_JG  /\ ~r_sr.Z /\ ~r_sr.S
            \/ op.imm8 = JMP_JGE /\ ~r_sr.S
            \/ op.imm8 = JMP_JL  /\ r_sr.S
            \/ op.imm8 = JMP_JLE /\ (r_sr.Z \/ r_sr.S)
  BY <1>1 DEF func_alu_should_jmp, CoreFlags
<1>. QED
  BY <1>2 DEF alu_should_jmp, Decides, JMP_J, JMP_JE, JMP_JNE, JMP_JS, JMP_JNS, JMP_JG, JMP_JGE,
              JMP_JL, JMP_JLE

LEMMA JmpAgrees ==
  ASSUME TypeOK, Jmp
  PROVE  Defined' /\ Machine!Next <=> ~Diverges
<1>1. mode = "running" /\ mode' = "running" /\ InMem(pc) /\ op.op = OP_JMP
  BY DEF Jmp, Runs
<1>2. Diverges <=> RegD # Wrap(pc + 1) /\ Decides
  BY <1>1 DEF Diverges, OtherJump, Decides, Undecodable, Ignored, OP_LW, OP_SW, OP_CMP, OP_JMP,
              OP_SET, OP_WRITE, OP_SUB, OP_PUSH, OP_POP, OP_NEG, OP_CALL, OP_RET, OP_READ, OP_BEQ,
              OP_SPC
<1>3. Machine!Silent /\ (Machine!GoOn <=> pc' = Wrap(pc + 1))
  BY <1>1, MachineIsa DEF Jmp, Quiet, Machine!Silent, Machine!GoOn
<1>4. Machine!Jump <=> IF func_alu_should_jmp(op.imm8, CoreFlags)
                       THEN pc' = RegD ELSE pc' = Wrap(pc + 1)
  BY <1>1, <1>3, MachineView, MachineIsa DEF Machine!Jump, Jmp, CoreFlags
<1>5. IF alu_should_jmp(op.imm8) THEN pc' = RegD ELSE pc' = Wrap(pc + 1)
  BY DEF Jmp
<1>6. Machine!Jump <=> ~Diverges
  BY <1>1, <1>2, <1>4, <1>5, JumpsDiffer
<1>. QED
  BY <1>1, <1>6, MachineDispatch DEF Defined

LEMMA WriteAgrees ==
  ASSUME TypeOK, Write
  PROVE  Defined' /\ Machine!Next <=> ~Diverges
<1>1. mode = "running" /\ InMem(pc) /\ op.op = OP_WRITE
      /\ (op.port = UART1 => Len(uart_tx_buf) < TxBufMax)
  BY DEF Write, Runs
<1>2. Defined' /\ Machine!GoOn /\ (mode' = "halted") = (mode = "halted")
  BY <1>1, GoesOn DEF Write
<1>3. op.port = UART1 => Len(uart_tx_buf) # TxBufMax
  <2>1. Len(uart_tx_buf) \in Nat
    BY LenProperties DEF TypeOK
  <2>2. \A n \in Nat : n < TxBufMax => n # TxBufMax
    BY DEF TxBufMax
  <2>. QED
    BY <1>1, <2>1, <2>2
<1>4. Diverges <=> op.port # UART1 \/ RegD % 256 # RegA % 256
  BY <1>1, <1>3 DEF Diverges, Undecodable, Ignored, OP_LW, OP_SW, OP_CMP, OP_JMP, OP_SET,
       OP_WRITE, OP_SUB, OP_PUSH, OP_POP, OP_NEG, OP_CALL, OP_RET, OP_READ, OP_BEQ, OP_SPC
<1>5. Machine!Value = RegA
  <2>1. Datb = RegA
    BY <1>1 DEF Datb, OP_WRITE, OP_SET
  <2>2. \A data, datb, imm8, simm5, sr :
          AluResult(OP_WRITE, data, datb, imm8, simm5, sr) = datb
    BY DEF AluResult, OP_LW, OP_SW, OP_JMP, OP_SET, OP_MOV, OP_WRITE, OP_MOVI, OP_ADD,
           OP_ADDI, OP_SUBI
  <2>. QED
    BY <1>1, <2>1, <2>2, MachineView
<1>6. Machine!Write <=> uart' = RegA % 256
  BY <1>1, <1>2, <1>5, MachineView, MachineIsa DEF Machine!Write, Write
<1>7. RegA % 256 # NoByte
  <2>1. RegA \in Word
    BY <1>1, CurrentOp
  <2>2. \A w \in Word : w % 256 \in 0 .. 255
    BY LowByte
  <2>. QED
    BY <2>1, <2>2 DEF NoByte
<1>8. uart' = IF op.port = UART1 THEN RegD % 256 ELSE NoByte
  BY DEF Write, Quiet
<1>. QED
  BY <1>1, <1>2, <1>4, <1>6, <1>7, <1>8, MachineDispatch

LEMMA HaltAgrees ==
  ASSUME TypeOK, Halt
  PROVE  Defined' /\ Machine!Next <=> ~Diverges
<1>1. mode = "running" /\ mode' = "halted" /\ InMem(pc) /\ op.op = OP_HALT
  BY DEF Halt, Runs
<1>2. Halts(op.op)
  BY <1>1 DEF Halts, Decoded, OP_HALT, OP_NOP, OP_LW, OP_SW, OP_MOV, OP_MOVI, OP_ADD, OP_ADDI,
              OP_SUBI, OP_JMP, OP_CMP, OP_WRITE, OP_SET
<1>3. ~Diverges
  BY <1>1 DEF Diverges, OP_HALT, Undecodable, Ignored, OP_LW, OP_SW, OP_CMP, OP_JMP,
       OP_SET, OP_WRITE, OP_SUB, OP_PUSH, OP_POP, OP_NEG, OP_CALL, OP_RET, OP_READ, OP_BEQ, OP_SPC
<1>4. Machine!GoOn /\ Machine!Silent
  BY <1>1, MachineIsa DEF Halt, Quiet, Machine!GoOn, Machine!Silent
<1>5. Machine!Halt
  BY <1>1, <1>2, <1>4, MachineView, MachineIsa DEF Machine!Halt, Halt
<1>. QED
  BY <1>1, <1>2, <1>3, <1>5, MachineDispatch DEF Defined

LEMMA StopAgrees ==
  ASSUME TypeOK, Abort \/ Overrun
  PROVE  Defined' /\ Machine!Next <=> ~Diverges
<1>1. ~Defined'
  BY DEF Abort, Overrun, Defined
<1>2. Diverges
  <2>1. CASE Abort
    BY <2>1 DEF Abort, Diverges
  <2>2. CASE Overrun
    BY <2>2 DEF Overrun, Runs, Diverges
  <2>. QED
    BY <2>1, <2>2
<1>. QED
  BY <1>1, <1>2

(* Whatever the program, the emulator's step is the core's instruction but *)
(* where Diverges says otherwise, and there it never is.                   *)
THEOREM EmulatorAgreesWithCore == Spec => AgreesWithCore
<1>1. TypeOK /\ [Next]_evars => [Defined' /\ Machine!Next <=> ~Diverges]_evars
  BY AluAgrees, NopAgrees, SwAgrees, LwAgrees, CmpAgrees, JmpAgrees, WriteAgrees, HaltAgrees,
     StopAgrees DEF Next
<1>. QED
  BY <1>1, EmulatorTypeCorrect, PTL DEF Spec, AgreesWithCore
=============================================================================
