---------------------------- MODULE PrcoCoreArch ----------------------------
(***************************************************************************)
(* PrcoCore with a history variable: the architectural state as it stands  *)
(* at the edge that ends an instruction, when every effect of it has been  *)
(* committed.  In free-running mode its behaviours are those of the        *)
(* sequential machine PrcoMachine.                                         *)
(***************************************************************************)
EXTENDS PrcoCore

VARIABLE arch      \* pc, registers, memory, flags, halted, byte sent, UART's flag

avars == <<vars, arch>>

NoByte == 256

InitArch ==
  /\ Init
  /\ arch = [pc |-> 0, r_lmem |-> r_lmem, r_sr |-> ClearFlags,
             r_regs |-> [r \in Reg |-> IF r = REG_SP THEN 255 ELSE 0],
             halted |-> FALSE, uart |-> NoByte, tx_fifo_full |-> FALSE]

\* The token returns to the core: i_ce, but for the pulses that reset raises.
Retires == ~i_reset /\ i_ce /\ ~core.r_cpu_init

\* full is the UART's tx_fifo_full at this edge.
ArchTick(step, full) ==
  /\ Tick(step)
  /\ arch' = IF Retires
             THEN [pc |-> core'.pc, r_regs |-> r_regs', r_lmem |-> r_lmem',
                   r_sr |-> r_sr', halted |-> ctl.q_halt,
                   uart |-> IF uart_transmit(full)
                            THEN alu.q_result % 256 ELSE NoByte,
                   tx_fifo_full |-> full]
             ELSE arch

NextArch == \E step, full \in BOOLEAN : (step => StepAllowed) /\ ArchTick(step, full)

SpecArch     == InitArch /\ [][NextArch]_avars
FairSpecArch == SpecArch /\ WF_avars(NextArch)    \* the clock never stops

Machine == INSTANCE PrcoMachine
             WITH pc <- arch.pc, r_regs <- arch.r_regs, r_lmem <- arch.r_lmem,
                  r_sr <- arch.r_sr, halted <- arch.halted, uart <- arch.uart,
                  tx_fifo_full <- arch.tx_fifo_full

(* The pipeline executes the program one whole instruction at a time: each *)
(* retirement is one step of the sequential machine.                       *)
RefinesMachine == Machine!Spec
-----------------------------------------------------------------------------
(* The strengthening behind RefinesMachine: what the token carries.  Here  *)
(* Machine's operators speak of the instruction that arch has come to.     *)
Taken == /\ Op(Machine!Instr) = OP_JMP
         /\ func_alu_should_jmp(Imm8(Machine!Instr), arch.r_sr)

Loaded == arch.r_lmem[MemIndex(Machine!Value)]

\* Reset has put the architectural registers where arch starts from.
AtReset ==
  /\ core.pc = 0 /\ arch.pc = 0 /\ ~arch.halted
  /\ r_lmem = arch.r_lmem /\ r_sr = arch.r_sr
  /\ arch.r_regs = Machine!ResetRegs /\ (core.r_cpu_init => r_regs = arch.r_regs)
  /\ ctl = Latched(0)

\* pc is one ahead of the instruction from its issue on; its word travels from
\* the memory port to the decoder.
Fetched ==
  /\ core.pc = IF core.i_ce_reg THEN arch.pc ELSE Wrap(arch.pc + 1)
  /\ arch.halted <=> core.i_ce_reg /\ ctl.q_halt
  /\ core.q_ce => port.r_mem_addr = arch.pc
  /\ lmem.q_ce_dec => lmem.q_mem_douta = Machine!Instr

\* The token's operands in stage n: registers, result, address, loaded word.
Carries(n) ==
  /\ n >= 1 => ctl.q_instr = Machine!Instr /\ (n = 2 <=> SkipsAlu(Op(Machine!Instr)))
  /\ n >= 3 => regs.q_data = Machine!Data /\ regs.q_datb = Machine!Datb
  /\ n >= 4 => alu.q_result = Machine!Value
  /\ n = 4 => (alu.q_should_branch <=> Taken)
  /\ n \in 4 .. 8 => (n = 4 <=> ~ReqRam(Op(Machine!Instr)))
  /\ n \in {6, 7} => port.r_mem_addr = Machine!Value
  /\ n = 8 => lmem.q_mem_douta = Loaded
  /\ n = 9 => /\ port.r_reg_dina = IF ReqRam(Op(Machine!Instr)) THEN Loaded ELSE Machine!Value
              /\ core.core_state = 1 <=> Taken

\* What the instruction has changed by stage n: the flags in the ALU, the
\* memory behind the port; its register only when it retires.
Committed(n) ==
  /\ r_regs = arch.r_regs
  /\ r_sr = IF n >= 4 /\ Op(Machine!Instr) = OP_CMP
            THEN func_alu_cmp(Machine!Data, Machine!Datb) ELSE arch.r_sr
  /\ r_lmem = IF n >= 8 /\ Op(Machine!Instr) = OP_SW
              THEN [arch.r_lmem EXCEPT ![MemIndex(Machine!Value)] = Machine!Data]
              ELSE arch.r_lmem

\* Some stage holds the token, with what it carries and what it has changed.
Held == \E n \in 0 .. 9 : Stage(n) /\ Carries(n) /\ Committed(n)

DataHeld == IF PhaseReset THEN AtReset ELSE Fetched /\ Held

(* Free running, the pipeline holds one instruction's operands and no      *)
(* other's: nothing it carries is stale when it is used (prco_core.v's     *)
(* port and branch states, prco_lmem.v, prco_regs.v, prco_alu.v).          *)
DataInv ==
  /\ ctl = Latched(ctl.q_instr)
  /\ env.i_mode = 0 => DataHeld
=============================================================================
