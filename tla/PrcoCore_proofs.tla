--------------------------- MODULE PrcoCore_proofs ---------------------------
(* Proofs about the clocked core, for every program, memory size, debug    *)
(* mode, length of reset and spacing of the step pulses; and that, free    *)
(* running, it implements the sequential machine.                          *)
EXTENDS PrcoCoreArch, PrcoIsa_proofs

USE DEF i_reset

(* Only the low address lines reach the memory.                            *)
LEMMA MemIndexType ==
  ASSUME NEW a \in Word PROVE MemIndex(a) \in 0 .. MemDepth - 1
<1>1. MemDepth \in Nat \ {0}
  BY CoreAssumption
<1>2. a \in Int
  BY WordRange
<1>3. \A i \in Int, n \in Nat \ {0} : i % n \in 0 .. n - 1
  OBVIOUS
<1>. QED
  BY <1>1, <1>2, <1>3 DEF MemIndex

LEMMA Max0Type ==
  ASSUME NEW n \in Nat, NEW i \in 0 .. n PROVE Max0(i - 1) \in 0 .. n
  BY DEF Max0

(* Power-on values are of their type.                                      *)
LEMMA TypeInit == Init => TypeOK
<1> SUFFICES ASSUME Init PROVE TypeOK
  OBVIOUS
<1>1. 0 \in Word /\ 0 \in Reg
  BY WordFacts DEF Reg
<1>2. core \in CoreType
  BY <1>1 DEF Init, CoreType
<1>3. port \in PortType /\ lmem \in LmemType
  BY <1>1 DEF Init, PortType, LmemType
<1>4. dec \in DecType /\ ctl \in CtlType
  BY <1>1 DEF Init, DecType, CtlType
<1>5. regs \in RegsType /\ alu \in AluType /\ r_regs \in [Reg -> Word]
  BY <1>1 DEF Init, RegsType, AluType
<1>6. r_lmem \in [0 .. MemDepth - 1 -> Word]
  BY CoreAssumption DEF Init
<1>7. r_sr \in Flags
  BY DEF Init, Flags, ClearFlags
<1>8. env \in EnvType
  BY CoreAssumption DEF Init, EnvType
<1>9. QED
  BY <1>2, <1>3, <1>4, <1>5, <1>6, <1>7, <1>8 DEF TypeOK

(* The core's control block keeps its registers in their types.            *)
LEMMA CoreTypeStep ==
  ASSUME TypeOK, NEW step \in BOOLEAN, CoreControl(step)
  PROVE  core' \in CoreType
<1>1. core \in CoreType /\ alu.q_result \in Word
  BY DEF TypeOK, AluType
<1>2. Ready \in BOOLEAN /\ BranchSeen \in 0 .. 4
  BY DEF TypeOK, CoreType, RegsType, DecType, i_ce, Ready, BranchSeen
<1>3. core.pc \in Word
  BY <1>1 DEF CoreType
<1>4. Wrap(core.pc + 1) \in Word /\ 0 \in Word
  BY <1>3, WordFacts
<1>5. CASE CoreReset
  BY <1>1, <1>4, <1>5 DEF CoreReset, CoreType
<1>6. CASE CoreHalted
  BY <1>2, <1>3, <1>6 DEF CoreHalted, Clocked, CoreType
<1>7. CASE CoreWait(step)
  BY <1>2, <1>3, <1>7 DEF CoreWait, Clocked, CoreType
<1>8. CASE CoreIssue(step)
  BY <1>2, <1>4, <1>8 DEF CoreIssue, Clocked, CoreType
<1>9. CASE CoreBranchLoad
  BY <1>1, <1>2, <1>9 DEF CoreBranchLoad, Clocked, CoreType
<1>10. CASE CoreBranchFetch
  BY <1>2, <1>3, <1>10 DEF CoreBranchFetch, Clocked, CoreType
<1>11. CASE CoreBranchDelay
  BY <1>2, <1>3, <1>11 DEF CoreBranchDelay, Clocked, CoreType
<1>12. QED
  BY <1>5, <1>6, <1>7, <1>8, <1>9, <1>10, <1>11 DEF CoreControl

(* The memory port and the memory.                                         *)
LEMMA MemoryTypeStep ==
  ASSUME TypeOK, MemPort, LmemTick
  PROVE  port' \in PortType /\ lmem' \in LmemType
         /\ r_lmem' \in [0 .. MemDepth - 1 -> Word]
<1>1. port \in PortType /\ lmem \in LmemType /\ alu \in AluType
      /\ core.pc \in Word /\ core.q_ce \in BOOLEAN /\ regs.q_data \in Word
      /\ r_lmem \in [0 .. MemDepth - 1 -> Word]
  BY DEF TypeOK, CoreType, RegsType
<1>2. WriteBackOperand \in Word
  BY <1>1 DEF WriteBackOperand, LmemType, AluType
<1>3. port' \in PortType
  BY <1>1, <1>2 DEF MemPort, PortType, AluType
<1>4. MemIndex(port.r_mem_addr) \in 0 .. MemDepth - 1
  BY <1>1, MemIndexType DEF PortType
<1>5. r_lmem[MemIndex(port.r_mem_addr)] \in Word
  BY <1>1, <1>4
<1>6. lmem' \in LmemType
  BY <1>1, <1>5 DEF LmemTick, LmemType, PortType
<1>7. r_lmem' \in [0 .. MemDepth - 1 -> Word]
  BY <1>1, <1>4 DEF LmemTick
<1>8. QED
  BY <1>3, <1>6, <1>7

(* The decoder, the registers and the ALU.                                 *)
LEMMA DatapathTypeStep ==
  ASSUME TypeOK, DecoderTick, RegsTick, AluTick, port.r_reg_dina \in Word
  PROVE  /\ dec' \in DecType /\ ctl' \in CtlType
         /\ regs' \in RegsType /\ r_regs' \in [Reg -> Word]
         /\ alu' \in AluType /\ r_sr' \in Flags
<1>1. dec \in DecType /\ ctl \in CtlType /\ regs \in RegsType /\ alu \in AluType /\ lmem \in LmemType
      /\ r_regs \in [Reg -> Word] /\ r_sr \in Flags
  BY DEF TypeOK
<1>2. dec' \in DecType /\ ctl' \in CtlType
  <2>1. lmem.q_mem_douta \in Word /\ SelA(lmem.q_mem_douta) \in Reg
    BY <1>1, FieldTypes DEF LmemType
  <2>2. QED
    BY <1>1, <2>1 DEF DecoderTick, Latched, DecType, CtlType, LmemType, SkipsAlu, RegWe,
                      ReqRam, ReqRamWe, NewUart, Halts
<1>3. r_regs' \in [Reg -> Word] /\ regs' \in RegsType
  <2>1. CASE RegsReset
    BY <1>1, <2>1, WordFacts DEF RegsReset, RegsType
  <2>2. CASE RegsAccess
    <3>1. Rd(ctl.q_instr) \in Reg /\ ctl.q_sela \in Reg
      BY <1>1, FieldTypes DEF CtlType
    <3>2. QED
      BY <1>1, <2>2, <3>1 DEF RegsAccess, RegsType, DecType, CtlType, LmemType, AluType
  <2>3. QED
    BY <2>1, <2>2 DEF RegsTick
<1>4. alu' \in AluType /\ r_sr' \in Flags
  <2> DEFINE w == ctl.q_instr
  <2>1. w \in Word /\ regs.q_data \in Word /\ regs.q_datb \in Word
    <3>1. w \in Word
      BY <1>1 DEF CtlType
    <3>2. regs.q_data \in Word /\ regs.q_datb \in Word
      BY <1>1 DEF RegsType
    <3>. QED
      BY <3>1, <3>2
  <2>2. AluResult(Op(w), regs.q_data, regs.q_datb, Imm8(w), Simm5(w), r_sr) \in Word
    BY <1>1, <2>1, FieldTypes, AluResultType, Zenon
  <2>3. func_alu_cmp(regs.q_data, regs.q_datb) \in Flags
    BY <2>1, CmpType
  <2>4. r_sr' \in Flags
    BY <1>1, <2>3 DEF AluTick
  <2>5. alu' \in AluType
    BY <1>1, <2>2 DEF AluTick, AluType, RegsType, CtlType
  <2>6. QED
    BY <2>4, <2>5
<1>5. QED
  BY <1>2, <1>3, <1>4

(* Every edge of the core keeps every register within its width, whatever  *)
(* the environment does with i_step.                                       *)
LEMMA TypeStep ==
  ASSUME TypeOK, NEW step \in BOOLEAN, Tick(step) PROVE TypeOK'
<1>1. core' \in CoreType
  BY CoreTypeStep DEF Tick
<1>2. port' \in PortType /\ lmem' \in LmemType
      /\ r_lmem' \in [0 .. MemDepth - 1 -> Word]
  BY MemoryTypeStep DEF Tick
<1>3. port.r_reg_dina \in Word
  BY DEF TypeOK, PortType
<1>4. /\ dec' \in DecType /\ ctl' \in CtlType
      /\ regs' \in RegsType /\ r_regs' \in [Reg -> Word]
      /\ alu' \in AluType /\ r_sr' \in Flags
  BY <1>3, DatapathTypeStep DEF Tick
<1>5. env' \in EnvType
  BY CoreAssumption, Max0Type DEF Tick, EnvTick, TypeOK, EnvType
<1>. QED
  BY <1>1, <1>2, <1>4, <1>5 DEF TypeOK

(* Every register keeps a value of its width, whatever the program does.   *)
THEOREM TypeCorrect == Spec => []TypeOK
<1>1. Init => TypeOK
  BY TypeInit
<1>2. TypeOK /\ [Next]_vars => TypeOK'
  <2> SUFFICES ASSUME TypeOK, [Next]_vars PROVE TypeOK'
    OBVIOUS
  <2>1. CASE UNCHANGED vars
    BY <2>1 DEF vars, TypeOK
  <2>2. QED
    BY <2>1, TypeStep DEF Next
<1>3. QED
  BY <1>1, <1>2, PTL DEF Spec
-----------------------------------------------------------------------------
(* What one clock edge does to the pulses outside prco_core's control      *)
(* block, as equivalences.                                                 *)
LEMMA PulseStep ==
  ASSUME TypeOK, NEW step \in BOOLEAN, Tick(step)
  PROVE  /\ dec'.q_ce <=> /\ lmem.q_ce_dec /\ ~dec.q_ce
                          /\ ~SkipsAlu(Op(lmem.q_mem_douta))
         /\ dec'.q_fetch <=> /\ lmem.q_ce_dec /\ ~dec.q_fetch
                             /\ SkipsAlu(Op(lmem.q_mem_douta))
         /\ alu'.q_ce_reg <=> /\ regs.q_ce_alu /\ ~ctl.q_req_ram
                              /\ ~(alu.q_ce_ram \/ alu.q_ce_reg \/ alu.q_should_branch)
         /\ alu'.q_ce_ram <=> /\ regs.q_ce_alu /\ ctl.q_req_ram
                              /\ ~(alu.q_ce_ram \/ alu.q_ce_reg \/ alu.q_should_branch)
         /\ alu'.q_should_branch => regs.q_ce_alu /\ Op(ctl.q_instr) = OP_JMP
         /\ port'.r_mem_int_i_ce <=> alu.q_ce_ram
         /\ port'.r_mem_i_ce <=> \/ port.r_mem_int_i_ce /\ ~alu.q_ce_ram
                                 \/ alu.q_ce_ram /\ port.r_mem_i_ce
         /\ lmem'.q_ce_dec <=> core.q_ce /\ ~(lmem.q_ce_dec \/ lmem.q_ce_reg)
         /\ lmem'.q_ce_reg <=> /\ port.r_mem_i_ce /\ ~core.q_ce
                               /\ ~(lmem.q_ce_dec \/ lmem.q_ce_reg)
  BY DEF Tick, DecoderTick, AluTick, MemPort, LmemTick

(* The register file's two pulses.                                         *)
LEMMA RegsPulseStep ==
  ASSUME TypeOK, NEW step \in BOOLEAN, Tick(step)
  PROVE  /\ regs'.q_ce_alu <=> /\ ~i_reset /\ dec.q_ce /\ ~alu.q_ce_reg
                               /\ ~(regs.q_ce_alu \/ regs.q_ce_fetch)
         /\ regs'.q_ce_fetch <=> /\ i_reset \/ alu.q_ce_reg \/ (lmem.q_ce_reg /\ ~dec.q_ce)
                                 /\ ~(regs.q_ce_alu \/ regs.q_ce_fetch)
<1>1. CASE RegsReset
  BY <1>1 DEF RegsReset
<1>2. CASE RegsAccess
  BY <1>2 DEF RegsAccess
<1>3. QED
  BY <1>1, <1>2 DEF Tick, RegsTick

(* The decoder latches its outputs together: the RAM request always goes   *)
(* with the opcode, and the decoder halts only on a word it skips.         *)
LEMMA DecodeStep ==
  ASSUME TypeOK, NEW step \in BOOLEAN, Tick(step),
         ctl.q_req_ram <=> ReqRam(Op(ctl.q_instr))
  PROVE  /\ ctl'.q_req_ram <=> ReqRam(Op(ctl'.q_instr))
         /\ ctl'.q_halt => \/ ~lmem.q_ce_dec /\ ctl.q_halt
                           \/ lmem.q_ce_dec /\ SkipsAlu(Op(lmem.q_mem_douta))
<1>1. CASE lmem.q_ce_dec
  BY <1>1 DEF Tick, DecoderTick, Latched, SkipsAlu
<1>2. CASE ~lmem.q_ce_dec
  BY <1>2 DEF Tick, DecoderTick
<1>3. QED
  BY <1>1, <1>2

(* Out of reset a token past the fetch moves on by one stage per edge, and *)
(* after its last stage there is none; with none there, the word that lmem *)
(* has just read becomes the token.                                        *)
LEMMA StageStep ==
  ASSUME TypeOK, NEW step \in BOOLEAN, Tick(step), ~i_reset,
         ctl.q_req_ram <=> ReqRam(Op(ctl.q_instr)),
         NEW n \in 0 .. 9, Stage(n),
         n # 0 => ~core.q_ce /\ ~lmem.q_ce_dec
  PROVE  /\ n = 0 /\ ~lmem.q_ce_dec => Stage(0)'
         /\ n = 0 /\ lmem.q_ce_dec => IF SkipsAlu(Op(lmem.q_mem_douta))
                                      THEN Stage(2)' ELSE Stage(1)'
         /\ n = 1 => Stage(3)'
         /\ n = 2 => Stage(0)'
         /\ n = 3 => Stage(4)' \/ Stage(5)'
         /\ n = 4 => Stage(9)'
         /\ n = 5 => Stage(6)'
         /\ n = 6 => Stage(7)'
         /\ n = 7 => Stage(8)'
         /\ n = 8 => Stage(9)'
         /\ n = 9 => Stage(0)'
<1> USE PulseStep, RegsPulseStep
<1>1. CASE n = 0
  BY <1>1 DEF Stage
<1>2. CASE n = 1
  BY <1>2 DEF Stage
<1>3. CASE n = 2
  BY <1>3 DEF Stage
<1>4. CASE n = 3
  <2>1. ctl.q_req_ram => ~(Op(ctl.q_instr) = OP_JMP)
    BY DEF ReqRam, OP_LW, OP_SW, OP_JMP
  <2>2. CASE ctl.q_req_ram
    BY <1>4, <2>1, <2>2 DEF Stage
  <2>3. CASE ~ctl.q_req_ram
    BY <1>4, <2>3 DEF Stage
  <2>4. QED
    BY <1>4, <2>2, <2>3
<1>5. CASE n = 4
  BY <1>5 DEF Stage
<1>6. CASE n = 5
  BY <1>6 DEF Stage
<1>7. CASE n = 6
  BY <1>7 DEF Stage
<1>8. CASE n = 7
  BY <1>8 DEF Stage
<1>9. CASE n = 8
  BY <1>9 DEF Stage
<1>10. CASE n = 9
  BY <1>10 DEF Stage
<1>11. QED
  BY <1>1, <1>2, <1>3, <1>4, <1>5, <1>6, <1>7, <1>8, <1>9, <1>10

(* prco_core's control block out of reset: core_state 0 issues when         *)
(* i_ce_reg is up and the mode allows it, 1 to 4 walk through a branch.    *)
LEMMA ControlStep ==
  ASSUME TypeOK, NEW step \in BOOLEAN, Tick(step), ~i_reset
  PROVE  /\ ~i_reset' /\ ~core'.r_cpu_init
         /\ MayIssue(step) => core.i_ce_reg
         /\ ctl.q_halt \/ (core.core_state = 0 /\ ~MayIssue(step)) =>
              /\ ~core'.q_ce /\ (core'.i_ce_reg <=> Ready)
              /\ core'.core_state = BranchSeen
         /\ ~ctl.q_halt /\ core.core_state = 0 /\ MayIssue(step) =>
              core'.q_ce /\ ~core'.i_ce_reg /\ core'.core_state = BranchSeen
         /\ ~ctl.q_halt /\ core.core_state \in 1 .. 3 =>
              /\ ~core'.q_ce /\ (core'.i_ce_reg <=> Ready)
              /\ core'.core_state = core.core_state + 1
         /\ ~ctl.q_halt /\ core.core_state = 4 =>
              core'.q_ce /\ (core'.i_ce_reg <=> Ready) /\ core'.core_state = 0
<1>1. ~i_reset'
  <2>1. env.reset \in 0 .. MaxResetCycles
    BY DEF TypeOK, EnvType
  <2>2. env.reset = 0
    BY <2>1, CoreAssumption DEF i_reset
  <2>3. env'.reset = Max0(env.reset - 1)
    BY DEF Tick, EnvTick
  <2>4. QED
    BY <2>2, <2>3 DEF Max0, i_reset
<1>2. MayIssue(step) => core.i_ce_reg
  BY DEF MayIssue
<1>3. CASE CoreReset
  BY <1>3 DEF CoreReset
<1>4. CASE CoreHalted
  BY <1>1, <1>2, <1>4 DEF CoreHalted, Clocked
<1>5. CASE CoreIssue(step)
  BY <1>1, <1>2, <1>5 DEF CoreIssue, Running, Clocked
<1>6. CASE CoreWait(step)
  BY <1>1, <1>2, <1>6 DEF CoreWait, Running, Clocked
<1>7. CASE CoreBranchLoad
  BY <1>1, <1>2, <1>7 DEF CoreBranchLoad, Running, Clocked
<1>8. CASE CoreBranchDelay
  BY <1>1, <1>2, <1>8 DEF CoreBranchDelay, Running, Clocked
<1>9. CASE CoreBranchFetch
  BY <1>1, <1>2, <1>9 DEF CoreBranchFetch, Running, Clocked
<1>10. QED
  BY <1>3, <1>4, <1>5, <1>6, <1>7, <1>8, <1>9 DEF Tick, CoreControl

\* A fetch that waits behind another one, a taken branch's, is let through.
Flows(step) == core.i_ce_reg /\ core.q_ce => MayIssue(step)

(* Reset ends with the token in i_ce_reg.                                  *)
LEMMA ResetStep ==
  ASSUME TypeOK, NEW step \in BOOLEAN, Tick(step), PhaseReset,
         ctl.q_req_ram <=> ReqRam(Op(ctl.q_instr))
  PROVE  /\ PhaseReset' \/ PhaseReady'
         /\ ~i_reset => PhaseReady'
<1>1. ~ctl'.q_halt
  BY DecodeStep DEF PhaseReset
<1>2. Stage(0)' \/ Stage(9)'
  BY PulseStep, RegsPulseStep DEF PhaseReset, Stage
<1>3. ~lmem'.q_ce_dec
  BY PulseStep DEF PhaseReset
<1>4. CASE i_reset
  <2>1. CoreReset
    BY <1>4 DEF Tick, CoreControl, CoreHalted, CoreIssue, CoreWait, CoreBranchLoad,
                CoreBranchDelay, CoreBranchFetch, Running
  <2>2. PhaseReset'
    BY <1>1, <1>2, <1>3, <2>1 DEF PhaseReset, CoreReset
  <2>3. QED
    BY <1>4, <2>2
<1>5. CASE ~i_reset
  <2>1. core.r_cpu_init /\ Ready /\ BranchSeen = 0
    BY <1>5 DEF PhaseReset, Ready, i_ce, BranchSeen, Stage
  <2>2. Stage(0)'
    BY <1>5, PulseStep, RegsPulseStep DEF PhaseReset, Stage
  <2>3. PhaseReady'
    BY <1>3, <1>5, <2>1, <2>2, ControlStep DEF PhaseReset, PhaseReady, Front
  <2>4. QED
    BY <2>3
<1>6. QED
  BY <1>4, <1>5

(* With no token past the fetch, the front end hands it from i_ce_reg to   *)
(* q_ce to the decoder.                                                    *)
LEMMA FrontStep ==
  ASSUME TypeOK, NEW step \in BOOLEAN, Tick(step), Flows(step),
         ctl.q_req_ram <=> ReqRam(Op(ctl.q_instr)),
         PhaseReady \/ PhaseFetch \/ PhaseBranch \/ PhaseRefetch
  PROVE  Phases'
<1> USE DEF Front
<1>1. ~i_reset /\ Stage(0) /\ ~lmem.q_ce_dec /\ ~core.r_cpu_init
  BY DEF PhaseReady, PhaseFetch, PhaseBranch, PhaseRefetch
<1>2. Stage(0)' /\ BranchSeen = core.core_state /\ (Ready <=> core.i_ce_reg)
  <2>1. Stage(0)'
    BY <1>1, StageStep
  <2>2. BranchSeen = core.core_state /\ (Ready <=> core.i_ce_reg)
    BY <1>1 DEF Stage, BranchSeen, Ready, i_ce
  <2>3. QED
    BY <2>1, <2>2
<1>3. (ctl'.q_halt => ctl.q_halt) /\ (lmem'.q_ce_dec <=> core.q_ce)
  BY <1>1, DecodeStep, PulseStep DEF Stage
<1>4. CASE PhaseReady
  <2>1. CASE ctl.q_halt
    <3>1. PhaseReady'
      BY <1>1, <1>2, <1>3, <1>4, <2>1, ControlStep DEF PhaseReady
    <3>2. QED
      BY <3>1 DEF Phases
  <2>2. CASE ~ctl.q_halt /\ ~MayIssue(step)
    <3>1. PhaseReady'
      BY <1>1, <1>2, <1>3, <1>4, <2>2, ControlStep DEF PhaseReady
    <3>2. QED
      BY <3>1 DEF Phases
  <2>3. CASE ~ctl.q_halt /\ MayIssue(step)
    <3>1. PhaseFetch'
      BY <1>1, <1>2, <1>3, <1>4, <2>3, ControlStep DEF PhaseReady, PhaseFetch
    <3>2. QED
      BY <3>1 DEF Phases
  <2>4. QED
    BY <2>1, <2>2, <2>3
<1>5. CASE PhaseFetch
  <2>1. PhaseDecode'
    BY <1>1, <1>2, <1>3, <1>5, ControlStep DEF PhaseFetch, PhaseDecode
  <2>2. QED
    BY <2>1 DEF Phases
<1>6. CASE PhaseBranch
  <2>1. CASE core.core_state \in 2 .. 3
    <3>1. PhaseBranch'
      BY <1>1, <1>2, <1>3, <1>6, <2>1, ControlStep DEF PhaseBranch
    <3>2. QED
      BY <3>1 DEF Phases
  <2>2. CASE core.core_state = 4
    <3>1. PhaseRefetch'
      BY <1>1, <1>2, <1>3, <1>6, <2>2, ControlStep DEF PhaseBranch, PhaseRefetch
    <3>2. QED
      BY <3>1 DEF Phases
  <2>3. QED
    BY <1>6, <2>1, <2>2 DEF PhaseBranch
<1>7. CASE PhaseRefetch
  <2>1. PhaseRedecode'
    BY <1>1, <1>2, <1>3, <1>7, ControlStep DEF PhaseRefetch, PhaseRedecode, Flows
  <2>2. QED
    BY <2>1 DEF Phases
<1>8. QED
  BY <1>4, <1>5, <1>6, <1>7

(* A word at the decoder becomes the one token past the fetch, after the   *)
(* branch's second q_ce too: lmem takes its pulse down.                    *)
LEMMA DecodePhaseStep ==
  ASSUME TypeOK, NEW step \in BOOLEAN, Tick(step),
         ctl.q_req_ram <=> ReqRam(Op(ctl.q_instr)),
         PhaseDecode \/ PhaseRedecode
  PROVE  Phases'
<1> USE DEF Front
<1>1. ~i_reset /\ Stage(0) /\ lmem.q_ce_dec /\ ~core.r_cpu_init
      /\ ~core.i_ce_reg /\ core.core_state = 0 /\ ~ctl.q_halt
  BY DEF PhaseDecode, PhaseRedecode
<1>2. BranchSeen = 0 /\ ~Ready
  BY <1>1 DEF Stage, BranchSeen, Ready, i_ce
<1>3. Front(FALSE, FALSE, FALSE)' /\ core'.core_state = 0
  BY <1>1, <1>2, ControlStep, PulseStep
<1>4. CASE SkipsAlu(Op(lmem.q_mem_douta))
  <2>1. Stage(2)'
    BY <1>1, <1>4, StageStep
  <2>2. PhaseWork'
    BY <1>3, <2>1 DEF PhaseWork
  <2>3. QED
    BY <2>2 DEF Phases
<1>5. CASE ~SkipsAlu(Op(lmem.q_mem_douta))
  <2>1. Stage(1)' /\ ~ctl'.q_halt
    BY <1>1, <1>5, StageStep, DecodeStep
  <2>2. PhaseWork'
    BY <1>3, <2>1 DEF PhaseWork
  <2>3. QED
    BY <2>2 DEF Phases
<1>6. QED
  BY <1>4, <1>5

(* A token past the fetch goes to the next stage, or back to i_ce_reg.     *)
LEMMA WorkStep ==
  ASSUME TypeOK, NEW step \in BOOLEAN, Tick(step),
         ctl.q_req_ram <=> ReqRam(Op(ctl.q_instr)), PhaseWork
  PROVE  Phases'
<1> USE DEF Front
<1>1. PICK n \in 1 .. 9 :
        /\ Front(FALSE, FALSE, FALSE) /\ Stage(n)
        /\ core.core_state = 0 \/ (core.core_state = 1 /\ n = 9)
        /\ ctl.q_halt => n = 2
  BY DEF PhaseWork
<1>2. ~lmem'.q_ce_dec /\ (ctl'.q_halt => ctl.q_halt) /\ ~i_reset' /\ ~core'.r_cpu_init
  BY <1>1, PulseStep, DecodeStep, ControlStep
<1>3. n \in 0 .. 9 /\ n # 0
  BY <1>1
<1>4. CASE n \in {1, 3, 5, 6, 7}
  <2>1. BranchSeen = 0 /\ ~Ready /\ core.core_state = 0 /\ ~ctl.q_halt
    BY <1>1, <1>4 DEF Stage, BranchSeen, Ready, i_ce
  <2>2. Front(FALSE, FALSE, FALSE)' /\ core'.core_state = 0 /\ ~ctl'.q_halt
    BY <1>1, <1>2, <2>1, ControlStep
  <2>3. \E m \in 3 .. 8 : Stage(m)'
    BY <1>1, <1>3, <1>4, StageStep
  <2>4. PhaseWork'
    BY <2>2, <2>3 DEF PhaseWork
  <2>5. QED
    BY <2>4 DEF Phases
<1>5. CASE n \in {4, 8}
  <2>1. BranchSeen \in {0, 1} /\ ~Ready /\ core.core_state = 0 /\ ~ctl.q_halt
    BY <1>1, <1>5 DEF Stage, BranchSeen, Ready, i_ce
  <2>2. Front(FALSE, FALSE, FALSE)' /\ core'.core_state \in {0, 1} /\ ~ctl'.q_halt
    BY <1>1, <1>2, <2>1, ControlStep
  <2>3. Stage(9)'
    BY <1>1, <1>3, <1>5, StageStep
  <2>4. PhaseWork'
    BY <2>2, <2>3 DEF PhaseWork
  <2>5. QED
    BY <2>4 DEF Phases
<1>6. CASE n \in {2, 9}
  <2>1. BranchSeen = core.core_state /\ Ready
    BY <1>1, <1>6 DEF Stage, BranchSeen, Ready, i_ce
  <2>2. Stage(0)'
    BY <1>1, <1>3, <1>6, StageStep
  <2>3. CASE core.core_state = 0
    <3>1. PhaseReady'
      BY <1>1, <1>2, <2>1, <2>2, <2>3, ControlStep DEF PhaseReady
    <3>2. QED
      BY <3>1 DEF Phases
  <2>4. CASE core.core_state = 1
    <3>1. PhaseBranch'
      BY <1>1, <1>2, <1>6, <2>1, <2>2, <2>4, ControlStep DEF PhaseBranch
    <3>2. QED
      BY <3>1 DEF Phases
  <2>5. QED
    BY <1>1, <2>3, <2>4
<1>7. QED
  BY <1>1, <1>4, <1>5, <1>6

(* The enables hold one token, in one of the phases of TokenInv.           *)
THEOREM TokenCorrect == Spec => []TokenInv
<1>1. Init => TokenInv
  <2> SUFFICES ASSUME Init PROVE TokenInv
    OBVIOUS
  <2>1. ~ctl.q_req_ram /\ ~ReqRam(Op(ctl.q_instr))
    BY DEF Init, ReqRam, Op, OP_LW, OP_SW
  <2>2. i_reset
    <3>1. env \in [i_mode : Modes, reset : 1 .. MaxResetCycles, wait : {0}]
      BY DEF Init
    <3>2. env.reset \in 1 .. MaxResetCycles
      BY <3>1
    <3>3. QED
      BY <3>2, CoreAssumption DEF i_reset
  <2>3. PhaseReset
    BY <2>2 DEF Init, PhaseReset, Stage
  <2>4. QED
    BY <2>1, <2>3 DEF TokenInv, Phases
<1>2. TypeOK /\ TokenInv /\ [Next]_vars => TokenInv'
  <2> SUFFICES ASSUME TypeOK, TokenInv, [Next]_vars PROVE TokenInv'
    OBVIOUS
  <2>1. CASE UNCHANGED vars
    <3>1. /\ UNCHANGED <<core, port, lmem, dec, ctl, regs, alu, env>>
          /\ \A n : Stage(n)' <=> Stage(n)
      BY <2>1 DEF vars, Stage
    <3>2. \A r, f, d \in BOOLEAN : Front(r, f, d)' <=> Front(r, f, d)
      BY <3>1 DEF Front, i_reset
    <3>3. /\ PhaseReset' <=> PhaseReset
          /\ PhaseReady' <=> PhaseReady
          /\ PhaseFetch' <=> PhaseFetch
          /\ PhaseDecode' <=> PhaseDecode
      BY <3>1, <3>2 DEF i_reset, PhaseReset, PhaseReady, PhaseFetch, PhaseDecode
    <3>4. /\ PhaseBranch' <=> PhaseBranch
          /\ PhaseRefetch' <=> PhaseRefetch
          /\ PhaseRedecode' <=> PhaseRedecode
      BY <3>1, <3>2 DEF PhaseBranch, PhaseRefetch, PhaseRedecode
    <3>5. PhaseWork' <=> PhaseWork
      BY <3>1, <3>2 DEF PhaseWork
    <3>6. QED
      BY <3>1, <3>3, <3>4, <3>5 DEF TokenInv, Phases
  <2>2. ASSUME NEW step \in BOOLEAN, Tick(step) PROVE TokenInv'
    <3>1. ctl'.q_req_ram <=> ReqRam(Op(ctl'.q_instr))
      BY <2>2, DecodeStep DEF TokenInv
    <3>2. env'.i_mode = env.i_mode
      BY <2>2 DEF Tick, EnvTick
    <3>3. ASSUME env.i_mode = 0 PROVE Phases'
      <4>1. Flows(step)
        BY <3>3 DEF Flows, MayIssue
      <4>2. QED
        BY <2>2, <3>3, <4>1, ResetStep, FrontStep, DecodePhaseStep, WorkStep
           DEF TokenInv, Phases
    <3>4. QED
      BY <3>1, <3>2, <3>3 DEF TokenInv
  <2>3. QED
    BY <2>1, <2>2 DEF Next
<1>3. QED
  BY <1>1, <1>2, TypeCorrect, PTL DEF Spec

(* With the debug switch at 0, no two instructions are ever past the fetch *)
(* at the same time, whatever the program.                                 *)
THEOREM OneInstructionAtATime ==
  ASSUME Modes = {0}
  PROVE  Spec => []OneInstruction
<1>1. TypeOK /\ TokenInv => OneInstruction
  <2> SUFFICES ASSUME TypeOK, TokenInv PROVE OneInstruction
    OBVIOUS
  <2>1. env.i_mode = 0
    BY DEF TypeOK, EnvType
  <2>2. PICK n \in 0 .. 9 : Stage(n)
    <3>1. CASE PhaseWork
      <4>1. PICK m \in 1 .. 9 : Stage(m)
        BY <3>1 DEF PhaseWork
      <4>2. m \in 0 .. 9
        BY <4>1
      <4>3. QED
        BY <4>1, <4>2
    <3>2. CASE ~PhaseWork
      <4>1. Stage(0) \/ Stage(9)
        BY <2>1, <3>2 DEF TokenInv, Phases, PhaseReset, PhaseReady, PhaseFetch, PhaseDecode,
                          PhaseBranch, PhaseRefetch, PhaseRedecode
      <4>2. 0 \in 0 .. 9 /\ 9 \in 0 .. 9
        OBVIOUS
      <4>3. QED
        BY <4>1, <4>2
    <3>3. QED
      BY <3>1, <3>2
  <2>3. \A i \in 1 .. 9 : Working[i] => i = n
    BY <2>2 DEF Working, Stage
  <2>4. DOMAIN Working = 1 .. 9
    BY DEF Working
  <2>5. QED
    BY <2>3, <2>4 DEF OneInstruction
<1>2. QED
  BY <1>1, TypeCorrect, TokenCorrect, PTL

(* With the debug switch at 0, no fetch is under way while an instruction  *)
(* is past the decoder.                                                    *)
THEOREM FetchIsAlone == Spec => []FetchAlone
<1>1. TokenInv => FetchAlone
  <2> SUFFICES ASSUME TokenInv, env.i_mode = 0, core.q_ce \/ lmem.q_ce_dec
               PROVE  \A i \in DOMAIN Working : ~Working[i]
    BY DEF FetchAlone
  <2>1. Stage(0)
    BY DEF TokenInv, Phases, PhaseReset, PhaseReady, PhaseFetch, PhaseDecode, PhaseWork,
           PhaseBranch, PhaseRefetch, PhaseRedecode, Front
  <2>2. \A i \in 1 .. 9 : ~Working[i]
    BY <2>1 DEF Working, Stage
  <2>3. DOMAIN Working = 1 .. 9
    BY DEF Working
  <2>4. QED
    BY <2>2, <2>3
<1>2. QED
  BY <1>1, TokenCorrect, PTL
-----------------------------------------------------------------------------
(* The history variable only watches the core.                             *)
LEMMA ArchIsCore == SpecArch => Spec
<1>1. InitArch => Init
  BY DEF InitArch
<1>2. [NextArch]_avars => [Next]_vars
  <2>1. ASSUME NEW step \in BOOLEAN, NEW full \in BOOLEAN, step => StepAllowed,
               ArchTick(step, full)
        PROVE  Next
    BY <2>1 DEF ArchTick, Next
  <2>2. UNCHANGED avars => UNCHANGED vars
    BY DEF avars
  <2>3. QED
    BY <2>1, <2>2 DEF NextArch
<1>3. QED
  BY <1>1, <1>2, PTL DEF SpecArch, Spec

\* What arch holds.
ArchType ==
  /\ arch.pc \in Word
  /\ arch.r_lmem \in [0 .. MemDepth - 1 -> Word]
  /\ arch.r_regs \in [Reg -> Word]
  /\ arch.r_sr \in Flags
  /\ arch.halted \in BOOLEAN

LEMMA ArchTypeCorrect == SpecArch => []ArchType
<1>1. InitArch => ArchType
  <2> SUFFICES ASSUME InitArch PROVE ArchType
    OBVIOUS
  <2>1. TypeOK
    BY TypeInit DEF InitArch
  <2>2. arch.r_lmem = r_lmem /\ arch.pc = 0 /\ arch.r_sr = ClearFlags
        /\ arch.r_regs = [r \in Reg |-> IF r = REG_SP THEN 255 ELSE 0]
    BY DEF InitArch
  <2>3. arch.r_regs \in [Reg -> Word]
    BY <2>2, WordFacts
  <2>4. arch.r_sr \in Flags /\ arch.halted \in BOOLEAN
    BY <2>2 DEF Flags, ClearFlags, InitArch
  <2>5. QED
    BY <2>1, <2>2, <2>3, <2>4, WordFacts DEF ArchType, TypeOK
<1>2. ArchType /\ TypeOK /\ TypeOK' /\ [NextArch]_avars => ArchType'
  <2> SUFFICES ASSUME ArchType, TypeOK, TypeOK', [NextArch]_avars PROVE ArchType'
    OBVIOUS
  <2>1. CASE UNCHANGED avars
    BY <2>1 DEF avars, ArchType
  <2>2. CASE NextArch
    <3>1. core'.pc \in Word /\ ctl.q_halt \in BOOLEAN
      BY DEF TypeOK, CoreType, CtlType
    <3>2. \/ arch' = arch
          \/ /\ arch'.pc = core'.pc /\ arch'.r_lmem = r_lmem'
             /\ arch'.r_regs = r_regs' /\ arch'.r_sr = r_sr'
             /\ arch'.halted = ctl.q_halt
      BY <2>2 DEF NextArch, ArchTick
    <3>3. QED
      BY <3>1, <3>2 DEF ArchType, TypeOK
  <2>3. QED
    BY <2>1, <2>2
<1>3. QED
  BY <1>1, <1>2, ArchIsCore, TypeCorrect, PTL DEF SpecArch

(* What one clock edge does to the data behind the pulses.                 *)
LEMMA DataStep ==
  ASSUME TypeOK, NEW step \in BOOLEAN, Tick(step)
  PROVE  /\ port'.r_mem_addr = IF alu.q_ce_ram THEN alu.q_result
                               ELSE IF port.r_mem_int_i_ce THEN port.r_mem_addr ELSE core.pc
         /\ port'.r_reg_dina = IF lmem.q_ce_reg THEN lmem.q_mem_douta ELSE alu.q_result
         /\ lmem'.q_mem_douta = IF core.q_ce \/ port.r_mem_i_ce
                                THEN r_lmem[MemIndex(port.r_mem_addr)] ELSE lmem.q_mem_douta
         /\ r_lmem' = IF port.r_mem_i_ce /\ ctl.q_req_ram_we
                      THEN [r_lmem EXCEPT ![MemIndex(port.r_mem_addr)] = regs.q_data]
                      ELSE r_lmem
         /\ ctl' = IF lmem.q_ce_dec THEN Latched(lmem.q_mem_douta) ELSE ctl
<1>1. port' = [r_mem_addr     |-> IF alu.q_ce_ram THEN alu.q_result
                                  ELSE IF port.r_mem_int_i_ce /\ ~alu.q_ce_ram
                                       THEN port.r_mem_addr ELSE core.pc,
               r_mem_int_i_ce |-> alu.q_ce_ram,
               r_mem_i_ce     |-> (port.r_mem_int_i_ce /\ ~alu.q_ce_ram)
                                  \/ (alu.q_ce_ram /\ port.r_mem_i_ce),
               r_reg_dina     |-> WriteBackOperand]
  BY DEF Tick, MemPort
<1>2. QED
  BY <1>1 DEF Tick, LmemTick, DecoderTick, WriteBackOperand, r_lmem_we

(* The register file's data out of reset.                                  *)
LEMMA RegsDataStep ==
  ASSUME TypeOK, NEW step \in BOOLEAN, Tick(step), ~i_reset
  PROVE  /\ r_regs' = IF ctl.q_reg_we /\ regs.q_ce_fetch
                      THEN [r_regs EXCEPT ![Rd(ctl.q_instr)] = port.r_reg_dina] ELSE r_regs
         /\ dec.q_ce => /\ regs'.q_data = r_regs[Rd(ctl.q_instr)]
                        /\ regs'.q_datb = r_regs[ctl.q_sela]
         /\ \/ regs'.q_data = regs.q_data /\ regs'.q_datb = regs.q_datb
            \/ /\ regs'.q_data = r_regs[Rd(ctl.q_instr)]
               /\ regs'.q_datb = r_regs[ctl.q_sela]
  BY DEF Tick, RegsTick, RegsReset, RegsAccess, r_reg_we

(* The ALU's data.                                                         *)
LEMMA AluDataStep ==
  ASSUME TypeOK, NEW step \in BOOLEAN, Tick(step)
  PROVE  /\ alu'.q_result = IF regs.q_ce_alu
                            THEN AluResult(Op(ctl.q_instr), regs.q_data, regs.q_datb,
                                           Imm8(ctl.q_instr), Simm5(ctl.q_instr), r_sr)
                            ELSE alu.q_result
         /\ alu'.q_should_branch <=>
              /\ regs.q_ce_alu /\ Op(ctl.q_instr) = OP_JMP
              /\ func_alu_should_jmp(Imm8(ctl.q_instr), r_sr)
              /\ ~(alu.q_ce_ram \/ alu.q_ce_reg \/ alu.q_should_branch)
         /\ r_sr' = IF regs.q_ce_alu /\ Op(ctl.q_instr) = OP_CMP
                    THEN func_alu_cmp(regs.q_data, regs.q_datb) ELSE r_sr
  BY DEF Tick, AluTick

(* The machine instance has the instruction set of the core.               *)
LEMMA MachineIsa ==
  /\ \A w : /\ Machine!Op(w) = Op(w) /\ Machine!Rd(w) = Rd(w) /\ Machine!SelA(w) = SelA(w)
            /\ Machine!Imm8(w) = Imm8(w) /\ Machine!Simm5(w) = Simm5(w)
            /\ Machine!Wrap(w) = Wrap(w) /\ Machine!MemIndex(w) = MemIndex(w)
  /\ \A op, data, datb, imm8, simm5, sr :
       Machine!AluResult(op, data, datb, imm8, simm5, sr) =
         AluResult(op, data, datb, imm8, simm5, sr)
  /\ \A data, datb : Machine!func_alu_cmp(data, datb) = func_alu_cmp(data, datb)
  /\ \A cond, sr : Machine!func_alu_should_jmp(cond, sr) <=> func_alu_should_jmp(cond, sr)
  /\ \A op : /\ Machine!RegWe(op) <=> RegWe(op)
             /\ Machine!ReqRam(op) <=> ReqRam(op)
             /\ Machine!Halts(op) <=> Halts(op)
<1> USE DEF Machine!OP_NOP, OP_NOP, Machine!OP_LW, OP_LW, Machine!OP_SW, OP_SW, Machine!OP_MOV,
            OP_MOV, Machine!OP_MOVI, OP_MOVI, Machine!OP_ADD, OP_ADD, Machine!OP_ADDI, OP_ADDI,
            Machine!OP_SUBI, OP_SUBI, Machine!OP_JMP, OP_JMP, Machine!OP_CMP, OP_CMP,
            Machine!OP_WRITE, OP_WRITE, Machine!OP_SET, OP_SET
<1>1. \A w : /\ Machine!Op(w) = Op(w) /\ Machine!Rd(w) = Rd(w) /\ Machine!SelA(w) = SelA(w)
             /\ Machine!Imm8(w) = Imm8(w) /\ Machine!Simm5(w) = Simm5(w)
             /\ Machine!Wrap(w) = Wrap(w) /\ Machine!MemIndex(w) = MemIndex(w)
  BY DEF Machine!Op, Op, Machine!Rd, Rd, Machine!SelA, SelA, Machine!Ra, Ra, Machine!Imm8, Imm8,
         Machine!Simm5, Simm5, Machine!Wrap, Wrap, Machine!MemIndex, MemIndex
<1>2. \A cond, sr : /\ Machine!func_alu_should_jmp(cond, sr) <=> func_alu_should_jmp(cond, sr)
                    /\ Machine!func_alu_should_set(cond, sr) <=> func_alu_should_set(cond, sr)
  BY DEF Machine!func_alu_should_jmp, func_alu_should_jmp, Machine!func_alu_should_set,
         func_alu_should_set, Machine!JMP_J, JMP_J, Machine!JMP_JE, JMP_JE, Machine!JMP_JNE,
         JMP_JNE, Machine!JMP_JS, JMP_JS, Machine!JMP_JNS, JMP_JNS, Machine!JMP_JG, JMP_JG,
         Machine!JMP_JGE, JMP_JGE, Machine!JMP_JL, JMP_JL, Machine!JMP_JLE, JMP_JLE
<1>3. ASSUME NEW op, NEW data, NEW datb, NEW imm8, NEW simm5, NEW sr
      PROVE  Machine!AluResult(op, data, datb, imm8, simm5, sr) =
               AluResult(op, data, datb, imm8, simm5, sr)
  BY <1>1, <1>2 DEF Machine!AluResult, AluResult, Machine!Signed5, Signed5, Machine!Signed8, Signed8
<1>4. \A data, datb : Machine!func_alu_cmp(data, datb) = func_alu_cmp(data, datb)
  BY <1>1 DEF Machine!func_alu_cmp, func_alu_cmp
<1>5. \A op : /\ Machine!RegWe(op) <=> RegWe(op)
              /\ Machine!ReqRam(op) <=> ReqRam(op)
              /\ Machine!Halts(op) <=> Halts(op)
  BY DEF Machine!RegWe, RegWe, Machine!ReqRam, ReqRam, Machine!Halts, Halts, Machine!Decoded, Decoded
<1>. QED
  BY <1>1, <1>2, <1>3, <1>4, <1>5

(* The machine's view of the instruction arch has come to.                 *)
LEMMA MachineReads ==
  /\ Machine!Instr = arch.r_lmem[MemIndex(arch.pc)]
  /\ Machine!Data = arch.r_regs[Rd(Machine!Instr)]
  /\ Machine!Datb = arch.r_regs[SelA(Machine!Instr)]
  /\ Machine!Value = AluResult(Op(Machine!Instr), Machine!Data, Machine!Datb,
                               Imm8(Machine!Instr), Simm5(Machine!Instr), arch.r_sr)
<1>1. Machine!Instr = arch.r_lmem[MemIndex(arch.pc)]
  BY MachineIsa DEF Machine!Instr
<1>2. Machine!Data = arch.r_regs[Rd(Machine!Instr)]
  BY MachineIsa DEF Machine!Data
<1>3. Machine!Datb = arch.r_regs[SelA(Machine!Instr)]
  BY MachineIsa DEF Machine!Datb
<1>4. Machine!Value = AluResult(Op(Machine!Instr), Machine!Data, Machine!Datb,
                               Imm8(Machine!Instr), Simm5(Machine!Instr), arch.r_sr)
  BY MachineIsa DEF Machine!Value
<1>. QED
  BY <1>1, <1>2, <1>3, <1>4

(* Where pc goes.                                                          *)
LEMMA PcStep ==
  ASSUME TypeOK, NEW step \in BOOLEAN, Tick(step), ~i_reset
  PROVE  core'.pc = IF ~ctl.q_halt /\ core.core_state = 0 /\ MayIssue(step)
                    THEN Wrap(core.pc + 1)
                    ELSE IF ~ctl.q_halt /\ core.core_state = 1 THEN alu.q_result ELSE core.pc
<1>1. CASE CoreReset
  BY <1>1 DEF CoreReset
<1>2. CASE CoreHalted
  BY <1>2 DEF CoreHalted, Clocked
<1>3. CASE CoreIssue(step) \/ CoreWait(step)
  BY <1>3 DEF CoreIssue, CoreWait, Running, Clocked
<1>4. CASE CoreBranchLoad \/ CoreBranchDelay \/ CoreBranchFetch
  BY <1>4 DEF CoreBranchLoad, CoreBranchDelay, CoreBranchFetch, Running, Clocked
<1>. QED
  BY <1>1, <1>2, <1>3, <1>4 DEF Tick, CoreControl

(* While arch stays, so does the machine's view of its instruction.        *)
LEMMA SameView ==
  ASSUME UNCHANGED arch
  PROVE  /\ Machine!Instr' = Machine!Instr
         /\ Machine!Data' = Machine!Data /\ Machine!Datb' = Machine!Datb
         /\ Machine!Value' = Machine!Value
         /\ Loaded' = Loaded /\ (Taken' <=> Taken)
<1>1. Machine!Instr' = Machine!Instr
  BY DEF Machine!Instr
<1>2. Machine!Data' = Machine!Data /\ Machine!Datb' = Machine!Datb
  BY <1>1 DEF Machine!Data, Machine!Datb
<1>3. Machine!Value' = Machine!Value
  BY <1>1, <1>2 DEF Machine!Value
<1>. QED
  BY <1>1, <1>2, <1>3 DEF Loaded, Taken

(* The front end brings the word at arch's pc to the decoder.              *)
LEMMA FrontData ==
  ASSUME TypeOK, NEW step \in BOOLEAN, Tick(step), UNCHANGED arch, Flows(step),
         ctl.q_req_ram <=> ReqRam(Op(ctl.q_instr)),
         PhaseReady \/ PhaseFetch \/ PhaseBranch \/ PhaseRefetch,
         Fetched, Committed(0)
  PROVE  Fetched' /\ Held'
<1>1. ~i_reset /\ Stage(0) /\ ~lmem.q_ce_dec /\ ~core.r_cpu_init
  BY DEF PhaseReady, PhaseFetch, PhaseBranch, PhaseRefetch, Front
<1>2. Stage(0)'
  BY <1>1, StageStep
<1>3. ctl' = ctl /\ r_lmem' = r_lmem /\ r_sr' = r_sr /\ r_regs' = r_regs
  BY <1>1, DataStep, AluDataStep, RegsDataStep DEF Stage
<1>4. Committed(0)'
  BY <1>3 DEF Committed
<1>5. Carries(0)'
  BY DEF Carries
<1>6. core'.pc = IF core'.i_ce_reg THEN arch.pc ELSE Wrap(arch.pc + 1)
  <2>1. Ready <=> core.i_ce_reg
    BY <1>1 DEF Ready, i_ce, Stage
  <2>2. CASE PhaseReady
    BY <1>1, <2>1, <2>2, ControlStep, PcStep DEF PhaseReady, Front, Fetched
  <2>3. CASE PhaseFetch
    BY <1>1, <2>1, <2>3, ControlStep, PcStep DEF PhaseFetch, Front, Fetched
  <2>4. CASE PhaseBranch
    BY <1>1, <2>1, <2>4, ControlStep, PcStep DEF PhaseBranch, Front, Fetched
  <2>5. CASE PhaseRefetch
    BY <1>1, <2>1, <2>5, ControlStep, PcStep DEF PhaseRefetch, Front, Fetched
  <2>6. QED
    BY <2>2, <2>3, <2>4, <2>5
<1>7. arch.halted <=> core'.i_ce_reg /\ ctl.q_halt
  <2>1. Ready <=> core.i_ce_reg
    BY <1>1 DEF Ready, i_ce, Stage
  <2>2. CASE ctl.q_halt
    BY <1>1, <2>1, <2>2, ControlStep
       DEF PhaseReady, PhaseFetch, PhaseBranch, PhaseRefetch, Front, Fetched
  <2>3. CASE ~ctl.q_halt
    BY <2>3 DEF Fetched
  <2>4. QED
    BY <2>2, <2>3
<1>8. core'.q_ce => port'.r_mem_addr = arch.pc
  <2>1. ASSUME core'.q_ce PROVE core.i_ce_reg
    BY <1>1, <2>1, ControlStep DEF PhaseReady, PhaseFetch, PhaseBranch, PhaseRefetch, Front
  <2>2. port'.r_mem_addr = core.pc
    BY <1>1, DataStep DEF Stage
  <2>3. QED
    BY <2>1, <2>2 DEF Fetched
<1>9. lmem'.q_ce_dec => lmem'.q_mem_douta = Machine!Instr'
  <2>1. lmem'.q_ce_dec => core.q_ce
    BY PulseStep
  <2>2. core.q_ce => lmem'.q_mem_douta = r_lmem[MemIndex(arch.pc)]
    BY DataStep DEF Fetched
  <2>3. r_lmem = arch.r_lmem
    BY DEF Committed
  <2>4. QED
    BY <2>1, <2>2, <2>3, MachineReads, SameView
<1>. QED
  BY <1>2, <1>3, <1>4, <1>5, <1>6, <1>7, <1>8, <1>9 DEF Fetched, Held

(* The decoder's outputs always belong to the word it holds.               *)
LEMMA LatchedStep ==
  ASSUME TypeOK, NEW step \in BOOLEAN, Tick(step), ctl = Latched(ctl.q_instr)
  PROVE  ctl' = Latched(ctl'.q_instr)
<1>1. \A w : Latched(w).q_instr = w
  BY DEF Latched
<1>2. ctl' = ctl \/ ctl' = Latched(lmem.q_mem_douta)
  BY DataStep
<1>. QED
  BY <1>1, <1>2

(* While the decoder or a module behind it works, the fetch side rests.    *)
LEMMA RestData ==
  ASSUME TypeOK, NEW step \in BOOLEAN, Tick(step), UNCHANGED arch,
         NEW n \in 0 .. 8, Stage(n), n # 2, ~i_reset, ~core.r_cpu_init, ~core.i_ce_reg,
         core.core_state = 0, core.q_ce => lmem.q_ce_dec, Fetched
  PROVE  Fetched' /\ r_regs' = r_regs
<1>1. ~Ready /\ BranchSeen \in {0, 1}
  BY DEF Stage, Ready, i_ce, BranchSeen
<1>2. ~core'.i_ce_reg /\ ~core'.q_ce
  BY <1>1, ControlStep
<1>3. core'.pc = core.pc
  BY PcStep DEF MayIssue
<1>4. ~lmem'.q_ce_dec
  BY PulseStep
<1>5. r_regs' = r_regs
  BY RegsDataStep DEF Stage
<1>. QED
  BY <1>2, <1>3, <1>4, <1>5 DEF Fetched

(* The word at arch's pc becomes the token.                                *)
LEMMA DecodeData ==
  ASSUME TypeOK, NEW step \in BOOLEAN, Tick(step), UNCHANGED arch,
         ctl.q_req_ram <=> ReqRam(Op(ctl.q_instr)),
         PhaseDecode \/ PhaseRedecode, Fetched, Committed(0)
  PROVE  Fetched' /\ Held'
<1>1. /\ ~i_reset /\ Stage(0) /\ lmem.q_ce_dec /\ ~core.r_cpu_init /\ ~core.i_ce_reg
      /\ core.core_state = 0
  BY DEF PhaseDecode, PhaseRedecode, Front
<1>2. Fetched' /\ r_regs' = r_regs
  BY <1>1, RestData
<1>3. ctl'.q_instr = Machine!Instr'
  BY <1>1, DataStep, SameView DEF Fetched, Latched
<1>4. r_lmem' = r_lmem /\ r_sr' = r_sr
  BY <1>1, DataStep, AluDataStep DEF Stage
<1>5. Committed(1)' /\ Committed(2)'
  BY <1>2, <1>4 DEF Committed
<1>6. CASE SkipsAlu(Op(lmem.q_mem_douta))
  <2>1. Stage(2)'
    BY <1>1, <1>6, StageStep
  <2>2. SkipsAlu(Op(Machine!Instr'))
    BY <1>1, <1>6, SameView DEF Fetched
  <2>3. Carries(2)'
    BY <1>3, <2>2 DEF Carries
  <2>. QED
    BY <1>2, <1>5, <2>1, <2>3 DEF Held
<1>7. CASE ~SkipsAlu(Op(lmem.q_mem_douta))
  <2>1. Stage(1)'
    BY <1>1, <1>7, StageStep
  <2>2. ~SkipsAlu(Op(Machine!Instr'))
    BY <1>1, <1>7, SameView DEF Fetched
  <2>3. Carries(1)'
    BY <1>3, <2>2 DEF Carries
  <2>. QED
    BY <1>2, <1>5, <2>1, <2>3 DEF Held
<1>. QED
  BY <1>6, <1>7

(* Behind the decoder the operands keep what arch says they are.           *)
LEMMA CarriedData ==
  ASSUME TypeOK, NEW step \in BOOLEAN, Tick(step), UNCHANGED arch, ~i_reset,
         ctl = Latched(ctl.q_instr), ~lmem.q_ce_dec,
         NEW n \in 1 .. 8, Stage(n), n # 2, Carries(n), Committed(n)
  PROVE  /\ ctl'.q_instr = Machine!Instr' /\ ~SkipsAlu(Op(Machine!Instr'))
         /\ regs'.q_data = Machine!Data' /\ regs'.q_datb = Machine!Datb'
         /\ n >= 3 => alu'.q_result = Machine!Value'
<1>1. ctl.q_instr = Machine!Instr /\ ~SkipsAlu(Op(Machine!Instr))
  BY DEF Carries
<1>2. ctl' = ctl
  BY DataStep
<1>3. ctl.q_sela = SelA(ctl.q_instr)
  BY DEF Latched
<1>4. r_regs[Rd(ctl.q_instr)] = Machine!Data /\ r_regs[ctl.q_sela] = Machine!Datb
  BY <1>1, <1>3, MachineReads DEF Committed
<1>5. regs'.q_data = Machine!Data /\ regs'.q_datb = Machine!Datb
  <2>1. CASE n = 1
    BY <1>4, <2>1, RegsDataStep DEF Stage
  <2>2. CASE n >= 3
    BY <1>4, <2>2, RegsDataStep DEF Carries
  <2>. QED
    BY <2>1, <2>2
<1>6. n >= 3 => alu'.q_result = Machine!Value
  <2>1. CASE n = 3
    <3>1. /\ regs.q_ce_alu /\ r_sr = arch.r_sr
          /\ regs.q_data = Machine!Data /\ regs.q_datb = Machine!Datb
      BY <2>1 DEF Stage, Carries, Committed
    <3>. QED
      BY <1>1, <3>1, AluDataStep, MachineReads
  <2>2. CASE n >= 4
    BY <2>2, AluDataStep DEF Stage, Carries
  <2>. QED
    BY <2>1, <2>2
<1>. QED
  BY <1>1, <1>2, <1>5, <1>6, SameView

(* Carries and Committed, one stage at a time.                             *)
LEMMA CarriesFrom ==
  ASSUME NEW n \in 1 .. 8, n # 2, Carries(n),
         ctl'.q_instr = Machine!Instr', ~SkipsAlu(Op(Machine!Instr')),
         regs'.q_data = Machine!Data', regs'.q_datb = Machine!Datb',
         n >= 3 => alu'.q_result = Machine!Value'
  PROVE  /\ n = 1 => Carries(3)'
         /\ n = 3 /\ ~ReqRam(Op(Machine!Instr')) /\ (alu'.q_should_branch <=> Taken')
              => Carries(4)'
         /\ n = 3 /\ ReqRam(Op(Machine!Instr')) => Carries(5)'
         /\ n = 5 /\ ReqRam(Op(Machine!Instr')) /\ port'.r_mem_addr = Machine!Value'
              => Carries(6)'
         /\ n = 6 /\ ReqRam(Op(Machine!Instr')) /\ port'.r_mem_addr = Machine!Value'
              => Carries(7)'
         /\ n = 7 /\ ReqRam(Op(Machine!Instr')) /\ lmem'.q_mem_douta = Loaded'
              => Carries(8)'
         /\ n \in {4, 8}
            /\ port'.r_reg_dina = (IF ReqRam(Op(Machine!Instr')) THEN Loaded' ELSE Machine!Value')
            /\ (core'.core_state = 1 <=> Taken')
              => Carries(9)'
  BY DEF Carries

(* A token past the decoder takes its operands along, and stores or sets   *)
(* the flags exactly once on its way.                                      *)
LEMMA WorkData ==
  ASSUME TypeOK, NEW step \in BOOLEAN, Tick(step), UNCHANGED arch,
         ctl = Latched(ctl.q_instr), ctl.q_req_ram <=> ReqRam(Op(ctl.q_instr)),
         NEW n \in 1 .. 8, Stage(n), n # 2, Front(FALSE, FALSE, FALSE),
         core.core_state = 0, ~ctl.q_halt,
         Fetched, Carries(n), Committed(n)
  PROVE  Fetched' /\ Held'
<1>1. ~i_reset /\ ~core.r_cpu_init /\ ~core.i_ce_reg /\ ~core.q_ce /\ ~lmem.q_ce_dec
  BY DEF Front
<1>2. n \in 0 .. 9 /\ n \in 0 .. 8 /\ n # 0
  OBVIOUS
<1>3. Fetched' /\ r_regs' = r_regs
  BY <1>1, <1>2, RestData
<1>4. /\ ctl'.q_instr = Machine!Instr' /\ ~SkipsAlu(Op(Machine!Instr'))
      /\ regs'.q_data = Machine!Data' /\ regs'.q_datb = Machine!Datb'
      /\ n >= 3 => alu'.q_result = Machine!Value'
  BY <1>1, CarriedData
<1>5. ctl.q_instr = Machine!Instr
  BY DEF Carries
<1>6. /\ ctl.q_req_ram <=> ReqRam(Op(Machine!Instr))
      /\ ctl.q_req_ram_we <=> Op(Machine!Instr) = OP_SW
  <2>1. \A w : Latched(w).q_req_ram_we <=> Op(w) = OP_SW
    BY DEF Latched, ReqRamWe
  <2>. QED
    BY <1>5, <2>1
<1>7. CASE n = 1
  <2>1. Stage(3)' /\ Carries(3)'
    BY <1>1, <1>2, <1>4, <1>7, StageStep, CarriesFrom
  <2>2. r_lmem' = r_lmem /\ r_sr' = r_sr
    BY <1>7, DataStep, AluDataStep DEF Stage
  <2>3. Committed(3)'
    BY <1>3, <1>7, <2>2 DEF Committed
  <2>. QED
    BY <1>3, <2>1, <2>3 DEF Held
<1>8. CASE n = 3
  <2>1. r_lmem' = r_lmem
    BY <1>8, DataStep DEF Stage
  <2>2. r_sr' = IF Op(Machine!Instr) = OP_CMP THEN func_alu_cmp(Machine!Data, Machine!Datb)
                ELSE arch.r_sr
    BY <1>5, <1>8, AluDataStep DEF Stage, Carries, Committed
  <2>3. Committed(4)' /\ Committed(5)'
    BY <1>3, <1>8, <2>1, <2>2, SameView DEF Committed
  <2>4. alu'.q_should_branch <=> Taken
    <3>1. r_sr = arch.r_sr
      BY <1>8 DEF Committed
    <3>. QED
      BY <1>5, <1>8, <3>1, AluDataStep DEF Stage, Taken
  <2>5. CASE ReqRam(Op(Machine!Instr))
    <3>1. alu'.q_ce_ram /\ ~alu'.q_ce_reg
      BY <1>6, <1>8, <2>5, PulseStep DEF Stage
    <3>2. Stage(5)'
      <4>1. Stage(4)' \/ Stage(5)'
        BY <1>1, <1>2, <1>8, StageStep
      <4>. QED
        BY <3>1, <4>1 DEF Stage
    <3>3. Carries(5)'
      BY <1>4, <1>8, <2>5, SameView, CarriesFrom
    <3>. QED
      BY <1>3, <2>3, <3>2, <3>3 DEF Held
  <2>6. CASE ~ReqRam(Op(Machine!Instr))
    <3>1. ~alu'.q_ce_ram /\ alu'.q_ce_reg
      BY <1>6, <1>8, <2>6, PulseStep DEF Stage
    <3>2. Stage(4)'
      <4>1. Stage(4)' \/ Stage(5)'
        BY <1>1, <1>2, <1>8, StageStep
      <4>. QED
        BY <3>1, <4>1 DEF Stage
    <3>3. Carries(4)'
      BY <1>4, <1>8, <2>4, <2>6, SameView, CarriesFrom
    <3>. QED
      BY <1>3, <2>3, <3>2, <3>3 DEF Held
  <2>. QED
    BY <2>5, <2>6
<1>9. r_sr' = r_sr \/ n = 3
  BY AluDataStep DEF Stage
<1>10. n \in {5, 6, 7} => ReqRam(Op(Machine!Instr'))
  BY SameView DEF Carries
<1>11. CASE n = 5
  <2>1. Stage(6)'
    BY <1>1, <1>2, <1>11, StageStep
  <2>2. port'.r_mem_addr = Machine!Value'
    BY <1>11, DataStep, SameView DEF Stage, Carries
  <2>3. Carries(6)'
    BY <1>4, <1>10, <1>11, <2>2, CarriesFrom
  <2>4. r_lmem' = r_lmem
    BY <1>11, DataStep DEF Stage
  <2>5. Committed(6)'
    BY <1>3, <1>9, <1>11, <2>4, SameView DEF Committed
  <2>. QED
    BY <1>3, <2>1, <2>3, <2>5 DEF Held
<1>12. CASE n = 6
  <2>1. Stage(7)'
    BY <1>1, <1>2, <1>12, StageStep
  <2>2. port'.r_mem_addr = Machine!Value'
    BY <1>12, DataStep, SameView DEF Stage, Carries
  <2>3. Carries(7)'
    BY <1>4, <1>10, <1>12, <2>2, CarriesFrom
  <2>4. r_lmem' = r_lmem
    BY <1>12, DataStep DEF Stage
  <2>5. Committed(7)'
    BY <1>3, <1>9, <1>12, <2>4, SameView DEF Committed
  <2>. QED
    BY <1>3, <2>1, <2>3, <2>5 DEF Held
<1>13. CASE n = 7
  <2>1. Stage(8)'
    BY <1>1, <1>2, <1>13, StageStep
  <2>2. /\ port.r_mem_i_ce /\ port.r_mem_addr = Machine!Value
        /\ regs.q_data = Machine!Data /\ r_lmem = arch.r_lmem
    BY <1>13 DEF Stage, Carries, Committed
  <2>3. lmem'.q_mem_douta = Loaded'
    BY <2>2, DataStep, SameView DEF Loaded
  <2>4. Carries(8)'
    BY <1>4, <1>10, <1>13, <2>3, CarriesFrom
  <2>5. r_lmem' = IF Op(Machine!Instr) = OP_SW
                  THEN [arch.r_lmem EXCEPT ![MemIndex(Machine!Value)] = Machine!Data]
                  ELSE arch.r_lmem
    BY <1>6, <2>2, DataStep
  <2>6. Committed(8)'
    BY <1>3, <1>9, <1>13, <2>5, SameView DEF Committed
  <2>. QED
    BY <1>3, <2>1, <2>4, <2>6 DEF Held
<1>14. CASE n \in {4, 8}
  <2>1. Stage(9)'
    BY <1>1, <1>2, <1>14, StageStep
  <2>2. ReqRam(Op(Machine!Instr)) <=> n = 8
    BY <1>6, <1>14, <1>5 DEF Carries
  <2>3. port'.r_reg_dina = IF ReqRam(Op(Machine!Instr)) THEN Loaded ELSE Machine!Value
    BY <1>14, <2>2, DataStep DEF Stage, Carries
  <2>4. core'.core_state = 1 <=> Taken
    <3>1. core'.core_state = BranchSeen
      BY <1>1, ControlStep
    <3>2. CASE n = 4
      BY <3>1, <3>2 DEF BranchSeen, Carries
    <3>3. CASE n = 8
      <4>1. ~Taken
        BY <2>2, <3>3 DEF Taken, ReqRam, OP_JMP, OP_LW, OP_SW
      <4>2. BranchSeen = 0
        BY <3>3 DEF BranchSeen, Stage
      <4>. QED
        BY <3>1, <4>1, <4>2
    <3>. QED
      BY <1>14, <3>2, <3>3
  <2>5. Carries(9)'
    BY <1>4, <1>14, <2>3, <2>4, SameView, CarriesFrom
  <2>6. r_lmem' = r_lmem
    BY <1>14, DataStep DEF Stage
  <2>7. Committed(9)'
    <3>1. n = 4 => Op(Machine!Instr) # OP_SW
      BY <2>2 DEF ReqRam
    <3>. QED
      BY <1>3, <1>9, <1>14, <2>6, <3>1, SameView DEF Committed
  <2>. QED
    BY <1>3, <2>1, <2>5, <2>7 DEF Held
<1>. QED
  BY <1>2, <1>7, <1>8, <1>11, <1>12, <1>13, <1>14

(* The ring holds its token in one stage.                                  *)
LEMMA StageUnique ==
  ASSUME NEW n \in 0 .. 9, NEW m \in 0 .. 9, Stage(n), Stage(m) PROVE n = m
  BY DEF Stage

\* What arch becomes when the token returns to the core.
Retired(full) ==
  arch' = [pc |-> core'.pc, r_regs |-> r_regs', r_lmem |-> r_lmem', r_sr |-> r_sr',
           halted |-> ctl.q_halt,
           uart |-> IF uart_transmit(full) THEN alu.q_result % 256 ELSE NoByte,
           tx_fifo_full |-> full]

(* After the retirement the pipeline is ready for the next instruction.    *)
LEMMA RetireData ==
  ASSUME TypeOK, NEW step \in BOOLEAN, NEW full \in BOOLEAN, Tick(step), Retired(full),
         ctl.q_req_ram <=> ReqRam(Op(ctl.q_instr)),
         NEW n \in {2, 9}, Stage(n), Front(FALSE, FALSE, FALSE),
         core.core_state = 0 \/ core.core_state = 1, ctl.q_halt => core.core_state = 0
  PROVE  Fetched' /\ Held'
<1>1. ~i_reset /\ ~core.r_cpu_init /\ ~core.i_ce_reg /\ ~core.q_ce /\ ~lmem.q_ce_dec
  BY DEF Front
<1>2. n \in 0 .. 9 /\ n # 0
  OBVIOUS
<1>3. Ready /\ BranchSeen = core.core_state
  BY DEF Stage, Ready, i_ce, BranchSeen
<1>4. Stage(0)'
  BY <1>1, <1>2, StageStep
<1>5. core'.i_ce_reg /\ ~core'.q_ce
  BY <1>1, <1>3, ControlStep
<1>6. ~lmem'.q_ce_dec /\ ctl' = ctl
  BY <1>1, PulseStep, DataStep
<1>7. Fetched'
  BY <1>5, <1>6 DEF Fetched, Retired
<1>8. Carries(0)' /\ Committed(0)'
  BY DEF Carries, Committed, Retired
<1>. QED
  BY <1>4, <1>7, <1>8 DEF Held

(* Where the retired instruction leaves pc and the register file.          *)
LEMMA RetireValues ==
  ASSUME TypeOK, NEW step \in BOOLEAN, Tick(step),
         ctl = Latched(ctl.q_instr),
         NEW n \in {2, 9}, Stage(n), Front(FALSE, FALSE, FALSE),
         core.core_state = 0 \/ core.core_state = 1, ctl.q_halt => core.core_state = 0,
         Fetched, Carries(n), Committed(n)
  PROVE  /\ core'.pc = IF core.core_state = 1 THEN alu.q_result ELSE Wrap(arch.pc + 1)
         /\ ~arch.halted
         /\ ctl.q_halt <=> Halts(Op(Machine!Instr))
         /\ ctl.q_new_uart1_data <=> Op(Machine!Instr) = OP_WRITE
         /\ r_regs' = IF n = 9 /\ RegWe(Op(Machine!Instr))
                      THEN [arch.r_regs EXCEPT ![Rd(Machine!Instr)] = port.r_reg_dina]
                      ELSE arch.r_regs
         /\ r_lmem' = r_lmem /\ r_sr' = r_sr
<1>1. ~i_reset /\ ~core.i_ce_reg
  BY DEF Front
<1>2. core'.pc = IF core.core_state = 1 THEN alu.q_result ELSE Wrap(arch.pc + 1)
  BY <1>1, PcStep DEF Fetched, MayIssue
<1>3. ctl.q_instr = Machine!Instr
  BY DEF Carries
<1>4. /\ ctl.q_halt <=> Halts(Op(Machine!Instr))
      /\ ctl.q_new_uart1_data <=> Op(Machine!Instr) = OP_WRITE
      /\ ctl.q_reg_we <=> RegWe(Op(Machine!Instr))
  <2>1. \A w : /\ Latched(w).q_halt <=> Halts(Op(w))
               /\ Latched(w).q_new_uart1_data <=> Op(w) = OP_WRITE
               /\ Latched(w).q_reg_we <=> RegWe(Op(w))
    BY DEF Latched, NewUart
  <2>. QED
    BY <1>3, <2>1
<1>5. r_regs' = IF n = 9 /\ RegWe(Op(Machine!Instr))
               THEN [arch.r_regs EXCEPT ![Rd(Machine!Instr)] = port.r_reg_dina]
               ELSE arch.r_regs
  BY <1>1, <1>3, <1>4, RegsDataStep DEF Stage, Committed
<1>6. r_lmem' = r_lmem /\ r_sr' = r_sr
  BY DataStep, AluDataStep DEF Stage
<1>. QED
  BY <1>1, <1>2, <1>4, <1>5, <1>6 DEF Fetched

(* The machine's actions, with the core's operators.                       *)
LEMMA MachineActions ==
  /\ Machine!ResetRegs = [r \in Reg |-> IF r = REG_SP THEN 255 ELSE 0]
  /\ Machine!NoByte = NoByte
  /\ Machine!OP_NOP = OP_NOP /\ Machine!OP_LW = OP_LW /\ Machine!OP_SW = OP_SW
  /\ Machine!OP_JMP = OP_JMP /\ Machine!OP_CMP = OP_CMP /\ Machine!OP_WRITE = OP_WRITE
  BY DEF Machine!ResetRegs, Machine!Reg, Reg, Machine!REG_SP, REG_SP, Machine!NoByte, NoByte,
         Machine!OP_NOP, OP_NOP, Machine!OP_LW, OP_LW, Machine!OP_SW, OP_SW,
         Machine!OP_JMP, OP_JMP, Machine!OP_CMP, OP_CMP, Machine!OP_WRITE, OP_WRITE

\* The opcodes whose only effect is their register.
ComputeOps == {OP_MOV, OP_MOVI, OP_ADD, OP_ADDI, OP_SUBI, OP_SET}

(* A retirement behind the ALU is a step of the machine.                   *)
LEMMA RetireExecuted ==
  ASSUME TypeOK, ArchType, NEW step \in BOOLEAN, NEW full \in BOOLEAN, Tick(step),
         Retired(full), ctl = Latched(ctl.q_instr),
         Stage(9), Front(FALSE, FALSE, FALSE),
         core.core_state = 0 \/ core.core_state = 1, ~ctl.q_halt,
         Fetched, Carries(9), Committed(9)
  PROVE  Machine!Next
<1> DEFINE op == Op(Machine!Instr)
<1>1. 9 \in {2, 9}
  OBVIOUS
<1>2. /\ core'.pc = IF core.core_state = 1 THEN alu.q_result ELSE Wrap(arch.pc + 1)
      /\ ~arch.halted /\ (ctl.q_halt <=> Halts(op))
      /\ ctl.q_new_uart1_data <=> op = OP_WRITE
      /\ r_regs' = IF RegWe(op)
                   THEN [arch.r_regs EXCEPT ![Rd(Machine!Instr)] = port.r_reg_dina]
                   ELSE arch.r_regs
      /\ r_lmem' = r_lmem /\ r_sr' = r_sr
  BY <1>1, RetireValues
<1>3. /\ ~SkipsAlu(op) /\ alu.q_result = Machine!Value
      /\ port.r_reg_dina = IF ReqRam(op) THEN Loaded ELSE Machine!Value
      /\ core.core_state = 1 <=> Taken
      /\ r_sr = IF op = OP_CMP THEN func_alu_cmp(Machine!Data, Machine!Datb) ELSE arch.r_sr
      /\ r_lmem = IF op = OP_SW
                  THEN [arch.r_lmem EXCEPT ![MemIndex(Machine!Value)] = Machine!Data]
                  ELSE arch.r_lmem
  BY DEF Carries, Committed
<1>4. op \in ComputeOps \cup {OP_LW, OP_SW, OP_CMP, OP_JMP, OP_WRITE}
  BY <1>3 DEF SkipsAlu, Halts, Decoded, ComputeOps
<1>5. /\ arch'.pc = core'.pc /\ arch'.r_regs = r_regs' /\ arch'.r_lmem = r_lmem'
      /\ arch'.r_sr = r_sr' /\ arch'.halted = ctl.q_halt
      /\ arch'.uart = IF ctl.q_new_uart1_data /\ ~full THEN alu.q_result % 256 ELSE NoByte
      /\ arch'.tx_fifo_full = full
  BY DEF Retired, uart_transmit, Stage
<1>6. arch'.halted = arch.halted
  <2>1. ctl.q_halt \in BOOLEAN /\ ctl.q_halt = FALSE
    BY DEF TypeOK, CtlType
  <2>2. arch.halted = FALSE
    BY <1>2 DEF ArchType
  <2>. QED
    BY <1>5, <2>1, <2>2
<1>7. op # OP_JMP => Machine!GoOn
  BY <1>2, <1>3, <1>5, MachineIsa DEF Taken, Machine!GoOn
<1>8. op # OP_WRITE => Machine!Silent
  BY <1>2, <1>5, MachineActions DEF Machine!Silent
<1>9. CASE op \in ComputeOps
  <2>1. /\ RegWe(op) /\ ~ReqRam(op) /\ op # OP_JMP /\ op # OP_CMP /\ op # OP_SW
        /\ op # OP_WRITE
    BY <1>9 DEF ComputeOps, RegWe, ReqRam, OP_LW, OP_SW, OP_MOV, OP_MOVI, OP_ADD, OP_ADDI,
                OP_SUBI, OP_JMP, OP_CMP, OP_WRITE, OP_SET
  <2>2. Machine!Compute
    BY <1>2, <1>3, <1>5, <1>6, <1>7, <1>8, <2>1, MachineIsa, MachineActions DEF Machine!Compute
  <2>. QED
    BY <1>2, <1>5, <2>2 DEF Machine!Next
<1>10. CASE op = OP_LW
  <2>1. RegWe(op) /\ ReqRam(op) /\ op # OP_JMP /\ op # OP_CMP /\ op # OP_SW /\ op # OP_WRITE
    BY <1>10 DEF RegWe, ReqRam, OP_LW, OP_SW, OP_JMP, OP_CMP, OP_WRITE
  <2>2. Machine!Load
    BY <1>2, <1>3, <1>5, <1>6, <1>7, <1>8, <1>10, <2>1, MachineIsa, MachineActions
       DEF Machine!Load, Loaded
  <2>. QED
    BY <1>2, <1>5, <2>2 DEF Machine!Next
<1>11. CASE op = OP_SW
  <2>1. ~RegWe(op) /\ op # OP_JMP /\ op # OP_CMP /\ op # OP_WRITE
    BY <1>11 DEF RegWe, OP_LW, OP_SW, OP_MOV, OP_MOVI, OP_ADD, OP_ADDI,
                 OP_SUBI, OP_JMP, OP_CMP, OP_WRITE, OP_SET
  <2>2. Machine!Store
    BY <1>2, <1>3, <1>5, <1>6, <1>7, <1>8, <1>11, <2>1, MachineIsa, MachineActions
       DEF Machine!Store
  <2>. QED
    BY <1>2, <1>5, <2>2 DEF Machine!Next
<1>12. CASE op = OP_CMP
  <2>1. ~RegWe(op) /\ op # OP_JMP /\ op # OP_SW /\ op # OP_WRITE
    BY <1>12 DEF RegWe, OP_LW, OP_SW, OP_MOV, OP_MOVI, OP_ADD, OP_ADDI,
                 OP_SUBI, OP_JMP, OP_CMP, OP_WRITE, OP_SET
  <2>2. Machine!Compare
    BY <1>2, <1>3, <1>5, <1>6, <1>7, <1>8, <1>12, <2>1, MachineIsa, MachineActions
       DEF Machine!Compare
  <2>. QED
    BY <1>2, <1>5, <2>2 DEF Machine!Next
<1>13. CASE op = OP_JMP
  <2>1. ~ReqRam(op) /\ op # OP_CMP /\ op # OP_SW /\ op # OP_WRITE
    BY <1>13 DEF ReqRam, OP_LW, OP_SW, OP_JMP, OP_CMP, OP_WRITE
  <2>2. Machine!Value = Machine!Data
    <3>1. \A data, datb, imm8, simm5, sr :
            AluResult(OP_JMP, data, datb, imm8, simm5, sr) = data
      BY DEF AluResult, OP_LW, OP_SW, OP_MOV, OP_MOVI, OP_ADD, OP_ADDI, OP_SUBI, OP_JMP,
             OP_WRITE, OP_SET
    <3>. QED
      BY <1>13, <3>1, MachineReads
  <2>3. r_regs' = arch.r_regs    \* the jump writes back the value it read
    BY <1>2, <1>3, <2>1, <2>2, MachineReads DEF ArchType
  <2>4. Machine!Jump
    <3>1. Taken <=> func_alu_should_jmp(Imm8(Machine!Instr), arch.r_sr)
      BY <1>13 DEF Taken
    <3>2. IF func_alu_should_jmp(Imm8(Machine!Instr), arch.r_sr)
          THEN arch'.pc = Machine!Data ELSE Machine!GoOn
      BY <1>2, <1>3, <1>5, <2>2, <3>1, MachineIsa DEF Machine!GoOn
    <3>3. UNCHANGED <<arch.r_regs, arch.r_lmem, arch.r_sr, arch.halted>>
      BY <1>2, <1>3, <1>5, <1>6, <2>1, <2>3
    <3>. QED
      BY <1>8, <1>13, <2>1, <3>2, <3>3, MachineIsa, MachineActions DEF Machine!Jump
  <2>. QED
    BY <1>2, <1>5, <2>4 DEF Machine!Next
<1>14. CASE op = OP_WRITE
  <2>1. ~RegWe(op) /\ op # OP_JMP /\ op # OP_CMP /\ op # OP_SW
    BY <1>14 DEF RegWe, OP_LW, OP_SW, OP_MOV, OP_MOVI, OP_ADD, OP_ADDI,
                 OP_SUBI, OP_JMP, OP_CMP, OP_WRITE, OP_SET
  <2>2. arch'.uart = IF arch'.tx_fifo_full THEN Machine!NoByte ELSE Machine!Value % 256
    BY <1>2, <1>3, <1>5, <1>14, MachineActions
  <2>3. Machine!Write
    BY <1>2, <1>3, <1>5, <1>6, <1>7, <1>14, <2>1, <2>2, MachineIsa, MachineActions
       DEF Machine!Write
  <2>. QED
    BY <1>2, <1>5, <2>3 DEF Machine!Next
<1>. QED
  BY <1>4, <1>9, <1>10, <1>11, <1>12, <1>13, <1>14

(* A retirement at the decoder is a no-op or a halt.                       *)
LEMMA RetireSkipped ==
  ASSUME TypeOK, ArchType, NEW step \in BOOLEAN, NEW full \in BOOLEAN, Tick(step),
         Retired(full), ctl = Latched(ctl.q_instr),
         Stage(2), Front(FALSE, FALSE, FALSE), core.core_state = 0,
         Fetched, Carries(2), Committed(2)
  PROVE  Machine!Next
<1> DEFINE op == Op(Machine!Instr)
<1>1. 2 \in {2, 9}
  OBVIOUS
<1>2. /\ core'.pc = Wrap(arch.pc + 1)
      /\ ~arch.halted /\ (ctl.q_halt <=> Halts(op))
      /\ r_regs' = arch.r_regs /\ r_lmem' = r_lmem /\ r_sr' = r_sr
  <2>1. /\ core'.pc = IF core.core_state = 1 THEN alu.q_result ELSE Wrap(arch.pc + 1)
        /\ ~arch.halted /\ (ctl.q_halt <=> Halts(op))
        /\ r_regs' = IF 2 = 9 /\ RegWe(op)
                     THEN [arch.r_regs EXCEPT ![Rd(Machine!Instr)] = port.r_reg_dina]
                     ELSE arch.r_regs
        /\ r_lmem' = r_lmem /\ r_sr' = r_sr
    BY <1>1, RetireValues
  <2>. QED
    BY <2>1
<1>3. SkipsAlu(op) /\ r_sr = arch.r_sr /\ r_lmem = arch.r_lmem
  BY DEF Carries, Committed
<1>4. /\ arch'.pc = core'.pc /\ arch'.r_regs = r_regs' /\ arch'.r_lmem = r_lmem'
      /\ arch'.r_sr = r_sr' /\ arch'.halted = ctl.q_halt /\ arch'.uart = NoByte
      /\ arch'.tx_fifo_full = full
  BY DEF Retired, uart_transmit, Stage
<1>5. Machine!GoOn /\ Machine!Silent
  BY <1>2, <1>4, MachineIsa, MachineActions DEF Machine!GoOn, Machine!Silent
<1>6. ctl.q_halt \in BOOLEAN
  BY DEF TypeOK, CtlType
<1>7. CASE Halts(op)
  <2>1. arch'.halted = TRUE
    BY <1>2, <1>4, <1>6, <1>7
  <2>2. Machine!Halt
    BY <1>2, <1>3, <1>4, <1>5, <1>7, <2>1, MachineIsa DEF Machine!Halt
  <2>. QED
    BY <1>2, <1>4, <2>2 DEF Machine!Next
<1>8. CASE ~Halts(op)
  <2>1. op = OP_NOP
    BY <1>3, <1>8 DEF SkipsAlu
  <2>2. arch'.halted = arch.halted
    BY <1>2, <1>4, <1>6, <1>8 DEF ArchType
  <2>3. Machine!Nop
    BY <1>2, <1>3, <1>4, <1>5, <2>1, <2>2, MachineIsa, MachineActions DEF Machine!Nop
  <2>. QED
    BY <1>2, <1>4, <2>3 DEF Machine!Next
<1>. QED
  BY <1>7, <1>8

(* Reset leaves the pipeline ready for the machine's first instruction.    *)
LEMMA ResetData ==
  ASSUME TypeOK, NEW step \in BOOLEAN, Tick(step), UNCHANGED arch,
         ctl.q_req_ram <=> ReqRam(Op(ctl.q_instr)), PhaseReset, AtReset
  PROVE  /\ PhaseReset' => AtReset'
         /\ ~PhaseReset' => Fetched' /\ Held'
<1>1. /\ ~core.i_ce_reg /\ ~core.q_ce /\ ~lmem.q_ce_dec /\ core.core_state = 0 /\ ~ctl.q_halt
      /\ Stage(0) \/ Stage(9)
  BY DEF PhaseReset
<1>2. ctl' = ctl /\ r_lmem' = r_lmem /\ r_sr' = r_sr
  BY <1>1, DataStep, AluDataStep DEF Stage
<1>3. ctl = Latched(0) /\ ~ctl.q_reg_we
  <2>1. Op(0) = 0
    BY DEF Op
  <2>2. ~RegWe(0)
    BY DEF RegWe, OP_LW, OP_MOV, OP_MOVI, OP_ADD, OP_ADDI, OP_SUBI, OP_JMP, OP_SET
  <2>3. \A w : Latched(w).q_reg_we <=> RegWe(Op(w))
    BY DEF Latched
  <2>. QED
    BY <2>1, <2>2, <2>3 DEF AtReset
<1>4. ~lmem'.q_ce_dec
  BY <1>1, PulseStep
<1>5. CASE i_reset
  <2>1. CoreReset /\ RegsReset
    BY <1>5 DEF Tick, CoreControl, CoreHalted, CoreIssue, CoreWait, CoreBranchLoad,
                CoreBranchDelay, CoreBranchFetch, Running, RegsTick, RegsAccess
  <2>2. core'.pc = 0 /\ core'.r_cpu_init /\ ~core'.i_ce_reg /\ ~core'.q_ce
        /\ core'.core_state = 0
    BY <1>1, <2>1 DEF CoreReset
  <2>3. r_regs' = Machine!ResetRegs'
    BY <2>1, MachineActions DEF RegsReset
  <2>4. Machine!ResetRegs' = Machine!ResetRegs
    BY MachineActions
  <2>5. AtReset'
    BY <1>2, <1>3, <2>2, <2>3, <2>4 DEF AtReset
  <2>6. PhaseReset'
    <3>1. Stage(0)' \/ Stage(9)'
      BY <1>1, PulseStep, RegsPulseStep DEF Stage
    <3>. QED
      BY <1>1, <1>2, <1>4, <2>2, <3>1 DEF PhaseReset
  <2>. QED
    BY <2>5, <2>6
<1>6. CASE ~i_reset
  <2>1. core.r_cpu_init /\ Ready
    BY <1>6 DEF PhaseReset, Ready, i_ce
  <2>2. ~PhaseReset' /\ core'.i_ce_reg /\ ~core'.q_ce
    BY <1>1, <1>6, <2>1, ControlStep DEF PhaseReset
  <2>3. core'.pc = core.pc
    BY <1>1, <1>6, PcStep DEF MayIssue
  <2>4. Fetched'
    BY <1>1, <1>2, <1>4, <2>2, <2>3 DEF Fetched, AtReset
  <2>5. r_regs' = r_regs
    BY <1>3, <1>6, RegsDataStep
  <2>6. Carries(0)' /\ Committed(0)'
    BY <1>2, <2>1, <2>5 DEF Carries, Committed, AtReset
  <2>7. Stage(0)'
    BY <1>1, <1>6, PulseStep, RegsPulseStep DEF Stage
  <2>. QED
    BY <2>2, <2>4, <2>6, <2>7 DEF Held
<1>. QED
  BY <1>5, <1>6

(* Every edge keeps the data with the token, and is a whole instruction of *)
(* the machine or nothing to it.                                           *)
LEMMA ArchStep ==
  ASSUME TypeOK, ArchType, ctl = Latched(ctl.q_instr),
         ctl.q_req_ram <=> ReqRam(Op(ctl.q_instr)), Phases, DataHeld,
         NEW step \in BOOLEAN, NEW full \in BOOLEAN, ArchTick(step, full), Flows(step)
  PROVE  DataHeld' /\ (Machine!Next \/ UNCHANGED arch)
<1>1. Tick(step) /\ (Retires => Retired(full)) /\ (~Retires => UNCHANGED arch)
  BY DEF ArchTick, Retired
<1>2. CASE PhaseReset
  <2>1. UNCHANGED arch
    BY <1>1, <1>2 DEF Retires, PhaseReset
  <2>2. AtReset
    BY <1>2 DEF DataHeld
  <2>. QED
    BY <1>1, <1>2, <2>1, <2>2, ResetData DEF DataHeld
<1>3. ASSUME ~PhaseReset, ~i_reset PROVE ~PhaseReset' /\ Fetched /\ Held
  BY <1>1, <1>3, ControlStep DEF PhaseReset, DataHeld
<1>4. CASE PhaseReady \/ PhaseFetch \/ PhaseBranch \/ PhaseRefetch
  <2>1. ~i_reset /\ Stage(0) /\ ~PhaseReset
    BY <1>4 DEF PhaseReset, PhaseReady, PhaseFetch, PhaseBranch, PhaseRefetch, Front
  <2>2. UNCHANGED arch
    BY <1>1, <1>4, <2>1
       DEF Retires, i_ce, Stage, PhaseReady, PhaseFetch, PhaseBranch, PhaseRefetch, Front
  <2>3. Committed(0)
    BY <1>3, <2>1, StageUnique DEF Held
  <2>. QED
    BY <1>1, <1>3, <1>4, <2>1, <2>2, <2>3, FrontData DEF DataHeld
<1>5. CASE PhaseDecode \/ PhaseRedecode
  <2>1. ~i_reset /\ Stage(0) /\ ~PhaseReset
    BY <1>5 DEF PhaseReset, PhaseDecode, PhaseRedecode, Front
  <2>2. UNCHANGED arch
    BY <1>1, <1>5, <2>1 DEF Retires, i_ce, Stage, PhaseDecode, PhaseRedecode, Front
  <2>3. Committed(0)
    BY <1>3, <2>1, StageUnique DEF Held
  <2>. QED
    BY <1>1, <1>3, <1>5, <2>1, <2>2, <2>3, DecodeData DEF DataHeld
<1>6. CASE PhaseWork
  <2>1. PICK n \in 1 .. 9 :
          /\ Front(FALSE, FALSE, FALSE) /\ Stage(n)
          /\ core.core_state = 0 \/ (core.core_state = 1 /\ n = 9)
          /\ ctl.q_halt => n = 2
    BY <1>6 DEF PhaseWork
  <2>2. ~i_reset /\ ~core.r_cpu_init /\ ~PhaseReset
    BY <2>1 DEF Front, PhaseReset
  <2>3. Carries(n) /\ Committed(n)
    <3>1. n \in 0 .. 9
      OBVIOUS
    <3>. QED
      BY <1>3, <2>1, <2>2, <3>1, StageUnique DEF Held
  <2>4. Retires <=> n \in {2, 9}
    BY <2>1, <2>2 DEF Retires, i_ce, Stage
  <2>5. CASE n = 2
    <3>1. Retired(full) /\ core.core_state = 0
      BY <1>1, <2>1, <2>4, <2>5
    <3>2. Machine!Next
      BY <1>1, <1>3, <2>1, <2>2, <2>3, <2>5, <3>1, RetireSkipped
    <3>3. Fetched' /\ Held'
      BY <1>1, <2>1, <2>5, <3>1, RetireData
    <3>. QED
      BY <1>3, <2>2, <3>2, <3>3 DEF DataHeld
  <2>6. CASE n = 9
    <3>1. Retired(full) /\ ~ctl.q_halt
      BY <1>1, <2>1, <2>4, <2>6
    <3>2. Machine!Next
      BY <1>1, <1>3, <2>1, <2>2, <2>3, <2>6, <3>1, RetireExecuted
    <3>3. Fetched' /\ Held'
      BY <1>1, <2>1, <2>6, <3>1, RetireData
    <3>. QED
      BY <1>3, <2>2, <3>2, <3>3 DEF DataHeld
  <2>7. CASE n \notin {2, 9}
    <3>1. /\ UNCHANGED arch /\ core.core_state = 0 /\ ~ctl.q_halt
          /\ n \in 1 .. 8 /\ n # 2
      BY <1>1, <2>1, <2>4, <2>7
    <3>2. Fetched' /\ Held'
      BY <1>1, <1>3, <2>1, <2>2, <2>3, <3>1, WorkData
    <3>. QED
      BY <1>3, <2>2, <3>1, <3>2 DEF DataHeld
  <2>. QED
    BY <2>5, <2>6, <2>7
<1>. QED
  BY <1>2, <1>4, <1>5, <1>6 DEF Phases

(* A step that changes nothing keeps the data.                             *)
LEMMA DataStutter ==
  ASSUME UNCHANGED avars
  PROVE  (DataHeld' <=> DataHeld) /\ (DataInv' <=> DataInv)
<1>1. /\ UNCHANGED <<core, port, lmem, r_lmem, dec, ctl, regs, r_regs, alu, r_sr, env, arch>>
      /\ \A n : Stage(n)' <=> Stage(n)
  BY DEF avars, vars, Stage
<1>2. Fetched' <=> Fetched
  BY <1>1, SameView DEF Fetched
<1>3. \A n : Carries(n)' <=> Carries(n)
  BY <1>1, SameView DEF Carries
<1>4. \A n : Committed(n)' <=> Committed(n)
  BY <1>1, SameView DEF Committed
<1>5. Held' <=> Held
  BY <1>1, <1>3, <1>4 DEF Held
<1>6. PhaseReset' <=> PhaseReset
  BY <1>1 DEF PhaseReset, i_reset
<1>7. AtReset' <=> AtReset
  <2>1. Machine!ResetRegs' = Machine!ResetRegs
    BY MachineActions
  <2>. QED
    BY <1>1, <2>1 DEF AtReset
<1>. QED
  <2>1. DataHeld' <=> DataHeld
    BY <1>2, <1>5, <1>6, <1>7 DEF DataHeld
  <2>. QED
    BY <1>1, <2>1 DEF DataInv

(* What configuration and reset leave.                                     *)
LEMMA PowerOnData ==
  ASSUME InitArch PROVE PhaseReset /\ DataHeld /\ ctl = Latched(ctl.q_instr)
<1>1. Init
  BY DEF InitArch
<1>2. Op(0) = 0 /\ Rd(0) = 0 /\ Ra(0) = 0
  BY DEF Op, Rd, Ra
<1>3. ctl = Latched(0)
  <2>1. SelA(0) = 0
    BY <1>2 DEF SelA
  <2>2. ~RegWe(0) /\ ~ReqRam(0) /\ ~ReqRamWe(0) /\ ~NewUart(0) /\ ~Halts(0)
    BY DEF RegWe, ReqRam, ReqRamWe, NewUart, Halts, Decoded, OP_NOP, OP_LW, OP_SW, OP_MOV,
           OP_MOVI, OP_ADD, OP_ADDI, OP_SUBI, OP_JMP, OP_CMP, OP_WRITE, OP_SET
  <2>3. /\ RegWe(0) = FALSE /\ ReqRam(0) = FALSE /\ ReqRamWe(0) = FALSE
        /\ NewUart(0) = FALSE /\ Halts(0) = FALSE
    BY <2>2 DEF RegWe, ReqRam, ReqRamWe, NewUart, Halts
  <2>. QED
    BY <1>1, <1>2, <2>1, <2>3 DEF Init, Latched
<1>4. ctl = Latched(ctl.q_instr)
  BY <1>1, <1>3 DEF Init
<1>5. PhaseReset
  <2>1. env \in [i_mode : Modes, reset : 1 .. MaxResetCycles, wait : {0}]
    BY <1>1 DEF Init
  <2>2. env.reset \in 1 .. MaxResetCycles
    BY <2>1
  <2>3. i_reset
    BY <2>2, CoreAssumption DEF i_reset
  <2>. QED
    BY <1>1, <2>3 DEF Init, PhaseReset, Stage
<1>6. AtReset
  BY <1>1, <1>3, MachineActions DEF Init, InitArch, AtReset
<1>. QED
  BY <1>4, <1>5, <1>6 DEF DataHeld

(* Free running, the pipeline holds the operands of the instruction that   *)
(* the sequential machine has come to, and nothing else: no register,      *)
(* address, word or flag it uses is stale.                                 *)
THEOREM DataCorrect == SpecArch => []DataInv
<1>1. InitArch => DataInv
  BY PowerOnData DEF DataInv
<1>2. TypeOK /\ TokenInv /\ ArchType /\ DataInv /\ [NextArch]_avars => DataInv'
  <2> SUFFICES ASSUME TypeOK, TokenInv, ArchType, DataInv, [NextArch]_avars PROVE DataInv'
    OBVIOUS
  <2>1. CASE UNCHANGED avars
    BY <2>1, DataStutter
  <2>2. ASSUME NEW step \in BOOLEAN, NEW full \in BOOLEAN, ArchTick(step, full) PROVE DataInv'
    <3>1. Tick(step)
      BY <2>2 DEF ArchTick
    <3>2. env'.i_mode = env.i_mode
      BY <3>1 DEF Tick, EnvTick
    <3>3. ctl' = Latched(ctl'.q_instr)
      BY <3>1, LatchedStep DEF DataInv
    <3>4. env.i_mode = 0 => Flows(step)
      BY DEF Flows, MayIssue
    <3>. QED
      BY <2>2, <3>2, <3>3, <3>4, ArchStep DEF DataInv, TokenInv
  <2>. QED
    BY <2>1, <2>2 DEF NextArch
<1>. QED
  BY <1>1, <1>2, ArchIsCore, TypeCorrect, TokenCorrect, ArchTypeCorrect, PTL DEF SpecArch

(* Free running, the word handed to the decoder is the one at the address  *)
(* before pc, after a taken branch too.                                    *)
THEOREM DecodesTheRightWord == SpecArch => []DecodesWordBeforePc
<1>1. TokenInv /\ DataInv /\ ArchType => DecodesWordBeforePc
  <2> SUFFICES ASSUME TokenInv, DataInv, ArchType, env.i_mode = 0, lmem.q_ce_dec
               PROVE  lmem.q_mem_douta = r_lmem[MemIndex(Wrap(core.pc - 1))]
    BY DEF DecodesWordBeforePc
  <2>1. PhaseDecode \/ PhaseRedecode
    BY DEF TokenInv, Phases, PhaseReset, PhaseReady, PhaseFetch, PhaseWork, PhaseBranch, PhaseRefetch, Front
  <2>2. ~PhaseReset /\ ~core.i_ce_reg /\ Stage(0)
    BY <2>1 DEF PhaseReset, PhaseDecode, PhaseRedecode, Front
  <2>3. Fetched /\ Committed(0)
    BY <2>2, StageUnique DEF DataInv, DataHeld, Held
  <2>4. core.pc = Wrap(arch.pc + 1)
    BY <2>2, <2>3 DEF Fetched
  <2>5. Wrap(core.pc - 1) = arch.pc
    BY <2>4, WrapBack DEF ArchType
  <2>6. lmem.q_mem_douta = Machine!Instr /\ r_lmem = arch.r_lmem
    BY <2>3 DEF Fetched, Committed
  <2>. QED
    BY <2>5, <2>6, MachineReads
<1>. QED
  BY <1>1, DataCorrect, ArchIsCore, TokenCorrect, ArchTypeCorrect, PTL

(* The machine starts where arch does.                                     *)
LEMMA PowerOnMachine ==
  ASSUME InitArch PROVE Machine!Init
<1>1. Init
  BY DEF InitArch
<1>2. Machine!ClearFlags = ClearFlags
  BY DEF Machine!ClearFlags, ClearFlags
<1>3. arch = [pc |-> 0, r_lmem |-> r_lmem, r_sr |-> ClearFlags,
              r_regs |-> Machine!ResetRegs, halted |-> FALSE, uart |-> Machine!NoByte,
              tx_fifo_full |-> FALSE]
  BY MachineActions DEF InitArch
<1>4. r_lmem \in Programs
  BY <1>1 DEF Init
<1>. QED
  BY <1>2, <1>3, <1>4 DEF Machine!Init

(* With the debug switch at 0 the pipeline implements the sequential       *)
(* machine: each retirement is one whole instruction of the program, and   *)
(* nothing else it does can be seen in the architectural state.            *)
THEOREM PipelineImplementsMachine ==
  ASSUME Modes = {0}
  PROVE  SpecArch => RefinesMachine
<1>1. InitArch => Machine!Init
  BY PowerOnMachine
<1>2. TypeOK /\ TokenInv /\ ArchType /\ DataInv /\ [NextArch]_avars
        => [Machine!Next]_(Machine!mvars)
  <2> SUFFICES ASSUME TypeOK, TokenInv, ArchType, DataInv, [NextArch]_avars
               PROVE  Machine!Next \/ UNCHANGED arch
    BY DEF Machine!mvars
  <2>1. env.i_mode = 0
    BY DEF TypeOK, EnvType
  <2>2. CASE UNCHANGED avars
    BY <2>2 DEF avars
  <2>3. ASSUME NEW step \in BOOLEAN, NEW full \in BOOLEAN, ArchTick(step, full)
        PROVE  Machine!Next \/ UNCHANGED arch
    <3>1. Flows(step)
      BY <2>1 DEF Flows, MayIssue
    <3>. QED
      BY <2>1, <2>3, <3>1, ArchStep DEF TokenInv, DataInv
  <2>. QED
    BY <2>2, <2>3 DEF NextArch
<1>. QED
  BY <1>1, <1>2, ArchIsCore, TypeCorrect, TokenCorrect, ArchTypeCorrect, DataCorrect, PTL
     DEF SpecArch, RefinesMachine, Machine!Spec
=============================================================================
