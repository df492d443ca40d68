---------------------------- MODULE System_proofs ----------------------------
(* The whole board.  Its registers keep their ranges in either mode.  In   *)
(* single-step mode the button is an environment the core may rely on, a   *)
(* press issues one instruction, and the stepped core is the sequential    *)
(* machine, for programs that take no jump.                                *)
EXTENDS System, PrcoCore_proofs
-----------------------------------------------------------------------------
(* One edge of the button and of the core's distance to the next press.    *)
LEMMA ButtonStep ==
  ASSUME NEW PORTC3 \in BOOLEAN, SystemTick(PORTC3)
  PROVE  /\ sync_pipe' = PORTC3 /\ r_button_state' = sync_pipe
         /\ timer' = IF timer = 0 THEN Period - 1 ELSE timer - 1
         /\ o_debounced' = IF timer = 0 THEN r_button_state ELSE o_debounced
         /\ r_last' = o_debounced
         /\ r_button_event' <=> o_debounced /\ ~r_last
         /\ Tick(r_button_event) /\ ArchTick(r_button_event, tx_fifo.FULL)
         /\ env'.i_mode = env.i_mode
         /\ env'.wait = IF r_button_event THEN StepGap
                        ELSE IF env.wait - 1 > 0 THEN env.wait - 1 ELSE 0
<1>1. B!BoardTick(PORTC3) /\ ArchTick(r_button_event, tx_fifo.FULL)
  BY DEF SystemTick
<1>2. Tick(r_button_event)
  BY <1>1 DEF ArchTick
<1>. QED
  BY <1>1, <1>2 DEF B!BoardTick, B!Sync, B!Sample, B!CountDown, B!Detect, Tick, EnvTick, Max0

(* A FIFO of the port keeps its ranges.                                    *)
LEMMA PortFifoTyped ==
  ASSUME NEW f \in U!FifoRegs, NEW i \in U!FifoInputs
  PROVE  U!FifoTick(f, i) \in U!FifoRegs
<1>1. /\ f.write_ptr \in U!Address /\ f.read_ptr \in U!Address
      /\ f.memory \in [U!Address -> 0 .. 255] /\ f.FULL \in BOOLEAN /\ f.EMPTY \in BOOLEAN
      /\ i.DATA_IN \in 0 .. 255
  BY DEF U!FifoRegs, U!FifoInputs
<1>2. 0 \in U!Address
  BY SystemAssumption DEF U!Address
<1>3. U!MemoryTick(f, i) \in [U!Address -> 0 .. 255]
  <2>1. CASE i.RESET \/ (i.ENABLE /\ i.FLUSH)
    BY <2>1 DEF U!MemoryTick
  <2>2. CASE ~(i.RESET \/ (i.ENABLE /\ i.FLUSH))
    BY <1>1, <2>2 DEF U!MemoryTick
  <2>. QED
    BY <2>1, <2>2
<1>4. U!FullTick(f, i) \in BOOLEAN /\ U!EmptyTick(f, i) \in BOOLEAN
  BY <1>1 DEF U!FullTick, U!EmptyTick
<1>5. U!NextPtr(f.write_ptr) \in U!Address /\ U!NextPtr(f.read_ptr) \in U!Address
  BY <1>1, SystemAssumption DEF U!NextPtr, U!Address
<1>. QED
  BY <1>1, <1>2, <1>3, <1>4, <1>5 DEF U!FifoTick, U!FifoRegs

(* So does its transmitter, and the receiver rests: its line is idle.      *)
LEMMA PortTxTyped ==
  ASSUME txu \in U!TxType, NEW rst \in BOOLEAN, NEW transmit \in BOOLEAN, NEW tx_byte \in 0 .. 255,
         U!TxTick(rst, transmit, tx_byte)
  PROVE  txu' \in U!TxType
<1> USE DEF U!TX_IDLE, U!TX_SENDING, U!TX_DELAY_RESTART
<1>1. /\ txu.clk_divider \in 1 .. ClockDivide /\ txu.countdown \in 0 .. 63
      /\ txu.bits \in 0 .. 8 /\ txu.data \in 0 .. 255 /\ txu.out \in {0, 1}
      /\ txu.state \in 0 .. 2 /\ ClockDivide \in Int /\ ClockDivide >= 1
  BY SystemAssumption DEF U!TxType, U!Byte
<1>2. U!Divided(txu) \in 1 .. ClockDivide /\ U!Counted(txu) \in 0 .. 63
  BY <1>1 DEF U!Divided, U!Counted
<1>3. txu.data \div 2 \in 0 .. 255 /\ txu.data % 2 \in {0, 1}
  BY <1>1
<1>4. CASE U!TxIdle(rst, transmit, tx_byte)
  <2>1. CASE transmit
    BY <1>1, <1>4, <2>1 DEF U!TxIdle, U!TxType, U!Byte
  <2>2. CASE ~transmit
    BY <1>1, <1>4, <2>2 DEF U!TxIdle, U!TxType
  <2>. QED
    BY <2>1, <2>2
<1>5. CASE U!TxShift(rst)
  BY <1>1, <1>2, <1>3, <1>5 DEF U!TxShift, U!TxMoved, U!TxType, U!Byte
<1>6. CASE U!TxStop(rst)
  BY <1>1, <1>2, <1>6 DEF U!TxStop, U!TxMoved, U!TxType, U!Byte
<1>7. CASE U!TxRestart(rst)
  BY <1>1, <1>2, <1>7 DEF U!TxRestart, U!TxMoved, U!TxType, U!Byte
<1>8. CASE U!TxHold(rst)
  BY <1>1, <1>2, <1>8 DEF U!TxHold, U!TxMoved, U!TxType, U!Byte
<1>. QED
  BY <1>4, <1>5, <1>6, <1>7, <1>8 DEF U!TxTick

RxRests == rxu \in U!RxType /\ rxu.state = U!RX_IDLE

LEMMA PortRxRests ==
  ASSUME RxRests, NEW rst \in BOOLEAN, U!RxTick(rst, 1)
  PROVE  rxu' = rxu
<1> USE DEF U!RX_IDLE, U!RX_CHECK_START, U!RX_READ_BITS, U!RX_CHECK_STOP, U!RX_DELAY_RESTART,
            U!RX_ERROR, U!RX_RECEIVED
<1>1. U!From(rxu, rst) = 0
  BY DEF RxRests, U!From
<1>2. U!RxIdle(rst, 1)
  BY <1>1 DEF U!RxTick, U!RxStart, U!RxBit, U!RxStop, U!RxError, U!RxRestart, U!RxReceived,
              U!RxHold
<1>3. rxu' = [rxu EXCEPT !.state = 0]
  BY <1>2 DEF U!RxIdle
<1>. QED
  BY <1>3 DEF RxRests, U!RxType

\* The part of SystemTypeOK that is not the core's, in reach of induction.
BoardType ==
  /\ sync_pipe \in BOOLEAN /\ r_button_state \in BOOLEAN /\ timer \in 0 .. Period - 1
  /\ o_debounced \in BOOLEAN /\ r_last \in BOOLEAN /\ r_button_event \in BOOLEAN
  /\ txu \in U!TxType /\ RxRests
  /\ tx_fifo \in U!FifoRegs /\ rx_fifo \in U!FifoRegs /\ tx_fifo_pop \in BOOLEAN
  /\ q_UART1_tx_data \in 0 .. 255
  /\ owed \in Seq(0 .. 255)

LEMMA BoardTypeInit ==
  ASSUME SystemInit PROVE BoardType
<1>1. U!UartFifoInit /\ q_UART1_tx_data = 0 /\ owed = <<>>
  BY DEF SystemInit
<1>2. txu \in U!TxType /\ RxRests
  BY <1>1, SystemAssumption DEF U!UartFifoInit, U!UartInit, U!TxType, RxRests, U!RxType, U!Byte,
                                U!TX_IDLE, U!RX_IDLE
<1>3. tx_fifo \in U!FifoRegs /\ rx_fifo \in U!FifoRegs /\ tx_fifo_pop \in BOOLEAN
  <2>1. 0 \in U!Address
    BY SystemAssumption DEF U!Address
  <2>2. [a \in U!Address |-> 0] \in [U!Address -> 0 .. 255]
    OBVIOUS
  <2>3. U!FifoInit \in U!FifoRegs
    BY <2>1, <2>2 DEF U!FifoInit, U!FifoRegs
  <2>4. U!FifoPowerOn \in U!FifoRegs
    BY <2>3 DEF U!FifoPowerOn, U!FifoRegs
  <2>. QED
    BY <1>1, <2>4 DEF U!UartFifoInit
<1>4. owed \in Seq(0 .. 255) /\ q_UART1_tx_data \in 0 .. 255
  BY <1>1
<1>5. /\ sync_pipe \in BOOLEAN /\ r_button_state \in BOOLEAN /\ timer \in 0 .. Period - 1
      /\ o_debounced \in BOOLEAN /\ r_last \in BOOLEAN /\ r_button_event \in BOOLEAN
  <2>1. B!BoardInit
    BY DEF SystemInit
  <2>2. timer \in 0 .. Period - 1
    BY <2>1, SystemAssumption DEF B!BoardInit
  <2>. QED
    BY <2>1, <2>2 DEF B!BoardInit
<1>. QED
  BY <1>1, <1>2, <1>3, <1>4, <1>5 DEF BoardType

LEMMA BoardTypeStep ==
  ASSUME TypeOK, BoardType, [SystemNext]_svars PROVE BoardType'
<1>1. CASE UNCHANGED svars
  BY <1>1 DEF svars, buttonVars, U!portVars, U!uartVars, BoardType, RxRests
<1>2. ASSUME NEW PORTC3 \in BOOLEAN, SystemTick(PORTC3) PROVE BoardType'
  <2> DEFINE transmit == uart_transmit(tx_fifo.FULL)
  <2>1. Byte8 \in 0 .. 255
    <3>1. alu.q_result \in Word
      BY DEF TypeOK, AluType
    <3>. QED
      BY <3>1, WordRange DEF Byte8
  <2>2. transmit \in BOOLEAN /\ i_reset \in BOOLEAN
    BY DEF uart_transmit, i_reset
  <2>3. /\ U!TxTick(i_reset, tx_fifo_pop, U!DataOut(tx_fifo, TRUE)) /\ U!RxTick(i_reset, 1)
        /\ tx_fifo' = U!FifoTick(tx_fifo, U!FifoPorts(i_reset, transmit, tx_fifo_pop, Byte8))
        /\ rx_fifo' = U!FifoTick(rx_fifo, U!FifoPorts(i_reset, U!received, FALSE, rxu.data))
        /\ tx_fifo_pop' \in BOOLEAN
    BY <1>2 DEF SystemTick, U!UartFifoTick, U!UartTick, Undriven
  <2>4. U!DataOut(tx_fifo, TRUE) \in 0 .. 255
    BY DEF BoardType, U!FifoRegs, U!DataOut
  <2>5. txu' \in U!TxType
    BY <2>2, <2>3, <2>4, PortTxTyped DEF BoardType
  <2>6. RxRests'
    BY <2>2, <2>3, PortRxRests DEF BoardType, RxRests
  <2>7. U!FifoPorts(i_reset, transmit, tx_fifo_pop, Byte8) \in U!FifoInputs
    BY <2>1, <2>2 DEF U!FifoPorts, U!FifoInputs, BoardType
  <2>8. U!FifoPorts(i_reset, U!received, FALSE, rxu.data) \in U!FifoInputs
    <3>1. rxu.data \in 0 .. 255 /\ U!received \in BOOLEAN
      BY DEF BoardType, RxRests, U!RxType, U!Byte, U!received
    <3>. QED
      BY <2>2, <3>1 DEF U!FifoPorts, U!FifoInputs
  <2>9. tx_fifo' \in U!FifoRegs /\ rx_fifo' \in U!FifoRegs
    BY <2>3, <2>7, <2>8, PortFifoTyped DEF BoardType
  <2>10. q_UART1_tx_data' \in 0 .. 255
    BY <1>2, <2>1 DEF SystemTick, IoTick, BoardType
  <2>11. owed' \in Seq(0 .. 255)
    <3>1. owed \in Seq(0 .. 255) /\ (owed # <<>> => Tail(owed) \in Seq(0 .. 255))
      BY DEF BoardType
    <3>2. PICK rest \in Seq(0 .. 255) : owed' \in {rest, Append(rest, Byte8)}
      BY <1>2, <3>1 DEF SystemTick
    <3>3. Append(rest, Byte8) \in Seq(0 .. 255)
      BY <2>1
    <3>. QED
      BY <3>2, <3>3
  <2>12. /\ sync_pipe' \in BOOLEAN /\ r_button_state' \in BOOLEAN /\ timer' \in 0 .. Period - 1
         /\ o_debounced' \in BOOLEAN /\ r_last' \in BOOLEAN /\ r_button_event' \in BOOLEAN
    <3>1. B!Sync(PORTC3) /\ B!Sample /\ B!Detect
      BY <1>2 DEF SystemTick, B!BoardTick
    <3>2. timer' \in 0 .. Period - 1
      BY <1>2, ButtonStep, SystemAssumption DEF BoardType
    <3>3. r_button_event' \in BOOLEAN
      BY <3>1 DEF B!Detect
    <3>. QED
      BY <3>1, <3>2, <3>3 DEF B!Sync, B!Sample, B!Detect, BoardType
  <2>. QED
    BY <2>12, <2>3, <2>5, <2>6, <2>9, <2>10, <2>11 DEF BoardType
<1>. QED
  BY <1>1, <1>2 DEF SystemNext

(* Every register of the board keeps a value of its width, free-running or *)
(* stepping, and owed holds bytes.                                         *)
THEOREM SystemTypeCorrect == SystemSpec => []SystemTypeOK
<1>1. SystemInit => TypeOK /\ BoardType
  BY TypeInit, BoardTypeInit DEF SystemInit, InitArch
<1>2. TypeOK /\ BoardType /\ [SystemNext]_svars => (TypeOK /\ BoardType)'
  <2> SUFFICES ASSUME TypeOK, BoardType, [SystemNext]_svars PROVE TypeOK'
    BY BoardTypeStep
  <2>1. CASE UNCHANGED svars
    BY <2>1 DEF svars, avars, vars, TypeOK
  <2>2. ASSUME NEW PORTC3 \in BOOLEAN, SystemTick(PORTC3) PROVE TypeOK'
    BY <2>2, ButtonStep, TypeStep DEF BoardType
  <2>. QED
    BY <2>1, <2>2 DEF SystemNext
<1>3. TypeOK /\ BoardType => SystemTypeOK
  BY DEF BoardType, RxRests, SystemTypeOK, U!PortType
<1>. QED
  BY <1>1, <1>2, <1>3, PTL DEF SystemSpec
-----------------------------------------------------------------------------
\* Single stepping, with the debouncer's distance between two presses: time
\* enough for an instruction (at most nine edges) and not more than two samples.
SteppingAssumption ==
  /\ Modes = {1}
  /\ StepGap \in 11 .. 2 * Period - 1

\* No jump is taken: what core_jump shows does not arise.
NoJump == ~alu.q_should_branch

\* What pacing needs of the button's and the core's registers.
ButtonType ==
  /\ sync_pipe \in BOOLEAN /\ r_button_state \in BOOLEAN /\ timer \in 0 .. Period - 1
  /\ o_debounced \in BOOLEAN /\ r_last \in BOOLEAN /\ r_button_event \in BOOLEAN
  /\ tx_fifo.FULL \in BOOLEAN
  /\ env.i_mode = 1 /\ env.wait \in 0 .. StepGap

LEMMA SteppingType ==
  ASSUME SteppingAssumption, SystemTypeOK PROVE ButtonType
<1>1. env \in [i_mode : {1}, reset : 0 .. MaxResetCycles, wait : 0 .. StepGap]
  BY DEF SystemTypeOK, TypeOK, EnvType, SteppingAssumption
<1>2. env.i_mode = 1 /\ env.wait \in 0 .. StepGap
  BY <1>1
<1>3. tx_fifo.FULL \in BOOLEAN
  BY DEF SystemTypeOK, U!PortType, U!FifoRegs
<1>. QED
  BY <1>2, <1>3 DEF SystemTypeOK, ButtonType

(* The timer, the detector and the core's count keep step.                 *)
LEMMA PacedStep ==
  ASSUME SteppingAssumption, ButtonType, Paced, [SystemNext]_svars PROVE Paced'
<1>1. CASE UNCHANGED svars
  BY <1>1 DEF svars, avars, vars, buttonVars, Paced
<1>2. ASSUME NEW PORTC3 \in BOOLEAN, SystemTick(PORTC3) PROVE Paced'
  <2>1. /\ timer' = IF timer = 0 THEN Period - 1 ELSE timer - 1
        /\ o_debounced' = IF timer = 0 THEN r_button_state ELSE o_debounced
        /\ r_last' = o_debounced
        /\ r_button_event' <=> o_debounced /\ ~r_last
        /\ env'.wait = IF r_button_event THEN StepGap
                       ELSE IF env.wait - 1 > 0 THEN env.wait - 1 ELSE 0
    BY <1>2, ButtonStep
  <2>2. /\ Period \in Nat /\ Period > 1 /\ timer \in 0 .. Period - 1
        /\ StepGap \in 11 .. 2 * Period - 1 /\ env.wait \in 0 .. StepGap
    BY SystemAssumption DEF ButtonType, SteppingAssumption
  <2>3. /\ r_button_event' => env'.wait = 0 /\ o_debounced' /\ timer' = Period - 2
        /\ ~(r_last' <=> o_debounced') => timer' = Period - 1
    BY <2>1, <2>2 DEF Paced
  <2>4. ~o_debounced' => env'.wait <= timer' + 2
    BY <2>1, <2>2 DEF Paced
  <2>5. ASSUME o_debounced', ~r_last' PROVE env'.wait <= 1
    <3>1. ~o_debounced /\ timer = 0
      BY <2>1, <2>5
    <3>2. ~r_button_event /\ env.wait <= 2
      BY <3>1 DEF Paced
    <3>. QED
      BY <2>1, <2>2, <3>2
  <2>6. o_debounced' /\ ~r_button_event' => env'.wait <= Period + timer' + 2
    BY <2>1, <2>2 DEF Paced
  <2>. QED
    BY <2>3, <2>4, <2>5, <2>6 DEF Paced
<1>. QED
  BY <1>1, <1>2 DEF SystemNext

(* Timer, detector and the core's count agree at every edge.               *)
THEOREM ButtonPaces ==
  ASSUME SteppingAssumption
  PROVE  SystemSpec => [](ButtonType /\ Paced)
<1>1. SystemInit => Paced
  BY SystemAssumption DEF SystemInit, InitArch, Init, B!BoardInit, Paced
<1>2. ButtonType /\ Paced /\ [SystemNext]_svars => Paced'
  BY PacedStep
<1>3. SystemTypeOK => ButtonType
  BY SteppingType
<1>. QED
  BY <1>1, <1>2, <1>3, SystemTypeCorrect, PTL DEF SystemSpec

(* The board is an environment of the core: its button presses are steps   *)
(* that PrcoCore allows, at least StepGap edges apart.                     *)
THEOREM BoardPacesTheCore ==
  ASSUME SteppingAssumption
  PROVE  SystemSpec => RefinesCore
<1>1. SystemInit => InitArch
  BY DEF SystemInit
<1>2. ButtonType /\ Paced /\ [SystemNext]_svars => [NextArch]_avars
  <2> SUFFICES ASSUME ButtonType, Paced, [SystemNext]_svars PROVE [NextArch]_avars
    OBVIOUS
  <2>1. CASE UNCHANGED svars
    BY <2>1 DEF svars
  <2>2. ASSUME NEW PORTC3 \in BOOLEAN, SystemTick(PORTC3) PROVE NextArch
    <3>1. r_button_event \in BOOLEAN /\ tx_fifo.FULL \in BOOLEAN
      BY DEF ButtonType
    <3>2. r_button_event => StepAllowed
      BY DEF ButtonType, Paced, StepAllowed
    <3>. QED
      BY <2>2, <3>1, <3>2, ButtonStep DEF NextArch
  <2>. QED
    BY <2>1, <2>2 DEF SystemNext
<1>. QED
  BY <1>1, <1>2, ButtonPaces, PTL DEF SystemSpec, RefinesCore, SpecArch
-----------------------------------------------------------------------------
(* One edge of the stepped core: it issues on a press and only then, and   *)
(* the instruction is over before the next press is allowed.               *)
LEMMA SteppedStep ==
  ASSUME TypeOK, NEW step \in BOOLEAN, Tick(step), step => StepAllowed, env.i_mode = 1,
         StepGap >= 11, ctl.q_req_ram <=> ReqRam(Op(ctl.q_instr)), NoJump, Stepped
  PROVE  /\ Stepped'
         /\ ~PhaseReady => ~core'.q_ce
         /\ PhaseReady /\ ~ctl.q_halt => (core'.q_ce <=> step)
         /\ ~PhaseReady /\ ~PhaseReset => env.wait > 0
         /\ PhaseReady /\ ~step => PhaseReady'
         /\ regs.q_ce_fetch /\ ~PhaseReset
              => ~PhaseReady /\ PhaseReady' /\ env'.wait >= StepGap - 11
<1> USE DEF Front
<1>1. /\ MayIssue(step) <=> core.i_ce_reg /\ step
      /\ env.wait \in Int /\ StepGap \in Nat
      /\ env.wait > 0 => ~step /\ env'.wait = env.wait - 1
      /\ step => env'.wait = StepGap
  BY CoreAssumption DEF MayIssue, Tick, EnvTick, Max0, TypeOK, EnvType, StepAllowed
<1>2. ASSUME ~i_reset, ~core.r_cpu_init
      PROVE  /\ ~i_reset' /\ ~core'.r_cpu_init
             /\ lmem'.q_ce_dec <=> core.q_ce /\ ~(lmem.q_ce_dec \/ lmem.q_ce_reg)
             /\ ctl'.q_halt => \/ ~lmem.q_ce_dec /\ ctl.q_halt
                               \/ lmem.q_ce_dec /\ SkipsAlu(Op(lmem.q_mem_douta))
  BY <1>2, ControlStep, PulseStep, DecodeStep
<1>3. CASE PhaseReset
  <2>1. ~core'.q_ce /\ ~PhaseReady
    <3>1. CASE i_reset
      BY <1>3, <3>1 DEF PhaseReady, Tick, CoreControl, CoreReset, CoreHalted, CoreIssue, CoreWait,
                        CoreBranchLoad, CoreBranchDelay, CoreBranchFetch, Running
    <3>2. CASE ~i_reset
      BY <1>1, <1>3, <3>2, ControlStep DEF PhaseReady, PhaseReset
    <3>. QED
      BY <3>1, <3>2
  <2>2. PhaseReset' \/ PhaseReady'
    BY <1>3, ResetStep
  <2>. QED
    BY <1>3, <2>1, <2>2 DEF Stepped
<1>8. Stage(0) => ~regs.q_ce_fetch
  BY DEF Stage
<1>4. CASE PhaseReady
  <2>1. /\ ~i_reset /\ ~core.r_cpu_init /\ Stage(0) /\ ~core.q_ce /\ ~lmem.q_ce_dec
        /\ core.i_ce_reg /\ core.core_state = 0
    BY <1>4 DEF PhaseReady
  <2>2. BranchSeen = 0 /\ Ready
    BY <2>1 DEF BranchSeen, Ready, NoJump
  <2>3. Stage(0)'
    BY <2>1, StageStep
  <2>4. CASE step /\ ~ctl.q_halt
    <3>1. core'.q_ce /\ ~core'.i_ce_reg /\ core'.core_state = 0
      BY <1>1, <2>1, <2>2, <2>4, ControlStep
    <3>2. PhaseFetch' /\ env'.wait = StepGap
      BY <1>1, <1>2, <2>1, <2>3, <2>4, <3>1 DEF PhaseFetch
    <3>. QED
      BY <1>4, <1>8, <2>1, <2>4, <3>1, <3>2 DEF Stepped
  <2>5. CASE ~step \/ ctl.q_halt
    <3>1. ~core'.q_ce /\ core'.i_ce_reg /\ core'.core_state = 0
      BY <1>1, <2>1, <2>2, <2>5, ControlStep
    <3>2. PhaseReady'
      BY <1>2, <2>1, <2>3, <3>1 DEF PhaseReady
    <3>. QED
      BY <1>4, <1>8, <2>1, <2>5, <3>1, <3>2 DEF Stepped
  <2>. QED
    BY <2>4, <2>5
<1>5. CASE PhaseFetch /\ env.wait = StepGap
  <2>1. /\ ~i_reset /\ ~core.r_cpu_init /\ Stage(0) /\ core.q_ce /\ ~lmem.q_ce_dec
        /\ ~core.i_ce_reg /\ core.core_state = 0 /\ ~ctl.q_halt
    BY <1>5 DEF PhaseFetch
  <2>2. BranchSeen = 0 /\ ~Ready /\ ~lmem.q_ce_reg
    BY <2>1 DEF BranchSeen, Ready, NoJump, i_ce, Stage
  <2>3. Stage(0)'
    BY <2>1, StageStep
  <2>4. ~core'.q_ce /\ ~core'.i_ce_reg /\ core'.core_state = 0
    BY <1>1, <2>1, <2>2, ControlStep
  <2>5. PhaseDecode' /\ env'.wait = StepGap - 1
    BY <1>1, <1>2, <1>5, <2>1, <2>2, <2>3, <2>4 DEF PhaseDecode
  <2>. QED
    BY <1>1, <1>5, <1>8, <2>1, <2>4, <2>5 DEF Stepped, PhaseReady
<1>6. CASE PhaseDecode /\ env.wait = StepGap - 1
  <2>1. /\ ~i_reset /\ ~core.r_cpu_init /\ Stage(0) /\ ~core.q_ce /\ lmem.q_ce_dec
        /\ ~core.i_ce_reg /\ core.core_state = 0 /\ ~ctl.q_halt
    BY <1>6 DEF PhaseDecode
  <2>2. BranchSeen = 0 /\ ~Ready
    BY <2>1 DEF BranchSeen, Ready, NoJump, i_ce, Stage
  <2>3. IF SkipsAlu(Op(lmem.q_mem_douta)) THEN Stage(2)' ELSE Stage(1)'
    BY <2>1, StageStep
  <2>4. ~core'.q_ce /\ ~core'.i_ce_reg /\ core'.core_state = 0
    BY <1>1, <2>1, <2>2, ControlStep
  <2>5. env'.wait = StepGap - 2
    BY <1>1, <1>6
  <2>6. PICK m \in 1 .. 2 : Stage(m)' /\ (ctl'.q_halt => m = 2)
    BY <1>2, <2>1, <2>3
  <2>7. Stepped'
    BY <1>1, <1>2, <2>1, <2>4, <2>5, <2>6 DEF Stepped
  <2>. QED
    BY <1>1, <1>6, <1>8, <2>1, <2>4, <2>7 DEF PhaseReady
<1>7. ASSUME NEW n \in 1 .. 9, Front(FALSE, FALSE, FALSE), Stage(n), core.core_state = 0,
             ctl.q_halt => n = 2, env.wait >= StepGap - 1 - n
      PROVE  /\ Stepped' /\ ~core'.q_ce /\ ~PhaseReady /\ env.wait > 0
             /\ regs.q_ce_fetch => PhaseReady' /\ env'.wait >= StepGap - 11
  <2>1. /\ ~i_reset /\ ~core.r_cpu_init /\ ~core.q_ce /\ ~lmem.q_ce_dec /\ ~core.i_ce_reg
        /\ BranchSeen = 0 /\ n \in 0 .. 9 /\ n # 0
    BY <1>7 DEF NoJump, BranchSeen
  <2>2. env.wait > 0 /\ env'.wait = env.wait - 1
    BY <1>1, <1>7
  <2>3. ~core'.q_ce /\ (core'.i_ce_reg <=> Ready) /\ core'.core_state = 0
    BY <1>1, <1>7, <2>1, ControlStep
  <2>4. ~i_reset' /\ ~core'.r_cpu_init /\ ~lmem'.q_ce_dec /\ (ctl'.q_halt => ctl.q_halt)
    BY <1>2, <2>1
  <2>5. CASE n \in {2, 9}
    <3>1. Ready /\ Stage(0)'
      BY <1>7, <2>1, <2>5, StageStep DEF Ready, i_ce, Stage
    <3>2. PhaseReady'
      BY <2>3, <2>4, <3>1 DEF PhaseReady
    <3>. QED
      BY <1>1, <1>7, <2>1, <2>2, <2>3, <3>2 DEF Stepped, PhaseReady
  <2>6. CASE n \notin {2, 9}
    <3>1. ~Ready /\ ~ctl'.q_halt
      BY <1>7, <2>1, <2>4, <2>6 DEF Ready, i_ce, Stage
    <3>2. PICK m \in 3 .. 9 : m > n /\ Stage(m)'
      BY <1>7, <2>1, <2>6, StageStep
    <3>3. env'.wait >= StepGap - 1 - m /\ m \in 1 .. 9
      BY <1>1, <1>7, <2>2, <3>2
    <3>4. Stepped'
      BY <2>3, <2>4, <3>1, <3>2, <3>3 DEF Stepped
    <3>5. ~regs.q_ce_fetch
      BY <1>7, <2>6 DEF Stage
    <3>. QED
      BY <1>7, <2>2, <2>3, <3>4, <3>5 DEF PhaseReady
  <2>. QED
    BY <2>5, <2>6
<1>. QED
  BY <1>3, <1>4, <1>5, <1>6, <1>7 DEF Stepped

(* The core at rest, in reset or under way: Stepped is about its own phases. *)
LEMMA SteppedPhases == Stepped => Phases /\ Flows(r_button_event)
<1> SUFFICES ASSUME Stepped PROVE Phases /\ Flows(r_button_event)
  OBVIOUS
<1>1. CASE \E n \in 1 .. 9 : /\ Front(FALSE, FALSE, FALSE) /\ Stage(n) /\ core.core_state = 0
                             /\ ctl.q_halt => n = 2
  <2>1. PhaseWork
    BY <1>1 DEF PhaseWork
  <2>2. ~core.q_ce
    BY <1>1 DEF Front
  <2>. QED
    BY <2>1, <2>2 DEF Phases, Flows
<1>2. CASE PhaseReset \/ PhaseReady \/ PhaseFetch \/ PhaseDecode
  BY <1>2 DEF Phases, Flows, PhaseReset, PhaseReady, PhaseFetch, PhaseDecode, Front
<1>. QED
  BY <1>1, <1>2 DEF Stepped

(* The transmitter of the port takes up the byte it is given, and counts   *)
(* its frame down by one at every edge.                                    *)
LEMMA QuarterStep ==
  ASSUME NEW q \in Int, NEW d \in 1 .. ClockDivide
  PROVE  /\ (q - 1) * ClockDivide + d \in Int
         /\ q >= 1 => (q - 1) * ClockDivide + d >= 1
         /\ d = 1 => (q - 1 - 1) * ClockDivide + ClockDivide = (q - 1) * ClockDivide + d - 1
<1>1. ClockDivide \in Int /\ ClockDivide >= 1
  BY SystemAssumption
<1>2. (q - 1) * ClockDivide \in Int /\ (q - 1 - 1) * ClockDivide + ClockDivide = (q - 1) * ClockDivide
  BY <1>1
<1>3. q >= 1 => (q - 1) * ClockDivide >= 0
  BY <1>1
<1>. QED
  BY <1>1, <1>2, <1>3

LEMMA PortTxEdge ==
  ASSUME txu \in U!TxType, U!is_transmitting => txu.countdown >= 1,
         NEW rst \in BOOLEAN, ~rst, NEW transmit \in BOOLEAN, NEW tx_byte,
         U!TxTick(rst, transmit, tx_byte)
  PROVE  /\ ~U!is_transmitting =>
              /\ U!is_transmitting' <=> transmit
              /\ transmit => TxLeft' = Frame /\ txu'.countdown >= 1 /\ txu'.data = tx_byte
         /\ U!is_transmitting =>
              /\ TxLeft >= 1 /\ TxLeft' = TxLeft - 1
              /\ U!is_transmitting' => txu'.countdown >= 1
         /\ ~U!is_transmitting' => TxLeft' = 0
         /\ TxLeft \in Nat
<1> USE DEF U!TX_IDLE, U!TX_SENDING, U!TX_DELAY_RESTART, U!is_transmitting
<1>1. /\ txu.clk_divider \in 1 .. ClockDivide /\ txu.countdown \in 0 .. 63
      /\ txu.bits \in 0 .. 8 /\ txu.state \in 0 .. 2
      /\ ClockDivide \in Int /\ ClockDivide >= 1
  BY SystemAssumption DEF U!TxType
<1>2. U!From(txu, rst) = txu.state
  BY DEF U!From
<1>3. U!is_transmitting => Quarters \in Int /\ Quarters >= 1
  BY <1>1 DEF Quarters
<1>4. /\ U!is_transmitting => TxLeft >= 1
      /\ TxLeft \in Nat
  <2>1. CASE U!is_transmitting
    <3>1. TxLeft = (Quarters - 1) * ClockDivide + txu.clk_divider
      BY <2>1 DEF TxLeft
    <3>. QED
      BY <1>1, <1>3, <2>1, <3>1, QuarterStep
  <2>2. CASE ~U!is_transmitting
    BY <2>2 DEF TxLeft
  <2>. QED
    BY <2>1, <2>2
<1>5. ~U!is_transmitting' => TxLeft' = 0
  BY DEF TxLeft
<1>6. CASE ~U!is_transmitting
  <2>1. U!TxIdle(rst, transmit, tx_byte)
    <3>1. txu.state = 0
      BY <1>6
    <3>2. ~(U!TxShift(rst) \/ U!TxStop(rst) \/ U!TxRestart(rst) \/ U!TxHold(rst))
      BY <3>1 DEF U!TxShift, U!TxStop, U!TxRestart, U!TxHold, U!From
    <3>. QED
      BY <3>2 DEF U!TxTick
  <2>2. CASE transmit
    <3>1. txu' = [clk_divider |-> ClockDivide, countdown |-> 4, bits |-> 8,
                  data |-> tx_byte, out |-> 0, state |-> 1]
      BY <2>1, <2>2 DEF U!TxIdle
    <3>2. U!is_transmitting' /\ txu'.countdown = 4 /\ txu'.data = tx_byte
      BY <3>1
    <3>3. TxLeft' = (4 + 4 * 8 + 8 - 1) * ClockDivide + ClockDivide
      BY <3>1, <3>2 DEF TxLeft, Quarters
    <3>. QED
      BY <1>1, <1>4, <1>6, <2>2, <3>2, <3>3 DEF Frame
  <2>3. CASE ~transmit
    <3>1. txu' = [txu EXCEPT !.state = 0]
      BY <2>1, <2>3 DEF U!TxIdle
    <3>2. txu'.state = 0
      BY <3>1 DEF U!TxType
    <3>. QED
      BY <1>4, <1>5, <1>6, <2>3, <3>2
  <2>. QED
    BY <2>2, <2>3
<1>7. CASE U!is_transmitting
  <2>1. U!TxShift(rst) \/ U!TxStop(rst) \/ U!TxRestart(rst) \/ U!TxHold(rst)
    BY <1>2, <1>7 DEF U!TxTick, U!TxIdle
  <2>2. txu'.clk_divider = U!Divided(txu)
    <3>1. PICK state, countdown, bits, data, out :
            txu' = U!TxMoved(state, countdown, bits, data, out)
      BY <2>1 DEF U!TxShift, U!TxStop, U!TxRestart, U!TxHold
    <3>. QED
      BY <3>1 DEF U!TxMoved
  \* The countdown falls, or the next bit takes over from it, with the divider.
  <2>3. /\ U!is_transmitting' => /\ txu'.countdown >= 1
                                 /\ Quarters' = IF txu.clk_divider = 1 THEN Quarters - 1 ELSE Quarters
        /\ ~U!is_transmitting' => Quarters = 1 /\ txu.clk_divider = 1
    <3>1. U!Counted(txu) = IF txu.clk_divider = 1 THEN txu.countdown - 1 ELSE txu.countdown
      BY <1>1, <1>7 DEF U!Counted
    <3>2. CASE U!TxShift(rst)
      <4>1. /\ txu.state = 1 /\ U!Counted(txu) = 0 /\ txu.bits > 0
            /\ txu'.state = 1 /\ txu'.countdown = 4 /\ txu'.bits = txu.bits - 1
        BY <1>2, <3>2 DEF U!TxShift, U!TxMoved
      <4>. QED
        BY <1>1, <1>7, <3>1, <4>1 DEF Quarters
    <3>3. CASE U!TxStop(rst)
      <4>1. /\ txu.state = 1 /\ U!Counted(txu) = 0 /\ txu.bits = 0
            /\ txu'.state = 2 /\ txu'.countdown = 8
        BY <1>2, <3>3 DEF U!TxStop, U!TxMoved
      <4>. QED
        BY <1>1, <1>7, <3>1, <4>1 DEF Quarters
    <3>4. CASE U!TxRestart(rst)
      <4>1. txu.state = 2 /\ U!Counted(txu) = 0 /\ txu'.state = 0
        BY <1>2, <3>4 DEF U!TxRestart, U!TxMoved
      <4>. QED
        BY <1>1, <1>7, <3>1, <4>1 DEF Quarters
    <3>5. CASE U!TxHold(rst)
      <4>1. /\ txu'.state = txu.state /\ U!Counted(txu) # 0
            /\ txu'.countdown = U!Counted(txu) /\ txu'.bits = txu.bits
        BY <3>5 DEF U!TxHold, U!TxMoved
      <4>2. U!is_transmitting' /\ txu'.countdown >= 1
        <5>1. U!is_transmitting'
          BY <1>7, <4>1
        <5>2. U!Counted(txu) >= 1
          BY <1>1, <1>7, <3>1, <4>1
        <5>. QED
          BY <4>1, <5>1, <5>2
      <4>3. Quarters' = IF txu.clk_divider = 1 THEN Quarters - 1 ELSE Quarters
        <5> DEFINE more == IF txu.state = 1 THEN 4 * txu.bits + 8 ELSE 0
        <5>0. more \in Int /\ U!Counted(txu) \in Int
          BY <1>1, <3>1
        <5>1. Quarters' = U!Counted(txu) + more
          <6>1. Quarters' = IF txu.state = 1 THEN U!Counted(txu) + 4 * txu.bits + 8
                            ELSE U!Counted(txu)
            BY <4>1 DEF Quarters
          <6>2. CASE txu.state = 1
            BY <1>1, <5>0, <6>1, <6>2
          <6>3. CASE txu.state # 1
            BY <1>1, <5>0, <6>1, <6>3
          <6>. QED
            BY <6>2, <6>3
        <5>2. Quarters = txu.countdown + more
          BY <1>1 DEF Quarters
        <5>. HIDE DEF more
        <5>. QED
          BY <1>1, <3>1, <5>0, <5>1, <5>2
      <4>. QED
        BY <4>2, <4>3
    <3>. QED
      BY <2>1, <3>2, <3>3, <3>4, <3>5
  <2>4. TxLeft' = TxLeft - 1
    <3>1. TxLeft = (Quarters - 1) * ClockDivide + txu.clk_divider
      BY <1>7 DEF TxLeft
    <3>2. CASE ~U!is_transmitting'
      BY <1>1, <1>5, <2>3, <3>1, <3>2
    <3>3. CASE U!is_transmitting' /\ txu.clk_divider = 1
      <4>1. TxLeft' = (Quarters - 1 - 1) * ClockDivide + ClockDivide
        BY <2>2, <2>3, <3>3 DEF TxLeft, U!Divided
      <4>. QED
        BY <1>1, <1>3, <1>7, <3>1, <3>3, <4>1, QuarterStep
    <3>4. CASE U!is_transmitting' /\ txu.clk_divider # 1
      <4>1. TxLeft' = (Quarters - 1) * ClockDivide + (txu.clk_divider - 1)
        BY <2>2, <2>3, <3>4 DEF TxLeft, U!Divided
      <4>2. (Quarters - 1) * ClockDivide \in Int
        BY <1>1, <1>3, <1>7
      <4>. QED
        BY <1>1, <3>1, <4>1, <4>2
    <3>. QED
      BY <3>2, <3>3, <3>4
  <2>. QED
    BY <1>4, <1>5, <1>7, <2>3, <2>4
<1>. QED
  BY <1>6, <1>7

(* The port's FIFO between empty and one byte.                             *)
LEMMA PortFifoEdge ==
  ASSUME tx_fifo \in U!FifoRegs, ~tx_fifo.FULL,
         NEW rst \in BOOLEAN, ~rst, NEW push \in BOOLEAN, NEW pop \in BOOLEAN, NEW data \in 0 .. 255,
         tx_fifo' = U!FifoTick(tx_fifo, U!FifoPorts(rst, push, pop, data))
  PROVE  /\ tx_fifo.EMPTY /\ tx_fifo.write_ptr = tx_fifo.read_ptr /\ ~push =>
              /\ tx_fifo'.EMPTY /\ ~tx_fifo'.FULL
              /\ tx_fifo'.write_ptr = tx_fifo'.read_ptr
         /\ tx_fifo.EMPTY /\ tx_fifo.write_ptr = tx_fifo.read_ptr /\ push /\ ~pop =>
              /\ ~tx_fifo'.EMPTY /\ ~tx_fifo'.FULL
              /\ tx_fifo'.write_ptr = U!NextPtr(tx_fifo'.read_ptr)
              /\ tx_fifo'.memory[tx_fifo'.read_ptr] = data
         /\ ~tx_fifo.EMPTY /\ tx_fifo.write_ptr = U!NextPtr(tx_fifo.read_ptr) /\ pop /\ ~push =>
              /\ tx_fifo'.EMPTY /\ ~tx_fifo'.FULL
              /\ tx_fifo'.write_ptr = tx_fifo'.read_ptr
         /\ ~pop /\ ~push =>
              /\ tx_fifo'.EMPTY <=> tx_fifo.EMPTY
              /\ ~tx_fifo'.FULL
              /\ tx_fifo'.write_ptr = tx_fifo.write_ptr /\ tx_fifo'.read_ptr = tx_fifo.read_ptr
              /\ tx_fifo'.memory = tx_fifo.memory
<1> DEFINE i == U!FifoPorts(rst, push, pop, data)
<1>1. /\ i.RESET = rst /\ i.ENABLE = TRUE /\ i.FLUSH = FALSE
      /\ i.PUSH = push /\ i.POP = pop /\ i.DATA_IN = data
  BY DEF U!FifoPorts
<1>2. ~U!Cleared(i)
  BY <1>1 DEF U!Cleared
<1>3. /\ U!AcceptWrite(tx_fifo, i) <=> push
      /\ U!AcceptRead(tx_fifo, i) <=> pop /\ (~tx_fifo.EMPTY \/ push)
  BY <1>1 DEF U!AcceptWrite, U!AcceptRead
<1>4. /\ tx_fifo'.write_ptr = IF push THEN U!NextPtr(tx_fifo.write_ptr) ELSE tx_fifo.write_ptr
      /\ tx_fifo'.read_ptr = IF pop /\ (~tx_fifo.EMPTY \/ push)
                             THEN U!NextPtr(tx_fifo.read_ptr) ELSE tx_fifo.read_ptr
      /\ tx_fifo'.EMPTY <=> U!EmptyTick(tx_fifo, i)
      /\ tx_fifo'.FULL <=> U!FullTick(tx_fifo, i)
      /\ tx_fifo'.memory = U!MemoryTick(tx_fifo, i)
  BY <1>2, <1>3 DEF U!FifoTick
<1>5. /\ tx_fifo'.EMPTY <=>
           \/ /\ pop /\ (~tx_fifo.EMPTY \/ push)
              /\ U!NextPtr(tx_fifo.read_ptr) = tx_fifo.write_ptr
           \/ tx_fifo.EMPTY /\ ~push
      /\ tx_fifo'.FULL <=> push /\ U!NextPtr(tx_fifo.write_ptr) = tx_fifo.read_ptr
  BY <1>3, <1>4 DEF U!EmptyTick, U!FullTick
<1>6. tx_fifo'.memory = IF push THEN [tx_fifo.memory EXCEPT ![tx_fifo.write_ptr] = data]
                        ELSE tx_fifo.memory
  BY <1>1, <1>3, <1>4 DEF U!MemoryTick
<1>7. /\ tx_fifo.write_ptr \in U!Address /\ tx_fifo.read_ptr \in U!Address
      /\ tx_fifo.memory \in [U!Address -> 0 .. 255]
  BY DEF U!FifoRegs
<1>8. U!NextPtr(tx_fifo.write_ptr) # tx_fifo.write_ptr
  BY <1>7, SystemAssumption DEF U!NextPtr, U!Address
<1>. HIDE DEF i
<1>. QED
  BY <1>4, <1>5, <1>6, <1>7, <1>8

\* What PrcoCore_proofs shows of the core, whatever the mode.
CoreInv == TypeOK /\ ArchType /\ TokenInv /\ DataInv

LEMMA CoreInvariant ==
  ASSUME SteppingAssumption
  PROVE  SystemSpec => []CoreInv
<1>1. TypeOK /\ ArchType /\ TokenInv /\ DataInv => CoreInv
  BY DEF CoreInv
<1>. QED
  BY <1>1, BoardPacesTheCore, ArchIsCore, TypeCorrect, ArchTypeCorrect, TokenCorrect, DataCorrect,
     PTL DEF RefinesCore

(* Reset is over after the first edge, and every other phase has left it.  *)
LEMMA ResetOnce ==
  ASSUME TypeOK, NEW step \in BOOLEAN, Tick(step) PROVE ~i_reset'
<1>1. env.reset \in 0 .. 1
  BY SystemAssumption DEF TypeOK, EnvType
<1>2. env'.reset = Max0(env.reset - 1)
  BY DEF Tick, EnvTick
<1>. QED
  BY <1>1, <1>2 DEF Max0, i_reset

LEMMA ResetPhase == Stepped /\ ~PhaseReset => ~i_reset /\ ~core.r_cpu_init
BY SteppedPhases DEF Phases, PhaseReady, PhaseFetch, PhaseDecode, PhaseWork, PhaseBranch,
                     PhaseRefetch, PhaseRedecode, Front

(* A byte is handed to the port when a WRITE retires, never in reset.      *)
LEMMA TransmitRetires ==
  ASSUME DataHeld, NEW full, uart_transmit(full)
  PROVE  regs.q_ce_fetch /\ ~PhaseReset
<1>1. regs.q_ce_fetch /\ ctl.q_new_uart1_data
  BY DEF uart_transmit
<1>2. ASSUME PhaseReset PROVE ~ctl.q_new_uart1_data
  <2>1. Op(0) = 0
    BY DEF Op
  <2>2. ctl = Latched(0)
    BY <1>2 DEF DataHeld, AtReset
  <2>3. ctl.q_new_uart1_data <=> NewUart(Op(0))
    BY <2>2 DEF Latched
  <2>. QED
    BY <2>1, <2>3 DEF NewUart, OP_WRITE
<1>. QED
  BY <1>1, <1>2

(* The port over an edge: what it is given it begins three edges later.    *)
LEMMA PortStep ==
  ASSUME SystemTypeOK, SteppingAssumption, FrameFits, PortKeepsUp,
         NEW PORTC3 \in BOOLEAN, SystemTick(PORTC3),
         ~i_reset', i_reset => PhaseReset,
         r_button_event => env.wait = 0,
         PhaseReady /\ ~r_button_event => PhaseReady',
         uart_transmit(tx_fifo.FULL) => /\ ~PhaseReset /\ ~PhaseReady /\ PhaseReady'
                                        /\ env'.wait >= StepGap - 11
  PROVE  /\ PortKeepsUp'
         /\ U!Begins => owed # <<>> /\ txu'.data = Head(owed)
<1> DEFINE transmit == uart_transmit(tx_fifo.FULL)
           room     == IF PhaseReady THEN env.wait ELSE 0
           begins   == ~U!is_transmitting /\ U!is_transmitting'
<1>1. /\ U!TxTick(i_reset, tx_fifo_pop, U!DataOut(tx_fifo, TRUE))
      /\ tx_fifo' = U!FifoTick(tx_fifo, U!FifoPorts(i_reset, transmit, tx_fifo_pop, Byte8))
      /\ tx_fifo_pop' <=> ~i_reset /\ ~U!is_transmitting /\ ~tx_fifo.EMPTY
      /\ owed' = IF transmit THEN Append(IF begins /\ owed # <<>> THEN Tail(owed) ELSE owed, Byte8)
                 ELSE IF begins /\ owed # <<>> THEN Tail(owed) ELSE owed
      /\ U!Begins <=> begins
  BY DEF SystemTick, U!UartFifoTick, U!UartTick, U!PopWhenIdle, U!Begins
<1>2. /\ transmit \in BOOLEAN /\ tx_fifo_pop \in BOOLEAN /\ Byte8 \in 0 .. 255
      /\ txu \in U!TxType /\ tx_fifo \in U!FifoRegs /\ i_reset \in BOOLEAN
  <2>1. alu.q_result \in Word
    BY DEF SystemTypeOK, TypeOK, AluType
  <2>2. Byte8 \in 0 .. 255
    BY <2>1, WordRange DEF Byte8
  <2>3. transmit \in BOOLEAN /\ i_reset \in BOOLEAN
    BY DEF uart_transmit, i_reset
  <2>. QED
    BY <2>2, <2>3 DEF SystemTypeOK, U!PortType
<1>3. /\ room \in Nat /\ room' \in Nat /\ room' >= room - 1
      /\ transmit => room = 0 /\ room' >= Frame + 2
      /\ Frame \in Nat /\ Frame >= 44
  <2>1. /\ env.wait \in 0 .. StepGap /\ StepGap \in Nat
        /\ env'.wait = IF r_button_event THEN StepGap
                       ELSE IF env.wait - 1 > 0 THEN env.wait - 1 ELSE 0
    BY ButtonStep, SteppingType, CoreAssumption DEF ButtonType
  <2>2. Frame \in Nat /\ Frame >= 44
    BY SystemAssumption DEF Frame
  <2>3. room' = IF PhaseReady' THEN env'.wait ELSE 0
    OBVIOUS
  <2>4. env'.wait \in Nat
    BY <2>1
  <2>. QED
    BY <2>1, <2>2, <2>3, <2>4 DEF FrameFits
<1>4. PortLeft' = IF tx_fifo'.EMPTY THEN TxLeft' ELSE Frame + (IF tx_fifo_pop' THEN 1 ELSE 2)
  BY DEF PortLeft, Frame
<1>5. CASE i_reset
  <2>1. /\ tx_fifo = U!FifoPowerOn /\ ~tx_fifo_pop /\ ~U!is_transmitting /\ owed = <<>>
        /\ ~transmit
    BY <1>5 DEF PortKeepsUp
  <2>2. txu' = [txu EXCEPT !.state = 0]
    <3>1. U!From(txu, i_reset) = 0
      BY <1>5 DEF U!From
    <3>2. ~(U!TxShift(i_reset) \/ U!TxStop(i_reset) \/ U!TxRestart(i_reset) \/ U!TxHold(i_reset))
      BY <3>1 DEF U!TxShift, U!TxStop, U!TxRestart, U!TxHold,
                  U!TX_IDLE, U!TX_SENDING, U!TX_DELAY_RESTART
    <3>. QED
      BY <1>1, <2>1, <3>2 DEF U!TxTick, U!TxIdle, U!TX_IDLE
  <2>3. ~U!is_transmitting' /\ TxLeft' = 0
    BY <1>2, <2>2 DEF U!TxType, U!is_transmitting, U!TX_IDLE, TxLeft
  <2>4. /\ tx_fifo'.EMPTY /\ ~tx_fifo'.FULL /\ tx_fifo'.write_ptr = tx_fifo'.read_ptr
    BY <1>1, <1>5 DEF U!FifoTick, U!FifoPorts, U!Cleared
  <2>5. owed' = <<>> /\ ~tx_fifo_pop'
    BY <1>1, <1>5, <2>1, <2>3
  <2>. QED
    BY <1>1, <1>3, <1>4, <2>3, <2>4, <2>5 DEF PortKeepsUp
<1>6. CASE ~i_reset
  <2>1. /\ ~tx_fifo.FULL /\ PortLeft <= room
        /\ U!is_transmitting => txu.countdown >= 1
        /\ tx_fifo.EMPTY => /\ owed = <<>> /\ tx_fifo.write_ptr = tx_fifo.read_ptr
                            /\ tx_fifo_pop => U!is_transmitting
                            /\ PortLeft = TxLeft
        /\ ~tx_fifo.EMPTY => /\ owed = <<tx_fifo.memory[tx_fifo.read_ptr]>>
                             /\ tx_fifo.write_ptr = U!NextPtr(tx_fifo.read_ptr)
                             /\ ~U!is_transmitting
                             /\ PortLeft = Frame + (IF tx_fifo_pop THEN 1 ELSE 2)
    BY <1>6 DEF PortKeepsUp, PortLeft
  <2>2. /\ ~U!is_transmitting =>
             /\ U!is_transmitting' <=> tx_fifo_pop
             /\ tx_fifo_pop => /\ TxLeft' = Frame /\ txu'.countdown >= 1
                               /\ txu'.data = U!DataOut(tx_fifo, TRUE)
        /\ U!is_transmitting =>
             /\ TxLeft >= 1 /\ TxLeft' = TxLeft - 1
             /\ U!is_transmitting' => txu'.countdown >= 1
        /\ ~U!is_transmitting' => TxLeft' = 0
        /\ TxLeft \in Nat
    <3>1. U!TxTick(i_reset, tx_fifo_pop, U!DataOut(tx_fifo, TRUE))
      BY <1>1
    <3>2. U!is_transmitting => txu.countdown >= 1
      BY <2>1
    <3>. QED
      BY ONLY <1>2, <1>6, <3>1, <3>2, PortTxEdge
  <2>3. /\ tx_fifo \in U!FifoRegs /\ ~tx_fifo.FULL
        /\ i_reset \in BOOLEAN /\ ~i_reset /\ tx_fifo_pop \in BOOLEAN
        /\ transmit \in BOOLEAN /\ Byte8 \in 0 .. 255
        /\ tx_fifo' = U!FifoTick(tx_fifo, U!FifoPorts(i_reset, transmit, tx_fifo_pop, Byte8))
    BY <1>1, <1>2, <1>6, <2>1
  <2>. HIDE DEF transmit, room
  \* Nothing is owed and nothing comes in: the frame under way goes on.
  <2>4. CASE tx_fifo.EMPTY /\ ~transmit
    <3>1. tx_fifo'.EMPTY /\ ~tx_fifo'.FULL /\ tx_fifo'.write_ptr = tx_fifo'.read_ptr
      BY ONLY <2>3, <2>1, <2>4, PortFifoEdge, Zenon
    <3>2. ~begins /\ ~tx_fifo_pop' /\ owed' = <<>>
      BY <1>1, <2>1, <2>2, <2>4
    <3>3. PortLeft' <= room'
      <4>1. TxLeft <= room /\ TxLeft \in Nat /\ PortLeft' = TxLeft'
        BY <1>4, <2>1, <2>2, <2>4, <3>1
      <4>2. TxLeft' = IF U!is_transmitting THEN TxLeft - 1 ELSE 0
        BY <1>1, <2>2, <3>2
      <4>. QED
        BY <1>3, <2>2, <4>1, <4>2
    <3>. QED
      BY <1>1, <2>1, <2>2, <3>1, <3>2, <3>3 DEF PortKeepsUp, room
  \* A WRITE retires: the port is idle, and has the time until the next press.
  <2>5. CASE tx_fifo.EMPTY /\ transmit
    <3>1. ~U!is_transmitting /\ ~tx_fifo_pop
      BY <1>3, <2>1, <2>2, <2>5
    <3>2. /\ ~tx_fifo'.EMPTY /\ ~tx_fifo'.FULL
          /\ tx_fifo'.write_ptr = U!NextPtr(tx_fifo'.read_ptr)
          /\ tx_fifo'.memory[tx_fifo'.read_ptr] = Byte8
      BY ONLY <2>3, <2>1, <2>5, <3>1, PortFifoEdge, Zenon
    <3>3. ~begins /\ ~U!is_transmitting' /\ ~tx_fifo_pop'
      BY <1>1, <2>2, <2>5, <3>1
    <3>4. owed' = <<Byte8>>
      BY <1>1, <2>1, <2>5, <3>3
    <3>5. PortLeft' <= room'
      BY <1>3, <1>4, <2>5, <3>2, <3>3
    <3>. QED
      BY <1>1, <3>2, <3>3, <3>4, <3>5 DEF PortKeepsUp, room
  \* A byte waits: it is popped, or about to be.
  <2>6. CASE ~tx_fifo.EMPTY
    <3>1. ~transmit /\ ~U!is_transmitting /\ tx_fifo_pop'
      BY <1>1, <1>3, <1>6, <2>1, <2>6
    <3>2. CASE tx_fifo_pop
      <4>1. tx_fifo'.EMPTY /\ ~tx_fifo'.FULL /\ tx_fifo'.write_ptr = tx_fifo'.read_ptr
        BY ONLY <2>3, <2>1, <2>6, <3>1, <3>2, PortFifoEdge, Zenon
      <4>2. begins /\ txu'.data = tx_fifo.memory[tx_fifo.read_ptr]
        BY <2>2, <3>1, <3>2 DEF U!DataOut
      <4>3. owed # <<>> /\ txu'.data = Head(owed) /\ owed' = <<>>
        <5>1. owed = <<tx_fifo.memory[tx_fifo.read_ptr]>>
          BY <2>1, <2>6
        <5>2. owed # <<>> /\ Head(owed) = tx_fifo.memory[tx_fifo.read_ptr] /\ Tail(owed) = <<>>
          BY <5>1
        <5>3. owed' = Tail(owed)
          BY <1>1, <3>1, <4>2, <5>2
        <5>. QED
          BY <4>2, <5>2, <5>3
      <4>4. PortLeft' <= room'
        BY <1>3, <1>4, <2>1, <2>2, <2>6, <3>1, <3>2, <4>1
      <4>. QED
        BY <2>2, <3>1, <3>2, <4>1, <4>2, <4>3, <4>4 DEF PortKeepsUp, room
    <3>3. CASE ~tx_fifo_pop
      <4>1. /\ ~tx_fifo'.EMPTY /\ ~tx_fifo'.FULL
            /\ tx_fifo'.write_ptr = tx_fifo.write_ptr /\ tx_fifo'.read_ptr = tx_fifo.read_ptr
            /\ tx_fifo'.memory = tx_fifo.memory
        BY ONLY <2>3, <2>1, <2>6, <3>1, <3>3, PortFifoEdge, Zenon
      <4>2. ~begins /\ ~U!is_transmitting' /\ owed' = owed
        BY <1>1, <2>2, <3>1, <3>3
      <4>3. PortLeft' <= room'
        BY <1>3, <1>4, <2>1, <2>6, <3>1, <3>3, <4>1
      <4>. QED
        BY <1>1, <2>1, <2>6, <4>1, <4>2, <4>3 DEF PortKeepsUp, room
    <3>. QED
      BY <3>2, <3>3
  <2>. QED
    BY <2>4, <2>5, <2>6
<1>. QED
  BY <1>5, <1>6

(* StepInv at power-on and over an edge on which no jump is taken.         *)
LEMMA StepInvInit ==
  ASSUME SystemInit, Paced PROVE StepInv
<1>1. InitArch /\ B!BoardInit
  BY DEF SystemInit
<1>2. QuietAtReset
  BY <1>1 DEF B!BoardInit, QuietAtReset
<1>3. PortKeepsUp
  <2>1. i_reset
    <3>1. env \in [i_mode : Modes, reset : 1 .. MaxResetCycles, wait : {0}]
      BY <1>1 DEF InitArch, Init
    <3>. QED
      BY <3>1, CoreAssumption DEF i_reset
  <2>2. U!UartFifoInit /\ owed = <<>>
    BY DEF SystemInit
  <2>. QED
    BY <2>1, <2>2 DEF U!UartFifoInit, U!UartInit, U!is_transmitting, PortKeepsUp
<1>. QED
  BY <1>1, <1>2, <1>3, PowerOnData DEF StepInv, Stepped

LEMMA QuietStep ==
  ASSUME CoreInv, ButtonType, QuietAtReset, Stepped,
         NEW PORTC3 \in BOOLEAN, SystemTick(PORTC3)
  PROVE  QuietAtReset'
<1> SUFFICES ASSUME PhaseReset' PROVE QuietAtReset'
  BY DEF QuietAtReset
<1>1. Tick(r_button_event) /\ r_button_event \in BOOLEAN
  BY ButtonStep DEF ButtonType
<1>2. TypeOK /\ (ctl.q_req_ram <=> ReqRam(Op(ctl.q_instr)))
  BY DEF CoreInv, TokenInv
<1>3. PhaseReset
  <2>1. ASSUME ~PhaseReset PROVE ~i_reset' /\ ~core'.r_cpu_init
    BY <1>1, <1>2, <2>1, ResetPhase, ControlStep
  <2>. QED
    BY <2>1 DEF PhaseReset
<1>4. i_reset
  <2>1. ASSUME ~i_reset PROVE PhaseReady'
    BY <1>1, <1>2, <1>3, <2>1, ResetStep
  <2>. QED
    BY <2>1 DEF PhaseReset, PhaseReady, Front
<1>5. timer = Period - 1 /\ ~o_debounced
  BY <1>3, <1>4 DEF QuietAtReset
<1>6. ~o_debounced' /\ ~r_button_event'
  BY <1>5, ButtonStep, SystemAssumption
<1>7. ~i_reset'
  BY <1>1, <1>2, ResetOnce
<1>. QED
  BY <1>6, <1>7 DEF QuietAtReset

LEMMA StepInvStep ==
  ASSUME SteppingAssumption, SystemTypeOK, CoreInv, ButtonType, NoJump, StepInv, [SystemNext]_svars
  PROVE  /\ StepInv'
         /\ Machine!Next \/ UNCHANGED arch
         /\ \/ UNCHANGED svars
            \/ ~ctl.q_halt => (core'.q_ce <=> r_button_event)
         /\ FrameFits =>
              \/ UNCHANGED svars
              \/ U!Begins => owed # <<>> /\ txu'.data = Head(owed)
<1>1. Paced'
  BY PacedStep DEF StepInv
<1>2. CASE UNCHANGED svars
  <2>1. UNCHANGED avars /\ UNCHANGED buttonVars
    BY <1>2 DEF svars
  <2>2. /\ UNCHANGED <<core, port, lmem, dec, ctl, regs, alu, env>>
        /\ \A n : Stage(n)' <=> Stage(n)
        /\ \A r, f, d : Front(r, f, d)' <=> Front(r, f, d)
    BY <2>1 DEF avars, vars, Stage, Front, i_reset
  <2>3. (PhaseReset' <=> PhaseReset) /\ (i_reset' <=> i_reset)
    BY <2>2 DEF PhaseReset, i_reset
  <2>4. Stepped' <=> Stepped
    BY <2>2, <2>3 DEF Stepped, PhaseReady, PhaseFetch, PhaseDecode
  <2>5. QuietAtReset' <=> QuietAtReset
    BY <2>1, <2>3 DEF QuietAtReset, buttonVars
  <2>6. FrameFits => PortKeepsUp'
    <3>1. UNCHANGED <<txu, tx_fifo, tx_fifo_pop, owed, env>>
      BY <1>2 DEF svars, U!portVars, U!uartVars, avars, vars
    <3>2. PhaseReady' <=> PhaseReady
      BY <2>2 DEF PhaseReady
    <3>3. U!is_transmitting' <=> U!is_transmitting
      BY <3>1 DEF U!is_transmitting
    <3>4. PortLeft' = PortLeft
      <4>1. Quarters' = Quarters
        BY <3>1 DEF Quarters
      <4>2. TxLeft' = TxLeft
        BY <3>1, <3>3, <4>1 DEF TxLeft
      <4>. QED
        BY <3>1, <4>2 DEF PortLeft, Frame
    <3>5. env'.wait = env.wait
      BY <3>1
    <3>6. PortKeepsUp' <=> PortKeepsUp
      BY <2>3, <3>1, <3>2, <3>3, <3>4, <3>5 DEF PortKeepsUp
    <3>. QED
      BY <3>6 DEF StepInv
  <2>. QED
    BY <1>1, <1>2, <2>1, <2>4, <2>5, <2>6, DataStutter DEF StepInv, avars
<1>3. ASSUME NEW PORTC3 \in BOOLEAN, SystemTick(PORTC3)
      PROVE  /\ QuietAtReset' /\ Stepped' /\ DataHeld'
             /\ Machine!Next \/ UNCHANGED arch
             /\ ~ctl.q_halt => (core'.q_ce <=> r_button_event)
             /\ FrameFits =>
                  PortKeepsUp' /\ (U!Begins => owed # <<>> /\ txu'.data = Head(owed))
  <2>1. /\ Tick(r_button_event) /\ ArchTick(r_button_event, tx_fifo.FULL)
        /\ r_button_event \in BOOLEAN /\ tx_fifo.FULL \in BOOLEAN
    BY <1>3, ButtonStep DEF ButtonType
  <2>2. /\ TypeOK /\ ArchType /\ ctl = Latched(ctl.q_instr)
        /\ ctl.q_req_ram <=> ReqRam(Op(ctl.q_instr))
    BY DEF CoreInv, TokenInv, DataInv
  <2>3. /\ r_button_event => StepAllowed /\ env.wait = 0
        /\ env.i_mode = 1 /\ StepGap >= 11
    BY DEF StepInv, Paced, ButtonType, StepAllowed, SteppingAssumption
  <2>4. /\ Stepped'
        /\ ~PhaseReady => ~core'.q_ce
        /\ PhaseReady /\ ~ctl.q_halt => (core'.q_ce <=> r_button_event)
        /\ ~PhaseReady /\ ~PhaseReset => env.wait > 0
        /\ PhaseReady /\ ~r_button_event => PhaseReady'
        /\ regs.q_ce_fetch /\ ~PhaseReset
             => ~PhaseReady /\ PhaseReady' /\ env'.wait >= StepGap - 11
    BY <2>1, <2>2, <2>3, SteppedStep DEF StepInv
  <2>5. DataHeld' /\ (Machine!Next \/ UNCHANGED arch)
    BY <2>1, <2>2, SteppedPhases, ArchStep DEF StepInv
  <2>6. QuietAtReset'
    BY <1>3, QuietStep DEF StepInv
  <2>7. PhaseReset => ~r_button_event
    BY DEF StepInv, QuietAtReset
  <2>8. ASSUME FrameFits
        PROVE  PortKeepsUp' /\ (U!Begins => owed # <<>> /\ txu'.data = Head(owed))
    <3>1. ~i_reset' /\ (i_reset => PhaseReset)
      BY <2>1, <2>2, ResetOnce, ResetPhase DEF StepInv
    <3>2. uart_transmit(tx_fifo.FULL) => regs.q_ce_fetch /\ ~PhaseReset
      BY TransmitRetires DEF StepInv
    <3>. QED
      BY <1>3, <2>3, <2>4, <2>8, <3>1, <3>2, PortStep DEF StepInv
  <2>. QED
    BY <2>3, <2>4, <2>5, <2>6, <2>7, <2>8
<1>. QED
  BY <1>1, <1>2, <1>3 DEF StepInv, SystemNext

(* Button and core keep time with each other as long as no jump is taken.  *)
THEOREM StepInvariant ==
  ASSUME SteppingAssumption
  PROVE  SystemSpec /\ []NoJump => []StepInv
<1>1. SystemInit /\ Paced => StepInv
  BY StepInvInit
<1>2. SystemTypeOK /\ CoreInv /\ ButtonType /\ NoJump /\ StepInv /\ [SystemNext]_svars => StepInv'
  BY StepInvStep
<1>. QED
  BY <1>1, <1>2, SystemTypeCorrect, ButtonPaces, CoreInvariant, PTL DEF SystemSpec

(* Stepping, every press of the button issues exactly one instruction and  *)
(* nothing else does, as long as no jump is taken.                         *)
THEOREM OneInstructionPerPress ==
  ASSUME SteppingAssumption
  PROVE  SystemSpec /\ []NoJump => OnePerPress
<1>1. SystemTypeOK /\ CoreInv /\ ButtonType /\ NoJump /\ StepInv /\ [SystemNext]_svars
        => [env.i_mode = 1 /\ ~ctl.q_halt => (core'.q_ce <=> r_button_event)]_svars
  BY StepInvStep
<1>. QED
  BY <1>1, SystemTypeCorrect, ButtonPaces, CoreInvariant, StepInvariant, PTL
     DEF SystemSpec, OnePerPress

(* Stepping, the board executes the program one whole instruction at a     *)
(* time, as long as no jump is taken.                                      *)
THEOREM SteppingImplementsMachine ==
  ASSUME SteppingAssumption
  PROVE  SystemSpec /\ []NoJump => RefinesMachine
<1>1. SystemInit => Machine!Init
  BY PowerOnMachine DEF SystemInit
<1>2. SystemTypeOK /\ CoreInv /\ ButtonType /\ NoJump /\ StepInv /\ [SystemNext]_svars
        => [Machine!Next]_(Machine!mvars)
  BY StepInvStep DEF Machine!mvars
<1>. QED
  BY <1>1, <1>2, SystemTypeCorrect, ButtonPaces, CoreInvariant, StepInvariant, PTL
     DEF SystemSpec, RefinesMachine, Machine!Spec

(* Stepping, with time for a frame between two presses, the transmitter    *)
(* begins the bytes of the WRITEs as they were handed over, each once and  *)
(* in order, as long as no jump is taken.                                  *)
THEOREM BytesSentInOrder ==
  ASSUME SteppingAssumption, FrameFits
  PROVE  SystemSpec /\ []NoJump => SendsInOrder
<1>1. SystemTypeOK /\ CoreInv /\ ButtonType /\ NoJump /\ StepInv /\ [SystemNext]_svars
        => [U!Begins => owed # <<>> /\ txu'.data = Head(owed)]_svars
  BY StepInvStep
<1>. QED
  BY <1>1, SystemTypeCorrect, ButtonPaces, CoreInvariant, StepInvariant, PTL
     DEF SystemSpec, SendsInOrder
=============================================================================
