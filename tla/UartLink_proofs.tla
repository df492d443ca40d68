---------------------------- MODULE UartLink_proofs ----------------------------
(* The frame timing of the UART for every divider: the receiver keeps in   *)
(* the middle of the bits, for any drift and any noise of less than half a  *)
(* bit, and what it announces is the byte that was sent, in time.          *)
EXTENDS UartLink, TLAPS

(* An edge of a divider takes one from what is left of its countdown.      *)
LEMMA CountStep ==
  ASSUME NEW u, u.clk_divider \in 1 .. ClockDivide, u.countdown \in 1 .. 8
  PROVE  /\ Divided(u) \in 1 .. ClockDivide
         /\ Counted(u) = 0 <=> Left(u) = 1
         /\ Counted(u) = 0 => Divided(u) = ClockDivide
         /\ Counted(u) # 0 => /\ Counted(u) \in 1 .. u.countdown
                              /\ (Counted(u) - 1) * ClockDivide + Divided(u) = Left(u) - 1
         /\ Left(u) \in Int /\ Left(u) >= 1
<1>1. ClockDivide \in Int /\ ClockDivide >= 1
  BY UartAssumption
<1>2. CASE u.clk_divider = 1
  <2>1. (u.countdown - 1) % 64 = u.countdown - 1
    OBVIOUS
  <2>2. Counted(u) = u.countdown - 1 /\ Divided(u) = ClockDivide
    BY <1>2, <2>1 DEF Counted, Divided
  <2>3. Left(u) = (u.countdown - 1) * ClockDivide + 1
    BY <1>2 DEF Left
  <2>4. (u.countdown - 1) * ClockDivide \in Int
    BY <1>1
  <2>5. u.countdown # 1 => (u.countdown - 1) * ClockDivide >= 1
    BY <1>1
  <2>6. (u.countdown - 1 - 1) * ClockDivide + ClockDivide = (u.countdown - 1) * ClockDivide
    BY <1>1
  <2>7. u.countdown - 1 = 0 <=> Left(u) = 1
    BY <1>1, <2>3, <2>4, <2>5
  <2>8. (Counted(u) - 1) * ClockDivide + Divided(u) = Left(u) - 1
    <3>1. (Counted(u) - 1) * ClockDivide + Divided(u)
            = (u.countdown - 1 - 1) * ClockDivide + ClockDivide
      BY <2>2
    <3>2. QED
      BY <2>3, <2>4, <2>6, <3>1
  <2>9. Left(u) \in Int /\ Left(u) >= 1
    BY <1>1, <2>3, <2>4, <2>5
  <2>10. Counted(u) # 0 => Counted(u) \in 1 .. u.countdown
    BY <2>2
  <2>11. ClockDivide \in 1 .. ClockDivide
    BY <1>1
  <2>12. QED
    BY <2>2, <2>7, <2>8, <2>9, <2>10, <2>11
<1>3. CASE u.clk_divider # 1
  <2>1. Counted(u) = u.countdown /\ Divided(u) = u.clk_divider - 1
    BY <1>3 DEF Counted, Divided
  <2>2. (u.countdown - 1) * ClockDivide \in Int /\ (u.countdown - 1) * ClockDivide >= 0
    BY <1>1
  <2>3. Left(u) \in Int /\ Left(u) >= 2
    BY <1>1, <1>3, <2>2 DEF Left
  <2>4. (Counted(u) - 1) * ClockDivide + Divided(u) = Left(u) - 1
    <3>1. (Counted(u) - 1) * ClockDivide + Divided(u)
            = (u.countdown - 1) * ClockDivide + (u.clk_divider - 1)
      BY <2>1
    <3>2. QED
      BY <1>1, <2>2, <3>1 DEF Left
  <2>5. Counted(u) \in 1 .. u.countdown /\ Divided(u) \in 1 .. ClockDivide
    BY <1>1, <1>3, <2>1
  <2>6. QED
    BY <2>3, <2>4, <2>5
<1>4. QED
  BY <1>2, <1>3

(* The transmitter's registers keep their ranges, whatever it is asked.    *)
LEMMA TxTyped ==
  ASSUME txu \in TxType, NEW rst \in BOOLEAN, NEW transmit \in BOOLEAN, NEW b \in Byte,
         TxTick(rst, transmit, b)
  PROVE  txu' \in TxType
<1> USE DEF TX_IDLE, TX_SENDING, TX_DELAY_RESTART
<1>1. /\ txu.clk_divider \in 1 .. ClockDivide /\ txu.countdown \in 0 .. 63
      /\ txu.bits \in 0 .. 8 /\ txu.data \in 0 .. 255 /\ txu.out \in {0, 1}
      /\ txu.state \in 0 .. 2 /\ ClockDivide \in Int /\ ClockDivide >= 1
  BY UartAssumption DEF TxType, Byte
<1>2. Divided(txu) \in 1 .. ClockDivide /\ Counted(txu) \in 0 .. 63
  BY <1>1 DEF Divided, Counted
<1>3. txu.data \div 2 \in 0 .. 255 /\ txu.data % 2 \in {0, 1}
  BY <1>1
<1>4. CASE TxIdle(rst, transmit, b)
  <2>1. CASE transmit
    BY <1>1, <1>4, <2>1 DEF TxIdle, TxType
  <2>2. CASE ~transmit
    BY <1>1, <1>4, <2>2 DEF TxIdle, TxType
  <2>3. QED
    BY <2>1, <2>2
<1>5. CASE TxShift(rst)
  BY <1>1, <1>2, <1>3, <1>5 DEF TxShift, TxMoved, TxType, Byte
<1>6. CASE TxStop(rst)
  BY <1>1, <1>2, <1>6 DEF TxStop, TxMoved, TxType, Byte
<1>7. CASE TxRestart(rst)
  BY <1>1, <1>2, <1>7 DEF TxRestart, TxMoved, TxType, Byte
<1>8. CASE TxHold(rst)
  BY <1>1, <1>2, <1>8 DEF TxHold, TxMoved, TxType, Byte
<1>9. QED
  BY <1>4, <1>5, <1>6, <1>7, <1>8 DEF TxTick

(* The receiver keeps its ranges only while it has a bit to read when it   *)
(* reads bits.                                                             *)
RxTyped == rxu \in RxType /\ (rxu.state = RX_READ_BITS => rxu.bits >= 1)

(* An edge of the receiver keeps both, whatever is on the line.            *)
LEMMA RxTypedStep ==
  ASSUME RxTyped, NEW rst \in BOOLEAN, NEW line \in {0, 1}, RxTick(rst, line)
  PROVE  RxTyped'
<1> USE DEF RX_IDLE, RX_CHECK_START, RX_READ_BITS, RX_CHECK_STOP, RX_DELAY_RESTART, RX_ERROR,
            RX_RECEIVED
<1>1. /\ rxu.clk_divider \in 1 .. ClockDivide /\ rxu.countdown \in 0 .. 63
      /\ rxu.bits \in 0 .. 8 /\ rxu.data \in 0 .. 255
      /\ rxu.state \in 0 .. 6 /\ ClockDivide \in Int /\ ClockDivide >= 1
      /\ rxu.state = RX_READ_BITS => rxu.bits >= 1
  BY UartAssumption DEF RxTyped, RxType, Byte
<1>2. Divided(rxu) \in 1 .. ClockDivide /\ Counted(rxu) \in 0 .. 63
  BY <1>1 DEF Divided, Counted
<1>3. line * 128 + rxu.data \div 2 \in 0 .. 255
  BY <1>1
<1>4. CASE RxIdle(rst, line)
  <2>1. CASE line = 0
    BY <1>1, <1>4, <2>1 DEF RxIdle, RxTyped, RxType, Byte
  <2>2. CASE line # 0
    BY <1>1, <1>4, <2>2 DEF RxIdle, RxTyped, RxType, Byte
  <2>3. QED
    BY <2>1, <2>2
<1>5. CASE RxStart(rst, line)
  BY <1>1, <1>2, <1>5 DEF RxStart, RxMoved, RxTyped, RxType, Byte
<1>6. CASE RxBit(rst, line)
  <2>1. rxu.state = RX_READ_BITS
    BY <1>6 DEF RxBit, From
  <2>2. QED
    BY <1>1, <1>2, <1>3, <1>6, <2>1 DEF RxBit, RxMoved, RxTyped, RxType, Byte
<1>7. CASE RxStop(rst, line)
  BY <1>1, <1>2, <1>7 DEF RxStop, RxMoved, RxTyped, RxType, Byte
<1>8. CASE RxError(rst)
  BY <1>1, <1>2, <1>8 DEF RxError, RxMoved, RxTyped, RxType, Byte
<1>9. CASE RxRestart(rst)
  BY <1>1, <1>2, <1>9 DEF RxRestart, RxMoved, RxTyped, RxType, Byte
<1>10. CASE RxReceived(rst)
  BY <1>1, <1>2, <1>10 DEF RxReceived, RxMoved, RxTyped, RxType, Byte
<1>11. CASE RxHold(rst)
  BY <1>1, <1>2, <1>11 DEF RxHold, RxMoved, RxTyped, RxType, Byte
<1>12. QED
  BY <1>4, <1>5, <1>6, <1>7, <1>8, <1>9, <1>10, <1>11 DEF RxTick

(* The line is up or down.                                                 *)
LEMMA LineIsBit ==
  ASSUME txu \in TxType
  PROVE  Line \in {0, 1}
BY DEF Line, TxType

(* The registers of the two machines and the histories keep their ranges,  *)
(* for every divider and every bound on drift and noise.                   *)
THEOREM LinkTypeCorrect == Spec => []TypeOK
<1> DEFINE IInv == TypeOK /\ RxTyped
<1>1. Init => IInv
  <2> SUFFICES ASSUME Init PROVE IInv
    OBVIOUS
  <2>1. txu \in TxType /\ RxTyped
    BY UartAssumption DEF Init, UartInit, TxType, RxTyped, RxType, Byte, TX_IDLE, RX_IDLE,
                          RX_READ_BITS
  <2>2. QED
    BY <2>1, LinkAssumption DEF Init, TypeOK, RxTyped
<1>2. IInv /\ [Next]_vars => IInv'
  <2> SUFFICES ASSUME TypeOK, RxTyped, [Next]_vars PROVE TypeOK' /\ RxTyped'
    OBVIOUS
  <2>0. /\ txu \in TxType /\ Line \in {0, 1} /\ FALSE \in BOOLEAN /\ TRUE \in BOOLEAN
        /\ 0 \in Byte /\ Bytes \subseteq Byte
        /\ Slips \in Nat /\ Glitches \in Nat /\ GlitchEdges \in Nat
        /\ sent \in Bytes \cup {NoByte} /\ slips \in 0 .. Slips /\ noise \in 0 .. Glitches
        /\ pull \in 0 .. GlitchEdges
    BY LineIsBit, LinkAssumption DEF TypeOK, Byte
  <2>1. CASE UNCHANGED vars
    BY <2>1 DEF vars, uartVars, TypeOK, RxTyped
  <2>2. CASE Both
    <3>1. txu' \in TxType /\ RxTyped'
      BY <2>0, <2>2, TxTyped, RxTypedStep DEF Both, UartTick
    <3>2. sent' \in Bytes \cup {NoByte} /\ UNCHANGED <<slips, noise>>
          /\ pull' \in 0 .. GlitchEdges
      BY <2>0, <2>2 DEF Both, Taken
    <3>3. QED
      BY <2>0, <3>1, <3>2 DEF TypeOK, RxTyped
  <2>3. CASE Send
    <3>1. PICK b \in Bytes : UartTick(FALSE, Line, TRUE, b) /\ sent' = b
      BY <2>3 DEF Send
    <3>2. txu' \in TxType /\ RxTyped'
      BY <2>0, <3>1, TxTyped, RxTypedStep DEF UartTick
    <3>3. slips' = Slips /\ UNCHANGED <<noise, pull>>
      BY <2>3 DEF Send
    <3>4. QED
      BY <2>0, <3>1, <3>2, <3>3 DEF TypeOK, RxTyped
  <2>4. CASE TxAlone
    <3>1. txu' \in TxType
      BY <2>0, <2>4, TxTyped DEF TxAlone
    <3>2. slips' \in 0 .. Slips /\ UNCHANGED <<rxu, sent, noise, pull>>
      BY <2>0, <2>4 DEF TxAlone
    <3>3. QED
      BY <2>0, <3>1, <3>2 DEF TypeOK, RxTyped
  <2>5. CASE RxAlone
    <3>1. RxTyped'
      BY <2>0, <2>5, RxTypedStep DEF RxAlone
    <3>2. slips' \in 0 .. Slips /\ UNCHANGED <<txu, noise, pull>>
          /\ sent' \in Bytes \cup {NoByte}
      BY <2>0, <2>5 DEF RxAlone, Taken
    <3>3. QED
      BY <2>0, <3>1, <3>2 DEF TypeOK, RxTyped
  <2>6. CASE Glitch
    <3>1. UNCHANGED <<txu, rxu, sent, slips>> /\ pull' \in 0 .. GlitchEdges
          /\ noise' \in 0 .. Glitches
      BY <2>0, <2>6 DEF Glitch, uartVars
    <3>2. QED
      BY <2>0, <3>1 DEF TypeOK, RxTyped
  <2>7. QED
    BY <2>1, <2>2, <2>3, <2>4, <2>5, <2>6 DEF Next
<1>3. IInv => TypeOK
  OBVIOUS
<1>4. QED
  BY <1>1, <1>2, <1>3, PTL DEF Spec

(* What an edge of the transmitter does during a frame, by what is left of *)
(* its countdown.                                                          *)
TxHeld ==
  /\ Left(txu) > 1 /\ Left(txu)' = Left(txu) - 1
  /\ txu'.countdown \in 1 .. txu.countdown
  /\ txu'.state = txu.state /\ txu'.bits = txu.bits
  /\ txu'.data = txu.data /\ txu'.out = txu.out

TxShifted ==
  /\ Left(txu) = 1 /\ Left(txu)' = 4 * ClockDivide
  /\ txu'.countdown = 4
  /\ txu.state = TX_SENDING /\ txu'.state = TX_SENDING
  /\ txu.bits > 0 /\ txu'.bits = txu.bits - 1
  /\ txu'.data = txu.data \div 2 /\ txu'.out = txu.data % 2

TxStopped ==
  /\ Left(txu) = 1 /\ Left(txu)' = 8 * ClockDivide
  /\ txu'.countdown = 8
  /\ txu.state = TX_SENDING /\ txu'.state = TX_DELAY_RESTART
  /\ txu.bits = 0 /\ txu'.out = 1

TxRestarted ==
  /\ Left(txu) = 1
  /\ txu.state = TX_DELAY_RESTART /\ txu'.state = TX_IDLE
  /\ txu'.out = txu.out

(* An edge of a busy transmitter is one of the four.                       *)
LEMMA TxEdge ==
  ASSUME TypeOK, TxCounting, is_transmitting, TxTick(FALSE, FALSE, 0)
  PROVE  TxHeld \/ TxShifted \/ TxStopped \/ TxRestarted
<1> USE DEF TX_IDLE, TX_SENDING, TX_DELAY_RESTART
<1>1. /\ txu.clk_divider \in 1 .. ClockDivide /\ txu.countdown \in 1 .. 8
      /\ txu.state \in {TX_SENDING, TX_DELAY_RESTART} /\ txu.bits \in 0 .. 8
      /\ ClockDivide \in Int
  BY UartAssumption DEF TypeOK, TxType, TxCounting, is_transmitting
<1>2. From(txu, FALSE) = txu.state
  BY DEF From
<1>3. /\ Counted(txu) = 0 <=> Left(txu) = 1
      /\ Counted(txu) = 0 => Divided(txu) = ClockDivide
      /\ Counted(txu) # 0 => /\ Counted(txu) \in 1 .. txu.countdown
                             /\ (Counted(txu) - 1) * ClockDivide + Divided(txu) = Left(txu) - 1
      /\ Left(txu) \in Int /\ Left(txu) >= 1
  BY <1>1, CountStep
<1>4. Left(txu)' = (txu'.countdown - 1) * ClockDivide + txu'.clk_divider
  BY DEF Left
<1>5. ~TxIdle(FALSE, FALSE, 0)
  <2>1. ~(txu.state = TX_IDLE)
    BY DEF is_transmitting
  <2>2. QED
    BY <1>2, <2>1 DEF TxIdle
<1>6. CASE TxShift(FALSE)
  <2>1. txu' = TxMoved(TX_SENDING, 4, txu.bits - 1, txu.data \div 2, txu.data % 2)
        /\ Counted(txu) = 0 /\ txu.bits > 0 /\ txu.state = TX_SENDING
    BY <1>2, <1>6 DEF TxShift
  <2>2. Left(txu)' = 3 * ClockDivide + ClockDivide
    BY <1>3, <1>4, <2>1 DEF TxMoved
  <2>3. TxShifted
    BY <1>1, <1>3, <2>1, <2>2 DEF TxMoved, TxShifted
  <2>4. QED
    BY <2>3
<1>7. CASE TxStop(FALSE)
  <2>1. txu' = TxMoved(TX_DELAY_RESTART, 8, 0, txu.data, 1)
        /\ Counted(txu) = 0 /\ txu.bits = 0 /\ txu.state = TX_SENDING
    BY <1>2, <1>7 DEF TxStop
  <2>2. Left(txu)' = 7 * ClockDivide + ClockDivide
    BY <1>3, <1>4, <2>1 DEF TxMoved
  <2>3. TxStopped
    BY <1>1, <1>3, <2>1, <2>2 DEF TxMoved, TxStopped
  <2>4. QED
    BY <2>3
<1>8. CASE TxRestart(FALSE)
  <2>1. txu' = TxMoved(TX_IDLE, 0, txu.bits, txu.data, txu.out)
        /\ Counted(txu) = 0 /\ txu.state = TX_DELAY_RESTART
    BY <1>2, <1>8 DEF TxRestart
  <2>2. TxRestarted
    BY <1>3, <2>1 DEF TxMoved, TxRestarted
  <2>3. QED
    BY <2>2
<1>9. CASE TxHold(FALSE)
  <2>1. txu' = TxMoved(txu.state, Counted(txu), txu.bits, txu.data, txu.out)
        /\ Counted(txu) # 0
    BY <1>9 DEF TxHold
  <2>2. Left(txu)' = (Counted(txu) - 1) * ClockDivide + Divided(txu)
    BY <1>4, <2>1 DEF TxMoved
  <2>3. Left(txu) > 1
    BY <1>3, <2>1
  <2>4. TxHeld
    BY <1>3, <2>1, <2>2, <2>3 DEF TxMoved, TxHeld
  <2>5. QED
    BY <2>4
<1>10. QED
  BY <1>5, <1>6, <1>7, <1>8, <1>9 DEF TxTick

(* The same for the receiver, which looks at the line when its countdown   *)
(* is over.                                                                *)
RxHeld ==
  /\ rxu.state \in {RX_CHECK_START, RX_READ_BITS, RX_CHECK_STOP, RX_DELAY_RESTART}
  /\ Left(rxu) > 1 /\ Left(rxu)' = Left(rxu) - 1
  /\ rxu'.countdown \in 1 .. rxu.countdown
  /\ rxu'.state = rxu.state /\ rxu'.bits = rxu.bits /\ rxu'.data = rxu.data

RxWoke(line) ==
  /\ rxu.state = RX_IDLE
  /\ line # 0 => rxu'.state = RX_IDLE
  /\ line = 0 => /\ rxu'.state = RX_CHECK_START
                 /\ rxu'.countdown = 2 /\ Left(rxu)' = 2 * ClockDivide

RxStarted(line) ==
  /\ rxu.state = RX_CHECK_START /\ Left(rxu) = 1
  /\ line # 0 => rxu'.state = RX_ERROR
  /\ line = 0 => /\ rxu'.state = RX_READ_BITS /\ rxu'.bits = 8
                 /\ rxu'.countdown = 4 /\ Left(rxu)' = 4 * ClockDivide
                 /\ rxu'.data = rxu.data

RxRead(line) ==
  /\ rxu.state = RX_READ_BITS /\ Left(rxu) = 1
  /\ rxu'.state = IF rxu.bits > 1 THEN RX_READ_BITS ELSE RX_CHECK_STOP
  /\ rxu'.bits = rxu.bits - 1 /\ rxu'.data = line * 128 + rxu.data \div 2
  /\ rxu'.countdown = 4 /\ Left(rxu)' = 4 * ClockDivide

RxStopped(line) ==
  /\ rxu.state = RX_CHECK_STOP /\ Left(rxu) = 1
  /\ rxu'.state = IF line = 1 THEN RX_RECEIVED ELSE RX_ERROR
  /\ rxu'.data = rxu.data

RxRested ==
  \/ rxu.state = RX_ERROR /\ rxu'.state = RX_DELAY_RESTART /\ rxu'.countdown = 8
  \/ rxu.state = RX_DELAY_RESTART /\ rxu'.state = RX_IDLE
  \/ rxu.state = RX_RECEIVED /\ rxu'.state = RX_IDLE

(* An edge of the receiver is one of these.                                *)
LEMMA RxEdge ==
  ASSUME TypeOK, RxCounting, NEW line \in {0, 1}, RxTick(FALSE, line)
  PROVE  \/ RxHeld \/ RxWoke(line) \/ RxStarted(line) \/ RxRead(line)
         \/ RxStopped(line) \/ RxRested
<1> USE DEF RX_IDLE, RX_CHECK_START, RX_READ_BITS, RX_CHECK_STOP, RX_DELAY_RESTART, RX_ERROR,
            RX_RECEIVED
<1>1. /\ rxu.clk_divider \in 1 .. ClockDivide /\ rxu.bits \in 0 .. 8
      /\ ClockDivide \in Int
      /\ rxu.state \in {RX_CHECK_START, RX_READ_BITS, RX_CHECK_STOP, RX_DELAY_RESTART}
           => rxu.countdown \in 1 .. 8
  BY UartAssumption DEF TypeOK, RxType, RxCounting
<1>2. From(rxu, FALSE) = rxu.state
  BY DEF From
<1>3. ASSUME rxu.state \in {RX_CHECK_START, RX_READ_BITS, RX_CHECK_STOP, RX_DELAY_RESTART}
      PROVE  /\ Counted(rxu) = 0 <=> Left(rxu) = 1
             /\ Counted(rxu) = 0 => Divided(rxu) = ClockDivide
             /\ Counted(rxu) # 0 =>
                  /\ Counted(rxu) \in 1 .. rxu.countdown
                  /\ (Counted(rxu) - 1) * ClockDivide + Divided(rxu) = Left(rxu) - 1
             /\ Left(rxu) \in Int /\ Left(rxu) >= 1
  BY <1>1, <1>3, CountStep
<1>4. Left(rxu)' = (rxu'.countdown - 1) * ClockDivide + rxu'.clk_divider
  BY DEF Left
<1>5. CASE RxIdle(FALSE, line)
  <2>1. CASE line = 0
    <3>1. rxu' = [clk_divider |-> ClockDivide, countdown |-> 2, bits |-> rxu.bits,
                  data |-> rxu.data, state |-> RX_CHECK_START] /\ rxu.state = RX_IDLE
      BY <1>2, <1>5, <2>1 DEF RxIdle
    <3>2. Left(rxu)' = ClockDivide + ClockDivide
      BY <1>1, <1>4, <3>1
    <3>3. RxWoke(line)
      BY <1>1, <2>1, <3>1, <3>2 DEF RxWoke
    <3>4. QED
      BY <3>3
  <2>2. CASE line # 0
    <3>1. rxu' = [rxu EXCEPT !.state = RX_IDLE] /\ rxu.state = RX_IDLE
      BY <1>2, <1>5, <2>2 DEF RxIdle
    <3>2. RxWoke(line)
      BY <2>2, <3>1 DEF RxWoke, TypeOK, RxType
    <3>3. QED
      BY <3>2
  <2>3. QED
    BY <2>1, <2>2
<1>6. CASE RxStart(FALSE, line)
  <2>1. Counted(rxu) = 0 /\ rxu.state = RX_CHECK_START
    BY <1>2, <1>6 DEF RxStart
  <2>2. CASE line = 0
    <3>1. rxu' = RxMoved(RX_READ_BITS, 4, 8, rxu.data)
      BY <1>6, <2>2 DEF RxStart
    <3>2. Left(rxu)' = 3 * ClockDivide + ClockDivide
      BY <1>3, <1>4, <2>1, <3>1 DEF RxMoved
    <3>3. RxStarted(line)
      BY <1>1, <1>3, <2>1, <2>2, <3>1, <3>2 DEF RxMoved, RxStarted
    <3>4. QED
      BY <3>3
  <2>3. CASE line # 0
    <3>1. rxu' = RxMoved(RX_ERROR, 0, rxu.bits, rxu.data)
      BY <1>6, <2>3 DEF RxStart
    <3>2. RxStarted(line)
      BY <1>3, <2>1, <2>3, <3>1 DEF RxMoved, RxStarted
    <3>3. QED
      BY <3>2
  <2>4. QED
    BY <2>2, <2>3
<1>7. CASE RxBit(FALSE, line)
  <2>1. rxu' = RxMoved(IF rxu.bits > 1 THEN RX_READ_BITS ELSE RX_CHECK_STOP, 4,
                       rxu.bits - 1, line * 128 + rxu.data \div 2)
        /\ Counted(rxu) = 0 /\ rxu.state = RX_READ_BITS
    BY <1>2, <1>7 DEF RxBit
  <2>2. Left(rxu)' = 3 * ClockDivide + ClockDivide
    BY <1>3, <1>4, <2>1 DEF RxMoved
  <2>3. RxRead(line)
    BY <1>1, <1>3, <2>1, <2>2 DEF RxMoved, RxRead
  <2>4. QED
    BY <2>3
<1>8. CASE RxStop(FALSE, line)
  <2>1. rxu' = RxMoved(IF line = 1 THEN RX_RECEIVED ELSE RX_ERROR, 0, rxu.bits, rxu.data)
        /\ Counted(rxu) = 0 /\ rxu.state = RX_CHECK_STOP
    BY <1>2, <1>8 DEF RxStop
  <2>2. RxStopped(line)
    BY <1>3, <2>1 DEF RxMoved, RxStopped
  <2>3. QED
    BY <2>2
<1>9. CASE RxError(FALSE)
  <2>1. RxRested
    BY <1>2, <1>9 DEF RxError, RxMoved, RxRested
  <2>2. QED
    BY <2>1
<1>10. CASE RxRestart(FALSE)
  <2>1. RxRested
    BY <1>2, <1>10 DEF RxRestart, RxMoved, RxRested
  <2>2. QED
    BY <2>1
<1>11. CASE RxReceived(FALSE)
  <2>1. RxRested
    BY <1>2, <1>11 DEF RxReceived, RxMoved, RxRested
  <2>2. QED
    BY <2>1
<1>12. CASE RxHold(FALSE)
  <2>1. rxu' = RxMoved(rxu.state, Counted(rxu), rxu.bits, rxu.data) /\ Counted(rxu) # 0
        /\ rxu.state \in {RX_CHECK_START, RX_READ_BITS, RX_CHECK_STOP, RX_DELAY_RESTART}
    BY <1>2, <1>12 DEF RxHold
  <2>2. Left(rxu)' = (Counted(rxu) - 1) * ClockDivide + Divided(rxu)
    BY <1>4, <2>1 DEF RxMoved
  <2>3. Left(rxu) > 1
    BY <1>3, <2>1
  <2>4. RxHeld
    BY <1>3, <2>1, <2>2, <2>3 DEF RxMoved, RxHeld
  <2>5. QED
    BY <2>4
<1>13. QED
  BY <1>5, <1>6, <1>7, <1>8, <1>9, <1>10, <1>11, <1>12 DEF RxTick

(* A machine's place in the frame, left edges before the end of bit n, and *)
(* its place an edge later; bit 9 has no end.                              *)
Advanced(n, left, n2, left2) ==
  \/ n2 = n /\ left2 = left - 1 /\ (n < 9 => left > 1)
  \/ n < 9 /\ left = 1 /\ n2 = n + 1 /\ left2 = 4 * ClockDivide

(* Where a busy transmitter is in the frame.                               *)
LEMMA TxPlace ==
  ASSUME TypeOK, TxCounting, is_transmitting
  PROVE  /\ OnLine \in 0 .. 9 /\ TxLeft \in Int /\ TxLeft >= 1 - 4 * ClockDivide
         /\ OnLine < 9 <=> txu.state = TX_SENDING
         /\ OnLine = 9 <=> txu.state = TX_DELAY_RESTART
         /\ OnLine < 9 => TxLeft >= 1 /\ TxLeft = Left(txu)
         /\ OnLine = 9 => TxLeft = Left(txu) - 4 * ClockDivide
         /\ Left(txu) \in Int
<1> USE DEF TX_IDLE, TX_SENDING, TX_DELAY_RESTART
<1>1. /\ txu.clk_divider \in 1 .. ClockDivide /\ txu.countdown \in 1 .. 8
      /\ txu.state \in {TX_SENDING, TX_DELAY_RESTART} /\ txu.bits \in 0 .. 8
      /\ ClockDivide \in Int /\ ClockDivide >= 1
  BY UartAssumption DEF TypeOK, TxType, TxCounting, is_transmitting
<1>2. Left(txu) \in Int /\ Left(txu) >= 1
  BY <1>1, CountStep
<1>3. QED
  BY <1>1, <1>2 DEF OnLine, TxLeft

(* An edge before the end of the stop bits takes the transmitter on.       *)
LEMMA TxAdvances ==
  ASSUME TypeOK, TxCounting, is_transmitting, TxTick(FALSE, FALSE, 0),
         TxLeft > 1 - 4 * ClockDivide
  PROVE  is_transmitting' /\ TxCounting' /\ Advanced(OnLine, TxLeft, OnLine', TxLeft')
<1> USE DEF TX_IDLE, TX_SENDING, TX_DELAY_RESTART
<1>1. TxHeld \/ TxShifted \/ TxStopped \/ TxRestarted
  BY TxEdge
<1>2. /\ txu.state \in {TX_SENDING, TX_DELAY_RESTART} /\ txu.bits \in 0 .. 8
      /\ txu.countdown \in 1 .. 8 /\ ClockDivide \in Int /\ ClockDivide >= 1
      /\ TxLeft \in Int /\ Left(txu) \in Int
  <2>1. /\ txu.state \in {TX_SENDING, TX_DELAY_RESTART} /\ txu.bits \in 0 .. 8
        /\ txu.countdown \in 1 .. 8 /\ ClockDivide \in Int /\ ClockDivide >= 1
        /\ txu.clk_divider \in 1 .. ClockDivide
    BY UartAssumption DEF TypeOK, TxType, TxCounting, is_transmitting
  <2>2. QED
    BY <2>1, TxPlace, CountStep
<1>3. /\ OnLine' = IF txu'.state = TX_SENDING THEN 8 - txu'.bits ELSE 9
      /\ TxLeft' = IF txu'.state = TX_SENDING THEN Left(txu)' ELSE Left(txu)' - 4 * ClockDivide
  BY DEF OnLine, TxLeft
<1>4. CASE TxHeld
  <2>1. is_transmitting' /\ TxCounting'
    BY <1>2, <1>4 DEF TxHeld, is_transmitting, TxCounting
  <2>2. OnLine' = OnLine /\ TxLeft' = TxLeft - 1 /\ (OnLine < 9 => TxLeft > 1)
    BY <1>2, <1>3, <1>4 DEF TxHeld, OnLine, TxLeft
  <2>3. QED
    BY <2>1, <2>2 DEF Advanced
<1>5. CASE TxShifted
  <2>1. is_transmitting' /\ TxCounting'
    BY <1>2, <1>5 DEF TxShifted, is_transmitting, TxCounting
  <2>2. OnLine < 9 /\ TxLeft = 1 /\ OnLine' = OnLine + 1 /\ TxLeft' = 4 * ClockDivide
    BY <1>2, <1>3, <1>5 DEF TxShifted, OnLine, TxLeft
  <2>3. QED
    BY <2>1, <2>2 DEF Advanced
<1>6. CASE TxStopped
  <2>1. is_transmitting' /\ TxCounting'
    BY <1>2, <1>6 DEF TxStopped, is_transmitting, TxCounting
  <2>2. OnLine < 9 /\ TxLeft = 1 /\ OnLine' = OnLine + 1 /\ TxLeft' = 4 * ClockDivide
    BY <1>2, <1>3, <1>6 DEF TxStopped, OnLine, TxLeft
  <2>3. QED
    BY <2>1, <2>2 DEF Advanced
<1>7. CASE TxRestarted
  BY <1>2, <1>7 DEF TxRestarted, TxLeft
<1>8. QED
  BY <1>1, <1>4, <1>5, <1>6, <1>7

Receiving == rxu.state \in {RX_IDLE, RX_CHECK_START, RX_READ_BITS, RX_CHECK_STOP}

(* Where a receiver that has not got its byte yet is in the frame.         *)
LEMMA RxPlace ==
  ASSUME TypeOK, RxCounting, Receiving
  PROVE  /\ Awaited \in 0 .. 9 /\ RxLeft \in Int /\ RxLeft >= 1
         /\ Awaited = 9 <=> rxu.state = RX_CHECK_STOP
<1> USE DEF RX_IDLE, RX_CHECK_START, RX_READ_BITS, RX_CHECK_STOP, RX_DELAY_RESTART, RX_ERROR,
            RX_RECEIVED
<1>1. /\ rxu.clk_divider \in 1 .. ClockDivide /\ rxu.bits \in 0 .. 8
      /\ ClockDivide \in Int /\ ClockDivide >= 1
      /\ rxu.state = RX_READ_BITS => rxu.bits \in 1 .. 8
      /\ rxu.state # RX_IDLE => rxu.countdown \in 1 .. 8
  BY UartAssumption DEF TypeOK, RxType, RxCounting, Receiving
<1>2. rxu.state # RX_IDLE => Left(rxu) \in Int /\ Left(rxu) >= 1
  BY <1>1, CountStep
<1>3. QED
  BY <1>1, <1>2 DEF Awaited, RxLeft, Receiving

(* An edge takes the receiver on, as long as it finds the start bit and    *)
(* the stop bit on the line when it looks for them.                        *)
LEMMA RxAdvances ==
  ASSUME TypeOK, RxCounting, Receiving, NEW line \in {0, 1}, RxTick(FALSE, line),
         Awaited = 0 => line = 0,
         Awaited = 9 /\ RxLeft = 1 => line = 1
  PROVE  /\ rxu'.state \in {RX_CHECK_START, RX_READ_BITS, RX_CHECK_STOP, RX_RECEIVED}
         /\ RxCounting' /\ Advanced(Awaited, RxLeft, Awaited', RxLeft')
<1> USE DEF RX_IDLE, RX_CHECK_START, RX_READ_BITS, RX_CHECK_STOP, RX_DELAY_RESTART, RX_ERROR,
            RX_RECEIVED
<1>1. RxHeld \/ RxWoke(line) \/ RxStarted(line) \/ RxRead(line) \/ RxStopped(line)
  <2>1. ~RxRested
    BY DEF RxRested, Receiving
  <2>2. QED
    BY <2>1, RxEdge
<1>2. /\ rxu.bits \in 0 .. 8 /\ ClockDivide \in Int /\ ClockDivide >= 1
      /\ rxu.state = RX_READ_BITS => rxu.bits \in 1 .. 8
      /\ rxu.state \in {RX_CHECK_START, RX_READ_BITS, RX_CHECK_STOP} =>
           rxu.countdown \in 1 .. 8 /\ Left(rxu) \in Int
  <2>1. /\ rxu.clk_divider \in 1 .. ClockDivide /\ rxu.bits \in 0 .. 8
        /\ ClockDivide \in Int /\ ClockDivide >= 1
        /\ rxu.state = RX_READ_BITS => rxu.bits \in 1 .. 8
        /\ rxu.state # RX_IDLE => rxu.countdown \in 1 .. 8
    BY UartAssumption DEF TypeOK, RxType, RxCounting, Receiving
  <2>2. QED
    BY <2>1, CountStep
<1>3. /\ Awaited' = IF rxu'.state \in {RX_IDLE, RX_CHECK_START} THEN 0
                    ELSE IF rxu'.state = RX_READ_BITS THEN 9 - rxu'.bits ELSE 9
      /\ RxLeft' = IF rxu'.state = RX_IDLE THEN 2 * ClockDivide + 1
                   ELSE IF rxu'.state = RX_RECEIVED THEN 0 ELSE Left(rxu)'
  BY DEF Awaited, RxLeft
<1>4. CASE RxHeld
  <2>1. RxCounting' /\ rxu'.state \in {RX_CHECK_START, RX_READ_BITS, RX_CHECK_STOP}
    BY <1>2, <1>4 DEF RxHeld, RxCounting, Receiving
  <2>2. Awaited' = Awaited /\ RxLeft' = RxLeft - 1 /\ (Awaited < 9 => RxLeft > 1)
    BY <1>2, <1>3, <1>4 DEF RxHeld, Awaited, RxLeft, Receiving
  <2>3. QED
    BY <2>1, <2>2 DEF Advanced
<1>5. CASE RxWoke(line)
  <2>1. Awaited = 0 /\ line = 0 /\ RxLeft = 2 * ClockDivide + 1
    BY <1>5 DEF RxWoke, Awaited, RxLeft
  <2>2. RxCounting' /\ rxu'.state = RX_CHECK_START /\ Left(rxu)' = 2 * ClockDivide
    BY <1>5, <2>1 DEF RxWoke, RxCounting
  <2>3. Awaited' = 0 /\ RxLeft' = 2 * ClockDivide
    BY <1>3, <2>2
  <2>4. QED
    BY <1>2, <2>1, <2>2, <2>3 DEF Advanced
<1>6. CASE RxStarted(line)
  <2>1. Awaited = 0 /\ line = 0 /\ RxLeft = 1
    BY <1>6 DEF RxStarted, Awaited, RxLeft
  <2>2. RxCounting' /\ rxu'.state = RX_READ_BITS /\ rxu'.bits = 8
        /\ Left(rxu)' = 4 * ClockDivide
    BY <1>6, <2>1 DEF RxStarted, RxCounting
  <2>3. Awaited' = 1 /\ RxLeft' = 4 * ClockDivide
    BY <1>3, <2>2
  <2>4. QED
    BY <2>1, <2>2, <2>3 DEF Advanced
<1>7. CASE RxRead(line)
  <2>1. Awaited = 9 - rxu.bits /\ RxLeft = 1 /\ rxu.bits \in 1 .. 8
    BY <1>2, <1>7 DEF RxRead, Awaited, RxLeft
  <2>2. RxCounting' /\ rxu'.state \in {RX_READ_BITS, RX_CHECK_STOP}
    BY <1>7, <2>1 DEF RxRead, RxCounting
  <2>3. Awaited' = Awaited + 1 /\ RxLeft' = 4 * ClockDivide
    BY <1>3, <1>7, <2>1 DEF RxRead
  <2>4. QED
    BY <2>1, <2>2, <2>3 DEF Advanced
<1>8. CASE RxStopped(line)
  <2>1. Awaited = 9 /\ RxLeft = 1 /\ line = 1
    BY <1>8 DEF RxStopped, Awaited, RxLeft
  <2>2. RxCounting' /\ rxu'.state = RX_RECEIVED
    BY <1>8, <2>1 DEF RxStopped, RxCounting
  <2>3. Awaited' = 9 /\ RxLeft' = 0
    BY <1>3, <2>2
  <2>4. QED
    BY <2>1, <2>2, <2>3 DEF Advanced
<1>9. QED
  BY <1>1, <1>4, <1>5, <1>6, <1>7, <1>8

(* The receiver at place (q, r) keeps within drift edges of the            *)
(* transmitter at place (n, left).                                         *)
Within(n, left, q, r, drift) ==
  \/ q = n /\ 2 * ClockDivide - 1 + r - left <= drift
           /\ -(2 * ClockDivide - 1 + r - left) <= drift
  \/ q = n + 1 /\ r - left - 1 - 2 * ClockDivide <= drift
               /\ -(r - left - 1 - 2 * ClockDivide) <= drift

(* An edge of both keeps them together, if the drift is below half a bit.  *)
LEMMA EdgeOfBoth ==
  ASSUME NEW n \in 0 .. 9, NEW left \in Int, NEW q \in 0 .. 9, NEW r \in Int,
         NEW drift \in Int, drift < 2 * ClockDivide,
         n < 9 => left >= 1, r >= 1, Within(n, left, q, r, drift),
         NEW n2 \in 0 .. 9, NEW left2 \in Int, NEW q2 \in 0 .. 9, NEW r2 \in Int,
         Advanced(n, left, n2, left2), Advanced(q, r, q2, r2)
  PROVE  Within(n2, left2, q2, r2, drift)
<1>1. ClockDivide \in Int /\ ClockDivide >= 1
  BY UartAssumption
<1>2. CASE q = n
  BY <1>1, <1>2 DEF Within, Advanced
<1>3. CASE q = n + 1
  BY <1>1, <1>3 DEF Within, Advanced
<1>4. QED
  BY <1>2, <1>3 DEF Within

(* An edge of the transmitter only is one edge of drift more.              *)
LEMMA EdgeOfTx ==
  ASSUME NEW n \in 0 .. 9, NEW left \in Int, NEW q \in 0 .. 9, NEW r \in Int,
         NEW drift \in Int, drift + 1 < 2 * ClockDivide,
         n < 9 => left >= 1, r >= 1 \/ (q = 9 /\ r >= 0), Within(n, left, q, r, drift),
         NEW n2 \in 0 .. 9, NEW left2 \in Int,
         Advanced(n, left, n2, left2)
  PROVE  Within(n2, left2, q, r, drift + 1)
<1>1. ClockDivide \in Int /\ ClockDivide >= 1
  BY UartAssumption
<1>2. CASE q = n
  BY <1>1, <1>2 DEF Within, Advanced
<1>3. CASE q = n + 1
  BY <1>1, <1>3 DEF Within, Advanced
<1>4. QED
  BY <1>2, <1>3 DEF Within

(* And so is an edge of the receiver only.                                 *)
LEMMA EdgeOfRx ==
  ASSUME NEW n \in 0 .. 9, NEW left \in Int, NEW q \in 0 .. 9, NEW r \in Int,
         NEW drift \in Int, drift + 1 < 2 * ClockDivide,
         n < 9 => left >= 1, r >= 1, Within(n, left, q, r, drift),
         NEW q2 \in 0 .. 9, NEW r2 \in Int,
         Advanced(q, r, q2, r2)
  PROVE  Within(n, left, q2, r2, drift + 1)
<1>1. ClockDivide \in Int /\ ClockDivide >= 1
  BY UartAssumption
<1>2. CASE q = n
  BY <1>1, <1>2 DEF Within, Advanced
<1>3. CASE q = n + 1
  BY <1>1, <1>3 DEF Within, Advanced
<1>4. QED
  BY <1>2, <1>3 DEF Within

(* Shifting a byte down by one more place.                                 *)
LEMMA ShiftDown ==
  ASSUME NEW b \in Byte, NEW n \in 0 .. 7
  PROVE  (b \div Power(n)) \div 2 = b \div Power(n + 1)
<1> USE DEF Byte, Power
<1>1. CASE n = 0 BY <1>1, SMTT(30)
<1>2. CASE n = 1 BY <1>2, SMTT(30)
<1>3. CASE n = 2 BY <1>3, SMTT(30)
<1>4. CASE n = 3 BY <1>4, SMTT(30)
<1>5. CASE n = 4 BY <1>5, SMTT(30)
<1>6. CASE n = 5 BY <1>6, SMTT(30)
<1>7. CASE n = 6 BY <1>7, SMTT(30)
<1>8. CASE n = 7 BY <1>8, SMTT(30)
<1>9. QED
  BY <1>1, <1>2, <1>3, <1>4, <1>5, <1>6, <1>7, <1>8

(* Taking in the next bit of b over the n that have come.                  *)
LEMMA TakeIn ==
  ASSUME NEW b \in Byte, NEW d \in Byte, NEW n \in 0 .. 7, NEW line \in {0, 1},
         line = (b \div Power(n)) % 2,
         d \div Power(8 - n) = b % Power(n)
  PROVE  (line * 128 + d \div 2) \div Power(8 - (n + 1)) = b % Power(n + 1)
<1> USE DEF Byte, Power
<1>1. CASE n = 0 BY <1>1, SMTT(30)
<1>2. CASE n = 1 BY <1>2, SMTT(30)
<1>3. CASE n = 2 BY <1>3, SMTT(30)
<1>4. CASE n = 3 BY <1>4, SMTT(30)
<1>5. CASE n = 4 BY <1>5, SMTT(30)
<1>6. CASE n = 5 BY <1>6, SMTT(30)
<1>7. CASE n = 6 BY <1>7, SMTT(30)
<1>8. CASE n = 7 BY <1>8, SMTT(30)
<1>9. QED
  BY <1>1, <1>2, <1>3, <1>4, <1>5, <1>6, <1>7, <1>8

(* A busy transmitter goes on holding the bits still to be sent.           *)
LEMMA TxHoldsStep ==
  ASSUME TypeOK, TxCounting, is_transmitting, sent \in Byte, TxHolds,
         TxTick(FALSE, FALSE, 0), sent' = sent
  PROVE  TxHolds'
<1> USE DEF TX_IDLE, TX_SENDING, TX_DELAY_RESTART
<1>1. CASE TxHeld
  BY <1>1 DEF TxHeld, TxHolds
<1>2. CASE TxShifted
  <2>1. txu.bits \in 1 .. 8
    BY <1>2 DEF TxShifted, TypeOK, TxType
  <2>2. PICK n \in 0 .. 7 : n = 8 - txu.bits
    BY <2>1
  <2>3. txu.data = sent \div Power(n)
    BY <1>2, <2>2 DEF TxShifted, TxHolds
  <2>4. 8 - txu'.bits = n + 1 /\ n + 1 # 0 /\ (n + 1) - 1 = n
    BY <1>2, <2>1, <2>2 DEF TxShifted
  <2>5. txu'.data = sent \div Power(n + 1)
    BY <1>2, <2>3, ShiftDown DEF TxShifted
  <2>6. txu'.out = (sent \div Power(n)) % 2
    BY <1>2, <2>3 DEF TxShifted
  <2>7. QED
    BY <2>4, <2>5, <2>6 DEF TxHolds
<1>3. CASE TxStopped \/ TxRestarted
  BY <1>3 DEF TxStopped, TxRestarted, TxHolds
<1>4. QED
  BY <1>1, <1>2, <1>3, TxEdge

(* The receiver holds the bits that have come, if it finds the right bit   *)
(* on the line when it reads one.                                          *)
LEMMA RxHoldsStep ==
  ASSUME TypeOK, RxCounting, Receiving, sent \in Byte, RxHolds,
         NEW line \in {0, 1}, RxTick(FALSE, line), sent' = sent,
         rxu.state = RX_READ_BITS /\ RxLeft = 1 =>
           line = (sent \div Power(8 - rxu.bits)) % 2
  PROVE  RxHolds'
<1> USE DEF RX_IDLE, RX_CHECK_START, RX_READ_BITS, RX_CHECK_STOP, RX_DELAY_RESTART, RX_ERROR,
            RX_RECEIVED
<1>1. CASE RxHeld
  BY <1>1 DEF RxHeld, RxHolds
<1>2. CASE RxWoke(line)
  BY <1>2 DEF RxWoke, RxHolds
<1>3. CASE RxStarted(line)
  <2>1. rxu.data \in 0 .. 255 /\ sent \in 0 .. 255
    BY DEF TypeOK, RxType, Byte
  <2>2. rxu.data \div Power(8) = 0 /\ sent % Power(0) = 0
    BY <2>1 DEF Power
  <2>3. QED
    BY <1>3, <2>2 DEF RxStarted, RxHolds
<1>4. CASE RxRead(line)
  <2>1. rxu.bits \in 1 .. 8 /\ RxLeft = 1 /\ rxu.data \in Byte
    BY <1>4 DEF RxRead, RxCounting, RxLeft, TypeOK, RxType
  <2>2. PICK n \in 0 .. 7 : n = 8 - rxu.bits
    BY <2>1
  <2>3. rxu.bits = 8 - n /\ rxu'.bits = 8 - (n + 1) /\ 8 - rxu'.bits = n + 1
    BY <1>4, <2>1, <2>2 DEF RxRead
  <2>4. rxu.data \div Power(8 - n) = sent % Power(n)
    BY <1>4, <2>2, <2>3 DEF RxRead, RxHolds
  <2>5. line = (sent \div Power(n)) % 2
    BY <1>4, <2>1, <2>2 DEF RxRead
  <2>6. rxu'.data \div Power(8 - (n + 1)) = sent % Power(n + 1)
    <3>1. (line * 128 + rxu.data \div 2) \div Power(8 - (n + 1)) = sent % Power(n + 1)
      BY <2>1, <2>4, <2>5, TakeIn
    <3>2. QED
      BY <1>4, <3>1 DEF RxRead
  <2>7. rxu'.state = RX_CHECK_STOP => rxu'.data = sent
    <3>1. SUFFICES ASSUME rxu'.state = RX_CHECK_STOP PROVE rxu'.data = sent
      OBVIOUS
    <3>2. n = 7
      BY <1>4, <2>1, <2>2, <3>1 DEF RxRead
    <3>3. rxu'.data \in Int
      BY <1>4, <2>1 DEF RxRead, Byte
    <3>4. Power(8 - (n + 1)) = 1 /\ Power(n + 1) = 256
      BY <3>2 DEF Power
    <3>5. rxu'.data = sent % 256
      BY <2>6, <3>3, <3>4
    <3>6. QED
      BY <3>5 DEF Byte
  <2>8. rxu'.state \in {RX_READ_BITS, RX_CHECK_STOP}
    BY <1>4 DEF RxRead
  <2>9. ~(rxu'.state = RX_RECEIVED)
    BY <2>8
  <2>10. rxu'.data \div Power(rxu'.bits) = sent' % Power(8 - rxu'.bits)
    BY <2>3, <2>6
  <2>11. QED
    BY <2>7, <2>8, <2>9, <2>10 DEF RxHolds
<1>5. CASE RxStopped(line)
  BY <1>5 DEF RxStopped, RxHolds
<1>6. CASE RxRested
  BY <1>6 DEF RxRested, Receiving
<1>7. QED
  BY <1>1, <1>2, <1>3, <1>4, <1>5, <1>6, RxEdge

(* While a byte is under way the receiver samples the bit it waits for: it *)
(* finds the bit on the line before the transmitter has taken it off, and  *)
(* the byte has come before the stop bits are over.                        *)
LEMMA UnderWayFacts ==
  ASSUME TypeOK, TxCounting, RxCounting, UnderWay, Slips < 2 * ClockDivide
  PROVE  /\ sent \in Byte /\ Line = txu.out /\ Line \in {0, 1}
         /\ Slips - slips \in Int /\ Slips - slips < 2 * ClockDivide
         /\ Within(OnLine, TxLeft, Awaited, RxLeft, Slips - slips)
         /\ TxLeft > 1 - 4 * ClockDivide
         /\ OnLine \in 0 .. 9 /\ TxLeft \in Int /\ (OnLine < 9 => TxLeft >= 1)
         /\ Awaited \in 0 .. 9 /\ RxLeft \in Int /\ RxLeft >= 0
         /\ RxLeft >= 1 <=> Receiving
         /\ RxLeft = 0 => Awaited = 9 /\ txu.state = TX_DELAY_RESTART /\ Left(txu) > 1
         /\ Awaited = 0 => Line = 0
         /\ Awaited = 9 /\ RxLeft = 1 => Line = 1
         /\ rxu.state = RX_READ_BITS /\ RxLeft = 1 =>
              Line = (sent \div Power(8 - rxu.bits)) % 2
<1> USE DEF RX_IDLE, RX_CHECK_START, RX_READ_BITS, RX_CHECK_STOP, RX_DELAY_RESTART, RX_ERROR,
            RX_RECEIVED, TX_IDLE, TX_SENDING, TX_DELAY_RESTART
<1>1. ClockDivide \in Int /\ ClockDivide >= 1
  BY UartAssumption
<1>2. sent \in Byte /\ Line = txu.out /\ Line \in {0, 1}
  BY LinkAssumption DEF UnderWay, Line, TypeOK, TxType
<1>3. Slips - slips \in Int /\ Slips - slips < 2 * ClockDivide
  BY <1>1, LinkAssumption DEF TypeOK
<1>4. Within(OnLine, TxLeft, Awaited, RxLeft, Slips - slips)
  BY DEF UnderWay, InStep, Drifted, Within
<1>5. /\ OnLine \in 0 .. 9 /\ TxLeft \in Int /\ TxLeft >= 1 - 4 * ClockDivide
      /\ OnLine < 9 <=> txu.state = TX_SENDING
      /\ OnLine = 9 <=> txu.state = TX_DELAY_RESTART
      /\ OnLine < 9 => TxLeft >= 1
      /\ OnLine = 9 => TxLeft = Left(txu) - 4 * ClockDivide
      /\ Left(txu) \in Int
  BY TxPlace DEF UnderWay
<1>6. /\ Awaited \in 0 .. 9 /\ RxLeft \in Int /\ RxLeft >= 0
      /\ RxLeft >= 1 <=> Receiving
      /\ RxLeft = 0 => Awaited = 9
  <2>1. CASE Receiving
    BY <2>1, RxPlace
  <2>2. CASE ~Receiving
    <3>1. rxu.state = RX_RECEIVED
      BY <2>2 DEF UnderWay, Receiving
    <3>2. Awaited = 9 /\ RxLeft = 0
      BY <3>1 DEF Awaited, RxLeft
    <3>3. QED
      BY <2>2, <3>2
  <2>3. QED
    BY <2>1, <2>2
<1>7. TxLeft > 1 - 4 * ClockDivide
  BY <1>1, <1>3, <1>4, <1>5, <1>6 DEF Within
<1>8. RxLeft <= 1 => Awaited = OnLine
  BY <1>1, <1>3, <1>4, <1>5, <1>6 DEF Within
<1>9. RxLeft = 0 => Awaited = 9 /\ txu.state = TX_DELAY_RESTART /\ Left(txu) > 1
  <2>1. SUFFICES ASSUME RxLeft = 0 PROVE txu.state = TX_DELAY_RESTART /\ Left(txu) > 1
    BY <1>6
  <2>2. OnLine = 9 /\ Awaited = 9
    BY <1>6, <1>8, <2>1
  <2>3. TxLeft >= 0
    BY <1>1, <1>3, <1>4, <1>5, <2>1, <2>2 DEF Within
  <2>4. QED
    BY <1>1, <1>5, <2>2, <2>3
<1>10. Awaited = 0 => Line = 0
  <2>1. SUFFICES ASSUME Awaited = 0 PROVE txu.out = 0
    BY <1>2
  <2>2. OnLine = 0
    BY <1>4, <1>5, <2>1 DEF Within
  <2>3. 8 - txu.bits = 0 /\ txu.state = TX_SENDING
    BY <1>5, <2>2 DEF OnLine
  <2>4. TxHolds
    BY DEF UnderWay
  <2>5. QED
    BY <2>3, <2>4 DEF TxHolds
<1>11. Awaited = 9 /\ RxLeft = 1 => Line = 1
  BY <1>2, <1>5, <1>8 DEF TxCounting
<1>12. rxu.state = RX_READ_BITS /\ RxLeft = 1 =>
         Line = (sent \div Power(8 - rxu.bits)) % 2
  <2>1. SUFFICES ASSUME rxu.state = RX_READ_BITS, RxLeft = 1
                 PROVE  txu.out = (sent \div Power(8 - rxu.bits)) % 2
    BY <1>2
  <2>2. OnLine = 9 - rxu.bits /\ rxu.bits \in 1 .. 8
    BY <1>8, <2>1 DEF Awaited, RxCounting
  <2>3. txu.state = TX_SENDING /\ OnLine = 8 - txu.bits
    BY <1>5, <2>2 DEF OnLine
  <2>4. 8 - txu.bits # 0 /\ (8 - txu.bits) - 1 = 8 - rxu.bits
    BY <2>2, <2>3
  <2>5. txu.out = (sent \div Power((8 - txu.bits) - 1)) % 2
    BY <2>3, <2>4 DEF UnderWay, TxHolds
  <2>6. QED
    BY <2>4, <2>5
<1>13. QED
  BY <1>2, <1>3, <1>4, <1>5, <1>6, <1>7, <1>9, <1>10, <1>11, <1>12

(* A byte under way stays so, whichever clock has an edge, until the       *)
(* receiving station takes it.                                             *)
LEMMA UnderWayStep ==
  ASSUME TypeOK, TypeOK', TxCounting, RxCounting, UnderWay, Slips < 2 * ClockDivide,
         Both \/ TxAlone \/ RxAlone
  PROVE  TxCounting' /\ RxCounting' /\ (UnderWay \/ Arrived)'
<1> USE DEF RX_IDLE, RX_CHECK_START, RX_READ_BITS, RX_CHECK_STOP, RX_DELAY_RESTART, RX_ERROR,
            RX_RECEIVED, TX_IDLE, TX_SENDING, TX_DELAY_RESTART
<1> DEFINE u == Slips - slips
<1>1. /\ sent \in Byte /\ Line \in {0, 1}
      /\ u \in Int /\ u < 2 * ClockDivide
      /\ Within(OnLine, TxLeft, Awaited, RxLeft, u)
      /\ TxLeft > 1 - 4 * ClockDivide
      /\ OnLine \in 0 .. 9 /\ TxLeft \in Int /\ (OnLine < 9 => TxLeft >= 1)
      /\ Awaited \in 0 .. 9 /\ RxLeft \in Int /\ RxLeft >= 0
      /\ RxLeft >= 1 <=> Receiving
      /\ RxLeft = 0 => Awaited = 9 /\ txu.state = TX_DELAY_RESTART /\ Left(txu) > 1
  BY UnderWayFacts
<1>2. /\ Awaited = 0 => Line = 0
      /\ Awaited = 9 /\ RxLeft = 1 => Line = 1
      /\ rxu.state = RX_READ_BITS /\ RxLeft = 1 =>
           Line = (sent \div Power(8 - rxu.bits)) % 2
  BY UnderWayFacts
<1>3. is_transmitting /\ pull = 0 /\ TxHolds /\ RxHolds
      /\ (~Receiving => rxu.state = RX_RECEIVED)
  BY DEF UnderWay, Receiving
<1>4. sent # NoByte
  BY DEF UnderWay
<1>5. ASSUME TxTick(FALSE, FALSE, 0)
      PROVE  /\ is_transmitting' /\ TxCounting' /\ Advanced(OnLine, TxLeft, OnLine', TxLeft')
             /\ OnLine' \in 0 .. 9 /\ TxLeft' \in Int
             /\ sent' = sent => TxHolds'
  <2>1. is_transmitting' /\ TxCounting' /\ Advanced(OnLine, TxLeft, OnLine', TxLeft')
    BY <1>1, <1>3, <1>5, TxAdvances
  <2>2. OnLine' \in 0 .. 9 /\ TxLeft' \in Int
    BY <1>1, <2>1, UartAssumption DEF Advanced
  <2>3. sent' = sent => TxHolds'
    BY <1>1, <1>3, <1>5, TxHoldsStep
  <2>4. QED
    BY <2>1, <2>2, <2>3
<1>6. ASSUME RxTick(FALSE, Line), Receiving
      PROVE  /\ RxCounting' /\ Advanced(Awaited, RxLeft, Awaited', RxLeft')
             /\ rxu'.state \in {RX_CHECK_START, RX_READ_BITS, RX_CHECK_STOP, RX_RECEIVED}
             /\ Awaited' \in 0 .. 9 /\ RxLeft' \in Int
             /\ sent' = sent => RxHolds'
  <2>1. /\ RxCounting' /\ Advanced(Awaited, RxLeft, Awaited', RxLeft')
        /\ rxu'.state \in {RX_CHECK_START, RX_READ_BITS, RX_CHECK_STOP, RX_RECEIVED}
    BY <1>1, <1>2, <1>6, RxAdvances
  <2>2. Awaited' \in 0 .. 9 /\ RxLeft' \in Int
    BY <1>1, <2>1, UartAssumption DEF Advanced
  <2>3. sent' = sent => RxHolds'
    BY <1>1, <1>2, <1>3, <1>6, RxHoldsStep
  <2>4. QED
    BY <2>1, <2>2, <2>3
<1>7. ASSUME RxTick(FALSE, Line), ~Receiving
      PROVE  rxu'.state = RX_IDLE /\ RxCounting'
  <2>1. rxu.state = RX_RECEIVED
    BY <1>3, <1>7
  <2>2. RxRested
    <3>1. \/ RxHeld \/ RxWoke(Line) \/ RxStarted(Line) \/ RxRead(Line)
          \/ RxStopped(Line) \/ RxRested
      BY <1>1, <1>7, RxEdge
    <3>2. QED
      BY <2>1, <3>1 DEF RxHeld, RxWoke, RxStarted, RxRead, RxStopped
  <2>3. QED
    BY <2>1, <2>2 DEF RxRested, RxCounting
<1>8. InStep' <=> Within(OnLine', TxLeft', Awaited', RxLeft', Slips - slips')
  BY DEF InStep, Drifted, Within
<1>9. Taken = IF Receiving THEN sent ELSE NoByte
  BY <1>3 DEF Taken, received, Receiving
<1>10. CASE Both
  <2>1. TxTick(FALSE, FALSE, 0) /\ RxTick(FALSE, Line) /\ sent' = Taken /\ pull' = 0
        /\ slips' = slips
    <3>1. TxTick(FALSE, FALSE, 0) /\ RxTick(FALSE, Line)
      BY <1>10 DEF Both, UartTick
    <3>2. sent' = Taken /\ pull' = 0 /\ slips' = slips
      BY <1>3, <1>10 DEF Both
    <3>3. QED
      BY <3>1, <3>2
  <2>2. CASE Receiving
    <3>1. sent' = sent /\ RxLeft >= 1
      BY <1>1, <1>9, <2>1, <2>2
    <3>2. Within(OnLine', TxLeft', Awaited', RxLeft', u)
      BY <1>1, <1>5, <1>6, <2>1, <2>2, <3>1, EdgeOfBoth
    <3>3. UnderWay'
      BY <1>4, <1>5, <1>6, <1>8, <2>1, <2>2, <3>1, <3>2 DEF UnderWay
    <3>4. QED
      BY <1>5, <1>6, <2>1, <2>2, <3>3
  <2>3. CASE ~Receiving
    <3>1. txu.state = TX_DELAY_RESTART /\ Left(txu) > 1
      BY <1>1, <2>3
    <3>2. TxHeld
      BY <1>3, <2>1, <3>1, TxEdge DEF TxShifted, TxStopped, TxRestarted
    <3>3. Arrived'
      BY <1>7, <1>9, <2>1, <2>3, <3>1, <3>2 DEF Arrived, TxHeld
    <3>4. QED
      BY <1>5, <1>7, <2>1, <2>3, <3>3
  <2>4. QED
    BY <2>2, <2>3
<1>11. CASE TxAlone
  <2>1. /\ TxTick(FALSE, FALSE, 0) /\ rxu' = rxu /\ sent' = sent /\ pull' = pull
        /\ slips > 0 /\ slips' = slips - 1
    BY <1>11 DEF TxAlone
  <2>2. Awaited' = Awaited /\ RxLeft' = RxLeft
    BY <2>1 DEF Awaited, RxLeft, Left
  <2>3. u + 1 < 2 * ClockDivide /\ Slips - slips' = u + 1
    BY <2>1, UartAssumption, LinkAssumption DEF TypeOK
  <2>4. Within(OnLine', TxLeft', Awaited, RxLeft, u + 1)
    <3>1. RxLeft >= 1 \/ (Awaited = 9 /\ RxLeft >= 0)
      BY <1>1
    <3>2. QED
      BY <1>1, <1>5, <2>1, <2>3, <3>1, EdgeOfTx
  <2>5. InStep'
    BY <1>8, <2>2, <2>3, <2>4
  <2>6. RxCounting' /\ RxHolds'
    BY <1>3, <2>1 DEF RxCounting, RxHolds
  <2>7. UnderWay'
    BY <1>4, <1>5, <2>1, <2>5, <2>6 DEF UnderWay
  <2>8. QED
    BY <1>5, <2>1, <2>6, <2>7
<1>12. CASE RxAlone
  <2>1. /\ RxTick(FALSE, Line) /\ txu' = txu /\ sent' = Taken /\ pull' = pull
        /\ slips > 0 /\ slips' = slips - 1
    BY <1>12 DEF RxAlone
  <2>2. OnLine' = OnLine /\ TxLeft' = TxLeft /\ TxCounting' /\ is_transmitting'
    BY <1>3, <2>1 DEF OnLine, TxLeft, Left, TxCounting, is_transmitting
  <2>3. u + 1 < 2 * ClockDivide /\ Slips - slips' = u + 1
    BY <2>1, UartAssumption, LinkAssumption DEF TypeOK
  <2>4. CASE Receiving
    <3>1. sent' = sent /\ RxLeft >= 1
      BY <1>1, <1>9, <2>1, <2>4
    <3>2. Within(OnLine, TxLeft, Awaited', RxLeft', u + 1)
      BY <1>1, <1>6, <2>1, <2>3, <2>4, <3>1, EdgeOfRx
    <3>3. InStep'
      BY <1>8, <2>2, <2>3, <3>2
    <3>4. TxHolds'
      BY <1>3, <2>1, <3>1 DEF TxHolds
    <3>5. UnderWay'
      BY <1>3, <1>4, <1>6, <2>1, <2>2, <2>4, <3>1, <3>3, <3>4 DEF UnderWay
    <3>6. QED
      BY <1>6, <2>1, <2>2, <2>4, <3>5
  <2>5. CASE ~Receiving
    <3>1. Arrived'
      BY <1>1, <1>3, <1>7, <1>9, <2>1, <2>5 DEF Arrived
    <3>2. QED
      BY <1>7, <2>1, <2>2, <2>5, <3>1
  <2>6. QED
    BY <2>4, <2>5
<1>13. QED
  BY <1>10, <1>11, <1>12

(* An idle machine takes the alternative of its idle state.                *)
LEMMA IdleTick ==
  ASSUME NEW transmit \in BOOLEAN, NEW b, NEW line
  PROVE  /\ txu.state = TX_IDLE /\ TxTick(FALSE, transmit, b) => TxIdle(FALSE, transmit, b)
         /\ rxu.state = RX_IDLE /\ RxTick(FALSE, line) => RxIdle(FALSE, line)
<1> USE DEF TX_IDLE, TX_SENDING, TX_DELAY_RESTART, RX_IDLE, RX_CHECK_START, RX_READ_BITS,
            RX_CHECK_STOP, RX_DELAY_RESTART, RX_ERROR, RX_RECEIVED
<1>1. txu.state = TX_IDLE => ~(TxShift(FALSE) \/ TxStop(FALSE) \/ TxRestart(FALSE) \/ TxHold(FALSE))
  BY DEF TxShift, TxStop, TxRestart, TxHold, From
<1>2. rxu.state = RX_IDLE =>
        /\ ~(RxStart(FALSE, line) \/ RxBit(FALSE, line) \/ RxStop(FALSE, line))
        /\ ~(RxError(FALSE) \/ RxRestart(FALSE) \/ RxReceived(FALSE) \/ RxHold(FALSE))
  BY DEF RxStart, RxBit, RxStop, RxError, RxRestart, RxReceived, RxHold, From
<1>3. QED
  BY <1>1, <1>2 DEF TxTick, RxTick

(* Nothing reaches the receiver while the stop bits go on.                 *)
LEMMA ArrivedStep ==
  ASSUME TypeOK, TxCounting, RxCounting, Arrived, Both \/ TxAlone \/ RxAlone
  PROVE  TxCounting' /\ RxCounting' /\ (Arrived \/ NoFrame)'
<1> USE DEF RX_IDLE, RX_CHECK_START, RX_READ_BITS, RX_CHECK_STOP, RX_DELAY_RESTART, RX_ERROR,
            RX_RECEIVED, TX_IDLE, TX_SENDING, TX_DELAY_RESTART
<1>1. /\ sent = NoByte /\ txu.state = TX_DELAY_RESTART /\ pull = 0 /\ rxu.state = RX_IDLE
      /\ is_transmitting /\ txu.out = 1 /\ Line = 1 /\ Taken = NoByte
  BY DEF Arrived, is_transmitting, TxCounting, Line, Taken
<1>2. ASSUME TxTick(FALSE, FALSE, 0)
      PROVE  TxCounting' /\ txu'.state \in {TX_DELAY_RESTART, TX_IDLE}
  <2>1. TxHeld \/ TxRestarted
    BY <1>1, <1>2, TxEdge DEF TxShifted, TxStopped
  <2>2. txu.countdown \in 1 .. 8
    BY <1>1 DEF TxCounting
  <2>3. CASE TxHeld
    BY <1>1, <2>2, <2>3 DEF TxHeld, TxCounting
  <2>4. CASE TxRestarted
    BY <1>1, <2>4 DEF TxRestarted, TxCounting
  <2>5. QED
    BY <2>1, <2>3, <2>4
<1>3. ASSUME RxTick(FALSE, Line)
      PROVE  RxCounting' /\ rxu'.state = RX_IDLE
  <2>1. \/ RxHeld \/ RxWoke(1) \/ RxStarted(1) \/ RxRead(1)
        \/ RxStopped(1) \/ RxRested
    BY <1>1, <1>3, RxEdge
  <2>2. rxu'.state = RX_IDLE
    BY <1>1, <2>1 DEF RxHeld, RxWoke, RxStarted, RxRead, RxStopped, RxRested
  <2>3. QED
    BY <2>2 DEF RxCounting
<1>4. CASE Both
  <2>1. TxTick(FALSE, FALSE, 0) /\ RxTick(FALSE, Line)
    BY <1>4 DEF Both, UartTick
  <2>2. sent' = NoByte /\ pull' = 0
    BY <1>1, <1>4 DEF Both
  <2>3. QED
    BY <1>2, <1>3, <2>1, <2>2 DEF Arrived, NoFrame, is_transmitting
<1>5. CASE TxAlone
  <2>1. TxTick(FALSE, FALSE, 0) /\ rxu' = rxu /\ sent' = sent /\ pull' = pull
    BY <1>5 DEF TxAlone
  <2>2. RxCounting'
    BY <2>1 DEF RxCounting
  <2>3. QED
    BY <1>1, <1>2, <2>1, <2>2 DEF Arrived, NoFrame, is_transmitting
<1>6. CASE RxAlone
  <2>1. RxTick(FALSE, Line) /\ txu' = txu /\ sent' = NoByte /\ pull' = pull
    BY <1>1, <1>6 DEF RxAlone
  <2>2. TxCounting'
    BY <2>1 DEF TxCounting
  <2>3. QED
    BY <1>1, <1>3, <2>1, <2>2 DEF Arrived
<1>7. QED
  BY <1>4, <1>5, <1>6

(* Noise shorter than half a bit wakes the receiver but does not pass its  *)
(* check of the start bit.                                                 *)
LEMMA NoFrameStep ==
  ASSUME TypeOK, TxCounting, RxCounting, NoFrame, GlitchEdges <= 2 * ClockDivide,
         Both \/ TxAlone \/ RxAlone \/ Glitch
  PROVE  TxCounting' /\ RxCounting' /\ NoFrame'
<1> USE DEF RX_IDLE, RX_CHECK_START, RX_READ_BITS, RX_CHECK_STOP, RX_DELAY_RESTART, RX_ERROR,
            RX_RECEIVED, TX_IDLE, TX_SENDING, TX_DELAY_RESTART
<1>1. /\ sent = NoByte /\ ~is_transmitting /\ txu.state = TX_IDLE /\ txu.out = 1
      /\ rxu.state \in {RX_IDLE, RX_CHECK_START, RX_ERROR, RX_DELAY_RESTART}
      /\ Taken = NoByte /\ Line = IF pull > 0 THEN 0 ELSE 1
      /\ Line \in {0, 1}
  BY DEF NoFrame, is_transmitting, TxCounting, Line, Taken
<1>2. /\ rxu.state # RX_IDLE \/ pull > 0 => noise < Glitches
      /\ rxu.state = RX_CHECK_START => pull < Left(rxu)
      /\ rxu.state \in {RX_ERROR, RX_DELAY_RESTART} => pull = 0
  BY DEF NoFrame
<1>3. /\ pull \in 0 .. GlitchEdges /\ noise \in 0 .. Glitches /\ GlitchEdges \in Nat
      /\ Glitches \in Nat /\ ClockDivide \in Int /\ ClockDivide >= 1
      /\ GlitchEdges <= 2 * ClockDivide
  BY LinkAssumption, UartAssumption DEF TypeOK
<1>4. rxu.state = RX_CHECK_START => rxu.countdown \in 1 .. 2 /\ Left(rxu) \in Int
  <2>1. rxu.clk_divider \in 1 .. ClockDivide
    BY DEF TypeOK, RxType
  <2>2. rxu.state = RX_CHECK_START => rxu.countdown \in 1 .. 2
    BY DEF RxCounting
  <2>3. rxu.state = RX_CHECK_START => rxu.countdown \in 1 .. 8
    BY <2>2
  <2>4. QED
    BY <2>1, <2>2, <2>3, CountStep
<1>5. CASE Both
  <2>1. TxTick(FALSE, FALSE, 0) /\ RxTick(FALSE, Line)
    BY <1>5 DEF Both, UartTick
  <2>2. /\ sent' = NoByte /\ noise' = noise
        /\ pull' = IF pull > 0 THEN pull - 1 ELSE 0
    BY <1>1, <1>5 DEF Both
  <2>3. txu'.state = TX_IDLE /\ txu'.out = 1
    <3>1. TxIdle(FALSE, FALSE, 0)
      BY <1>1, <2>1, IdleTick
    <3>2. txu' = [txu EXCEPT !.state = TX_IDLE] /\ txu \in TxType
      BY <3>1 DEF TxIdle, TypeOK
    <3>3. QED
      BY <1>1, <3>2 DEF TxType
  <2>4. \/ RxHeld \/ RxWoke(Line) \/ RxStarted(Line) \/ RxRead(Line)
        \/ RxStopped(Line) \/ RxRested
    BY <1>1, <2>1, RxEdge
  <2>5. TxCounting' /\ ~is_transmitting'
    BY <2>3 DEF TxCounting, is_transmitting
  <2>6. CASE RxHeld
    <3>1. rxu.state \in {RX_CHECK_START, RX_DELAY_RESTART} /\ rxu'.state = rxu.state
      BY <1>1, <2>6 DEF RxHeld
    <3>2. RxCounting'
      BY <2>6, <3>1 DEF RxHeld, RxCounting
    <3>3. rxu.state = RX_CHECK_START => pull' < Left(rxu)'
      BY <1>2, <1>3, <1>4, <2>2, <2>6 DEF RxHeld
    <3>4. NoFrame'
      BY <1>2, <2>2, <2>5, <3>1, <3>3 DEF NoFrame
    <3>5. QED
      BY <2>5, <3>2, <3>4
  <2>7. CASE RxWoke(Line)
    <3>1. CASE pull > 0
      <4>1. rxu'.state = RX_CHECK_START /\ rxu'.countdown = 2 /\ Left(rxu)' = 2 * ClockDivide
        BY <1>1, <2>7, <3>1 DEF RxWoke
      <4>2. pull' < Left(rxu)' /\ noise' < Glitches
        BY <1>2, <1>3, <2>2, <3>1, <4>1
      <4>3. RxCounting' /\ NoFrame'
        BY <2>2, <2>5, <4>1, <4>2 DEF RxCounting, NoFrame
      <4>4. QED
        BY <2>5, <4>3
    <3>2. CASE ~(pull > 0)
      <4>1. rxu'.state = RX_IDLE /\ pull' = 0
        BY <1>1, <2>2, <2>7, <3>2 DEF RxWoke
      <4>2. RxCounting' /\ NoFrame'
        BY <2>2, <2>5, <4>1 DEF RxCounting, NoFrame
      <4>3. QED
        BY <2>5, <4>2
    <3>3. QED
      BY <3>1, <3>2
  <2>8. CASE RxStarted(Line)
    <3>1. pull = 0
      BY <1>2, <1>3, <2>8 DEF RxStarted
    <3>2. rxu'.state = RX_ERROR /\ pull' = 0 /\ noise' < Glitches
      BY <1>1, <1>2, <2>2, <2>8, <3>1 DEF RxStarted
    <3>3. RxCounting' /\ NoFrame'
      BY <2>2, <2>5, <3>2 DEF RxCounting, NoFrame
    <3>4. QED
      BY <2>5, <3>3
  <2>9. CASE RxRead(Line) \/ RxStopped(Line)
    BY <1>1, <2>9 DEF RxRead, RxStopped
  <2>10. CASE RxRested
    <3>1. /\ pull' = 0 /\ noise' < Glitches
          /\ \/ rxu'.state = RX_DELAY_RESTART /\ rxu'.countdown = 8
             \/ rxu'.state = RX_IDLE
      BY <1>1, <1>2, <2>2, <2>10 DEF RxRested
    <3>2. RxCounting' /\ NoFrame'
      BY <2>2, <2>5, <3>1 DEF RxCounting, NoFrame
    <3>3. QED
      BY <2>5, <3>2
  <2>11. QED
    BY <2>4, <2>6, <2>7, <2>8, <2>9, <2>10
<1>6. CASE TxAlone \/ RxAlone
  BY <1>1, <1>6 DEF TxAlone, RxAlone
<1>7. CASE Glitch
  <2>1. /\ txu' = txu /\ rxu' = rxu /\ sent' = sent /\ noise' = noise - 1
        /\ noise > 0 /\ rxu.state = RX_IDLE
    BY <1>7 DEF Glitch, Quiet, uartVars
  <2>2. noise' < Glitches
    BY <1>3, <2>1
  <2>3. TxCounting' /\ RxCounting' /\ ~is_transmitting'
    BY <1>1, <2>1 DEF TxCounting, RxCounting, is_transmitting
  <2>4. NoFrame'
    BY <1>1, <2>1, <2>2, <2>3 DEF NoFrame
  <2>5. QED
    BY <2>3, <2>4
<1>8. QED
  BY <1>5, <1>6, <1>7

(* A byte sent on a quiet line starts its frame with the machines together. *)
LEMMA SendStep ==
  ASSUME TypeOK, TxCounting, RxCounting, NoFrame, Send
  PROVE  TxCounting' /\ RxCounting' /\ UnderWay'
<1> USE DEF RX_IDLE, RX_CHECK_START, RX_READ_BITS, RX_CHECK_STOP, RX_DELAY_RESTART, RX_ERROR,
            RX_RECEIVED, TX_IDLE, TX_SENDING, TX_DELAY_RESTART
<1>1. PICK b \in Bytes : UartTick(FALSE, Line, TRUE, b) /\ sent' = b
  BY DEF Send
<1>2. /\ txu.state = TX_IDLE /\ pull = 0 /\ rxu.state = RX_IDLE /\ Line = 1
      /\ pull' = pull /\ slips' = Slips
  BY DEF Send, CanSend, is_transmitting, Line, TxCounting
<1>3. b \in 0 .. 255 /\ b # NoByte
  BY LinkAssumption DEF Byte, NoByte
<1>4. txu' = [clk_divider |-> ClockDivide, countdown |-> 4, bits |-> 8,
              data |-> b, out |-> 0, state |-> TX_SENDING]
  <2>1. TxIdle(FALSE, TRUE, b)
    BY <1>1, <1>2, IdleTick DEF UartTick
  <2>2. QED
    BY <2>1 DEF TxIdle
<1>5. rxu'.state = RX_IDLE
  <2>1. RxIdle(FALSE, Line)
    BY <1>1, <1>2, IdleTick DEF UartTick
  <2>2. rxu' = [rxu EXCEPT !.state = RX_IDLE] /\ rxu \in RxType
    BY <1>2, <2>1 DEF RxIdle, TypeOK
  <2>3. QED
    BY <2>2 DEF RxType
<1>6. TxCounting' /\ RxCounting' /\ is_transmitting'
  BY <1>4, <1>5 DEF TxCounting, RxCounting, is_transmitting
<1>7. InStep'
  <2>1. OnLine' = 0 /\ Awaited' = 0 /\ RxLeft' = 2 * ClockDivide + 1
    BY <1>4, <1>5 DEF OnLine, Awaited, RxLeft
  <2>2. TxLeft' = 4 * ClockDivide
    <3>1. TxLeft' = (4 - 1) * ClockDivide + ClockDivide
      BY <1>4 DEF TxLeft, Left
    <3>2. QED
      BY <3>1, UartAssumption
  <2>3. InStep' <=> \/ Awaited' = OnLine' /\ 2 * ClockDivide - 1 + RxLeft' - TxLeft' <= Slips - slips'
                       /\ -(2 * ClockDivide - 1 + RxLeft' - TxLeft') <= Slips - slips'
                    \/ Awaited' = OnLine' + 1 /\ Drifted(RxLeft - TxLeft - 1 - 2 * ClockDivide)'
    BY DEF InStep, Drifted
  <2>4. QED
    BY <1>2, <2>1, <2>2, <2>3, UartAssumption, LinkAssumption
<1>8. TxHolds' /\ RxHolds'
  <2>1. b \div Power(0) = b
    BY <1>3 DEF Power
  <2>2. QED
    BY <1>1, <1>4, <1>5, <2>1 DEF TxHolds, RxHolds
<1>9. QED
  BY <1>1, <1>2, <1>3, <1>5, <1>6, <1>7, <1>8 DEF UnderWay

(* A step keeps the place of the two machines in the frame.                *)
LEMMA LinkStep ==
  ASSUME TypeOK, TypeOK', LinkInv, [Next]_vars,
         Slips < 2 * ClockDivide, GlitchEdges <= 2 * ClockDivide
  PROVE  LinkInv'
<1> USE DEF RX_IDLE, TX_IDLE, TX_SENDING, TX_DELAY_RESTART
<1>1. TxCounting /\ RxCounting /\ (UnderWay \/ Arrived \/ NoFrame)
  BY DEF LinkInv
<1>2. CASE UNCHANGED vars
  <2>1. UNCHANGED <<txu, rxu, sent, slips, noise, pull>>
    BY <1>2 DEF vars, uartVars
  <2>2. UNCHANGED <<Left(rxu), OnLine, TxLeft, Awaited, RxLeft>>
    BY <2>1 DEF Left, OnLine, TxLeft, Awaited, RxLeft
  <2>3. TxCounting' /\ RxCounting'
    BY <1>1, <2>1 DEF TxCounting, RxCounting
  <2>4. CASE UnderWay
    <3>1. InStep' /\ TxHolds' /\ RxHolds'
      BY <2>1, <2>2, <2>4 DEF UnderWay, InStep, Drifted, TxHolds, RxHolds
    <3>2. UnderWay'
      BY <2>1, <2>4, <3>1 DEF UnderWay, is_transmitting
    <3>3. QED
      BY <2>3, <3>2 DEF LinkInv
  <2>5. CASE Arrived \/ NoFrame
    <3>1. (Arrived \/ NoFrame)'
      BY <2>1, <2>2, <2>5 DEF Arrived, NoFrame, is_transmitting
    <3>2. QED
      BY <2>3, <3>1 DEF LinkInv
  <2>6. QED
    BY <1>1, <2>4, <2>5
<1>3. CASE UnderWay
  <2>1. ~CanSend /\ ~Quiet
    BY <1>3 DEF UnderWay, CanSend, Quiet
  <2>2. CASE Both \/ TxAlone \/ RxAlone
    BY <1>1, <1>3, <2>2, UnderWayStep DEF LinkInv
  <2>3. QED
    BY <1>2, <2>1, <2>2 DEF Next, Send, Glitch
<1>4. CASE Arrived
  <2>1. ~CanSend /\ ~Quiet
    BY <1>4 DEF Arrived, CanSend, Quiet, is_transmitting
  <2>2. CASE Both \/ TxAlone \/ RxAlone
    BY <1>1, <1>4, <2>2, ArrivedStep DEF LinkInv
  <2>3. QED
    BY <1>2, <2>1, <2>2 DEF Next, Send, Glitch
<1>5. CASE NoFrame
  <2>1. CASE Both \/ TxAlone \/ RxAlone \/ Glitch
    BY <1>1, <1>5, <2>1, NoFrameStep DEF LinkInv
  <2>2. CASE Send
    BY <1>1, <1>5, <2>2, SendStep DEF LinkInv
  <2>3. QED
    BY <1>2, <2>1, <2>2 DEF Next
<1>6. QED
  BY <1>1, <1>3, <1>4, <1>5

(* Where the two machines are in a frame and what has crossed the line, as *)
(* long as the clocks drift by less than half a bit in a frame and noise   *)
(* is shorter than half a bit.                                             *)
THEOREM LinkInvariant ==
  ASSUME Slips < 2 * ClockDivide, GlitchEdges <= 2 * ClockDivide
  PROVE  Spec => []LinkInv
<1>1. Init => LinkInv
  BY DEF Init, UartInit, LinkInv, TxCounting, RxCounting, NoFrame, is_transmitting,
         RX_IDLE, RX_CHECK_START, RX_READ_BITS, RX_CHECK_STOP, RX_DELAY_RESTART, RX_ERROR,
         RX_RECEIVED, TX_IDLE, TX_SENDING, TX_DELAY_RESTART
<1>2. TypeOK /\ TypeOK' /\ LinkInv /\ [Next]_vars => LinkInv'
  BY LinkStep
<1>3. QED
  BY <1>1, <1>2, LinkTypeCorrect, PTL DEF Spec

(* A byte that is announced is the one that was sent.                      *)
THEOREM LinkDeliversTheByte ==
  ASSUME Slips < 2 * ClockDivide, GlitchEdges <= 2 * ClockDivide
  PROVE  Spec => []ReceivesWhatWasSent
<1>1. LinkInv => ReceivesWhatWasSent
  BY DEF LinkInv, UnderWay, Arrived, NoFrame, ReceivesWhatWasSent, received, RxHolds,
         RX_IDLE, RX_CHECK_START, RX_READ_BITS, RX_CHECK_STOP, RX_DELAY_RESTART, RX_ERROR,
         RX_RECEIVED
<1>2. QED
  BY <1>1, LinkInvariant, PTL

(* When the transmitter is free again, the last byte has been taken.       *)
THEOREM LinkDeliversInTime ==
  ASSUME Slips < 2 * ClockDivide, GlitchEdges <= 2 * ClockDivide
  PROVE  Spec => []DeliveredBeforeNext
<1>1. LinkInv => DeliveredBeforeNext
  BY DEF LinkInv, UnderWay, Arrived, NoFrame, DeliveredBeforeNext
<1>2. QED
  BY <1>1, LinkInvariant, PTL

(* Only noise makes the receiver signal an error.                          *)
THEOREM LinkErrorsComeFromNoise ==
  ASSUME Slips < 2 * ClockDivide, GlitchEdges <= 2 * ClockDivide
  PROVE  Spec => []ErrorsComeFromNoise
<1>1. LinkInv => ErrorsComeFromNoise
  BY DEF LinkInv, UnderWay, Arrived, NoFrame, ErrorsComeFromNoise, recv_error,
         RX_IDLE, RX_CHECK_START, RX_READ_BITS, RX_CHECK_STOP, RX_DELAY_RESTART, RX_ERROR,
         RX_RECEIVED
<1>2. QED
  BY <1>1, LinkInvariant, PTL
-----------------------------------------------------------------------------
(* What a module that holds two of these lines needs to know of either.    *)

(* What a transmitter is given to send matters only when it begins.        *)
LEMMA NothingBegins ==
  ASSUME NEW transmit \in BOOLEAN, NEW b, TxTick(FALSE, transmit, b), is_transmitting \/ ~transmit
  PROVE  TxTick(FALSE, FALSE, 0)
<1>1. CASE TxIdle(FALSE, transmit, b)
  <2>1. ~transmit
    BY <1>1 DEF TxIdle, From, is_transmitting
  <2>2. TxIdle(FALSE, FALSE, 0)
    BY <1>1, <2>1 DEF TxIdle
  <2>3. QED
    BY <2>2 DEF TxTick
<1>2. CASE ~TxIdle(FALSE, transmit, b)
  BY <1>2 DEF TxTick
<1>3. QED
  BY <1>1, <1>2

(* A frame is 44 quarters of a bit long.                                   *)
LEMMA BusyFromSend ==
  ASSUME ~is_transmitting, NEW b, TxTick(FALSE, TRUE, b)
  PROVE  txu'.state = TX_SENDING /\ BusyFor' = 44 * ClockDivide
<1>1. TxIdle(FALSE, TRUE, b)
  BY IdleTick DEF is_transmitting
<1>2. txu' = [clk_divider |-> ClockDivide, countdown |-> 4, bits |-> 8,
              data |-> b, out |-> 0, state |-> TX_SENDING]
  BY <1>1 DEF TxIdle
<1>3. BusyFor' = (4 - 1) * ClockDivide + ClockDivide + (4 * 8 + 8) * ClockDivide
  BY <1>2 DEF BusyFor, Left, is_transmitting, TX_SENDING, TX_IDLE
<1>4. QED
  BY <1>2, <1>3, UartAssumption

(* The transmitter is busy while there are edges to the end of the frame.  *)
LEMMA BusyRange ==
  ASSUME TypeOK, TxCounting
  PROVE  BusyFor \in Nat /\ (is_transmitting <=> BusyFor > 0)
<1>1. CASE ~is_transmitting
  BY <1>1 DEF BusyFor
<1>2. CASE is_transmitting
  <2>1. /\ txu.clk_divider \in 1 .. ClockDivide /\ txu.countdown \in 1 .. 8
        /\ txu.bits \in 0 .. 8 /\ ClockDivide \in Int /\ ClockDivide >= 1
    BY <1>2, UartAssumption DEF TypeOK, TxType, TxCounting, is_transmitting, TX_IDLE, TX_SENDING,
                                TX_DELAY_RESTART
  <2>2. Left(txu) \in Int /\ Left(txu) >= 1
    BY <2>1, CountStep
  <2>3. (4 * txu.bits + 8) * ClockDivide \in Nat
    BY <2>1
  <2>4. QED
    BY <1>2, <2>2, <2>3 DEF BusyFor
<1>3. QED
  BY <1>1, <1>2

(* Every edge brings the end of the frame one edge nearer.                 *)
LEMMA BusyStep ==
  ASSUME TypeOK, TxCounting, TxTick(FALSE, FALSE, 0)
  PROVE  /\ BusyFor' = IF is_transmitting THEN BusyFor - 1 ELSE 0
         /\ txu'.state = TX_SENDING => txu.state = TX_SENDING
         /\ is_transmitting' => is_transmitting
<1> USE DEF TX_IDLE, TX_SENDING, TX_DELAY_RESTART
<1>1. CASE ~is_transmitting
  <2>1. TxIdle(FALSE, FALSE, 0)
    BY <1>1, IdleTick DEF is_transmitting
  <2>2. txu'.state = TX_IDLE
    BY <2>1 DEF TxIdle, TypeOK, TxType
  <2>3. QED
    BY <1>1, <2>2 DEF BusyFor, is_transmitting
<1>2. CASE is_transmitting
  <2>1. /\ txu.clk_divider \in 1 .. ClockDivide /\ txu.countdown \in 1 .. 8
        /\ txu.state \in {TX_SENDING, TX_DELAY_RESTART} /\ txu.bits \in 0 .. 8
        /\ ClockDivide \in Int /\ ClockDivide >= 1
    BY <1>2, UartAssumption DEF TypeOK, TxType, TxCounting, is_transmitting
  <2>2. Left(txu) \in Int /\ Left(txu) >= 1
    BY <2>1, CountStep
  <2>3. (4 * txu.bits + 8) * ClockDivide \in Nat
    BY <2>1
  <2>4. BusyFor = Left(txu) + IF txu.state = TX_SENDING THEN (4 * txu.bits + 8) * ClockDivide ELSE 0
    BY <1>2 DEF BusyFor
  <2>5. BusyFor' = IF txu'.state = TX_IDLE THEN 0
                   ELSE Left(txu)' + IF txu'.state = TX_SENDING
                                     THEN (4 * txu'.bits + 8) * ClockDivide ELSE 0
    BY DEF BusyFor, is_transmitting
  <2>6. BusyFor' = BusyFor - 1 /\ (txu'.state = TX_SENDING => txu.state = TX_SENDING)
    <3>1. CASE TxHeld
      <4>1. Left(txu)' = Left(txu) - 1 /\ txu'.state = txu.state /\ txu'.bits = txu.bits
        BY <3>1 DEF TxHeld
      <4>2. QED
        BY <2>1, <2>2, <2>3, <2>4, <2>5, <4>1
    <3>2. CASE TxShifted
      <4>1. /\ Left(txu) = 1 /\ Left(txu)' = 4 * ClockDivide /\ txu.state = TX_SENDING
            /\ txu'.state = TX_SENDING /\ txu'.bits = txu.bits - 1
        BY <3>2 DEF TxShifted
      <4>2. (4 * (txu.bits - 1) + 8) * ClockDivide + 4 * ClockDivide = (4 * txu.bits + 8) * ClockDivide
        BY <2>1
      <4>3. (4 * (txu.bits - 1) + 8) * ClockDivide \in Int
        BY <2>1
      <4>4. BusyFor' = 4 * ClockDivide + (4 * (txu.bits - 1) + 8) * ClockDivide
        BY <2>5, <4>1
      <4>5. QED
        BY <2>1, <2>3, <2>4, <4>1, <4>2, <4>3, <4>4
    <3>3. CASE TxStopped
      <4>1. /\ Left(txu) = 1 /\ Left(txu)' = 8 * ClockDivide /\ txu.state = TX_SENDING
            /\ txu'.state = TX_DELAY_RESTART /\ txu.bits = 0
        BY <3>3 DEF TxStopped
      <4>2. BusyFor = 1 + 8 * ClockDivide
        BY <2>1, <2>4, <4>1
      <4>3. BusyFor' = 8 * ClockDivide
        BY <2>1, <2>5, <4>1
      <4>4. QED
        BY <2>1, <4>1, <4>2, <4>3
    <3>4. CASE TxRestarted
      <4>1. Left(txu) = 1 /\ txu.state = TX_DELAY_RESTART /\ txu'.state = TX_IDLE
        BY <3>4 DEF TxRestarted
      <4>2. QED
        BY <2>4, <2>5, <4>1
    <3>5. QED
      BY <1>2, <3>1, <3>2, <3>3, <3>4, TxEdge
  <2>7. QED
    BY <1>2, <2>1, <2>2, <2>3, <2>4, <2>6
<1>3. QED
  BY <1>1, <1>2

Flying == txu.state = TX_SENDING \/ rxu.state # RX_IDLE

(* Without noise, a byte is under way while the transmitter sends or the   *)
(* receiver is not idle; equal clocks fix how long the frame goes on when  *)
(* the byte has come.                                                      *)
LEMMA FlightTime ==
  ASSUME TypeOK, LinkInv, Slips = 0, Glitches = 0
  PROVE  /\ Flying <=> UnderWay
         /\ ~is_transmitting => rxu.state = RX_IDLE
         /\ Flying => is_transmitting /\ BusyFor >= 6 * ClockDivide - 1
         /\ received => Flying /\ rxu.data = sent /\ BusyFor = 6 * ClockDivide - 1
<1> USE DEF RX_IDLE, RX_CHECK_START, RX_READ_BITS, RX_CHECK_STOP, RX_DELAY_RESTART, RX_ERROR,
            RX_RECEIVED, TX_IDLE, TX_SENDING, TX_DELAY_RESTART
<1>1. TxCounting /\ RxCounting /\ ClockDivide \in Int /\ ClockDivide >= 1
      /\ Slips < 2 * ClockDivide /\ slips = 0 /\ noise = 0
  BY UartAssumption DEF LinkInv, TypeOK
<1>2. CASE UnderWay
  <2>1. /\ is_transmitting /\ Slips - slips = 0
        /\ Within(OnLine, TxLeft, Awaited, RxLeft, 0)
        /\ Awaited \in 0 .. 9 /\ RxLeft \in Int /\ RxLeft >= 0
        /\ RxLeft = 0 => Awaited = 9 /\ txu.state = TX_DELAY_RESTART
        /\ Awaited = 0 => Line = 0 /\ Line = txu.out
    <3>1. Slips - slips = 0
      BY <1>1
    <3>2. QED
      BY <1>1, <1>2, <3>1, UnderWayFacts DEF UnderWay
  <2>2. /\ OnLine \in 0 .. 9 /\ TxLeft \in Int
        /\ OnLine < 9 <=> txu.state = TX_SENDING
        /\ OnLine = 9 <=> txu.state = TX_DELAY_RESTART
        /\ OnLine < 9 => TxLeft >= 1 /\ TxLeft = Left(txu)
        /\ OnLine = 9 => TxLeft = Left(txu) - 4 * ClockDivide
        /\ Left(txu) \in Int
    BY <1>1, <2>1, TxPlace
  <2>3. Flying
    <3>1. rxu.state = RX_IDLE => Awaited = 0
      BY DEF Awaited
    <3>2. rxu.state = RX_IDLE => txu.state = TX_SENDING
      BY <1>1, <2>1, <3>1 DEF TxCounting
    <3>3. QED
      BY <3>2 DEF Flying
  <2>4. CASE txu.state = TX_SENDING
    <3>1. BusyFor = Left(txu) + (4 * txu.bits + 8) * ClockDivide /\ txu.bits \in 0 .. 8
      BY <2>1, <2>4 DEF BusyFor, TypeOK, TxType
    <3>2. (4 * txu.bits + 8) * ClockDivide >= 8 * ClockDivide
          /\ (4 * txu.bits + 8) * ClockDivide \in Int
      BY <1>1, <3>1
    <3>3. BusyFor >= 6 * ClockDivide - 1
      BY <1>1, <2>2, <2>4, <3>1, <3>2
    <3>4. RxLeft # 0
      BY <2>1, <2>4
    <3>5. ~received
      BY <3>4 DEF RxLeft, received
    <3>6. QED
      BY <1>2, <2>1, <2>3, <3>3, <3>5
  <2>5. CASE txu.state # TX_SENDING
    <3>1. OnLine = 9 /\ TxLeft = Left(txu) - 4 * ClockDivide /\ BusyFor = Left(txu)
      BY <2>1, <2>2, <2>5 DEF BusyFor
    <3>2. 2 * ClockDivide - 1 + RxLeft - TxLeft = 0
      BY <1>1, <2>1, <2>2, <3>1 DEF Within
    <3>3. BusyFor = 6 * ClockDivide - 1 + RxLeft
      BY <1>1, <2>1, <2>2, <3>1, <3>2
    <3>4. received => RxLeft = 0 /\ rxu.data = sent
      BY <1>2 DEF received, RxLeft, UnderWay, RxHolds
    <3>5. QED
      BY <1>1, <1>2, <2>1, <2>3, <3>3, <3>4
  <2>6. QED
    BY <2>4, <2>5
<1>3. CASE ~UnderWay
  <2>1. rxu.state = RX_IDLE /\ txu.state # TX_SENDING
    BY <1>1, <1>3 DEF LinkInv, Arrived, NoFrame, is_transmitting
  <2>2. QED
    BY <1>3, <2>1 DEF Flying, received
<1>4. QED
  BY <1>2, <1>3

(* Without noise, a flight goes on until the byte is taken, and none       *)
(* begins by itself.                                                       *)
LEMMA FlightGoesOn ==
  ASSUME TypeOK, LinkInv, Slips = 0, Glitches = 0,
         TxTick(FALSE, FALSE, 0), RxTick(FALSE, Line)
  PROVE  Flying' <=> Flying /\ ~received
<1> USE DEF RX_IDLE, RX_CHECK_START, RX_READ_BITS, RX_CHECK_STOP, RX_DELAY_RESTART, RX_ERROR,
            RX_RECEIVED, TX_IDLE, TX_SENDING, TX_DELAY_RESTART
<1>1. TxCounting /\ RxCounting /\ Slips < 2 * ClockDivide /\ Line \in {0, 1}
  BY UartAssumption, LineIsBit DEF LinkInv, TypeOK
<1>2. txu'.state = TX_SENDING => txu.state = TX_SENDING
  BY <1>1, BusyStep
<1>3. CASE Flying /\ ~received
  <2>1. UnderWay
    BY <1>3, FlightTime
  <2>2. Receiving
    BY <1>3, <2>1 DEF UnderWay, Receiving, received
  <2>3. Awaited = 0 => Line = 0
    BY <1>1, <2>1, UnderWayFacts
  <2>4. Awaited = 9 /\ RxLeft = 1 => Line = 1
    BY <1>1, <2>1, UnderWayFacts
  <2>5. rxu'.state \in {RX_CHECK_START, RX_READ_BITS, RX_CHECK_STOP, RX_RECEIVED}
    BY <1>1, <2>2, <2>3, <2>4, RxAdvances
  <2>6. QED
    BY <1>3, <2>5 DEF Flying
<1>4. CASE received
  <2>1. UnderWay
    BY <1>4, FlightTime
  <2>2. txu.state = TX_DELAY_RESTART
    <3>1. RxLeft = 0
      BY <1>4 DEF received, RxLeft
    <3>2. QED
      BY <1>1, <2>1, <3>1, UnderWayFacts
  <2>3. rxu'.state = RX_IDLE
    <3>1. \/ RxHeld \/ RxWoke(Line) \/ RxStarted(Line) \/ RxRead(Line)
          \/ RxStopped(Line) \/ RxRested
      BY <1>1, RxEdge
    <3>2. QED
      BY <1>4, <3>1 DEF received, RxHeld, RxWoke, RxStarted, RxRead, RxStopped, RxRested
  <2>4. QED
    BY <1>2, <1>4, <2>2, <2>3 DEF Flying
<1>5. CASE ~Flying
  <2>1. rxu.state = RX_IDLE /\ txu.state # TX_SENDING /\ ~UnderWay
    BY <1>5, FlightTime DEF Flying
  <2>2. Line # 0
    BY <1>1, <2>1 DEF LinkInv, Arrived, NoFrame, Line, TxCounting, TypeOK
  <2>3. rxu'.state = RX_IDLE
    <3>1. RxIdle(FALSE, Line)
      BY <2>1, IdleTick
    <3>2. QED
      BY <2>2, <3>1 DEF RxIdle, TypeOK, RxType
  <2>4. QED
    BY <1>2, <1>5, <2>1, <2>3 DEF Flying
<1>6. QED
  BY <1>3, <1>4, <1>5
=============================================================================
