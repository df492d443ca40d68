----------------------------- MODULE Echo_proofs -----------------------------
(* The echo, for every divider, depth of the FIFOs and set of bytes, with  *)
(* a station that is no faster than the echo can be: a frame and two edges *)
(* from the start of one byte to the next.                                 *)
EXTENDS Echo, SequenceTheorems, TLAPS

InLine == INSTANCE UartLink_proofs WITH
            txu <- peer_txu, rxu <- rxu, sent <- Coming, slips <- 0, noise <- 0, pull <- 0,
            Bytes <- Byte, Slips <- 0, Glitches <- 0, GlitchEdges <- 0
OutLine == INSTANCE UartLink_proofs WITH
             txu <- txu, rxu <- peer_rxu, sent <- Going, slips <- 0, noise <- 0, pull <- 0,
             Bytes <- Byte, Slips <- 0, Glitches <- 0, GlitchEdges <- 0

(* The lines are within what UartLink assumes.                             *)
LEMMA LineAssumptions ==
  /\ Byte \subseteq InLine!Byte /\ Byte \subseteq OutLine!Byte
  /\ 0 \in Nat /\ ClockDivide \in 1 .. 2047
  /\ 0 < 2 * ClockDivide /\ 0 <= 2 * ClockDivide
BY UartAssumption DEF Byte, InLine!Byte, OutLine!Byte

(* What the model says of the two lines, in the words of the proofs about  *)
(* them.                                                                   *)
LEMMA LinesAre ==
  /\ In!LinkInv <=> InLine!LinkInv
  /\ Out!LinkInv <=> OutLine!LinkInv
  /\ In!BusyFor = InLine!BusyFor /\ In!BusyFor' = InLine!BusyFor'
  /\ Out!BusyFor = OutLine!BusyFor /\ Out!BusyFor' = OutLine!BusyFor'
  /\ Incoming <=> InLine!Flying
  /\ Incoming' <=> InLine!Flying'
  /\ Outgoing <=> OutLine!Flying
  /\ Outgoing' <=> OutLine!Flying'
  /\ received <=> InLine!received
  /\ Peer!received <=> OutLine!received
  /\ Peer!is_transmitting <=> InLine!is_transmitting
  /\ Peer!is_transmitting' <=> InLine!is_transmitting'
  /\ is_transmitting <=> OutLine!is_transmitting
  /\ is_transmitting' <=> OutLine!is_transmitting'
<1> USE DEF In!is_transmitting, InLine!is_transmitting, Out!is_transmitting, OutLine!is_transmitting,
            In!Left, InLine!Left, Out!Left, OutLine!Left,
            In!TX_IDLE, InLine!TX_IDLE, Out!TX_IDLE, OutLine!TX_IDLE,
            In!TX_SENDING, InLine!TX_SENDING, Out!TX_SENDING, OutLine!TX_SENDING,
            In!TX_DELAY_RESTART, InLine!TX_DELAY_RESTART, Out!TX_DELAY_RESTART,
            OutLine!TX_DELAY_RESTART,
            In!RX_IDLE, InLine!RX_IDLE, Out!RX_IDLE, OutLine!RX_IDLE,
            In!RX_CHECK_START, InLine!RX_CHECK_START, Out!RX_CHECK_START, OutLine!RX_CHECK_START,
            In!RX_READ_BITS, InLine!RX_READ_BITS, Out!RX_READ_BITS, OutLine!RX_READ_BITS,
            In!RX_CHECK_STOP, InLine!RX_CHECK_STOP, Out!RX_CHECK_STOP, OutLine!RX_CHECK_STOP,
            In!RX_DELAY_RESTART, InLine!RX_DELAY_RESTART, Out!RX_DELAY_RESTART,
            OutLine!RX_DELAY_RESTART,
            In!RX_ERROR, InLine!RX_ERROR, Out!RX_ERROR, OutLine!RX_ERROR,
            In!RX_RECEIVED, InLine!RX_RECEIVED, Out!RX_RECEIVED, OutLine!RX_RECEIVED,
            TX_IDLE, TX_SENDING, RX_IDLE, RX_RECEIVED, Peer!TX_IDLE, Peer!RX_RECEIVED
<1>1. In!LinkInv <=> InLine!LinkInv
  BY DEF In!LinkInv, InLine!LinkInv, In!TxCounting, InLine!TxCounting,
         In!RxCounting, InLine!RxCounting, In!UnderWay, InLine!UnderWay,
         In!Arrived, InLine!Arrived, In!NoFrame, InLine!NoFrame,
         In!InStep, InLine!InStep, In!Drifted, InLine!Drifted, In!OnLine, InLine!OnLine,
         In!TxLeft, InLine!TxLeft, In!Awaited, InLine!Awaited, In!RxLeft, InLine!RxLeft,
         In!TxHolds, InLine!TxHolds, In!RxHolds, InLine!RxHolds,
         In!Power, InLine!Power, In!NoByte, InLine!NoByte
<1>2. Out!LinkInv <=> OutLine!LinkInv
  BY DEF Out!LinkInv, OutLine!LinkInv, Out!TxCounting, OutLine!TxCounting,
         Out!RxCounting, OutLine!RxCounting, Out!UnderWay, OutLine!UnderWay,
         Out!Arrived, OutLine!Arrived, Out!NoFrame, OutLine!NoFrame,
         Out!InStep, OutLine!InStep, Out!Drifted, OutLine!Drifted, Out!OnLine, OutLine!OnLine,
         Out!TxLeft, OutLine!TxLeft, Out!Awaited, OutLine!Awaited, Out!RxLeft, OutLine!RxLeft,
         Out!TxHolds, OutLine!TxHolds, Out!RxHolds, OutLine!RxHolds,
         Out!Power, OutLine!Power, Out!NoByte, OutLine!NoByte
<1>3. /\ In!BusyFor = InLine!BusyFor /\ In!BusyFor' = InLine!BusyFor'
      /\ Out!BusyFor = OutLine!BusyFor /\ Out!BusyFor' = OutLine!BusyFor'
  BY DEF In!BusyFor, InLine!BusyFor, Out!BusyFor, OutLine!BusyFor
<1>4. /\ Incoming <=> InLine!Flying
      /\ Incoming' <=> InLine!Flying'
      /\ Outgoing <=> OutLine!Flying
      /\ Outgoing' <=> OutLine!Flying'
  BY DEF Incoming, Outgoing, InLine!Flying, OutLine!Flying
<1>5. /\ received <=> InLine!received
      /\ Peer!received <=> OutLine!received
      /\ Peer!is_transmitting <=> InLine!is_transmitting
      /\ Peer!is_transmitting' <=> InLine!is_transmitting'
      /\ is_transmitting <=> OutLine!is_transmitting
      /\ is_transmitting' <=> OutLine!is_transmitting'
  BY DEF received, Peer!received, is_transmitting, Peer!is_transmitting,
         InLine!received, OutLine!received
<1>6. QED
  BY <1>1, <1>2, <1>3, <1>4, <1>5

(* The same after a step.                                                  *)
LEMMA LinesAreNext ==
  /\ In!LinkInv' <=> InLine!LinkInv'
  /\ Out!LinkInv' <=> OutLine!LinkInv'
BY LinesAre, PTL

(* The numbers and sequences of the stages are numbers and sequences.      *)
LEMMA Ranges ==
  ASSUME TypeOK
  PROVE  /\ ClockDivide \in Int /\ ClockDivide >= 1 /\ PeerGap \in Nat /\ PeerGap >= 1
         /\ wait \in Int /\ wait >= 0 /\ owed \in Seq(Data) /\ Len(owed) \in Nat
         /\ Data \subseteq Byte /\ 0 \in Data /\ Depth \in Nat /\ Depth >= 2
BY UartAssumption, EchoAssumption, FifoAssumption, UartFifoAssumption DEF TypeOK

(* A byte on a line is among those owed: the last of them on its way in,   *)
(* the first on its way back.                                              *)
LEMMA OnLinesAreOwed ==
  ASSUME TypeOK, EchoInv
  PROVE  /\ Incoming \/ Outgoing => owed # <<>>
         /\ Incoming /\ Outgoing => Len(owed) = 2
         /\ Coming \in Byte \cup {256} /\ (Incoming => Coming = owed[Len(owed)] /\ Coming \in Data)
         /\ Going \in Byte \cup {256} /\ (Outgoing => Going = Head(owed) /\ Going \in Data)
<1>1. /\ owed \in Seq(Data) /\ Len(owed) \in Nat /\ Data \subseteq Byte
  BY Ranges
<1>2. CASE RESET
  BY <1>2 DEF EchoInv, InReset, Coming, Going
<1>3. CASE Empty
  <2>1. Len(owed) = (IF Incoming THEN 1 ELSE 0) + (IF Outgoing THEN 1 ELSE 0)
    BY <1>3 DEF Empty
  <2>2. Incoming \/ Outgoing => Len(owed) >= 1
    BY <2>1
  <2>3. Len(owed) >= 1 => /\ owed # <<>> /\ Len(owed) \in 1 .. Len(owed)
                          /\ owed[Len(owed)] \in Data /\ Head(owed) \in Data
    BY <1>1
  <2>4. Incoming /\ Outgoing => Len(owed) = 2
    BY <2>1
  <2>5. QED
    BY <1>1, <2>2, <2>3, <2>4 DEF Coming, Going
<1>4. CASE Stored \/ Fetched \/ Queued
  BY <1>4 DEF Stored, Fetched, Queued, Waiting, Coming, Going
<1>5. QED
  BY <1>2, <1>3, <1>4 DEF EchoInv

(* The registers of the two lines are typed as UartLink wants them.        *)
LEMMA LinesTyped ==
  ASSUME txu \in TxType, rxu \in RxType, peer_txu \in TxType, peer_rxu \in RxType,
         Coming \in Byte \cup {256}, Going \in Byte \cup {256}
  PROVE  InLine!TypeOK /\ OutLine!TypeOK
BY DEF InLine!TypeOK, OutLine!TypeOK, InLine!TxType, InLine!RxType, OutLine!TxType,
       OutLine!RxType, TxType, RxType, InLine!Byte, OutLine!Byte, Byte,
       InLine!NoByte, OutLine!NoByte

(* What the frames on the two lines have to do with the transmitters.      *)
LEMMA LineFacts ==
  ASSUME TypeOK, EchoInv
  PROVE  /\ InLine!TypeOK /\ OutLine!TypeOK
         /\ InLine!LinkInv /\ OutLine!LinkInv
         /\ In!BusyFor \in Nat /\ (Peer!is_transmitting <=> In!BusyFor > 0)
         /\ Out!BusyFor \in Nat /\ (is_transmitting <=> Out!BusyFor > 0)
         /\ ~Peer!is_transmitting => rxu.state = RX_IDLE
         /\ ~is_transmitting => peer_rxu.state = RX_IDLE
         /\ Incoming => Peer!is_transmitting /\ In!BusyFor >= 6 * ClockDivide - 1
         /\ Outgoing => is_transmitting /\ Out!BusyFor >= 6 * ClockDivide - 1
         /\ received => Incoming /\ rxu.data = Coming /\ In!BusyFor = 6 * ClockDivide - 1
         /\ Peer!received => Outgoing /\ peer_rxu.data = Going
<1>1. Coming \in Byte \cup {256} /\ Going \in Byte \cup {256}
  BY OnLinesAreOwed
<1>2. InLine!TypeOK /\ OutLine!TypeOK
  BY <1>1, LinesTyped DEF TypeOK, PortType
<1>3. InLine!LinkInv /\ OutLine!LinkInv
  BY LinesAre DEF EchoInv
<1>4. InLine!TxCounting /\ OutLine!TxCounting
  BY <1>3 DEF InLine!LinkInv, OutLine!LinkInv
<1>5. /\ In!BusyFor \in Nat /\ (Peer!is_transmitting <=> In!BusyFor > 0)
      /\ Out!BusyFor \in Nat /\ (is_transmitting <=> Out!BusyFor > 0)
  <2>1. InLine!BusyFor \in Nat /\ (InLine!is_transmitting <=> InLine!BusyFor > 0)
    BY <1>2, <1>4, LineAssumptions, InLine!BusyRange
  <2>2. OutLine!BusyFor \in Nat /\ (OutLine!is_transmitting <=> OutLine!BusyFor > 0)
    BY <1>2, <1>4, LineAssumptions, OutLine!BusyRange
  <2>3. QED
    BY <2>1, <2>2, LinesAre
<1>6. /\ ~InLine!is_transmitting => rxu.state = InLine!RX_IDLE
      /\ InLine!Flying => InLine!is_transmitting /\ InLine!BusyFor >= 6 * ClockDivide - 1
      /\ InLine!received => /\ InLine!Flying /\ rxu.data = Coming
                            /\ InLine!BusyFor = 6 * ClockDivide - 1
  BY <1>2, <1>3, LineAssumptions, InLine!FlightTime
<1>7. /\ ~OutLine!is_transmitting => peer_rxu.state = OutLine!RX_IDLE
      /\ OutLine!Flying => OutLine!is_transmitting /\ OutLine!BusyFor >= 6 * ClockDivide - 1
      /\ OutLine!received => OutLine!Flying /\ peer_rxu.data = Going
  BY <1>2, <1>3, LineAssumptions, OutLine!FlightTime
<1>8. InLine!RX_IDLE = RX_IDLE /\ OutLine!RX_IDLE = RX_IDLE
  BY DEF InLine!RX_IDLE, OutLine!RX_IDLE, RX_IDLE
<1>9. QED
  BY <1>2, <1>3, <1>5, <1>6, <1>7, <1>8, LinesAre

(* A step of a UART of the echo or of the station is a step of its line.   *)
LEMMA SameTicks ==
  ASSUME NEW start, NEW b, NEW line
  PROVE  /\ Peer!TxTick(FALSE, start, b) <=> InLine!TxTick(FALSE, start, b)
         /\ RxTick(FALSE, line) <=> InLine!RxTick(FALSE, line)
         /\ TxTick(FALSE, start, b) <=> OutLine!TxTick(FALSE, start, b)
         /\ Peer!RxTick(FALSE, line) <=> OutLine!RxTick(FALSE, line)
<1>1. Peer!TxTick(FALSE, start, b) <=> InLine!TxTick(FALSE, start, b)
  BY DEF Peer!TxTick, InLine!TxTick, Peer!TxIdle, InLine!TxIdle, Peer!TxShift,
         InLine!TxShift, Peer!TxStop, InLine!TxStop, Peer!TxRestart, InLine!TxRestart,
         Peer!TxHold, InLine!TxHold, Peer!TxMoved, InLine!TxMoved, Peer!Divided,
         InLine!Divided, Peer!Counted, InLine!Counted, Peer!From, InLine!From, Peer!TX_IDLE,
         InLine!TX_IDLE, Peer!TX_SENDING, InLine!TX_SENDING, Peer!TX_DELAY_RESTART,
         InLine!TX_DELAY_RESTART
<1>2. RxTick(FALSE, line) <=> InLine!RxTick(FALSE, line)
  BY DEF RxTick, InLine!RxTick, RxIdle, InLine!RxIdle, RxStart, InLine!RxStart, RxBit,
         InLine!RxBit, RxStop, InLine!RxStop, RxError, InLine!RxError, RxRestart,
         InLine!RxRestart, RxReceived, InLine!RxReceived, RxHold, InLine!RxHold, RxMoved,
         InLine!RxMoved, Divided, InLine!Divided, Counted, InLine!Counted, From,
         InLine!From, RX_IDLE, InLine!RX_IDLE, RX_CHECK_START, InLine!RX_CHECK_START,
         RX_READ_BITS, InLine!RX_READ_BITS, RX_CHECK_STOP, InLine!RX_CHECK_STOP,
         RX_DELAY_RESTART, InLine!RX_DELAY_RESTART, RX_ERROR, InLine!RX_ERROR, RX_RECEIVED,
         InLine!RX_RECEIVED
<1>3. TxTick(FALSE, start, b) <=> OutLine!TxTick(FALSE, start, b)
  BY DEF TxTick, OutLine!TxTick, TxIdle, OutLine!TxIdle, TxShift, OutLine!TxShift, TxStop,
         OutLine!TxStop, TxRestart, OutLine!TxRestart, TxHold, OutLine!TxHold, TxMoved,
         OutLine!TxMoved, Divided, OutLine!Divided, Counted, OutLine!Counted, From,
         OutLine!From, TX_IDLE, OutLine!TX_IDLE, TX_SENDING, OutLine!TX_SENDING,
         TX_DELAY_RESTART, OutLine!TX_DELAY_RESTART
<1>4. Peer!RxTick(FALSE, line) <=> OutLine!RxTick(FALSE, line)
  BY DEF Peer!RxTick, OutLine!RxTick, Peer!RxIdle, OutLine!RxIdle, Peer!RxStart,
         OutLine!RxStart, Peer!RxBit, OutLine!RxBit, Peer!RxStop, OutLine!RxStop,
         Peer!RxError, OutLine!RxError, Peer!RxRestart, OutLine!RxRestart, Peer!RxReceived,
         OutLine!RxReceived, Peer!RxHold, OutLine!RxHold, Peer!RxMoved, OutLine!RxMoved,
         Peer!Divided, OutLine!Divided, Peer!Counted, OutLine!Counted, Peer!From,
         OutLine!From, Peer!RX_IDLE, OutLine!RX_IDLE, Peer!RX_CHECK_START,
         OutLine!RX_CHECK_START, Peer!RX_READ_BITS, OutLine!RX_READ_BITS,
         Peer!RX_CHECK_STOP, OutLine!RX_CHECK_STOP, Peer!RX_DELAY_RESTART,
         OutLine!RX_DELAY_RESTART, Peer!RX_ERROR, OutLine!RX_ERROR, Peer!RX_RECEIVED,
         OutLine!RX_RECEIVED
<1>5. QED
  BY <1>1, <1>2, <1>3, <1>4

(* The reset only puts into state 0 what is in state 0.                    *)
LEMMA ResetIsIdle ==
  ASSUME NEW rst, NEW start, NEW b, NEW line
  PROVE  /\ From(txu, rst) = From(txu, FALSE) /\ TxTick(rst, start, b) =>
              TxTick(FALSE, start, b)
         /\ From(rxu, rst) = From(rxu, FALSE) /\ RxTick(rst, line) => RxTick(FALSE, line)
<1>1. From(txu, rst) = From(txu, FALSE) /\ TxTick(rst, start, b) => TxTick(FALSE, start, b)
  BY DEF TxTick, TxIdle, TxShift, TxStop, TxRestart, TxHold
<1>2. From(rxu, rst) = From(rxu, FALSE) /\ RxTick(rst, line) => RxTick(FALSE, line)
  BY DEF RxTick, RxIdle, RxStart, RxBit, RxStop, RxError, RxRestart, RxReceived, RxHold
<1>3. QED
  BY <1>1, <1>2

(* An edge of the model is an edge of both lines.                          *)
LEMMA LineTicks ==
  ASSUME TypeOK, EchoInv, NEW send, NEW byte, Edge(send, byte)
  PROVE  /\ InLine!TxTick(FALSE, send, byte)
         /\ InLine!RxTick(FALSE, InLine!Line)
         /\ OutLine!TxTick(FALSE, tx_fifo_pop, DataOut(tx_fifo, TRUE))
         /\ OutLine!RxTick(FALSE, OutLine!Line)
<1>1. InLine!Line = peer_txu.out /\ OutLine!Line = txu.out
  BY DEF InLine!Line, OutLine!Line
<1>2. Peer!TxTick(FALSE, send, byte) /\ Peer!RxTick(FALSE, txu.out)
  BY DEF Edge, Peer!UartTick
<1>3. TxTick(RESET, tx_fifo_pop, DataOut(tx_fifo, TRUE)) /\ RxTick(RESET, peer_txu.out)
  BY DEF Edge, UartFifoTick, UartTick
<1>4. RESET \in BOOLEAN /\ (RESET => rxu.state = RX_IDLE /\ txu.state = TX_IDLE)
  BY DEF TypeOK, EchoInv, InReset, Incoming, is_transmitting
<1>5. From(txu, RESET) = From(txu, FALSE) /\ From(rxu, RESET) = From(rxu, FALSE)
  BY <1>4 DEF From, RX_IDLE, TX_IDLE
<1>6. TxTick(FALSE, tx_fifo_pop, DataOut(tx_fifo, TRUE)) /\ RxTick(FALSE, peer_txu.out)
  BY <1>3, <1>5, ResetIsIdle
<1>7. QED
  BY <1>1, <1>2, <1>6, SameTicks

(* The line in: a byte is on it from the edge on which it is sent until    *)
(* it has been received.                                                   *)
LEMMA InMoves ==
  ASSUME TypeOK, EchoInv, NEW send \in BOOLEAN, NEW byte, Edge(send, byte),
         send => ~Peer!is_transmitting
  PROVE  /\ Incoming' <=> send \/ (Incoming /\ ~received)
         /\ In!BusyFor' = IF send THEN 44 * ClockDivide
                          ELSE IF Peer!is_transmitting THEN In!BusyFor - 1 ELSE 0
<1>1. InLine!TxTick(FALSE, send, byte) /\ InLine!RxTick(FALSE, InLine!Line)
  BY LineTicks
<1>2. InLine!TypeOK /\ InLine!LinkInv /\ InLine!TxCounting
  BY LineFacts DEF InLine!LinkInv
<1>3. CASE send
  <2>1. InLine!TxTick(FALSE, TRUE, byte) /\ ~InLine!is_transmitting
    BY <1>1, <1>3, LinesAre
  <2>2. peer_txu'.state = InLine!TX_SENDING /\ InLine!BusyFor' = 44 * ClockDivide
    BY ONLY <2>1, LineAssumptions, InLine!BusyFromSend, ZenonT(120)
  <2>3. Incoming'
    BY <2>2 DEF Incoming, InLine!TX_SENDING, TX_SENDING
  <2>4. QED
    BY <1>3, <2>2, <2>3, LinesAre
<1>4. CASE ~send
  <2>1. InLine!TxTick(FALSE, FALSE, 0)
    BY <1>1, <1>4, LineAssumptions, InLine!NothingBegins, ZenonT(120)
  <2>2. InLine!Flying' <=> InLine!Flying /\ ~InLine!received
    BY <1>1, <1>2, <2>1, LineAssumptions, InLine!FlightGoesOn
  <2>3. InLine!BusyFor' = IF InLine!is_transmitting THEN InLine!BusyFor - 1 ELSE 0
    BY <1>2, <2>1, LineAssumptions, InLine!BusyStep
  <2>4. QED
    BY <1>4, <2>2, <2>3, LinesAre
<1>5. QED
  BY <1>3, <1>4

(* The line back: the same, from the pop of the FIFO that feeds it.        *)
LEMMA OutMoves ==
  ASSUME TypeOK, EchoInv, NEW send \in BOOLEAN, NEW byte, Edge(send, byte)
  PROVE  /\ Outgoing' <=> (tx_fifo_pop /\ ~is_transmitting) \/ (Outgoing /\ ~Peer!received)
         /\ Out!BusyFor' = IF tx_fifo_pop /\ ~is_transmitting THEN 44 * ClockDivide
                           ELSE IF is_transmitting THEN Out!BusyFor - 1 ELSE 0
<1>1. OutLine!TxTick(FALSE, tx_fifo_pop, DataOut(tx_fifo, TRUE))
      /\ OutLine!RxTick(FALSE, OutLine!Line)
  BY LineTicks
<1>2. OutLine!TypeOK /\ OutLine!LinkInv /\ OutLine!TxCounting
  BY LineFacts DEF OutLine!LinkInv
<1>3. tx_fifo_pop \in BOOLEAN
  BY DEF TypeOK, PortType
<1>4. CASE tx_fifo_pop /\ ~is_transmitting
  <2>1. OutLine!TxTick(FALSE, TRUE, DataOut(tx_fifo, TRUE)) /\ ~OutLine!is_transmitting
    BY <1>1, <1>3, <1>4, LinesAre
  <2>2. txu'.state = OutLine!TX_SENDING /\ OutLine!BusyFor' = 44 * ClockDivide
    BY <2>1, LineAssumptions, OutLine!BusyFromSend, ZenonT(120)
  <2>3. Outgoing'
    BY <2>2 DEF Outgoing, OutLine!TX_SENDING, TX_SENDING
  <2>4. QED
    BY <1>4, <2>2, <2>3, LinesAre
<1>5. CASE ~tx_fifo_pop \/ is_transmitting
  <2>1. OutLine!TxTick(FALSE, FALSE, 0)
    <3>1. OutLine!is_transmitting \/ ~tx_fifo_pop
      BY <1>5, LinesAre
    <3>2. QED
      BY <1>1, <1>3, <3>1, LineAssumptions, OutLine!NothingBegins, ZenonT(120)
  <2>2. OutLine!Flying' <=> OutLine!Flying /\ ~OutLine!received
    BY <1>1, <1>2, <2>1, LineAssumptions, OutLine!FlightGoesOn
  <2>3. OutLine!BusyFor' = IF OutLine!is_transmitting THEN OutLine!BusyFor - 1 ELSE 0
    BY <1>2, <2>1, LineAssumptions, OutLine!BusyStep
  <2>4. QED
    BY <1>5, <2>2, <2>3, LinesAre
<1>6. QED
  BY <1>4, <1>5
-----------------------------------------------------------------------------
(* An edge keeps a FIFO's registers in range, if what is pushed is Data.   *)
LEMMA FifoTyped ==
  ASSUME NEW f \in FifoRegs, NEW rst \in BOOLEAN, NEW push \in BOOLEAN, NEW pop \in BOOLEAN,
         NEW data, push => data \in Data
  PROVE  FifoTick(f, FifoPorts(rst, push, pop, data)) \in FifoRegs
<1> DEFINE i == FifoPorts(rst, push, pop, data)
<1>1. /\ i.RESET = rst /\ i.ENABLE = TRUE /\ i.FLUSH = FALSE
      /\ i.PUSH = push /\ i.POP = pop /\ i.DATA_IN = data
  BY DEF FifoPorts
<1>2. /\ f.write_ptr \in Address /\ f.read_ptr \in Address
      /\ f.memory \in [Address -> Data] /\ f.FULL \in BOOLEAN /\ f.EMPTY \in BOOLEAN
  BY DEF FifoRegs
<1>3. 0 \in Address /\ 0 \in Data
  BY FifoAssumption DEF Address
<1>4. AcceptWrite(f, i) => push
  BY <1>1 DEF AcceptWrite
<1> HIDE DEF i
<1>5. MemoryTick(f, i) \in [Address -> Data]
  <2>1. CASE i.RESET \/ (i.ENABLE /\ i.FLUSH)
    BY <1>3, <2>1 DEF MemoryTick
  <2>2. CASE ~(i.RESET \/ (i.ENABLE /\ i.FLUSH)) /\ AcceptWrite(f, i)
    <3>1. data \in Data
      BY <1>4, <2>2
    <3>2. MemoryTick(f, i) = [f.memory EXCEPT ![f.write_ptr] = data]
      BY <1>1, <2>2 DEF MemoryTick
    <3>3. QED
      BY <1>2, <3>1, <3>2
  <2>3. CASE ~(i.RESET \/ (i.ENABLE /\ i.FLUSH)) /\ ~AcceptWrite(f, i)
    BY <1>1, <1>2, <2>3 DEF MemoryTick
  <2>4. QED
    BY <2>1, <2>2, <2>3
<1>6. FullTick(f, i) \in BOOLEAN /\ EmptyTick(f, i) \in BOOLEAN
  BY <1>2 DEF FullTick, EmptyTick
<1>7. NextPtr(f.write_ptr) \in Address /\ NextPtr(f.read_ptr) \in Address
  BY <1>2, FifoAssumption DEF NextPtr, Address
<1>8. FifoTick(f, i) \in FifoRegs
  BY <1>2, <1>3, <1>5, <1>6, <1>7 DEF FifoTick, FifoRegs
<1>9. QED
  BY <1>8 DEF i

(* A FIFO that is reset is empty.                                          *)
LEMMA FifoReset ==
  ASSUME NEW f, NEW rst \in BOOLEAN, rst, NEW push, NEW pop, NEW data, NEW g,
         g = FifoTick(f, FifoPorts(rst, push, pop, data))
  PROVE  NoneIn(g)
<1>1. Cleared(FifoPorts(rst, push, pop, data))
  BY DEF Cleared, FifoPorts
<1>2. QED
  BY <1>1 DEF FifoTick, NoneIn

(* What an edge does with a FIFO that holds no more than one byte: a pop   *)
(* of an empty one does nothing.                                           *)
LEMMA FifoEdge ==
  ASSUME NEW f \in FifoRegs, NEW g, NEW rst \in BOOLEAN, ~rst,
         NEW push \in BOOLEAN, NEW pop \in BOOLEAN, NEW data,
         g = FifoTick(f, FifoPorts(rst, push, pop, data))
  PROVE  /\ NoneIn(f) /\ ~push => NoneIn(g)
         /\ NoneIn(f) /\ push /\ ~pop /\ data \in Data => OneIn(g, data)
         /\ \A b : OneIn(f, b) /\ ~push /\ ~pop => OneIn(g, b)
         /\ \A b : OneIn(f, b) /\ ~push /\ pop => NoneIn(g)
<1> DEFINE i == FifoPorts(rst, push, pop, data)
<1>1. /\ i.RESET = rst /\ i.ENABLE = TRUE /\ i.FLUSH = FALSE
      /\ i.PUSH = push /\ i.POP = pop /\ i.DATA_IN = data
  BY DEF FifoPorts
<1>2. g = FifoTick(f, i)
  OBVIOUS
<1> HIDE DEF i
<1>3. ~Cleared(i)
  BY <1>1 DEF Cleared
<1>4. CASE ~f.FULL
  <2>1. /\ AcceptWrite(f, i) <=> push
        /\ AcceptRead(f, i) <=> pop /\ (~f.EMPTY \/ push)
    BY <1>1, <1>4 DEF AcceptWrite, AcceptRead
  <2>2. /\ g.write_ptr = IF push THEN NextPtr(f.write_ptr) ELSE f.write_ptr
        /\ g.read_ptr = IF pop /\ (~f.EMPTY \/ push) THEN NextPtr(f.read_ptr) ELSE f.read_ptr
        /\ g.EMPTY <=> EmptyTick(f, i)
        /\ g.FULL <=> FullTick(f, i)
        /\ g.memory = MemoryTick(f, i)
    <3>1. /\ g.write_ptr = IF AcceptWrite(f, i) THEN NextPtr(f.write_ptr) ELSE f.write_ptr
          /\ g.read_ptr = IF AcceptRead(f, i) THEN NextPtr(f.read_ptr) ELSE f.read_ptr
          /\ g.memory = MemoryTick(f, i)
      BY <1>2, <1>3 DEF FifoTick
    <3>2. g.EMPTY = (Cleared(i) \/ EmptyTick(f, i)) /\ g.FULL = (~Cleared(i) /\ FullTick(f, i))
      BY <1>2 DEF FifoTick
    <3>3. QED
      BY <1>3, <2>1, <3>1, <3>2
  <2>3. /\ g.EMPTY <=> \/ pop /\ (~f.EMPTY \/ push) /\ NextPtr(f.read_ptr) = f.write_ptr
                       \/ f.EMPTY /\ ~push
        /\ g.FULL <=> push /\ NextPtr(f.write_ptr) = f.read_ptr
    BY <1>4, <2>1, <2>2 DEF EmptyTick, FullTick
  <2>4. g.memory = IF push THEN [f.memory EXCEPT ![f.write_ptr] = data] ELSE f.memory
    BY <1>1, <2>1, <2>2 DEF MemoryTick
  <2>5. /\ f.write_ptr \in Address /\ f.read_ptr \in Address
        /\ f.memory \in [Address -> Data]
    BY DEF FifoRegs
  <2>6. NextPtr(f.write_ptr) # f.write_ptr
    BY <2>5, FifoAssumption DEF NextPtr, Address
  <2>7. NoneIn(f) /\ ~push => NoneIn(g)
    BY <2>2, <2>3 DEF NoneIn
  <2>8. NoneIn(f) /\ push /\ ~pop /\ data \in Data => OneIn(g, data)
    BY <2>2, <2>3, <2>4, <2>5, <2>6 DEF NoneIn, OneIn
  <2>9. ASSUME NEW b, OneIn(f, b), ~push PROVE (~pop => OneIn(g, b)) /\ (pop => NoneIn(g))
    BY <2>2, <2>3, <2>4, <2>9 DEF OneIn, NoneIn
  <2>10. QED
    BY <2>7, <2>8, <2>9
<1>5. CASE f.FULL
  BY <1>5 DEF NoneIn, OneIn
<1>6. QED
  BY <1>4, <1>5
-----------------------------------------------------------------------------
\* An edge as the model allows it: the station sends only when it may.
Allowed(send, byte) ==
  /\ send \in BOOLEAN /\ byte \in Data /\ Edge(send, byte)
  /\ send => ~RESET /\ wait = 0 /\ ~Peer!is_transmitting /\ Len(owed) < MaxOwed

(* A byte that has come back leaves the head of those owed, one that is    *)
(* sent joins them at the end.                                             *)
LEMMA OwedMoves ==
  ASSUME TypeOK, EchoInv, NEW send, NEW byte, Allowed(send, byte)
  PROVE  /\ owed' \in Seq(Data) /\ Len(owed') <= MaxOwed
         /\ Len(owed') = Len(owed) + (IF send THEN 1 ELSE 0) - (IF Peer!received THEN 1 ELSE 0)
         /\ ~send /\ ~Peer!received => owed' = owed
         /\ send => owed'[Len(owed')] = byte
         /\ ~send /\ owed' # <<>> => owed'[Len(owed')] = owed[Len(owed)]
         /\ ~Peer!received /\ owed # <<>> => owed' # <<>> /\ Head(owed') = Head(owed)
<1> DEFINE back == IF Peer!received THEN Tail(owed) ELSE owed
<1>1. owed \in Seq(Data) /\ Len(owed) \in Nat /\ byte \in Data /\ send \in BOOLEAN
      /\ Len(owed) <= MaxOwed /\ MaxOwed \in Nat
      /\ (send => Len(owed) < MaxOwed)
  BY Ranges, EchoAssumption DEF Allowed, TypeOK
<1>2. Peer!received => owed # <<>>
  BY LineFacts, OnLinesAreOwed
<1>3. owed' = IF send THEN Append(back, byte) ELSE back
  BY <1>2 DEF Allowed, Edge
<1>4. /\ back \in Seq(Data) /\ Len(back) \in Nat
      /\ Len(back) = Len(owed) - (IF Peer!received THEN 1 ELSE 0)
  <2>1. CASE Peer!received
    BY <1>1, <1>2, <2>1, HeadTailProperties
  <2>2. CASE ~Peer!received
    BY <1>1, <2>2
  <2>3. QED
    BY <2>1, <2>2
<1>5. back # <<>> => back[Len(back)] = owed[Len(owed)]
  <2>1. CASE Peer!received
    <3>1. /\ Len(Tail(owed)) = Len(owed) - 1 /\ Tail(owed) \in Seq(Data)
          /\ \A i \in 1 .. Len(Tail(owed)) : Tail(owed)[i] = owed[i + 1]
      BY <1>1, <1>2, <2>1, HeadTailProperties
    <3>2. back # <<>> => Len(Tail(owed)) \in 1 .. Len(Tail(owed))
      BY <2>1, <3>1
    <3>3. QED
      BY <1>1, <2>1, <3>1, <3>2
  <2>2. CASE ~Peer!received
    BY <2>2
  <2>3. QED
    BY <2>1, <2>2
<1>6. ~Peer!received => back = owed
  OBVIOUS
<1> HIDE DEF back
<1>7. CASE send
  <2>1. /\ Append(back, byte) \in Seq(Data) /\ Append(back, byte) # <<>>
        /\ Len(Append(back, byte)) = Len(back) + 1
        /\ Append(back, byte)[Len(back) + 1] = byte
        /\ Head(Append(back, byte)) = IF back = <<>> THEN byte ELSE Head(back)
    BY <1>1, <1>4, AppendProperties, HeadTailAppend
  <2>2. QED
    BY <1>1, <1>3, <1>4, <1>6, <1>7, <2>1
<1>8. CASE ~send
  BY <1>1, <1>3, <1>4, <1>5, <1>6, <1>8
<1>9. QED
  BY <1>1, <1>7, <1>8

(* The transmitter begins a byte only when one is queued.                  *)
LEMMA BeginsWhenQueued ==
  ASSUME TypeOK, EchoInv, tx_fifo_pop, ~is_transmitting
  PROVE  /\ ~RESET /\ Queued
         /\ DataOut(tx_fifo, TRUE) = Head(owed)
<1>1. ~RESET /\ Queued
  BY DEF EchoInv, InReset, Empty, Stored, Fetched
<1>2. QED
  BY <1>1 DEF Queued, OneIn, DataOut

(* What is on the lines after an edge.                                     *)
LEMMA BytesMove ==
  ASSUME TypeOK, EchoInv, NEW send, NEW byte, Allowed(send, byte)
  PROVE  /\ Coming' = IF send THEN byte ELSE IF received THEN 256 ELSE Coming
         /\ Going' = IF tx_fifo_pop /\ ~is_transmitting THEN DataOut(tx_fifo, TRUE)
                     ELSE IF Peer!received THEN 256 ELSE Going
<1>1. /\ send \in BOOLEAN /\ Edge(send, byte) /\ (send => ~Peer!is_transmitting)
  BY DEF Allowed
<1>2. Incoming' <=> send \/ (Incoming /\ ~received)
  BY <1>1, InMoves
<1>3. Outgoing' <=> (tx_fifo_pop /\ ~is_transmitting) \/ (Outgoing /\ ~Peer!received)
  BY <1>1, OutMoves
<1>4. /\ Len(owed') = Len(owed) + (IF send THEN 1 ELSE 0) - (IF Peer!received THEN 1 ELSE 0)
      /\ send => owed'[Len(owed')] = byte
      /\ ~send /\ owed' # <<>> => owed'[Len(owed')] = owed[Len(owed)]
      /\ ~Peer!received /\ owed # <<>> => owed' # <<>> /\ Head(owed') = Head(owed)
      /\ owed' \in Seq(Data)
  BY OwedMoves
<1>5. /\ Incoming \/ Outgoing => owed # <<>>
      /\ Incoming /\ Outgoing => Len(owed) = 2
      /\ Incoming => Coming = owed[Len(owed)]
      /\ Outgoing => Going = Head(owed)
  BY OnLinesAreOwed
<1>6. (Peer!received => Outgoing) /\ (received => Incoming)
  BY LineFacts
<1>7. Coming' = IF Incoming' THEN owed'[Len(owed')] ELSE 256
  BY DEF Coming
<1>8. Going' = IF Outgoing' THEN Head(owed') ELSE 256
  BY DEF Going
<1>9. owed \in Seq(Data) /\ Len(owed) \in Nat
  BY Ranges
<1>10. Coming' = IF send THEN byte ELSE IF received THEN 256 ELSE Coming
  <2>1. CASE send
    BY <1>2, <1>4, <1>7, <2>1
  <2>2. CASE ~send /\ received
    BY <1>2, <1>7, <2>2
  <2>3. CASE ~send /\ ~received /\ Incoming
    <3>1. owed' # <<>>
      <4>1. CASE Peer!received
        <5>1. Len(owed) = 2
          BY <1>5, <1>6, <2>3, <4>1
        <5>2. Len(owed') = Len(owed) + 0 - 1
          BY ONLY <1>4, <2>3, <4>1
        <5>3. QED
          BY <5>1, <5>2
      <4>2. CASE ~Peer!received
        BY <1>4, <1>5, <2>3, <4>2
      <4>3. QED
        BY <4>1, <4>2
    <3>2. QED
      BY <1>2, <1>4, <1>5, <1>7, <2>3, <3>1
  <2>4. CASE ~send /\ ~received /\ ~Incoming
    BY <1>2, <1>7, <2>4 DEF Coming
  <2>5. QED
    BY <1>1, <2>1, <2>2, <2>3, <2>4
<1>11. Going' = IF tx_fifo_pop /\ ~is_transmitting THEN DataOut(tx_fifo, TRUE)
                ELSE IF Peer!received THEN 256 ELSE Going
  <2>1. CASE tx_fifo_pop /\ ~is_transmitting
    <3>1. DataOut(tx_fifo, TRUE) = Head(owed) /\ Queued
      BY <2>1, BeginsWhenQueued
    <3>2. ~Outgoing /\ Len(owed) = 1
      BY <3>1 DEF Queued, Waiting
    <3>3. owed # <<>>
      BY <3>2
    <3>4. QED
      BY <1>3, <1>4, <1>6, <1>8, <2>1, <3>1, <3>2, <3>3
  <2>2. CASE ~(tx_fifo_pop /\ ~is_transmitting) /\ Peer!received
    BY <1>3, <1>8, <2>2
  <2>3. CASE ~(tx_fifo_pop /\ ~is_transmitting) /\ ~Peer!received /\ Outgoing
    BY <1>3, <1>4, <1>5, <1>8, <2>3
  <2>4. CASE ~(tx_fifo_pop /\ ~is_transmitting) /\ ~Peer!received /\ ~Outgoing
    BY <1>3, <1>8, <2>4 DEF Going
  <2>5. QED
    BY <2>1, <2>2, <2>3, <2>4
<1>12. QED
  BY <1>10, <1>11
-----------------------------------------------------------------------------
(* The registers of the four machines keep their ranges, and so does what  *)
(* is on the lines.                                                        *)
LEMMA MachinesTyped ==
  ASSUME TypeOK, EchoInv, NEW send, NEW byte, Allowed(send, byte)
  PROVE  /\ peer_txu' \in TxType /\ rxu' \in RxType
         /\ txu' \in TxType /\ peer_rxu' \in RxType
         /\ Coming' \in Byte \cup {256} /\ Going' \in Byte \cup {256}
         /\ InLine!TypeOK' /\ OutLine!TypeOK'
<1>1. /\ send \in BOOLEAN /\ byte \in Data /\ Edge(send, byte)
      /\ tx_fifo_pop \in BOOLEAN /\ tx_fifo \in FifoRegs
      /\ Data \subseteq Byte
  BY Ranges DEF Allowed, TypeOK, PortType
<1>2. DataOut(tx_fifo, TRUE) \in Data
  BY <1>1 DEF FifoRegs, DataOut
<1>3. /\ InLine!TxTick(FALSE, send, byte) /\ InLine!RxTick(FALSE, InLine!Line)
      /\ OutLine!TxTick(FALSE, tx_fifo_pop, DataOut(tx_fifo, TRUE))
      /\ OutLine!RxTick(FALSE, OutLine!Line)
  BY <1>1, LineTicks
<1>4. InLine!TypeOK /\ OutLine!TypeOK /\ InLine!LinkInv /\ OutLine!LinkInv
  BY LineFacts
<1>5. Byte = InLine!Byte /\ Byte = OutLine!Byte
  BY DEF Byte, InLine!Byte, OutLine!Byte
<1>6. peer_txu' \in InLine!TxType
  <2>1. peer_txu \in InLine!TxType
    BY <1>4 DEF InLine!TypeOK
  <2>2. byte \in InLine!Byte
    BY <1>1, <1>5
  <2>3. send \in BOOLEAN /\ InLine!TxTick(FALSE, send, byte)
    BY <1>1, <1>3
  <2>4. \A rst \in BOOLEAN, start \in BOOLEAN, b \in InLine!Byte :
          InLine!TxTick(rst, start, b) => peer_txu' \in InLine!TxType
    BY ONLY <2>1, LineAssumptions, InLine!TxTyped
  <2>5. QED
    BY ONLY <2>2, <2>3, <2>4
<1>7. txu' \in OutLine!TxType
  <2>1. txu \in OutLine!TxType
    BY <1>4 DEF OutLine!TypeOK
  <2>2. DataOut(tx_fifo, TRUE) \in OutLine!Byte
    BY <1>1, <1>2, <1>5
  <2>3. tx_fifo_pop \in BOOLEAN /\ OutLine!TxTick(FALSE, tx_fifo_pop, DataOut(tx_fifo, TRUE))
    BY <1>1, <1>3
  <2>4. \A rst \in BOOLEAN, start \in BOOLEAN, b \in OutLine!Byte :
          OutLine!TxTick(rst, start, b) => txu' \in OutLine!TxType
    BY ONLY <2>1, LineAssumptions, OutLine!TxTyped
  <2>5. QED
    BY ONLY <2>2, <2>3, <2>4
<1>8. rxu' \in InLine!RxType
  <2>1. InLine!RxTyped
    BY <1>4 DEF InLine!RxTyped, InLine!TypeOK, InLine!LinkInv, InLine!RxCounting
  <2>2. InLine!Line \in {0, 1}
    BY <1>4, LineAssumptions, InLine!LineIsBit DEF InLine!TypeOK
  <2>3. InLine!RxTyped'
    BY ONLY <1>3, <2>1, <2>2, LineAssumptions, InLine!RxTypedStep, ZenonT(120)
  <2>4. QED
    BY <2>3 DEF InLine!RxTyped
<1>9. peer_rxu' \in OutLine!RxType
  <2>1. OutLine!RxTyped
    BY <1>4 DEF OutLine!RxTyped, OutLine!TypeOK, OutLine!LinkInv, OutLine!RxCounting
  <2>2. OutLine!Line \in {0, 1}
    BY <1>4, LineAssumptions, OutLine!LineIsBit DEF OutLine!TypeOK
  <2>3. OutLine!RxTyped'
    BY ONLY <1>3, <2>1, <2>2, LineAssumptions, OutLine!RxTypedStep, ZenonT(120)
  <2>4. QED
    BY <2>3 DEF OutLine!RxTyped
<1>10. Coming' \in Byte \cup {256} /\ Going' \in Byte \cup {256}
  <2>1. Coming \in Byte \cup {256} /\ Going \in Byte \cup {256}
    BY OnLinesAreOwed
  <2>2. QED
    BY <1>1, <1>2, <2>1, BytesMove
<1>11. InLine!TypeOK' /\ OutLine!TypeOK'
  BY <1>5, <1>6, <1>7, <1>8, <1>9, <1>10
     DEF InLine!TypeOK, OutLine!TypeOK, InLine!NoByte, OutLine!NoByte
<1>12. /\ InLine!TxType = TxType /\ OutLine!TxType = TxType
       /\ InLine!RxType = RxType /\ OutLine!RxType = RxType
  BY DEF InLine!TxType, OutLine!TxType, TxType, InLine!RxType, OutLine!RxType, RxType,
         InLine!Byte, OutLine!Byte, Byte
<1>13. QED
  BY <1>6, <1>7, <1>8, <1>9, <1>10, <1>11, <1>12

(* Each line keeps its frame: the edge is one of both its clocks, on which *)
(* a byte may be sent.                                                     *)
LEMMA LinesKept ==
  ASSUME TypeOK, EchoInv, NEW send, NEW byte, Allowed(send, byte)
  PROVE  In!LinkInv' /\ Out!LinkInv'
<1>1. /\ send \in BOOLEAN /\ byte \in Data /\ Edge(send, byte)
      /\ (send => ~Peer!is_transmitting)
      /\ tx_fifo_pop \in BOOLEAN /\ tx_fifo \in FifoRegs /\ Data \subseteq Byte
  BY Ranges DEF Allowed, TypeOK, PortType
<1>2. DataOut(tx_fifo, TRUE) \in Byte
  BY <1>1 DEF FifoRegs, DataOut
<1>3. /\ InLine!TxTick(FALSE, send, byte) /\ InLine!RxTick(FALSE, InLine!Line)
      /\ OutLine!TxTick(FALSE, tx_fifo_pop, DataOut(tx_fifo, TRUE))
      /\ OutLine!RxTick(FALSE, OutLine!Line)
  BY <1>1, LineTicks
<1>4. /\ InLine!TypeOK /\ OutLine!TypeOK /\ InLine!LinkInv /\ OutLine!LinkInv
      /\ ~Peer!is_transmitting => rxu.state = RX_IDLE
      /\ ~is_transmitting => peer_rxu.state = RX_IDLE
  BY LineFacts
<1>5. InLine!TypeOK' /\ OutLine!TypeOK'
  BY MachinesTyped
<1>6. /\ Coming' = IF send THEN byte ELSE IF received THEN 256 ELSE Coming
      /\ Going' = IF tx_fifo_pop /\ ~is_transmitting THEN DataOut(tx_fifo, TRUE)
                  ELSE IF Peer!received THEN 256 ELSE Going
  BY BytesMove
<1>7. /\ received <=> InLine!received
      /\ Peer!received <=> OutLine!received
      /\ Peer!is_transmitting <=> InLine!is_transmitting
      /\ is_transmitting <=> OutLine!is_transmitting
      /\ InLine!RX_IDLE = RX_IDLE /\ OutLine!RX_IDLE = RX_IDLE
      /\ InLine!NoByte = 256 /\ OutLine!NoByte = 256
  BY LinesAre DEF InLine!RX_IDLE, OutLine!RX_IDLE, RX_IDLE, InLine!NoByte, OutLine!NoByte
<1>8. InLine!Next
  <2>1. CASE send
    <3>1. InLine!CanSend
      BY <1>1, <1>4, <1>7, <2>1 DEF InLine!CanSend
    <3>2. InLine!UartTick(FALSE, InLine!Line, TRUE, byte) /\ Coming' = byte
      BY <1>3, <1>6, <2>1 DEF InLine!UartTick
    <3>3. InLine!Send
      BY <1>1, <3>1, <3>2 DEF InLine!Send
    <3>4. QED
      BY <3>3 DEF InLine!Next
  <2>2. CASE ~send
    <3>1. InLine!TxTick(FALSE, FALSE, 0)
      BY ONLY <1>1, <1>3, <2>2, LineAssumptions, InLine!NothingBegins, ZenonT(120)
    <3>2. Coming' = InLine!Taken
      BY <1>6, <1>7, <2>2 DEF InLine!Taken
    <3>3. InLine!Both
      <4>1. 0' = IF 0 > 0 THEN 0 - 1 ELSE 0
        OBVIOUS
      <4>2. QED
        BY ONLY <1>3, <3>1, <3>2, <4>1 DEF InLine!Both, InLine!UartTick
    <3>4. QED
      BY <3>3 DEF InLine!Next
  <2>3. QED
    BY <2>1, <2>2
<1>9. OutLine!Next
  <2>1. CASE tx_fifo_pop /\ ~is_transmitting
    <3>1. OutLine!CanSend
      BY <1>4, <1>7, <2>1 DEF OutLine!CanSend
    <3>2. /\ OutLine!UartTick(FALSE, OutLine!Line, TRUE, DataOut(tx_fifo, TRUE))
          /\ Going' = DataOut(tx_fifo, TRUE)
      BY <1>1, <1>3, <1>6, <2>1 DEF OutLine!UartTick
    <3>3. OutLine!Send
      BY <1>2, <3>1, <3>2 DEF OutLine!Send
    <3>4. QED
      BY <3>3 DEF OutLine!Next
  <2>2. CASE ~(tx_fifo_pop /\ ~is_transmitting)
    <3>1. OutLine!TxTick(FALSE, FALSE, 0)
      <4>1. OutLine!is_transmitting \/ ~tx_fifo_pop
        BY <1>7, <2>2
      <4>2. QED
        BY <1>1, <1>3, <4>1, LineAssumptions, OutLine!NothingBegins, ZenonT(120)
    <3>2. Going' = OutLine!Taken
      BY <1>6, <1>7, <2>2 DEF OutLine!Taken
    <3>3. OutLine!Both
      <4>1. 0' = IF 0 > 0 THEN 0 - 1 ELSE 0
        OBVIOUS
      <4>2. QED
        BY ONLY <1>3, <3>1, <3>2, <4>1 DEF OutLine!Both, OutLine!UartTick
    <3>4. QED
      BY <3>3 DEF OutLine!Next
  <2>3. QED
    BY <2>1, <2>2
<1>10. InLine!LinkInv'
  BY <1>4, <1>5, <1>8, LineAssumptions, InLine!LinkStep
<1>11. OutLine!LinkInv'
  BY <1>4, <1>5, <1>9, LineAssumptions, OutLine!LinkStep
<1>12. QED
  BY <1>10, <1>11, LinesAreNext
-----------------------------------------------------------------------------
(* A transmitter of either line is busy as long as its frame has edges.    *)
LEMMA BusyRanges ==
  InLine!TypeOK /\ InLine!LinkInv /\ OutLine!TypeOK /\ OutLine!LinkInv =>
    /\ In!BusyFor \in Nat /\ (Peer!is_transmitting <=> In!BusyFor > 0)
    /\ Out!BusyFor \in Nat /\ (is_transmitting <=> Out!BusyFor > 0)
<1> SUFFICES ASSUME InLine!TypeOK, InLine!LinkInv, OutLine!TypeOK, OutLine!LinkInv
             PROVE  /\ In!BusyFor \in Nat /\ (Peer!is_transmitting <=> In!BusyFor > 0)
                    /\ Out!BusyFor \in Nat /\ (is_transmitting <=> Out!BusyFor > 0)
  OBVIOUS
<1>1. InLine!TxCounting /\ OutLine!TxCounting
  BY DEF InLine!LinkInv, OutLine!LinkInv
<1>2. InLine!BusyFor \in Nat /\ (InLine!is_transmitting <=> InLine!BusyFor > 0)
  BY <1>1, LineAssumptions, InLine!BusyRange
<1>3. OutLine!BusyFor \in Nat /\ (OutLine!is_transmitting <=> OutLine!BusyFor > 0)
  BY <1>1, LineAssumptions, OutLine!BusyRange
<1>4. QED
  BY <1>2, <1>3, LinesAre

(* The same after a step.                                                  *)
LEMMA BusyRangesNext ==
  InLine!TypeOK' /\ InLine!LinkInv' /\ OutLine!TypeOK' /\ OutLine!LinkInv' =>
    /\ In!BusyFor' \in Nat /\ (Peer!is_transmitting' <=> In!BusyFor' > 0)
    /\ Out!BusyFor' \in Nat /\ (is_transmitting' <=> Out!BusyFor' > 0)
<1>1. (/\ In!BusyFor \in Nat /\ (Peer!is_transmitting <=> In!BusyFor > 0)
       /\ Out!BusyFor \in Nat /\ (is_transmitting <=> Out!BusyFor > 0))' =>
        /\ In!BusyFor' \in Nat /\ (Peer!is_transmitting' <=> In!BusyFor' > 0)
        /\ Out!BusyFor' \in Nat /\ (is_transmitting' <=> Out!BusyFor' > 0)
  OBVIOUS
<1>2. QED
  BY <1>1, BusyRanges, PTL

(* The frames and the station's pause, after an edge.                      *)
LEMMA TimesMove ==
  ASSUME TypeOK, EchoInv, NEW send, NEW byte, Allowed(send, byte)
  PROVE  /\ Incoming' <=> send \/ (Incoming /\ ~received)
         /\ In!BusyFor' = IF send THEN 44 * ClockDivide
                          ELSE IF Peer!is_transmitting THEN In!BusyFor - 1 ELSE 0
         /\ Outgoing' <=> (tx_fifo_pop /\ ~is_transmitting) \/ (Outgoing /\ ~Peer!received)
         /\ Out!BusyFor' = IF tx_fifo_pop /\ ~is_transmitting THEN 44 * ClockDivide
                           ELSE IF is_transmitting THEN Out!BusyFor - 1 ELSE 0
         /\ wait' = IF send THEN PeerGap - 1 ELSE IF wait > 0 THEN wait - 1 ELSE 0
         /\ Peer!is_transmitting' <=> In!BusyFor' > 0
         /\ is_transmitting' <=> Out!BusyFor' > 0
<1>1. send \in BOOLEAN /\ Edge(send, byte) /\ (send => ~Peer!is_transmitting)
  BY DEF Allowed
<1>2. /\ Incoming' <=> send \/ (Incoming /\ ~received)
      /\ In!BusyFor' = IF send THEN 44 * ClockDivide
                       ELSE IF Peer!is_transmitting THEN In!BusyFor - 1 ELSE 0
  BY <1>1, InMoves
<1>3. /\ Outgoing' <=> (tx_fifo_pop /\ ~is_transmitting) \/ (Outgoing /\ ~Peer!received)
      /\ Out!BusyFor' = IF tx_fifo_pop /\ ~is_transmitting THEN 44 * ClockDivide
                        ELSE IF is_transmitting THEN Out!BusyFor - 1 ELSE 0
  BY <1>1, OutMoves
<1>4. wait' = IF send THEN PeerGap - 1 ELSE IF wait > 0 THEN wait - 1 ELSE 0
  BY <1>1 DEF Edge
<1>5. (Peer!is_transmitting' <=> In!BusyFor' > 0) /\ (is_transmitting' <=> Out!BusyFor' > 0)
  <2>1. InLine!TypeOK' /\ OutLine!TypeOK'
    BY MachinesTyped
  <2>2. InLine!LinkInv' /\ OutLine!LinkInv'
    BY LinesKept, LinesAreNext
  <2>3. QED
    BY <2>1, <2>2, BusyRangesNext
<1>6. QED
  BY <1>2, <1>3, <1>4, <1>5

(* What the port does on an edge after the reset, its FIFOs holding no     *)
(* more than one byte.                                                     *)
LEMMA PortMoves ==
  ASSUME TypeOK, ~RESET, NEW send, NEW byte, Allowed(send, byte)
  PROVE  /\ NoneIn(rx_fifo) /\ ~received => NoneIn(rx_fifo')
         /\ NoneIn(rx_fifo) /\ received /\ ~rx_fifo_pop /\ rxu.data \in Data
              => OneIn(rx_fifo', rxu.data)
         /\ \A b : OneIn(rx_fifo, b) /\ ~received /\ ~rx_fifo_pop => OneIn(rx_fifo', b)
         /\ \A b : OneIn(rx_fifo, b) /\ ~received /\ rx_fifo_pop => NoneIn(rx_fifo')
         /\ NoneIn(tx_fifo) /\ ~transmit => NoneIn(tx_fifo')
         /\ NoneIn(tx_fifo) /\ transmit /\ ~tx_fifo_pop /\ tx_byte \in Data
              => OneIn(tx_fifo', tx_byte)
         /\ \A b : OneIn(tx_fifo, b) /\ ~transmit /\ ~tx_fifo_pop => OneIn(tx_fifo', b)
         /\ \A b : OneIn(tx_fifo, b) /\ ~transmit /\ tx_fifo_pop => NoneIn(tx_fifo')
         /\ transmit' <=> MayEcho
         /\ rx_fifo_pop' <=> MayEcho
         /\ MayEcho => tx_byte' = rx_fifo.memory[rx_fifo.read_ptr]
         /\ tx_fifo_pop' <=> PopWhenIdle
         /\ ~RESET'
<1>1. Edge(send, byte) /\ RESET \in BOOLEAN
  BY DEF Allowed, TypeOK
<1>2. /\ rx_fifo' = FifoTick(rx_fifo, FifoPorts(RESET, received, rx_fifo_pop, rxu.data))
      /\ tx_fifo' = FifoTick(tx_fifo, FifoPorts(RESET, transmit, tx_fifo_pop, tx_byte))
      /\ tx_fifo_pop' = (~RESET /\ PopWhenIdle)
  BY <1>1 DEF Edge, UartFifoTick
<1>3. /\ transmit' = (~RESET /\ MayEcho) /\ rx_fifo_pop' = (~RESET /\ MayEcho)
      /\ tx_byte' = IF ~RESET /\ MayEcho THEN DataOut(rx_fifo, TRUE) ELSE 0
      /\ RESET' = FALSE
  BY <1>1 DEF Edge, EchoTick
<1>4. /\ rx_fifo \in FifoRegs /\ tx_fifo \in FifoRegs /\ received \in BOOLEAN
      /\ rx_fifo_pop \in BOOLEAN /\ transmit \in BOOLEAN /\ tx_fifo_pop \in BOOLEAN
  BY DEF TypeOK, PortType, received
<1>5. /\ NoneIn(rx_fifo) /\ ~received => NoneIn(rx_fifo')
      /\ NoneIn(rx_fifo) /\ received /\ ~rx_fifo_pop /\ rxu.data \in Data
           => OneIn(rx_fifo', rxu.data)
      /\ \A b : OneIn(rx_fifo, b) /\ ~received /\ ~rx_fifo_pop => OneIn(rx_fifo', b)
      /\ \A b : OneIn(rx_fifo, b) /\ ~received /\ rx_fifo_pop => NoneIn(rx_fifo')
  BY ONLY <1>1, <1>2, <1>4, ~RESET, FifoEdge, Zenon
<1>6. /\ NoneIn(tx_fifo) /\ ~transmit => NoneIn(tx_fifo')
      /\ NoneIn(tx_fifo) /\ transmit /\ ~tx_fifo_pop /\ tx_byte \in Data
           => OneIn(tx_fifo', tx_byte)
      /\ \A b : OneIn(tx_fifo, b) /\ ~transmit /\ ~tx_fifo_pop => OneIn(tx_fifo', b)
      /\ \A b : OneIn(tx_fifo, b) /\ ~transmit /\ tx_fifo_pop => NoneIn(tx_fifo')
  BY ONLY <1>1, <1>2, <1>4, ~RESET, FifoEdge, Zenon
<1>7. MayEcho => tx_byte' = rx_fifo.memory[rx_fifo.read_ptr]
  BY <1>3 DEF DataOut
<1>8. (transmit' <=> MayEcho) /\ (rx_fifo_pop' <=> MayEcho) /\ (tx_fifo_pop' <=> PopWhenIdle)
  BY <1>2, <1>3
<1>9. QED
  BY <1>3, <1>5, <1>6, <1>7, <1>8

(* While the byte of the station is in the port, nothing is on the lines   *)
(* and the station does not send.                                          *)
LEMMA WaitingStep ==
  ASSUME TypeOK, EchoInv, PeerGap >= 44 * ClockDivide + 2,
         NEW send, NEW byte, Allowed(send, byte),
         NEW busy \in 0 .. 2, NEW edges \in 0 .. 4, Waiting(busy, edges)
  PROVE  /\ ~received /\ owed' = owed /\ ~Incoming'
         /\ wait' = PeerGap - 38 * ClockDivide - 2 - (edges + 1)
         /\ ~(tx_fifo_pop /\ ~is_transmitting) =>
              ~Outgoing' /\ Out!BusyFor' <= IF busy > 0 THEN busy - 1 ELSE 0
         /\ Len(owed) = 1 /\ owed # <<>>
<1>1. /\ ~Incoming /\ ~Outgoing /\ Len(owed) = 1
      /\ Out!BusyFor <= busy
      /\ wait = PeerGap - 38 * ClockDivide - 2 - edges
  BY DEF Waiting
<1>2. ~received /\ ~Peer!received /\ Out!BusyFor \in Nat
      /\ (is_transmitting <=> Out!BusyFor > 0)
  BY <1>1, LineFacts
<1>3. wait > 0
  BY <1>1, Ranges
<1>4. ~send /\ send \in BOOLEAN
  BY <1>3 DEF Allowed
<1>5. owed' = owed
  BY <1>2, <1>4, OwedMoves
<1>6. /\ Incoming' <=> send \/ (Incoming /\ ~received)
      /\ Outgoing' <=> (tx_fifo_pop /\ ~is_transmitting) \/ (Outgoing /\ ~Peer!received)
      /\ Out!BusyFor' = IF tx_fifo_pop /\ ~is_transmitting THEN 44 * ClockDivide
                        ELSE IF is_transmitting THEN Out!BusyFor - 1 ELSE 0
      /\ wait' = IF send THEN PeerGap - 1 ELSE IF wait > 0 THEN wait - 1 ELSE 0
  BY TimesMove
<1>7. wait' = PeerGap - 38 * ClockDivide - 2 - (edges + 1)
  <2>1. wait' = wait - 1
    BY <1>3, <1>4, <1>6
  <2>2. wait = PeerGap - 38 * ClockDivide - 2 - edges
    BY DEF Waiting
  <2>3. ClockDivide \in Int /\ PeerGap \in Int /\ edges \in Int /\ wait \in Int
    BY Ranges
  <2>4. QED
    BY ONLY <2>1, <2>2, <2>3
<1>8. ASSUME ~(tx_fifo_pop /\ ~is_transmitting)
      PROVE  ~Outgoing' /\ Out!BusyFor' <= IF busy > 0 THEN busy - 1 ELSE 0
  <2>1. ~Outgoing' /\ Out!BusyFor' = IF is_transmitting THEN Out!BusyFor - 1 ELSE 0
    BY <1>1, <1>6, <1>8
  <2>2. CASE is_transmitting
    BY <1>1, <1>2, <2>1, <2>2
  <2>3. CASE ~is_transmitting
    BY <2>1, <2>3
  <2>4. QED
    BY <2>2, <2>3
<1>9. owed # <<>>
  <2>1. Len(owed) = 1
    BY <1>1
  <2>2. QED
    BY <2>1
<1>10. QED
  BY <1>1, <1>2, <1>4, <1>5, <1>6, <1>7, <1>8, <1>9

(* The station keeps to its pace: the edges to the end of its frame and    *)
(* to its next byte go down together.                                      *)
LEMMA PacedStep ==
  ASSUME TypeOK, EchoInv, PeerGap >= 44 * ClockDivide + 2,
         NEW send, NEW byte, Allowed(send, byte)
  PROVE  Paced' /\ wait' \in 0 .. PeerGap - 1
<1>1. /\ ClockDivide \in Int /\ PeerGap \in Int /\ PeerGap >= 1 /\ wait \in Int
      /\ wait >= 0 /\ wait <= PeerGap - 1 /\ In!BusyFor \in Int
  BY Ranges, LineFacts DEF TypeOK
<1>2. (Peer!is_transmitting <=> In!BusyFor > 0) /\ send \in BOOLEAN
  BY LineFacts DEF Allowed
<1>3. /\ In!BusyFor' = IF send THEN 44 * ClockDivide
                       ELSE IF Peer!is_transmitting THEN In!BusyFor - 1 ELSE 0
      /\ wait' = IF send THEN PeerGap - 1 ELSE IF wait > 0 THEN wait - 1 ELSE 0
      /\ Peer!is_transmitting' <=> In!BusyFor' > 0
  BY TimesMove
<1>4. Peer!is_transmitting => wait + 44 * ClockDivide = In!BusyFor + PeerGap - 1
  BY DEF EchoInv, Paced
<1>5. wait' \in 0 .. PeerGap - 1
  BY <1>1, <1>2, <1>3
<1>6. Peer!is_transmitting' => wait' + 44 * ClockDivide = In!BusyFor' + PeerGap - 1
  <2>1. CASE send
    BY <1>1, <1>3, <2>1
  <2>2. CASE ~send /\ Peer!is_transmitting
    <3>1. wait > 0
      BY <1>1, <1>2, <1>4, <2>2
    <3>2. wait' = wait - 1 /\ In!BusyFor' = In!BusyFor - 1
      BY <1>3, <2>2, <3>1
    <3>3. QED
      BY <1>1, <1>4, <2>2, <3>2
  <2>3. CASE ~send /\ ~Peer!is_transmitting
    BY <1>3, <2>3
  <2>4. QED
    BY <1>2, <2>1, <2>2, <2>3
<1>7. QED
  BY <1>5, <1>6 DEF Paced

(* The edge of the reset leaves an empty port.                             *)
LEMMA ResetStep ==
  ASSUME TypeOK, EchoInv, RESET, NEW send, NEW byte, Allowed(send, byte)
  PROVE  Empty' /\ ~RESET'
<1>1. /\ Edge(send, byte) /\ ~send /\ RESET \in BOOLEAN /\ transmit \in BOOLEAN
      /\ send \in BOOLEAN
  BY DEF Allowed, TypeOK
<1>2. owed = <<>> /\ wait = 0 /\ ~Incoming /\ ~Outgoing /\ ~is_transmitting /\ ~tx_fifo_pop
  BY DEF EchoInv, InReset
<1>3. /\ transmit' = (~RESET /\ MayEcho) /\ rx_fifo_pop' = (~RESET /\ MayEcho)
      /\ tx_fifo_pop' = (~RESET /\ PopWhenIdle) /\ RESET' = FALSE
      /\ rx_fifo' = FifoTick(rx_fifo, FifoPorts(RESET, received, rx_fifo_pop, rxu.data))
      /\ tx_fifo' = FifoTick(tx_fifo, FifoPorts(RESET, transmit, tx_fifo_pop, tx_byte))
  BY <1>1 DEF Edge, EchoTick, UartFifoTick
<1>4. ~transmit' /\ ~rx_fifo_pop' /\ ~tx_fifo_pop' /\ ~RESET'
  BY <1>3
<1>5. NoneIn(rx_fifo') /\ NoneIn(tx_fifo')
  BY ONLY <1>1, <1>3, RESET, FifoReset, Zenon
<1>6. /\ ~received /\ ~Peer!received
      /\ Out!BusyFor \in Nat /\ (is_transmitting <=> Out!BusyFor > 0)
  BY <1>2, LineFacts
<1>7. /\ Incoming' <=> send \/ (Incoming /\ ~received)
      /\ Outgoing' <=> (tx_fifo_pop /\ ~is_transmitting) \/ (Outgoing /\ ~Peer!received)
      /\ Out!BusyFor' = IF tx_fifo_pop /\ ~is_transmitting THEN 44 * ClockDivide
                        ELSE IF is_transmitting THEN Out!BusyFor - 1 ELSE 0
      /\ wait' = IF send THEN PeerGap - 1 ELSE IF wait > 0 THEN wait - 1 ELSE 0
  BY TimesMove
<1>8. ~Incoming' /\ ~Outgoing'
  BY <1>1, <1>2, <1>7
<1>9. owed' = <<>>
  BY <1>1, <1>2, <1>6, OwedMoves
<1>10. Len(owed') = 0
  BY <1>9
<1>11. Out!BusyFor' <= NextIn' + 3
  <2>1. Out!BusyFor' = 0
    BY <1>2, <1>7
  <2>2. wait' = 0
    BY <1>1, <1>2, <1>7
  <2>3. NextIn' = wait' + 38 * ClockDivide + 2
    BY <1>8 DEF NextIn
  <2>4. QED
    BY <2>1, <2>2, <2>3, Ranges
<1>12. QED
  BY <1>4, <1>5, <1>8, <1>10, <1>11 DEF Empty

(* With nothing in the port, a byte may begin its way on the line, and     *)
(* the transmitter is free again in time for the one under way.            *)
LEMMA EmptyStep ==
  ASSUME TypeOK, EchoInv, ~RESET, PeerGap >= 44 * ClockDivide + 2, Empty, ~received,
         NEW send, NEW byte, Allowed(send, byte)
  PROVE  Empty'
<1>1. /\ NoneIn(rx_fifo) /\ NoneIn(tx_fifo) /\ ~transmit /\ ~rx_fifo_pop
      /\ tx_fifo_pop => is_transmitting
  BY DEF Empty
<1>2. /\ Len(owed) = (IF Incoming THEN 1 ELSE 0) + (IF Outgoing THEN 1 ELSE 0)
      /\ Out!BusyFor <= NextIn + 3
  BY DEF Empty
<1>3. /\ send \in BOOLEAN /\ (send => wait = 0 /\ ~Peer!is_transmitting)
      /\ (Incoming => Peer!is_transmitting) /\ (Peer!received => Outgoing)
      /\ (is_transmitting <=> Out!BusyFor > 0)
  BY LineFacts DEF Allowed
<1>4. /\ Incoming' <=> send \/ (Incoming /\ ~received)
      /\ Outgoing' <=> (tx_fifo_pop /\ ~is_transmitting) \/ (Outgoing /\ ~Peer!received)
  BY TimesMove
<1>5. /\ Incoming' <=> send \/ Incoming
      /\ Outgoing' <=> Outgoing /\ ~Peer!received
  BY <1>1, <1>4
<1>6. Len(owed') = (IF Incoming' THEN 1 ELSE 0) + (IF Outgoing' THEN 1 ELSE 0)
  <2>1. Len(owed') = Len(owed) + (IF send THEN 1 ELSE 0) - (IF Peer!received THEN 1 ELSE 0)
    BY OwedMoves
  <2>2. (IF Incoming' THEN 1 ELSE 0) = (IF Incoming THEN 1 ELSE 0) + (IF send THEN 1 ELSE 0)
    BY <1>3, <1>5
  <2>3. (IF Outgoing' THEN 1 ELSE 0)
          = (IF Outgoing THEN 1 ELSE 0) - (IF Peer!received THEN 1 ELSE 0)
    BY <1>3, <1>5
  <2>4. QED
    BY ONLY <1>2, <2>1, <2>2, <2>3
<1>7. Out!BusyFor' <= NextIn' + 3
  <2>1. /\ ClockDivide \in Int /\ ClockDivide >= 1 /\ wait \in Int /\ wait >= 0
        /\ In!BusyFor \in Int /\ Out!BusyFor \in Int /\ Out!BusyFor >= 0
    BY Ranges, LineFacts
  <2>2. Out!BusyFor' = IF tx_fifo_pop /\ ~is_transmitting THEN 44 * ClockDivide
                       ELSE IF is_transmitting THEN Out!BusyFor - 1 ELSE 0
    BY TimesMove
  <2>3. Out!BusyFor' = IF Out!BusyFor > 0 THEN Out!BusyFor - 1 ELSE 0
    BY <1>1, <1>3, <2>2
  <2>4. NextIn = IF Incoming THEN In!BusyFor - 6 * ClockDivide + 1
                 ELSE wait + 38 * ClockDivide + 2
    BY DEF NextIn
  <2>5. NextIn' = IF Incoming' THEN In!BusyFor' - 6 * ClockDivide + 1
                  ELSE wait' + 38 * ClockDivide + 2
    BY DEF NextIn
  <2>6. In!BusyFor' = IF send THEN 44 * ClockDivide
                      ELSE IF Peer!is_transmitting THEN In!BusyFor - 1 ELSE 0
    BY TimesMove
  <2>7. wait' = IF send THEN PeerGap - 1 ELSE IF wait > 0 THEN wait - 1 ELSE 0
    BY TimesMove
  <2>8. NextIn \in Int /\ NextIn' \in Int /\ NextIn <= NextIn' + 1 /\ NextIn' + 3 >= 0
    <3>1. CASE send
      <4>1. NextIn' = 44 * ClockDivide - 6 * ClockDivide + 1 /\ NextIn = 0 + 38 * ClockDivide + 2
        BY <1>3, <1>5, <2>4, <2>5, <2>6, <3>1
      <4>2. QED
        BY <2>1, <4>1
    <3>2. CASE ~send /\ Incoming
      <4>1. NextIn' = In!BusyFor - 1 - 6 * ClockDivide + 1
            /\ NextIn = In!BusyFor - 6 * ClockDivide + 1
        BY <1>3, <1>5, <2>4, <2>5, <2>6, <3>2
      <4>2. In!BusyFor >= 6 * ClockDivide - 1
        BY <3>2, LineFacts
      <4>3. QED
        BY <2>1, <4>1, <4>2
    <3>3. CASE ~send /\ ~Incoming
      <4>1. NextIn' = wait' + 38 * ClockDivide + 2 /\ NextIn = wait + 38 * ClockDivide + 2
        BY <1>3, <1>5, <2>4, <2>5, <3>3
      <4>2. wait' = IF wait > 0 THEN wait - 1 ELSE 0
        BY <2>7, <3>3
      <4>3. QED
        BY <2>1, <4>1, <4>2
    <3>4. QED
      BY <1>3, <3>1, <3>2, <3>3
  <2>9. Out!BusyFor <= NextIn + 3
    BY <1>2
  <2>10. CASE Out!BusyFor > 0
    <3>1. Out!BusyFor' = Out!BusyFor - 1
      BY <2>3, <2>10
    <3>2. \A o, n, m \in Int : o <= n + 3 /\ n <= m + 1 => o - 1 <= m + 3
      OBVIOUS
    <3>3. Out!BusyFor \in Int /\ NextIn \in Int /\ NextIn' \in Int /\ NextIn <= NextIn' + 1
      BY ONLY <2>1, <2>8, Zenon
    <3>4. Out!BusyFor - 1 <= NextIn' + 3
      BY ONLY <2>9, <3>2, <3>3, Zenon
    <3>5. QED
      BY ONLY <3>1, <3>4, Zenon
  <2>11. CASE ~(Out!BusyFor > 0)
    <3>1. Out!BusyFor' = 0
      BY <2>3, <2>11
    <3>2. QED
      BY ONLY <2>8, <3>1
  <2>12. QED
    BY <2>10, <2>11
<1>8. NoneIn(rx_fifo') /\ NoneIn(tx_fifo') /\ ~transmit' /\ ~rx_fifo_pop' /\ ~tx_fifo_pop'
  <2>1. ~MayEcho /\ ~PopWhenIdle
    BY <1>1 DEF NoneIn, MayEcho, PopWhenIdle
  <2>2. QED
    BY <1>1, <2>1, PortMoves
<1>9. QED
  BY <1>6, <1>7, <1>8 DEF Empty

(* A byte that comes finds the port empty and the transmitter all but      *)
(* free, and is stored.                                                    *)
LEMMA ReceivedStep ==
  ASSUME TypeOK, EchoInv, ~RESET, PeerGap >= 44 * ClockDivide + 2, Empty, received,
         NEW send, NEW byte, Allowed(send, byte)
  PROVE  Stored'
<1>1. /\ NoneIn(rx_fifo) /\ NoneIn(tx_fifo) /\ ~transmit /\ ~rx_fifo_pop
      /\ tx_fifo_pop => is_transmitting
  BY DEF Empty
<1>2. /\ ClockDivide \in Int /\ ClockDivide >= 1 /\ PeerGap \in Int
      /\ wait \in Int /\ wait >= 0 /\ Out!BusyFor \in Int /\ Out!BusyFor >= 0
  BY Ranges, LineFacts
<1>3. /\ Incoming /\ Peer!is_transmitting /\ rxu.data = Coming
      /\ (Outgoing => Out!BusyFor >= 6 * ClockDivide - 1)
      /\ (is_transmitting <=> Out!BusyFor > 0) /\ (Peer!received => Outgoing)
  BY LineFacts
<1>4. In!BusyFor = 6 * ClockDivide - 1
  BY LineFacts
<1>5. Out!BusyFor <= 3
  <2>1. Out!BusyFor <= NextIn + 3
    BY DEF Empty
  <2>2. NextIn = 6 * ClockDivide - 1 - 6 * ClockDivide + 1
    BY <1>3, <1>4 DEF NextIn
  <2>3. QED
    BY <1>2, <2>1, <2>2
<1>6. ~Outgoing /\ ~Peer!received
  BY <1>2, <1>3, <1>5
<1>7. wait = PeerGap - 38 * ClockDivide - 2
  <2>1. wait + 44 * ClockDivide = In!BusyFor + PeerGap - 1
    BY <1>3 DEF EchoInv, Paced
  <2>2. QED
    BY <1>2, <1>4, <2>1
<1>8. wait > 0
  BY <1>2, <1>7
<1>9. send \in BOOLEAN /\ ~send
  BY <1>8 DEF Allowed
<1>10. Len(owed) = 1 /\ owed \in Seq(Data)
  <2>1. Len(owed) = (IF Incoming THEN 1 ELSE 0) + (IF Outgoing THEN 1 ELSE 0)
    BY DEF Empty
  <2>2. Len(owed) = 1 + 0
    BY <1>3, <1>6, <2>1
  <2>3. QED
    BY <2>2, Ranges
<1>11. Coming = Head(owed) /\ Coming \in Data
  <2>1. Coming = owed[Len(owed)] /\ Coming \in Data
    BY <1>3, OnLinesAreOwed
  <2>2. owed[1] = Head(owed)
    BY <1>10
  <2>3. QED
    BY <1>10, <2>1, <2>2
<1>12. owed' = owed
  BY <1>6, <1>9, OwedMoves
<1>13. ~Incoming' /\ ~Outgoing'
  BY <1>1, <1>6, <1>9, TimesMove
<1>14. Out!BusyFor' <= 2
  <2>1. Out!BusyFor' = IF tx_fifo_pop /\ ~is_transmitting THEN 44 * ClockDivide
                       ELSE IF is_transmitting THEN Out!BusyFor - 1 ELSE 0
    BY TimesMove
  <2>2. Out!BusyFor' = IF is_transmitting THEN Out!BusyFor - 1 ELSE 0
    BY <1>1, <2>1
  <2>3. QED
    BY <1>2, <1>5, <2>2
<1>15. wait' = PeerGap - 38 * ClockDivide - 2 - 1
  <2>1. wait' = IF send THEN PeerGap - 1 ELSE IF wait > 0 THEN wait - 1 ELSE 0
    BY TimesMove
  <2>2. wait' = wait - 1
    BY <1>8, <1>9, <2>1
  <2>3. QED
    BY <1>2, <1>7, <2>2
<1>16. /\ OneIn(rx_fifo', Head(owed)) /\ NoneIn(tx_fifo')
       /\ ~transmit' /\ ~rx_fifo_pop' /\ ~tx_fifo_pop'
  <2>1. ~MayEcho /\ ~PopWhenIdle
    BY <1>1 DEF NoneIn, MayEcho, PopWhenIdle
  <2>2. rxu.data = Head(owed) /\ rxu.data \in Data
    BY <1>3, <1>11
  <2>3. OneIn(rx_fifo', rxu.data)
    BY <1>1, <2>2, PortMoves
  <2>4. QED
    BY <1>1, <2>1, <2>2, <2>3, PortMoves
<1>17. Waiting(2, 1)'
  <2>1. Len(owed') = 1
    BY <1>10, <1>12
  <2>2. QED
    BY <1>13, <1>14, <1>15, <2>1 DEF Waiting
<1>18. QED
  BY <1>12, <1>16, <1>17 DEF Stored

(* The byte is taken from the FIFO of the receiver,                        *)
LEMMA StoredStep ==
  ASSUME TypeOK, EchoInv, ~RESET, PeerGap >= 44 * ClockDivide + 2, Stored,
         NEW send, NEW byte, Allowed(send, byte)
  PROVE  Fetched'
<1>1. /\ OneIn(rx_fifo, Head(owed)) /\ NoneIn(tx_fifo)
      /\ ~transmit /\ ~rx_fifo_pop /\ ~tx_fifo_pop /\ Waiting(2, 1)
  BY DEF Stored
<1>2. /\ ~received /\ owed' = owed /\ ~Incoming' /\ ~Outgoing' /\ Len(owed) = 1
      /\ wait' = PeerGap - 38 * ClockDivide - 2 - (1 + 1)
      /\ Out!BusyFor' <= IF 2 > 0 THEN 2 - 1 ELSE 0
  BY <1>1, WaitingStep
<1>3. Waiting(1, 2)'
  BY <1>2 DEF Waiting
<1>4. MayEcho /\ ~PopWhenIdle /\ rx_fifo.memory[rx_fifo.read_ptr] = Head(owed)
  BY <1>1 DEF OneIn, NoneIn, MayEcho, PopWhenIdle
<1>5. /\ OneIn(rx_fifo', Head(owed)) /\ NoneIn(tx_fifo')
      /\ transmit' /\ rx_fifo_pop' /\ ~tx_fifo_pop' /\ tx_byte' = Head(owed)
  BY <1>1, <1>2, <1>4, PortMoves
<1>6. QED
  BY <1>2, <1>3, <1>5 DEF Fetched

(* handed to the FIFO of the transmitter,                                  *)
LEMMA FetchedStep ==
  ASSUME TypeOK, EchoInv, ~RESET, PeerGap >= 44 * ClockDivide + 2, Fetched, tx_byte \in Data,
         NEW send, NEW byte, Allowed(send, byte)
  PROVE  Queued'
<1>1. /\ OneIn(rx_fifo, Head(owed)) /\ NoneIn(tx_fifo) /\ tx_byte = Head(owed)
      /\ transmit /\ rx_fifo_pop /\ ~tx_fifo_pop /\ Waiting(1, 2)
  BY DEF Fetched
<1>2. /\ ~received /\ owed' = owed /\ ~Incoming' /\ ~Outgoing' /\ Len(owed) = 1
      /\ wait' = PeerGap - 38 * ClockDivide - 2 - (2 + 1)
      /\ Out!BusyFor' <= IF 1 > 0 THEN 1 - 1 ELSE 0
  BY <1>1, WaitingStep
<1>3. ~MayEcho /\ ~PopWhenIdle
  BY <1>1 DEF NoneIn, MayEcho, PopWhenIdle
<1>4. /\ NoneIn(rx_fifo') /\ OneIn(tx_fifo', tx_byte)
      /\ ~transmit' /\ ~rx_fifo_pop' /\ ~tx_fifo_pop'
  BY <1>1, <1>2, <1>3, PortMoves
<1>5. Waiting(0, IF tx_fifo_pop THEN 4 ELSE 3)'
  <2>1. (IF tx_fifo_pop' THEN 4 ELSE 3) = 3
    BY <1>4
  <2>2. QED
    BY <1>2, <2>1 DEF Waiting
<1>6. QED
  BY <1>1, <1>2, <1>4, <1>5 DEF Queued

(* popped from there, and put on the line back, which leaves the port      *)
(* empty with a frame and two edges to the next byte of the station.       *)
LEMMA QueuedStep ==
  ASSUME TypeOK, EchoInv, ~RESET, PeerGap >= 44 * ClockDivide + 2, Queued,
         NEW send, NEW byte, Allowed(send, byte)
  PROVE  Empty' \/ Queued'
<1>1. /\ NoneIn(rx_fifo) /\ OneIn(tx_fifo, Head(owed)) /\ ~transmit /\ ~rx_fifo_pop
      /\ Waiting(0, IF tx_fifo_pop THEN 4 ELSE 3) /\ tx_fifo_pop \in BOOLEAN
  BY DEF Queued, TypeOK, PortType
<1>2. ~is_transmitting
  <2>1. Out!BusyFor <= 0
    BY <1>1 DEF Waiting
  <2>2. QED
    BY <2>1, LineFacts
<1>3. ~MayEcho /\ PopWhenIdle
  BY <1>1, <1>2 DEF NoneIn, OneIn, MayEcho, PopWhenIdle
<1>4. ~received
  BY <1>1, LineFacts DEF Waiting
<1>5. NoneIn(rx_fifo') /\ ~transmit' /\ ~rx_fifo_pop' /\ tx_fifo_pop'
  BY <1>1, <1>3, <1>4, PortMoves
<1>6. CASE ~tx_fifo_pop
  <2>1. Waiting(0, 3)
    BY <1>1, <1>6
  <2>2. /\ owed' = owed /\ ~Incoming' /\ ~Outgoing' /\ Len(owed) = 1
        /\ wait' = PeerGap - 38 * ClockDivide - 2 - (3 + 1)
        /\ Out!BusyFor' <= IF 0 > 0 THEN 0 - 1 ELSE 0
    BY <1>6, <2>1, WaitingStep
  <2>3. Waiting(0, IF tx_fifo_pop THEN 4 ELSE 3)'
    <3>1. (IF tx_fifo_pop' THEN 4 ELSE 3) = 4
      BY <1>5
    <3>2. QED
      BY <2>2, <3>1 DEF Waiting
  <2>4. OneIn(tx_fifo', Head(owed))
    BY <1>1, <1>6, PortMoves
  <2>5. QED
    BY <1>5, <2>2, <2>3, <2>4 DEF Queued
<1>7. CASE tx_fifo_pop
  <2>1. Waiting(0, 4)
    BY <1>1, <1>7
  <2>2. /\ owed' = owed /\ ~Incoming' /\ Len(owed) = 1
        /\ wait' = PeerGap - 38 * ClockDivide - 2 - (4 + 1)
    BY <2>1, WaitingStep
  <2>3. Outgoing' /\ Out!BusyFor' = 44 * ClockDivide /\ (is_transmitting' <=> Out!BusyFor' > 0)
    BY <1>2, <1>7, TimesMove
  <2>4. NoneIn(tx_fifo')
    BY <1>1, <1>7, PortMoves
  <2>5. Out!BusyFor' <= NextIn' + 3
    <3>1. NextIn' = wait' + 38 * ClockDivide + 2
      BY <2>2 DEF NextIn
    <3>2. ClockDivide \in Int /\ PeerGap \in Int
      BY Ranges
    <3>3. wait' = PeerGap - 38 * ClockDivide - 2 - (4 + 1) /\ Out!BusyFor' = 44 * ClockDivide
      BY <2>2, <2>3
    <3>4. QED
      BY <3>1, <3>2, <3>3
  <2>6. is_transmitting'
    BY <2>3, Ranges
  <2>7. Len(owed') = (IF Incoming' THEN 1 ELSE 0) + (IF Outgoing' THEN 1 ELSE 0)
    <3>1. Len(owed') = 0 + 1
      BY <2>2
    <3>2. QED
      BY <2>2, <2>3, <3>1
  <2>8. QED
    BY <1>5, <2>4, <2>5, <2>6, <2>7 DEF Empty
<1>8. QED
  BY <1>1, <1>6, <1>7
-----------------------------------------------------------------------------
(* After the power-on the lines are idle and nothing is owed.              *)
LEMMA EchoInit == Init => TypeOK /\ tx_byte \in Data /\ EchoInv
<1> SUFFICES ASSUME Init PROVE TypeOK /\ tx_byte \in Data /\ EchoInv
  OBVIOUS
<1>1. /\ UartInit /\ Peer!UartInit /\ RESET = TRUE /\ tx_byte = 0 /\ transmit = FALSE
      /\ rx_fifo_pop = FALSE /\ wait = 0 /\ owed = <<>>
      /\ tx_fifo = FifoPowerOn /\ rx_fifo = FifoPowerOn /\ tx_fifo_pop = FALSE
  BY DEF Init, UartFifoInit
<1>2. /\ txu.state = 0 /\ txu.out = 1 /\ rxu.state = 0
      /\ peer_txu.state = 0 /\ peer_txu.out = 1 /\ peer_rxu.state = 0
  BY <1>1 DEF UartInit, Peer!UartInit, TX_IDLE, RX_IDLE, Peer!TX_IDLE, Peer!RX_IDLE
<1>3. ~Incoming /\ ~Outgoing /\ ~is_transmitting /\ ~Peer!is_transmitting
  BY <1>2 DEF Incoming, Outgoing, is_transmitting, Peer!is_transmitting, TX_IDLE, TX_SENDING,
              RX_IDLE, Peer!TX_IDLE
<1>4. Coming = 256 /\ Going = 256
  BY <1>3 DEF Coming, Going
<1>5. TypeOK
  <2>1. txu \in TxType /\ rxu \in RxType
    BY <1>1, UartAssumption DEF UartInit, TxType, RxType, Byte, TX_IDLE, RX_IDLE
  <2>2. peer_txu \in TxType /\ peer_rxu \in RxType
    BY <1>1, UartAssumption DEF Peer!UartInit, TxType, RxType, Byte, Peer!TX_IDLE, Peer!RX_IDLE
  <2>3. FifoPowerOn \in FifoRegs
    <3>1. 0 \in Address /\ 0 \in Data
      BY FifoAssumption DEF Address
    <3>2. [a \in Address |-> 0] \in [Address -> Data]
      BY <3>1
    <3>3. FifoInit \in FifoRegs
      BY <3>1, <3>2 DEF FifoInit, FifoRegs
    <3>4. QED
      BY <3>3 DEF FifoPowerOn, FifoRegs
  <2>4. owed \in Seq(Data) /\ Len(owed) <= MaxOwed
    <3>1. owed = <<>>
      BY <1>1
    <3>2. Len(owed) = 0 /\ owed \in Seq(Data)
      BY <3>1
    <3>3. QED
      BY <3>2, EchoAssumption
  <2>5. wait \in 0 .. PeerGap - 1 /\ 0 \in Byte
    BY <1>1, EchoAssumption DEF Byte
  <2>6. QED
    BY <1>1, <2>1, <2>2, <2>3, <2>4, <2>5 DEF TypeOK, PortType
<1>6. In!LinkInv
  BY <1>2, <1>4 DEF In!LinkInv, In!TxCounting, In!RxCounting, In!NoFrame, In!is_transmitting,
         In!NoByte, In!RX_IDLE, In!RX_CHECK_START, In!RX_READ_BITS, In!RX_CHECK_STOP,
         In!RX_DELAY_RESTART, In!RX_ERROR, In!RX_RECEIVED, In!TX_IDLE, In!TX_SENDING,
         In!TX_DELAY_RESTART
<1>7. Out!LinkInv
  BY <1>2, <1>4 DEF Out!LinkInv, Out!TxCounting, Out!RxCounting, Out!NoFrame,
         Out!is_transmitting, Out!NoByte, Out!RX_IDLE, Out!RX_CHECK_START, Out!RX_READ_BITS,
         Out!RX_CHECK_STOP, Out!RX_DELAY_RESTART, Out!RX_ERROR, Out!RX_RECEIVED, Out!TX_IDLE,
         Out!TX_SENDING, Out!TX_DELAY_RESTART
<1>8. Paced /\ InReset
  BY <1>1, <1>3 DEF Paced, InReset
<1>9. tx_byte \in Data
  BY <1>1, FifoAssumption
<1>10. QED
  BY <1>1, <1>5, <1>6, <1>7, <1>8, <1>9 DEF EchoInv

(* An edge keeps everything in range.                                      *)
LEMMA EchoTyped ==
  ASSUME PeerGap >= 44 * ClockDivide + 2, TypeOK, tx_byte \in Data, EchoInv,
         NEW send, NEW byte, Allowed(send, byte)
  PROVE  TypeOK' /\ tx_byte' \in Data
<1>1. /\ Edge(send, byte) /\ RESET \in BOOLEAN /\ transmit \in BOOLEAN
      /\ rx_fifo_pop \in BOOLEAN /\ tx_fifo_pop \in BOOLEAN
      /\ tx_fifo \in FifoRegs /\ rx_fifo \in FifoRegs /\ received \in BOOLEAN
      /\ 0 \in Data /\ Data \subseteq Byte
  BY Ranges DEF Allowed, TypeOK, PortType, received
<1>2. /\ txu' \in TxType /\ rxu' \in RxType /\ peer_txu' \in TxType /\ peer_rxu' \in RxType
  BY MachinesTyped
<1>3. owed' \in Seq(Data) /\ Len(owed') <= MaxOwed
  BY OwedMoves
<1>4. wait' \in 0 .. PeerGap - 1
  BY PacedStep
<1>5. /\ rx_fifo' = FifoTick(rx_fifo, FifoPorts(RESET, received, rx_fifo_pop, rxu.data))
      /\ tx_fifo' = FifoTick(tx_fifo, FifoPorts(RESET, transmit, tx_fifo_pop, tx_byte))
      /\ tx_fifo_pop' = (~RESET /\ PopWhenIdle)
      /\ transmit' = (~RESET /\ MayEcho) /\ rx_fifo_pop' = (~RESET /\ MayEcho)
      /\ tx_byte' = IF ~RESET /\ MayEcho THEN DataOut(rx_fifo, TRUE) ELSE 0
      /\ RESET' = FALSE
  BY <1>1 DEF Edge, UartFifoTick, EchoTick
<1>6. received => rxu.data \in Data
  BY LineFacts, OnLinesAreOwed
<1>7. rx_fifo' \in FifoRegs
  BY ONLY <1>1, <1>5, <1>6, FifoTyped, Zenon
<1>8. tx_fifo' \in FifoRegs
  <2>1. transmit => tx_byte \in Data
    OBVIOUS
  <2>2. QED
    BY ONLY <1>1, <1>5, <2>1, FifoTyped, Zenon
<1>9. DataOut(rx_fifo, TRUE) \in Data
  BY <1>1 DEF FifoRegs, DataOut
<1>10. tx_byte' \in Data
  BY <1>1, <1>5, <1>9
<1>11. tx_fifo_pop' \in BOOLEAN /\ transmit' \in BOOLEAN /\ rx_fifo_pop' \in BOOLEAN
       /\ RESET' \in BOOLEAN
  BY <1>5
<1>12. QED
  BY <1>1, <1>2, <1>3, <1>4, <1>7, <1>8, <1>10, <1>11 DEF TypeOK, PortType

(* A step of the model is such an edge, or none.                           *)
LEMMA NextIsAllowed ==
  ASSUME [Next]_vars, TypeOK
  PROVE  UNCHANGED vars \/ \E send, byte : Allowed(send, byte)
<1>1. CASE Send
  <2>1. PICK b \in Data : Edge(TRUE, b)
    BY <1>1 DEF Send
  <2>2. Allowed(TRUE, b)
    BY <1>1, <2>1 DEF Send, Allowed
  <2>3. QED
    BY <2>2
<1>2. CASE Idle
  <2>1. Allowed(FALSE, 0)
    BY <1>2, FifoAssumption DEF Idle, Allowed
  <2>2. QED
    BY <2>1
<1>3. QED
  BY <1>1, <1>2 DEF Next

(* A step keeps the place of every byte under way.                         *)
LEMMA EchoKept ==
  ASSUME PeerGap >= 44 * ClockDivide + 2, TypeOK, tx_byte \in Data, EchoInv, [Next]_vars
  PROVE  TypeOK' /\ tx_byte' \in Data /\ EchoInv'
<1>1. ASSUME NEW send, NEW byte, Allowed(send, byte)
      PROVE  TypeOK' /\ tx_byte' \in Data /\ EchoInv'
  <2>1. TypeOK' /\ tx_byte' \in Data
    BY <1>1, EchoTyped
  <2>2. In!LinkInv' /\ Out!LinkInv' /\ Paced'
    BY <1>1, LinesKept, PacedStep
  <2>3. ~RESET'
    BY <1>1 DEF Allowed, Edge
  <2>4. Empty' \/ Stored' \/ Fetched' \/ Queued'
    <3>1. CASE RESET
      BY <1>1, <3>1, ResetStep
    <3>2. CASE ~RESET /\ Empty
      BY <1>1, <3>2, EmptyStep, ReceivedStep
    <3>3. CASE ~RESET /\ Stored
      BY <1>1, <3>3, StoredStep
    <3>4. CASE ~RESET /\ Fetched
      BY <1>1, <3>4, FetchedStep
    <3>5. CASE ~RESET /\ Queued
      BY <1>1, <3>5, QueuedStep
    <3>6. QED
      BY <3>1, <3>2, <3>3, <3>4, <3>5 DEF EchoInv
  <2>5. QED
    BY <2>1, <2>2, <2>3, <2>4 DEF EchoInv
<1>2. CASE UNCHANGED vars
  <2>1. UNCHANGED <<txu, rxu, tx_fifo, rx_fifo, tx_fifo_pop, RESET, tx_byte, transmit,
                    rx_fifo_pop, peer_txu, peer_rxu, wait, owed>>
    BY <1>2 DEF vars, portVars, uartVars
  <2>2. TypeOK' /\ tx_byte' \in Data
    BY <2>1 DEF TypeOK, PortType
  <2>3. /\ Incoming' <=> Incoming
        /\ Outgoing' <=> Outgoing
        /\ is_transmitting' <=> is_transmitting
        /\ Peer!is_transmitting' <=> Peer!is_transmitting
    BY <2>1 DEF Incoming, Outgoing, is_transmitting, Peer!is_transmitting
  <2>4. UNCHANGED <<Coming, Going>>
    BY <2>1, <2>3 DEF Coming, Going
  <2>5. In!BusyFor' = In!BusyFor
    BY <2>1 DEF In!BusyFor, In!Left, In!is_transmitting
  <2>6. Out!BusyFor' = Out!BusyFor
    BY <2>1 DEF Out!BusyFor, Out!Left, Out!is_transmitting
  <2>7. NextIn' = NextIn
    BY <2>1, <2>3, <2>5 DEF NextIn
  <2>8. InLine!TypeOK /\ OutLine!TypeOK /\ InLine!LinkInv /\ OutLine!LinkInv
    BY LineFacts
  <2>9. InLine!TypeOK' /\ OutLine!TypeOK'
    BY <2>1, <2>4, <2>8 DEF InLine!TypeOK, OutLine!TypeOK
  <2>10. UNCHANGED InLine!vars /\ UNCHANGED OutLine!vars
    BY <2>1, <2>4 DEF InLine!vars, InLine!uartVars, OutLine!vars, OutLine!uartVars
  <2>11. InLine!LinkInv'
    BY <2>8, <2>9, <2>10, LineAssumptions, InLine!LinkStep
  <2>12. OutLine!LinkInv'
    BY <2>8, <2>9, <2>10, LineAssumptions, OutLine!LinkStep
  <2>13. In!LinkInv' /\ Out!LinkInv'
    BY <2>11, <2>12, LinesAreNext
  <2>14. Paced'
    BY <2>1, <2>3, <2>5 DEF EchoInv, Paced
  <2>15. RESET' => InReset'
    BY <2>1, <2>3 DEF EchoInv, InReset
  <2>16. ~RESET' => Empty' \/ Stored' \/ Fetched' \/ Queued'
    <3>1. /\ NoneIn(rx_fifo)' <=> NoneIn(rx_fifo)
          /\ NoneIn(tx_fifo)' <=> NoneIn(tx_fifo)
          /\ OneIn(rx_fifo, Head(owed))' <=> OneIn(rx_fifo, Head(owed))
          /\ OneIn(tx_fifo, Head(owed))' <=> OneIn(tx_fifo, Head(owed))
      BY <2>1 DEF NoneIn, OneIn
    <3>2. Empty => Empty'
      BY <2>1, <2>3, <2>6, <2>7, <3>1 DEF Empty
    <3>3. Waiting(2, 1) => Waiting(2, 1)'
      BY <2>1, <2>3, <2>6 DEF Waiting
    <3>4. Waiting(1, 2) => Waiting(1, 2)'
      BY <2>1, <2>3, <2>6 DEF Waiting
    <3>5. Waiting(0, IF tx_fifo_pop THEN 4 ELSE 3) => Waiting(0, IF tx_fifo_pop THEN 4 ELSE 3)'
      BY <2>1, <2>3, <2>6 DEF Waiting
    <3>6. (Stored => Stored') /\ (Fetched => Fetched') /\ (Queued => Queued')
      BY <2>1, <3>1, <3>3, <3>4, <3>5 DEF Stored, Fetched, Queued
    <3>7. QED
      BY <2>1, <3>2, <3>6 DEF EchoInv
  <2>17. QED
    BY <2>2, <2>13, <2>14, <2>15, <2>16 DEF EchoInv
<1>3. QED
  BY <1>1, <1>2, NextIsAllowed

(* Where each byte owed is: the strengthening holds, with every register   *)
(* in its range and the register of the echo holding a byte that is sent.  *)
LEMMA EchoInductive ==
  ASSUME PeerGap >= 44 * ClockDivide + 2
  PROVE  Spec => [](TypeOK /\ tx_byte \in Data /\ EchoInv)
<1>1. TypeOK /\ tx_byte \in Data /\ EchoInv /\ [Next]_vars
        => (TypeOK /\ tx_byte \in Data /\ EchoInv)'
  BY EchoKept
<1>2. QED
  BY <1>1, EchoInit, PTL DEF Spec

(* The registers of both UARTs and of the port keep their ranges, and the  *)
(* bytes owed their bound, for a station that leaves a frame and two edges *)
(* from byte to byte: the FIFOs hold bytes that were sent, so they are     *)
(* in Data only as long as what is received is.                            *)
THEOREM EchoTypeCorrect ==
  ASSUME PeerGap >= 44 * ClockDivide + 2
  PROVE  Spec => []TypeOK
BY EchoInductive, PTL

(* Each byte owed is on a line, or alone in the port at a stage of its     *)
(* own, and the transmitter is free by the time it needs it.               *)
THEOREM EchoInvariant ==
  ASSUME PeerGap >= 44 * ClockDivide + 2
  PROVE  Spec => []EchoInv
BY EchoInductive, PTL

(* The flags of the two FIFOs tell what their pointers say, from the reset *)
(* on: no push or pop of the four blocks comes when the flags do not       *)
(* survive it.                                                             *)
THEOREM EchoFlagsHonest ==
  ASSUME PeerGap >= 44 * ClockDivide + 2
  PROVE  Spec => []FlagsHonest
<1>1. ASSUME NEW f \in FifoRegs, NEW b, NoneIn(f) \/ OneIn(f, b)
      PROVE  Honest(f)
  <2>1. f.read_ptr \in Address
    BY DEF FifoRegs
  <2>2. NextPtr(f.read_ptr) # f.read_ptr
    BY <2>1, FifoAssumption DEF NextPtr, Address
  <2>3. QED
    BY <1>1, <2>2 DEF NoneIn, OneIn, Honest
<1>2. TypeOK /\ EchoInv => FlagsHonest
  <2> SUFFICES ASSUME TypeOK, EchoInv, ~RESET PROVE Honest(tx_fifo) /\ Honest(rx_fifo)
    BY DEF FlagsHonest
  <2>1. tx_fifo \in FifoRegs /\ rx_fifo \in FifoRegs
    BY DEF TypeOK, PortType
  <2>2. /\ NoneIn(rx_fifo) \/ OneIn(rx_fifo, Head(owed))
        /\ NoneIn(tx_fifo) \/ OneIn(tx_fifo, Head(owed))
    BY DEF EchoInv, Empty, Stored, Fetched, Queued
  <2>3. QED
    BY <1>1, <2>1, <2>2
<1>3. QED
  BY <1>2, EchoInductive, PTL

(* The station hears the bytes it sent, in their order, and neither UART   *)
(* ever signals an error.                                                  *)
THEOREM EchoCorrect ==
  ASSUME PeerGap >= 44 * ClockDivide + 2
  PROVE  Spec => []EchoesInOrder
<1>1. TypeOK /\ EchoInv => EchoesInOrder
  <2> SUFFICES ASSUME TypeOK, EchoInv PROVE EchoesInOrder
    OBVIOUS
  <2>1. Peer!received => owed # <<>> /\ peer_rxu.data = Head(owed)
    BY LineFacts, OnLinesAreOwed
  <2>2. In!LinkInv /\ Out!LinkInv
    BY DEF EchoInv
  <2>3. ~recv_error
    BY <2>2 DEF recv_error, RX_ERROR, In!LinkInv, In!UnderWay, In!Arrived, In!NoFrame,
         In!RX_IDLE, In!RX_CHECK_START, In!RX_READ_BITS, In!RX_CHECK_STOP,
         In!RX_DELAY_RESTART, In!RX_ERROR, In!RX_RECEIVED
  <2>4. ~Peer!recv_error
    BY <2>2 DEF Peer!recv_error, Peer!RX_ERROR, Out!LinkInv, Out!UnderWay, Out!Arrived,
         Out!NoFrame, Out!RX_IDLE, Out!RX_CHECK_START, Out!RX_READ_BITS, Out!RX_CHECK_STOP,
         Out!RX_DELAY_RESTART, Out!RX_ERROR, Out!RX_RECEIVED
  <2>5. QED
    BY <2>1, <2>3, <2>4 DEF EchoesInOrder
<1>2. QED
  BY <1>1, EchoInductive, PTL
=============================================================================
