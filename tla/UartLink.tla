------------------------------- MODULE UartLink -------------------------------
(***************************************************************************)
(* Two stations on a serial line: the transmitter of one drives the        *)
(* receiver of the other.  Their clocks are their own, so now and then one *)
(* of them has an edge the other has not, at most Slips times per frame;   *)
(* and the idle line may be pulled low for less than half a bit.           *)
(***************************************************************************)
EXTENDS Uart

CONSTANTS
  Bytes,       \* the bytes that are sent
  Slips,       \* edges by which the clocks may drift during a frame
  Glitches,    \* how many times noise pulls the idle line low
  GlitchEdges  \* for how many edges at most

ASSUME LinkAssumption ==
  /\ Bytes \subseteq Byte
  /\ Slips \in Nat /\ Glitches \in Nat /\ GlitchEdges \in Nat

VARIABLES
  sent,        \* history: the byte under way, or NoByte
  slips,       \* drift left for this frame
  noise,       \* glitches left
  pull         \* edges for which noise still holds the line low

vars == <<uartVars, sent, slips, noise, pull>>

NoByte == 256

Init ==
  /\ UartInit
  /\ sent = NoByte /\ slips = Slips /\ noise = Glitches /\ pull = 0

Line == IF pull > 0 THEN 0 ELSE txu.out

\* A byte is sent when the transmitter is idle and the line has been clean for
\* long enough for the receiver to be idle too.
CanSend == ~is_transmitting /\ pull = 0 /\ rxu.state = RX_IDLE

Quiet == ~is_transmitting /\ rxu.state = RX_IDLE /\ pull = 0

\* The receiving station takes the byte while received is up.
Taken == IF received THEN NoByte ELSE sent

Both ==         \* an edge of both clocks
  /\ UartTick(FALSE, Line, FALSE, 0)
  /\ sent' = Taken
  /\ pull' = IF pull > 0 THEN pull - 1 ELSE 0
  /\ UNCHANGED <<slips, noise>>

Send ==         \* the transmitting station sends a byte
  /\ CanSend
  /\ \E b \in Bytes : UartTick(FALSE, Line, TRUE, b) /\ sent' = b
  /\ slips' = Slips
  /\ UNCHANGED <<noise, pull>>

TxAlone ==      \* an edge of the transmitting station only
  /\ slips > 0 /\ is_transmitting
  /\ TxTick(FALSE, FALSE, 0)
  /\ slips' = slips - 1
  /\ UNCHANGED <<rxu, sent, noise, pull>>

RxAlone ==      \* an edge of the receiving station only
  /\ slips > 0 /\ is_transmitting
  /\ RxTick(FALSE, Line)
  /\ sent' = Taken
  /\ slips' = slips - 1
  /\ UNCHANGED <<txu, noise, pull>>

Glitch ==       \* noise pulls the idle line low
  /\ Quiet /\ noise > 0
  /\ pull' \in 1 .. GlitchEdges
  /\ noise' = noise - 1
  /\ UNCHANGED <<uartVars, sent, slips>>

Next == Both \/ Send \/ TxAlone \/ RxAlone \/ Glitch

Spec     == Init /\ [][Next]_vars
FairSpec == Spec /\ WF_vars(Both)           \* both clocks keep running
-----------------------------------------------------------------------------
TypeOK ==
  /\ txu \in TxType
  /\ rxu \in RxType
  /\ sent \in Bytes \cup {NoByte}
  /\ slips \in 0 .. Slips
  /\ noise \in 0 .. Glitches
  /\ pull \in 0 .. GlitchEdges

(* A byte is announced only while one is under way, and it is that byte,   *)
(* for all the drift and noise the line has seen.                          *)
ReceivesWhatWasSent == received => rxu.data = sent

(* The two stop bits give the receiver time: when the transmitter can take *)
(* another byte, the last one has been received.                           *)
DeliveredBeforeNext == ~is_transmitting => sent = NoByte

(* The receiver signals an error only after noise.                         *)
ErrorsComeFromNoise == recv_error => noise < Glitches

-----------------------------------------------------------------------------
(* The strengthening behind the three invariants: where the two machines   *)
(* are in the frame, in edges, and what has crossed the line.              *)

\* Edges until a machine's countdown is over.
Left(u) == (u.countdown - 1) * ClockDivide + u.clk_divider

\* The bit on the line (0 the start bit, 9 the stop bits) and the edges until
\* the next one; the second stop bit counts on below zero.
OnLine == IF txu.state = TX_SENDING THEN 8 - txu.bits ELSE 9
TxLeft == IF txu.state = TX_SENDING THEN Left(txu) ELSE Left(txu) - 4 * ClockDivide

\* Edges until the transmitter is idle again.
BusyFor ==
  IF ~is_transmitting THEN 0
  ELSE Left(txu) + IF txu.state = TX_SENDING THEN (4 * txu.bits + 8) * ClockDivide ELSE 0

\* The bit the receiver will sample next and the edges until it does.
Awaited == IF rxu.state \in {RX_IDLE, RX_CHECK_START} THEN 0
           ELSE IF rxu.state = RX_READ_BITS THEN 9 - rxu.bits ELSE 9
RxLeft  == IF rxu.state = RX_IDLE THEN 2 * ClockDivide + 1
           ELSE IF rxu.state = RX_RECEIVED THEN 0 ELSE Left(rxu)

\* The drift so far is no more than the slips used up.
Drifted(edges) == edges <= Slips - slips /\ -edges <= Slips - slips

\* The receiver waits for the middle of the bit on the line, or has sampled
\* that and waits for the middle of the next.
InStep ==
  \/ Awaited = OnLine /\ Drifted(2 * ClockDivide - 1 + RxLeft - TxLeft)
  \/ Awaited = OnLine + 1 /\ Drifted(RxLeft - TxLeft - 1 - 2 * ClockDivide)

Power(n) == <<1, 2, 4, 8, 16, 32, 64, 128, 256>>[n + 1]

\* The transmitter holds the bits still to come below the one on the line, the
\* receiver the bits that have come above those it still awaits.
TxHolds ==
  txu.state = TX_SENDING =>
    LET n == 8 - txu.bits
    IN  /\ txu.data = sent \div Power(n)
        /\ txu.out = IF n = 0 THEN 0 ELSE (sent \div Power(n - 1)) % 2
RxHolds ==
  /\ rxu.state = RX_READ_BITS => rxu.data \div Power(rxu.bits) = sent % Power(8 - rxu.bits)
  /\ rxu.state \in {RX_CHECK_STOP, RX_RECEIVED} => rxu.data = sent

\* The countdowns that the states start with have not run out.
TxCounting ==
  /\ txu.state = TX_SENDING => txu.countdown \in 1 .. 4
  /\ txu.state = TX_DELAY_RESTART => txu.countdown \in 1 .. 8
  /\ txu.state # TX_SENDING => txu.out = 1
RxCounting ==
  /\ rxu.state = RX_CHECK_START => rxu.countdown \in 1 .. 2
  /\ rxu.state \in {RX_READ_BITS, RX_CHECK_STOP} => rxu.countdown \in 1 .. 4
  /\ rxu.state = RX_READ_BITS => rxu.bits \in 1 .. 8
  /\ rxu.state = RX_DELAY_RESTART => rxu.countdown \in 1 .. 8

UnderWay ==     \* a byte is on its way
  /\ sent # NoByte /\ is_transmitting /\ pull = 0
  /\ rxu.state \in {RX_IDLE, RX_CHECK_START, RX_READ_BITS, RX_CHECK_STOP, RX_RECEIVED}
  /\ InStep /\ TxHolds /\ RxHolds

Arrived ==      \* it has been taken, and the stop bits go on
  /\ sent = NoByte /\ txu.state = TX_DELAY_RESTART /\ pull = 0
  /\ rxu.state = RX_IDLE

NoFrame ==      \* the line is idle, but for noise
  /\ sent = NoByte /\ ~is_transmitting
  /\ rxu.state \in {RX_IDLE, RX_CHECK_START, RX_ERROR, RX_DELAY_RESTART}
  /\ rxu.state # RX_IDLE \/ pull > 0 => noise < Glitches
  /\ rxu.state = RX_CHECK_START => pull < Left(rxu)
  /\ rxu.state \in {RX_ERROR, RX_DELAY_RESTART} => pull = 0

LinkInv == TxCounting /\ RxCounting /\ (UnderWay \/ Arrived \/ NoFrame)
-----------------------------------------------------------------------------
(* Every byte that is sent arrives.                                        *)
Delivers == sent # NoByte ~> sent = NoByte
=============================================================================
