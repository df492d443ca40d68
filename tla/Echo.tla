--------------------------------- MODULE Echo ---------------------------------
(***************************************************************************)
(* uart_echo.v, the FPGA top level that sends back every byte it receives, *)
(* and the station at the other end of its line, which has the same UART   *)
(* and the same clock: the station sends a byte, at least PeerGap edges    *)
(* after the last one, and listens to what comes back.                     *)
(***************************************************************************)
EXTENDS UartFifo, Sequences

CONSTANTS
  PeerGap,     \* edges from the start of one byte of the station to the next, at least
  MaxOwed      \* bound on the bytes under way

ASSUME EchoAssumption == PeerGap \in Nat \ {0} /\ MaxOwed \in Nat

VARIABLES
  RESET,       \* up for the first edge
  tx_byte, transmit, rx_fifo_pop,
  peer_txu, peer_rxu,     \* the station's UART
  wait,        \* the station: edges until it may send again
  owed         \* history: bytes the station has sent and not had back

vars == <<portVars, RESET, tx_byte, transmit, rx_fifo_pop, peer_txu, peer_rxu, wait, owed>>

Peer == INSTANCE Uart WITH txu <- peer_txu, rxu <- peer_rxu

Init ==
  /\ UartFifoInit /\ Peer!UartInit
  /\ RESET = TRUE
  /\ tx_byte = 0 /\ transmit = FALSE /\ rx_fifo_pop = FALSE
  /\ wait = 0 /\ owed = <<>>

EchoUnasked == ~tx_fifo.FULL /\ ~transmit                         \* mutant
MayEcho     == ~rx_fifo.EMPTY /\ ~tx_fifo.FULL /\ ~transmit

\* The block of uart_echo: a byte waiting is taken and sent back.
EchoTick ==
  LET echo == ~RESET /\ MayEcho
  IN  /\ tx_byte' = IF echo THEN DataOut(rx_fifo, TRUE) ELSE 0
      /\ transmit' = echo
      /\ rx_fifo_pop' = echo

\* One edge; the station sends byte when send is up.
Edge(send, byte) ==
  LET back == IF Peer!received /\ owed # <<>> THEN Tail(owed) ELSE owed
  IN  /\ EchoTick
      /\ UartFifoTick(RESET, peer_txu.out, transmit, tx_byte, rx_fifo_pop)
      /\ Peer!UartTick(FALSE, txu.out, send, byte)
      /\ RESET' = FALSE
      /\ wait' = IF send THEN PeerGap - 1 ELSE IF wait > 0 THEN wait - 1 ELSE 0
      /\ owed' = IF send THEN Append(back, byte) ELSE back

Send ==
  /\ ~RESET /\ wait = 0 /\ ~Peer!is_transmitting /\ Len(owed) < MaxOwed
  /\ \E b \in Data : Edge(TRUE, b)

Idle == Edge(FALSE, 0)

Next == Send \/ Idle

Spec     == Init /\ [][Next]_vars
FairSpec == Spec /\ WF_vars(Idle)              \* the clock never stops
-----------------------------------------------------------------------------
TypeOK ==
  /\ PortType
  /\ RESET \in BOOLEAN
  /\ tx_byte \in Byte /\ transmit \in BOOLEAN /\ rx_fifo_pop \in BOOLEAN
  /\ peer_txu \in TxType /\ peer_rxu \in RxType
  /\ wait \in 0 .. PeerGap - 1
  /\ owed \in Seq(Data) /\ Len(owed) <= MaxOwed

(* Neither FIFO of the port ever shows EMPTY over a byte it still holds:   *)
(* their pushes and pops, which come from four blocks, keep to what the    *)
(* flags survive.                                                          *)
FlagsHonest == ~RESET => Honest(tx_fifo) /\ Honest(rx_fifo)

(* What the station hears is the oldest byte it has not had back, and it   *)
(* is never told of an error: through two UARTs and two FIFOs no byte is   *)
(* lost, repeated, overtaken or changed.                                   *)
EchoesInOrder ==
  /\ Peer!received => owed # <<>> /\ peer_rxu.data = Head(owed)
  /\ ~Peer!recv_error /\ ~recv_error

-----------------------------------------------------------------------------
(* The strengthening behind the invariants: where each byte owed is, and   *)
(* how long the transmitter may still be busy with the one before.         *)

\* A byte is on the line to the echo, or on the line back.
Incoming == peer_txu.state = TX_SENDING \/ rxu.state # RX_IDLE
Outgoing == txu.state = TX_SENDING \/ peer_rxu.state # RX_IDLE

\* It is the last byte sent, or the oldest; 256 is no byte.
Coming == IF Incoming THEN owed[Len(owed)] ELSE 256
Going  == IF Outgoing THEN Head(owed) ELSE 256

\* Either direction is a line between equal clocks, without noise.
In  == INSTANCE UartLink WITH
         txu <- peer_txu, rxu <- rxu, sent <- Coming, slips <- 0, noise <- 0, pull <- 0,
         Bytes <- Byte, Slips <- 0, Glitches <- 0, GlitchEdges <- 0
Out == INSTANCE UartLink WITH
         txu <- txu, rxu <- peer_rxu, sent <- Going, slips <- 0, noise <- 0, pull <- 0,
         Bytes <- Byte, Slips <- 0, Glitches <- 0, GlitchEdges <- 0

\* Edges until the next byte can be received.
NextIn == IF Incoming THEN In!BusyFor - 6 * ClockDivide + 1
          ELSE wait + 38 * ClockDivide + 2

NoneIn(f)   == f.EMPTY /\ ~f.FULL /\ f.write_ptr = f.read_ptr
OneIn(f, b) == /\ ~f.EMPTY /\ ~f.FULL /\ f.write_ptr = NextPtr(f.read_ptr)
               /\ f.memory[f.read_ptr] = b

\* The stages of a byte on its way through the port, the edges for which the
\* transmitter may still be busy, and the edges since the byte was received.
Empty ==
  /\ NoneIn(rx_fifo) /\ NoneIn(tx_fifo)
  /\ ~transmit /\ ~rx_fifo_pop /\ (tx_fifo_pop => is_transmitting)
  /\ Len(owed) = (IF Incoming THEN 1 ELSE 0) + (IF Outgoing THEN 1 ELSE 0)
  /\ Out!BusyFor <= NextIn + 3

Waiting(busy, edges) ==
  /\ ~Incoming /\ ~Outgoing /\ Len(owed) = 1
  /\ Out!BusyFor <= busy
  /\ wait = PeerGap - 38 * ClockDivide - 2 - edges

Stored ==
  /\ OneIn(rx_fifo, Head(owed)) /\ NoneIn(tx_fifo)
  /\ ~transmit /\ ~rx_fifo_pop /\ ~tx_fifo_pop
  /\ Waiting(2, 1)

Fetched ==
  /\ OneIn(rx_fifo, Head(owed)) /\ NoneIn(tx_fifo)
  /\ transmit /\ rx_fifo_pop /\ ~tx_fifo_pop /\ tx_byte = Head(owed)
  /\ Waiting(1, 2)

Queued ==
  /\ NoneIn(rx_fifo) /\ OneIn(tx_fifo, Head(owed))
  /\ ~transmit /\ ~rx_fifo_pop
  /\ Waiting(0, IF tx_fifo_pop THEN 4 ELSE 3)

\* The station's pause runs from the start of its frame.
Paced == Peer!is_transmitting => wait + 44 * ClockDivide = In!BusyFor + PeerGap - 1

InReset == owed = <<>> /\ wait = 0 /\ ~Incoming /\ ~Outgoing /\ ~is_transmitting /\ ~tx_fifo_pop

(* Every byte owed is on one of the lines or alone in the port, and the    *)
(* transmitter is idle by the time the byte there wants it.                *)
EchoInv ==
  /\ In!LinkInv /\ Out!LinkInv /\ Paced
  /\ RESET => InReset
  /\ ~RESET => Empty \/ Stored \/ Fetched \/ Queued
-----------------------------------------------------------------------------
(* Every byte sent comes back: bytes keep coming as long as one is owed.   *)
EchoesAll == []<>(owed = <<>> \/ Peer!received)
=============================================================================
