--------------------------------- MODULE Uart ---------------------------------
(***************************************************************************)
(* The serial port (uart.v): a transmitter that shifts a byte out on tx and *)
(* a receiver that samples rx in the middle of each bit.  The source block  *)
(* assigns with "=", so the dividers and countdowns have already been       *)
(* stepped when the two state machines look at them.                        *)
(***************************************************************************)
EXTENDS Integers

CONSTANT ClockDivide       \* CLOCK_DIVIDE, edges in a quarter of a bit: 109

ASSUME UartAssumption == ClockDivide \in 1 .. 2047

Byte == 0 .. 255

RX_IDLE          == 0
RX_CHECK_START   == 1
RX_READ_BITS     == 2
RX_CHECK_STOP    == 3
RX_DELAY_RESTART == 4
RX_ERROR         == 5
RX_RECEIVED      == 6

TX_IDLE          == 0
TX_SENDING       == 1
TX_DELAY_RESTART == 2

VARIABLES
  txu,       \* tx_clk_divider, tx_countdown, tx_bits_remaining, tx_data, tx_out, tx_state
  rxu        \* rx_clk_divider, rx_countdown, rx_bits_remaining, rx_data, recv_state

uartVars == <<txu, rxu>>

TxType == [clk_divider : 1 .. ClockDivide, countdown : 0 .. 63, bits : 0 .. 8,
           data : Byte, out : {0, 1}, state : 0 .. 2]
RxType == [clk_divider : 1 .. ClockDivide, countdown : 0 .. 63, bits : 0 .. 8,
           data : Byte, state : 0 .. 6]

\* Power-on; the registers without an initial value hold 0.
UartInit ==
  /\ txu = [clk_divider |-> ClockDivide, countdown |-> 0, bits |-> 0, data |-> 0,
            out |-> 1, state |-> TX_IDLE]
  /\ rxu = [clk_divider |-> ClockDivide, countdown |-> 0, bits |-> 0, data |-> 0,
            state |-> RX_IDLE]

received        == rxu.state = RX_RECEIVED
recv_error      == rxu.state = RX_ERROR
is_transmitting == txu.state # TX_IDLE
-----------------------------------------------------------------------------
\* Divider and countdown, stepped at the start of the edge: the countdown is
\* six bits wide and goes on below zero.
Divided(u) == IF u.clk_divider = 1 THEN ClockDivide ELSE u.clk_divider - 1

Counted(u) == IF u.clk_divider = 1 THEN (u.countdown - 1) % 64 ELSE u.countdown

\* Where a state machine starts the edge from: rst puts it in state 0.
From(u, rst) == IF rst THEN 0 ELSE u.state

\* The registers after an edge on which a state machine is not idle: the
\* divider has been stepped, whatever the state.
TxMoved(state, countdown, bits, data, out) ==
  [clk_divider |-> Divided(txu), countdown |-> countdown, bits |-> bits, data |-> data,
   out |-> out, state |-> state]

RxMoved(state, countdown, bits, data) ==
  [clk_divider |-> Divided(rxu), countdown |-> countdown, bits |-> bits, data |-> data,
   state |-> state]
-----------------------------------------------------------------------------
\* Idle, a machine assigns its divider and countdown before it reads them: the
\* values they run through meanwhile are left out.
TxIdle(rst, transmit, tx_byte) ==
  /\ From(txu, rst) = TX_IDLE
  /\ txu' = IF transmit
            THEN [clk_divider |-> ClockDivide, countdown |-> 4, bits |-> 8,
                  data |-> tx_byte, out |-> 0, state |-> TX_SENDING]
            ELSE [txu EXCEPT !.state = TX_IDLE]

TxShiftPastLast(rst) ==                                           \* mutant
  /\ From(txu, rst) = TX_SENDING /\ Counted(txu) = 0 /\ txu.bits >= 0
  /\ txu' = TxMoved(TX_SENDING, 4, txu.bits - 1, txu.data \div 2, txu.data % 2)

TxShiftKeepsBits(rst) ==                                          \* mutant
  /\ From(txu, rst) = TX_SENDING /\ Counted(txu) = 0 /\ txu.bits > 0
  /\ txu' = TxMoved(TX_SENDING, 4, txu.bits, txu.data \div 2, txu.data % 2)

TxShift(rst) ==
  /\ From(txu, rst) = TX_SENDING /\ Counted(txu) = 0 /\ txu.bits > 0
  /\ txu' = TxMoved(TX_SENDING, 4, txu.bits - 1, txu.data \div 2, txu.data % 2)

TxStopAtOnce(rst) ==                                              \* mutant
  /\ From(txu, rst) = TX_SENDING /\ Counted(txu) = 0 /\ txu.bits = 0
  /\ txu' = TxMoved(TX_IDLE, 0, 0, txu.data, 1)

TxStop(rst) ==
  /\ From(txu, rst) = TX_SENDING /\ Counted(txu) = 0 /\ txu.bits = 0
  /\ txu' = TxMoved(TX_DELAY_RESTART, 8, 0, txu.data, 1)

TxRestart(rst) ==
  /\ From(txu, rst) = TX_DELAY_RESTART /\ Counted(txu) = 0
  /\ txu' = TxMoved(TX_IDLE, 0, txu.bits, txu.data, txu.out)

TxHold(rst) ==
  /\ From(txu, rst) # TX_IDLE /\ Counted(txu) # 0
  /\ txu' = TxMoved(txu.state, Counted(txu), txu.bits, txu.data, txu.out)

TxTick(rst, transmit, tx_byte) ==
  \/ TxIdle(rst, transmit, tx_byte)
  \/ TxShift(rst)
  \/ TxStop(rst)
  \/ TxRestart(rst)
  \/ TxHold(rst)
-----------------------------------------------------------------------------
RxIdle(rst, line) ==
  /\ From(rxu, rst) = RX_IDLE
  /\ rxu' = IF line = 0
            THEN [clk_divider |-> ClockDivide, countdown |-> 2, bits |-> rxu.bits,
                  data |-> rxu.data, state |-> RX_CHECK_START]
            ELSE [rxu EXCEPT !.state = RX_IDLE]

RxStart(rst, line) ==
  /\ From(rxu, rst) = RX_CHECK_START /\ Counted(rxu) = 0
  /\ rxu' = IF line = 0
            THEN RxMoved(RX_READ_BITS, 4, 8, rxu.data)
            ELSE RxMoved(RX_ERROR, 0, rxu.bits, rxu.data)

RxBitSampledEarly(rst, line) ==                                   \* mutant
  /\ From(rxu, rst) = RX_READ_BITS /\ Counted(rxu) = 0
  /\ rxu' = RxMoved(IF rxu.bits > 1 THEN RX_READ_BITS ELSE RX_CHECK_STOP, 3,
                    rxu.bits - 1, line * 128 + rxu.data \div 2)

RxBit(rst, line) ==
  /\ From(rxu, rst) = RX_READ_BITS /\ Counted(rxu) = 0
  /\ rxu' = RxMoved(IF rxu.bits > 1 THEN RX_READ_BITS ELSE RX_CHECK_STOP, 4,
                    rxu.bits - 1, line * 128 + rxu.data \div 2)

RxStopInverted(rst, line) ==                                      \* mutant
  /\ From(rxu, rst) = RX_CHECK_STOP /\ Counted(rxu) = 0
  /\ rxu' = RxMoved(IF line = 0 THEN RX_RECEIVED ELSE RX_ERROR, 0, rxu.bits, rxu.data)

RxStop(rst, line) ==
  /\ From(rxu, rst) = RX_CHECK_STOP /\ Counted(rxu) = 0
  /\ rxu' = RxMoved(IF line = 1 THEN RX_RECEIVED ELSE RX_ERROR, 0, rxu.bits, rxu.data)

RxError(rst) ==
  /\ From(rxu, rst) = RX_ERROR
  /\ rxu' = RxMoved(RX_DELAY_RESTART, 8, rxu.bits, rxu.data)

RxRestart(rst) ==
  /\ From(rxu, rst) = RX_DELAY_RESTART /\ Counted(rxu) = 0
  /\ rxu' = RxMoved(RX_IDLE, 0, rxu.bits, rxu.data)

RxReceived(rst) ==
  /\ From(rxu, rst) = RX_RECEIVED
  /\ rxu' = RxMoved(RX_IDLE, Counted(rxu), rxu.bits, rxu.data)

RxHold(rst) ==
  /\ From(rxu, rst) \in {RX_CHECK_START, RX_READ_BITS, RX_CHECK_STOP, RX_DELAY_RESTART}
  /\ Counted(rxu) # 0
  /\ rxu' = RxMoved(rxu.state, Counted(rxu), rxu.bits, rxu.data)

RxTick(rst, line) ==
  \/ RxIdle(rst, line)
  \/ RxStart(rst, line)
  \/ RxBit(rst, line)
  \/ RxStop(rst, line)
  \/ RxError(rst)
  \/ RxRestart(rst)
  \/ RxReceived(rst)
  \/ RxHold(rst)

UartTick(rst, line, transmit, tx_byte) ==
  TxTick(rst, transmit, tx_byte) /\ RxTick(rst, line)
=============================================================================
