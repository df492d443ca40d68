------------------------------- MODULE UartFifo -------------------------------
(***************************************************************************)
(* The buffered serial port (uart_fifo.v): the UART with a FIFO in front of *)
(* its transmitter and one behind its receiver.  As in the netlist, every   *)
(* block reads the others' registers as they were before the edge.  It is   *)
(* driven by the core (System) and by uart_echo (Echo).                     *)
(***************************************************************************)
EXTENDS Uart, Fifo

ASSUME UartFifoAssumption == Data \subseteq Byte

VARIABLES
  tx_fifo,
  rx_fifo,
  tx_fifo_pop

portVars == <<uartVars, tx_fifo, rx_fifo, tx_fifo_pop>>

\* Power-on: the FIFOs' registers have no initial value and hold 0.
FifoPowerOn == [FifoInit EXCEPT !.EMPTY = FALSE]

UartFifoInit ==
  /\ UartInit
  /\ tx_fifo = FifoPowerOn /\ rx_fifo = FifoPowerOn
  /\ tx_fifo_pop = FALSE
-----------------------------------------------------------------------------
FifoPorts(rst, push, pop, data) ==
  [RESET |-> rst, ENABLE |-> TRUE, FLUSH |-> FALSE,
   PUSH |-> push, POP |-> pop, DATA_IN |-> data]

PopWhenBusy == is_transmitting /\ ~tx_fifo.EMPTY                  \* mutant
PopWhenIdle == ~is_transmitting /\ ~tx_fifo.EMPTY

UartFifoTick(rst, line, transmit, tx_byte, rx_fifo_pop) ==
  /\ UartTick(rst, line, tx_fifo_pop, DataOut(tx_fifo, TRUE))
  /\ tx_fifo' = FifoTick(tx_fifo, FifoPorts(rst, transmit, tx_fifo_pop, tx_byte))
  /\ rx_fifo' = FifoTick(rx_fifo, FifoPorts(rst, received, rx_fifo_pop, rxu.data))
  /\ tx_fifo_pop' = (~rst /\ PopWhenIdle)

\* The transmitter begins a byte on this edge.
Begins == ~is_transmitting /\ is_transmitting'
-----------------------------------------------------------------------------
PortType ==
  /\ txu \in TxType /\ rxu \in RxType
  /\ tx_fifo \in FifoRegs /\ rx_fifo \in FifoRegs
  /\ tx_fifo_pop \in BOOLEAN

\* Once reset, the pointers of a FIFO meet when a flag says so, and only then:
\* a value popped that was not there drives them apart behind a raised EMPTY.
Honest(f) == f.write_ptr = f.read_ptr <=> f.EMPTY \/ f.FULL
=============================================================================
