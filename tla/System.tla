-------------------------------- MODULE System --------------------------------
(***************************************************************************)
(* The whole board (xc6lx9_minispartanp.v): the step button, the core and  *)
(* the serial port on one clock.  The core's i_step is the debouncer's     *)
(* r_button_event, its i_reset the top level's r_top_reset, and what a     *)
(* WRITE retires goes to the port's tx_fifo.  The button is free at every  *)
(* edge; the core's own environment (StepAllowed) is not assumed here but  *)
(* shown to be what the board provides.                                    *)
(***************************************************************************)
EXTENDS PrcoCoreArch, Sequences

CONSTANTS
  Period,        \* edges between two samples of the button (Board)
  ClockDivide,   \* edges in a quarter of a bit (Uart)
  Depth          \* places in each of the port's FIFOs (Fifo)

ASSUME SystemAssumption ==
  /\ MaxResetCycles = 1     \* r_top_reset falls at the first edge
  /\ Period \in Nat \ {0, 1}
  /\ ClockDivide \in 1 .. 2047
  /\ Depth \in Nat \ {0, 1}

VARIABLES
  sync_pipe, r_button_state, timer, o_debounced, r_last, r_button_event,   \* Board
  txu, rxu, tx_fifo, rx_fifo, tx_fifo_pop,                                 \* UartFifo
  q_UART1_tx_data,     \* prco_io: the byte of the last WRITE
  owed                 \* history: bytes the port has taken and not begun to send

buttonVars == <<sync_pipe, r_button_state, timer, o_debounced, r_last, r_button_event>>

\* The histories of Board are not kept here.
B == INSTANCE Board WITH since <- 0, steady <- 0
U == INSTANCE UartFifo WITH Data <- 0 .. 255

svars == <<avars, buttonVars, U!portVars, q_UART1_tx_data, owed>>

SystemInit ==
  /\ InitArch
  /\ B!BoardInit
  /\ U!UartFifoInit
  /\ q_UART1_tx_data = 0
  /\ owed = <<>>

Byte8 == alu.q_result % 256

IoTick ==
  q_UART1_tx_data' = IF ctl.q_new_uart1_data /\ regs.q_ce_fetch
                     THEN Byte8 ELSE q_UART1_tx_data

\* uart_rx is a wire that nothing drives and that nobody reads a byte from; it
\* is taken to be at the idle level.
Undriven == 1

SystemTick(PORTC3) ==
  LET transmit == uart_transmit(tx_fifo.FULL)
      rest     == IF U!Begins /\ owed # <<>> THEN Tail(owed) ELSE owed
  IN  /\ ArchTick(r_button_event, tx_fifo.FULL)
      /\ B!BoardTick(PORTC3)
      /\ U!UartFifoTick(i_reset, Undriven, transmit, Byte8, FALSE)
      /\ IoTick
      /\ owed' = IF transmit THEN Append(rest, Byte8) ELSE rest

SystemNext == \E PORTC3 \in BOOLEAN : SystemTick(PORTC3)

SystemSpec     == SystemInit /\ [][SystemNext]_svars
FairSystemSpec == SystemSpec /\ WF_svars(SystemNext)     \* the clock never stops
-----------------------------------------------------------------------------
SystemTypeOK ==
  /\ TypeOK
  /\ sync_pipe \in BOOLEAN /\ r_button_state \in BOOLEAN /\ timer \in 0 .. Period - 1
  /\ o_debounced \in BOOLEAN /\ r_last \in BOOLEAN /\ r_button_event \in BOOLEAN
  /\ U!PortType
  /\ q_UART1_tx_data \in 0 .. 255
  /\ owed \in Seq(0 .. 255)

(* Stepping, every press of the button issues exactly one instruction, and *)
(* nothing but a press does: no press finds the core still busy with the   *)
(* last one, and a bouncing or held button does not step twice.            *)
OnePerPress ==
  [][env.i_mode = 1 /\ ~ctl.q_halt => (core'.q_ce <=> r_button_event)]_svars

\* How many edges are left of StepGap, from where the timer and the detector
\* stand: PulsesInv of Board for the core's own count.
Paced ==
  /\ r_button_event => env.wait = 0 /\ o_debounced /\ timer = Period - 2
  /\ ~(r_last <=> o_debounced) => timer = Period - 1
  /\ ~o_debounced => env.wait <= timer + 2
  /\ o_debounced /\ ~r_last => env.wait <= 1
  /\ o_debounced /\ ~r_button_event => env.wait <= Period + timer + 2

\* No press is seen before the core is out of reset.
QuietAtReset ==
  PhaseReset => ~o_debounced /\ ~r_button_event /\ (i_reset => timer = Period - 1)

\* Edges the transmitter needs to finish its frame, by the quarters of a bit
\* that are left of it, and the port to finish with all that it holds.
Frame    == 44 * ClockDivide
Quarters == IF txu.state = U!TX_SENDING THEN txu.countdown + 4 * txu.bits + 8
            ELSE txu.countdown
TxLeft   == IF U!is_transmitting THEN (Quarters - 1) * ClockDivide + txu.clk_divider ELSE 0
PortLeft == IF tx_fifo.EMPTY THEN TxLeft ELSE Frame + (IF tx_fifo_pop THEN 1 ELSE 2)

\* The port holds one byte at most, the only one that is owed, and is done with
\* it before the next press.
PortKeepsUp ==
  IF i_reset
  THEN tx_fifo = U!FifoPowerOn /\ ~tx_fifo_pop /\ ~U!is_transmitting /\ owed = <<>>
  ELSE /\ ~tx_fifo.FULL
       /\ U!is_transmitting => txu.countdown >= 1
       /\ IF tx_fifo.EMPTY
          THEN /\ owed = <<>> /\ tx_fifo.write_ptr = tx_fifo.read_ptr
               /\ tx_fifo_pop => U!is_transmitting
          ELSE /\ owed = <<tx_fifo.memory[tx_fifo.read_ptr]>>
               /\ tx_fifo.write_ptr = U!NextPtr(tx_fifo.read_ptr)
               /\ ~U!is_transmitting
       /\ PortLeft <= IF PhaseReady THEN env.wait ELSE 0

\* The two edges from a push to the start of its frame, the frame, and the
\* eleven edges that an instruction takes at most fit between two presses.
FrameFits == StepGap >= Frame + 13

(* The strengthening behind OnePerPress, RefinesMachine when stepping and  *)
(* SendsInOrder: button, core and port keep time with each other, so that  *)
(* a press finds the core at rest with nothing stale in its registers, and *)
(* the port done with the last byte.                                       *)
StepInv ==
  /\ Paced /\ QuietAtReset /\ Stepped /\ DataHeld
  /\ FrameFits => PortKeepsUp

(* The board is the environment the core was checked with: its step pulses *)
(* are as far apart as PrcoCore's StepGap asks.                            *)
RefinesCore == SpecArch

(* What the transmitter begins is the oldest byte a WRITE has handed to    *)
(* the port: none is lost, repeated, overtaken or made up.                 *)
SendsInOrder ==
  [][U!Begins => owed # <<>> /\ txu'.data = Head(owed)]_svars

(* Every byte a WRITE has handed to the port is begun in the end.          *)
SendsAll == []<>(owed = <<>>)
=============================================================================
