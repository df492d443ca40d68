--------------------------------- MODULE Fifo ---------------------------------
(***************************************************************************)
(* The synchronous FIFO (fifo.v) as functions of its registers and inputs: *)
(* one operator per always block, FifoTick for a whole clock edge.  The    *)
(* registers are a record f, the inputs of an edge a record i, so that     *)
(* UartFifo can hold two FIFOs and FifoClient can drive one by itself.     *)
(***************************************************************************)
EXTENDS Integers

CONSTANTS
  Depth,     \* ADDR_DEPTH: 256 in uart_fifo.v
  Data       \* the values DATA_IN can carry

ASSUME FifoAssumption ==
  /\ Depth \in Nat \ {0, 1}
  /\ 0 \in Data

Address == 0 .. Depth - 1

FifoRegs == [write_ptr : Address, read_ptr : Address, EMPTY : BOOLEAN,
             FULL : BOOLEAN, memory : [Address -> Data]]

FifoInputs == [RESET : BOOLEAN, ENABLE : BOOLEAN, FLUSH : BOOLEAN,
               PUSH : BOOLEAN, POP : BOOLEAN, DATA_IN : Data]

\* What RESET leaves in the registers.
FifoInit == [write_ptr |-> 0, read_ptr |-> 0, EMPTY |-> TRUE, FULL |-> FALSE,
             memory |-> [a \in Address |-> 0]]
-----------------------------------------------------------------------------
NoWrapPtr(ptr) == ptr + 1                                         \* mutant
NextPtr(ptr)   == IF ptr = Depth - 1 THEN 0 ELSE ptr + 1

WriteIgnoringFull(f, i) == i.ENABLE /\ i.PUSH                     \* mutant

\* A push at the same time as a pop is accepted when FULL, and a pop at the
\* same time as a push when EMPTY.
AcceptWrite(f, i) ==
  /\ i.ENABLE /\ i.PUSH
  /\ (~i.FLUSH /\ ~f.FULL) \/ i.POP

AcceptRead(f, i) ==
  /\ i.ENABLE /\ i.POP
  /\ (~i.FLUSH /\ ~f.EMPTY) \/ i.PUSH

DataOutNext(f, enable) ==                                         \* mutant
  IF enable THEN f.memory[NextPtr(f.read_ptr)] ELSE 0

DataOut(f, enable) == IF enable THEN f.memory[f.read_ptr] ELSE 0

\* RESET, FLUSH or a low ENABLE puts pointers and flags back; only the first
\* two clear the memory.
Cleared(i) == i.RESET \/ ~i.ENABLE \/ i.FLUSH

EmptyLatePtr(f, i) ==                                             \* mutant
  IF AcceptRead(f, i) /\ f.read_ptr = f.write_ptr THEN TRUE
  ELSE f.EMPTY /\ ~AcceptWrite(f, i)

EmptyTick(f, i) ==
  IF AcceptRead(f, i) /\ NextPtr(f.read_ptr) = f.write_ptr THEN TRUE
  ELSE f.EMPTY /\ ~AcceptWrite(f, i)

FullTick(f, i) ==
  IF AcceptWrite(f, i) /\ NextPtr(f.write_ptr) = f.read_ptr THEN TRUE
  ELSE f.FULL /\ ~AcceptRead(f, i)

MemoryTick(f, i) ==
  CASE i.RESET \/ (i.ENABLE /\ i.FLUSH) -> [a \in Address |-> 0]
    [] ~i.RESET /\ ~i.FLUSH /\ AcceptWrite(f, i) ->
         [f.memory EXCEPT ![f.write_ptr] = i.DATA_IN]
    [] OTHER -> f.memory

FifoTick(f, i) ==
  [write_ptr |-> IF Cleared(i) THEN 0
                 ELSE IF AcceptWrite(f, i) THEN NextPtr(f.write_ptr) ELSE f.write_ptr,
   read_ptr  |-> IF Cleared(i) THEN 0
                 ELSE IF AcceptRead(f, i) THEN NextPtr(f.read_ptr) ELSE f.read_ptr,
   EMPTY     |-> Cleared(i) \/ EmptyTick(f, i),
   FULL      |-> ~Cleared(i) /\ FullTick(f, i),
   memory    |-> MemoryTick(f, i)]
=============================================================================
