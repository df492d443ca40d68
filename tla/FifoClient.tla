------------------------------ MODULE FifoClient ------------------------------
(***************************************************************************)
(* One FIFO and a client that drives its inputs.  count is a history       *)
(* variable: the number of accepted writes less that of accepted reads.    *)
(***************************************************************************)
EXTENDS Fifo, Sequences

CONSTANT Both     \* how many values may be held when the client pushes and pops at once

VARIABLES
  fifo,      \* the FIFO's registers
  in,        \* the inputs sampled by the last edge
  count      \* history: what the FIFO holds

vars == <<fifo, in, count>>

Quiet == [RESET |-> TRUE, ENABLE |-> TRUE, FLUSH |-> FALSE,
          PUSH |-> FALSE, POP |-> FALSE, DATA_IN |-> 0]

Init == fifo = FifoInit /\ in = Quiet /\ count = 0

One(cond) == IF cond THEN 1 ELSE 0

\* An edge with inputs i.
Edge(i) ==
  /\ in' = i
  /\ fifo' = FifoTick(fifo, i)
  /\ count' = IF Cleared(i) THEN 0
              ELSE count + One(AcceptWrite(fifo, i)) - One(AcceptRead(fifo, i))

\* The client may push and pop on one edge only at an occupancy in Both.  The
\* flags survive it in 2 .. Depth - 2 only: with one value held EMPTY rises
\* although one stays, with one place left FULL does, and when the FIFO is
\* empty or full the flag falls.
Allowed(i) == i.PUSH /\ i.POP /\ ~Cleared(i) => count \in Both

Next == \E i \in FifoInputs : Allowed(i) /\ Edge(i)
Spec == Init /\ [][Next]_vars
-----------------------------------------------------------------------------
TypeOK ==
  /\ fifo \in FifoRegs
  /\ in \in FifoInputs
  /\ count \in Int

(* EMPTY is up when, and only when, every accepted push has been popped.   *)
EmptyIsEmpty == fifo.EMPTY <=> count = 0

(* FULL is up when, and only when, every location is taken.                *)
FullIsFull == fifo.FULL <=> count = Depth

(* The flags tell the occupancy, and the pointers are that far apart: the  *)
(* invariant that makes a FIFO with equal pointers either empty or full.   *)
Occupancy ==
  /\ EmptyIsEmpty
  /\ FullIsFull
  /\ count \in 0 .. Depth
  /\ fifo.write_ptr - fifo.read_ptr \in {count, count - Depth}

(* Driven so, the FIFO is a bounded queue: nothing lost, nothing    *)
(* repeated, nothing out of order, and flags that never lie.               *)
Contents == [k \in 1 .. count |-> fifo.memory[(fifo.read_ptr + k - 1) % Depth]]

Queue == INSTANCE FifoQueue WITH
           queue <- Contents, EMPTY <- fifo.EMPTY, FULL <- fifo.FULL,
           out <- DataOut(fifo, TRUE), in <- in

RefinesQueue == Queue!Spec
=============================================================================
