------------------------------- MODULE FifoQueue -------------------------------
(* What a FIFO promises its client: a bounded queue.  An edge serves the    *)
(* inputs it samples; a push is ignored when there is no room, a pop when   *)
(* there is nothing, and the flags and the output tell the queue's state.   *)
EXTENDS Sequences, Integers

CONSTANTS Depth, Data

VARIABLES
  queue,     \* what has been pushed and not yet popped, oldest first
  EMPTY,
  FULL,
  out,       \* DATA_OUT, with ENABLE up: the oldest value, or anything when EMPTY
  in         \* the inputs the last edge has sampled

Inputs == [RESET : BOOLEAN, ENABLE : BOOLEAN, FLUSH : BOOLEAN,
           PUSH : BOOLEAN, POP : BOOLEAN, DATA_IN : Data]

Popped(q, i) == IF i.POP /\ q # <<>> THEN Tail(q) ELSE q
Pushed(q, i) == IF i.PUSH THEN <<i.DATA_IN>> ELSE <<>>

Serve(q, i) ==
  CASE i.RESET \/ i.FLUSH \/ ~i.ENABLE -> <<>>
    [] OTHER -> IF Len(q) = Depth THEN Popped(q, i)
                                  ELSE Popped(q, i) \o Pushed(q, i)

\* What the outputs say of the queue.
Shown ==
  /\ EMPTY <=> queue = <<>>
  /\ FULL <=> Len(queue) = Depth
  /\ out \in Data
  /\ queue # <<>> => out = Head(queue)

Init == queue = <<>> /\ in \in Inputs /\ Shown

Next ==
  /\ in' \in Inputs
  /\ queue' = Serve(queue, in')
  /\ Shown'

Spec == Init /\ [][Next]_<<queue, EMPTY, FULL, out, in>>
=============================================================================
