--------------------------------- MODULE Board ---------------------------------
(***************************************************************************)
(* The step button of the board (xc6lx9_minispartanp.v): two synchronising *)
(* registers, a free-running timer that samples the button once in Period  *)
(* edges, and an edge detector that pulses r_button_event, the core's       *)
(* i_step.  The button may bounce: PORTC3 is free at every edge.            *)
(***************************************************************************)
EXTENDS Integers

CONSTANT Period          \* 2 ^ PORTC3_LGWAIT: 65536

ASSUME BoardAssumption == Period \in Nat \ {0, 1}

VARIABLES
  sync_pipe, r_button_state,     \* the synchroniser
  timer,
  o_debounced,                   \* the button as last sampled
  r_last, r_button_event,        \* the edge detector
  since,                         \* history: edges since r_button_event was last up
  steady                         \* history: PORTC3 and how long it has been so

vars == <<sync_pipe, r_button_state, timer, o_debounced, r_last, r_button_event,
          since, steady>>

\* Bounds of the two history counters.
Far  == 2 * Period
Long == Period + 2

Min(i, j) == IF i < j THEN i ELSE j

BoardInit ==
  /\ sync_pipe = FALSE /\ r_button_state = FALSE
  /\ timer = Period - 1
  /\ o_debounced = FALSE /\ r_last = FALSE /\ r_button_event = FALSE

Init ==
  /\ BoardInit
  /\ since = Far
  /\ steady = [level |-> FALSE, edges |-> Long]

Sync(PORTC3) == sync_pipe' = PORTC3 /\ r_button_state' = sync_pipe

CountDownBelowZero == timer' = timer - 1                          \* mutant

\* timer is PORTC3_LGWAIT bits wide.
CountDown == timer' = IF timer = 0 THEN Period - 1 ELSE timer - 1

SampleNoRelease ==                                                \* mutant
  /\ CountDown
  /\ o_debounced' = IF timer = 0 THEN o_debounced \/ r_button_state ELSE o_debounced

Sample ==
  /\ CountDown
  /\ o_debounced' = IF timer = 0 THEN r_button_state ELSE o_debounced

DetectLevel ==                                                    \* mutant
  r_last' = o_debounced /\ r_button_event' = o_debounced

Detect ==
  /\ r_last' = o_debounced
  /\ r_button_event' = (o_debounced /\ ~r_last)

BoardTick(PORTC3) == Sync(PORTC3) /\ Sample /\ Detect

Edge(PORTC3) ==
  /\ BoardTick(PORTC3)
  /\ since' = IF r_button_event THEN 1 ELSE Min(since + 1, Far)
  /\ steady' = [level |-> PORTC3,
                edges |-> IF PORTC3 = steady.level THEN Min(steady.edges + 1, Long)
                                                   ELSE 1]

Next == \E PORTC3 \in BOOLEAN : Edge(PORTC3)

Spec == Init /\ [][Next]_vars
-----------------------------------------------------------------------------
TypeOK ==
  /\ sync_pipe \in BOOLEAN /\ r_button_state \in BOOLEAN
  /\ o_debounced \in BOOLEAN /\ r_last \in BOOLEAN /\ r_button_event \in BOOLEAN
  /\ timer \in 0 .. Period - 1
  /\ since \in 1 .. Far
  /\ steady \in [level : BOOLEAN, edges : 1 .. Long]

(* However the button bounces, two step pulses are at least two sampling   *)
(* periods apart: an instruction stepped by one is over before the next.   *)
PulsesApart == r_button_event => since = Far

(* The strengthening behind PulsesApart: the detector moves only in the two *)
(* edges after a sample, and since is known to within a sampling period.   *)
PulsesInv ==
  /\ PulsesApart
  /\ r_button_event => o_debounced /\ timer = Period - 2
  /\ ~(r_last <=> o_debounced) => timer = Period - 1
  /\ ~o_debounced => since >= 2 * Period - 2 - timer
  /\ o_debounced /\ ~r_last => since >= 2 * Period - 1
  /\ o_debounced /\ ~r_button_event => since >= Period - 2 - timer

(* A level held for a period and the two edges of the synchroniser is the  *)
(* debounced level: no press is missed, and no release.                    *)
HeldIsSeen == steady.edges = Long => o_debounced = steady.level

(* The strengthening behind HeldIsSeen: the level travels through the two  *)
(* registers, and is the debounced one once a sample has been taken of it. *)
HeldInv ==
  /\ sync_pipe = steady.level
  /\ steady.edges >= 2 => r_button_state = steady.level
  /\ steady.edges >= Period + 2 - timer => o_debounced = steady.level
=============================================================================
