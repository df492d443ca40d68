----------------------------- MODULE Board_proofs -----------------------------
(* The debouncer keeps the step pulses apart, for any sampling period and  *)
(* any bouncing of the button.                                             *)
EXTENDS Board, TLAPS

(* The debouncer's registers and the history counters keep their ranges.   *)
THEOREM BoardTypeCorrect == Spec => []TypeOK
<1>1. Init => TypeOK
  <2> SUFFICES ASSUME Init PROVE TypeOK
    OBVIOUS
  <2>1. steady \in [level : BOOLEAN, edges : 1 .. Long]
    BY BoardAssumption DEF BoardInit, Init, Long
  <2>2. timer \in 0 .. Period - 1 /\ since \in 1 .. Far
    BY BoardAssumption DEF BoardInit, Init, Far
  <2>3. QED
    BY <2>1, <2>2 DEF BoardInit, Init, TypeOK
<1>2. TypeOK /\ [Next]_vars => TypeOK'
  <2> SUFFICES ASSUME TypeOK, [Next]_vars PROVE TypeOK'
    OBVIOUS
  <2>1. CASE UNCHANGED vars
    BY <2>1 DEF vars, TypeOK
  <2>2. ASSUME NEW PORTC3 \in BOOLEAN, Edge(PORTC3) PROVE TypeOK'
    <3>1. sync_pipe' \in BOOLEAN /\ r_button_state' \in BOOLEAN
      BY <2>2 DEF BoardTick, Edge, Sync, TypeOK
    <3>2. timer' \in 0 .. Period - 1 /\ o_debounced' \in BOOLEAN
      BY <2>2, BoardAssumption DEF BoardTick, Edge, Sample, CountDown, TypeOK
    <3>3. r_last' \in BOOLEAN /\ r_button_event' \in BOOLEAN
      BY <2>2 DEF BoardTick, Edge, Detect, TypeOK
    <3>4. since' \in 1 .. Far
      BY <2>2, BoardAssumption DEF BoardTick, Edge, Min, Far, TypeOK
    <3>5. steady' \in [level : BOOLEAN, edges : 1 .. Long]
      <4>1. steady.edges \in 1 .. Long
        BY DEF TypeOK
      <4>2. Min(steady.edges + 1, Long) \in 1 .. Long
        BY <4>1, BoardAssumption DEF Min, Long
      <4>3. QED
        BY <2>2, <4>2, BoardAssumption DEF BoardTick, Edge, Long
    <3>6. QED
      BY <3>1, <3>2, <3>3, <3>4, <3>5 DEF TypeOK
  <2>3. QED
    BY <2>1, <2>2 DEF Next
<1>3. QED
  BY <1>1, <1>2, PTL DEF Spec

(* Edge detector, timer and the age of the last pulse keep step.           *)
THEOREM PulsesInvariant == Spec => []PulsesInv
<1>1. Init => PulsesInv
  BY BoardAssumption DEF BoardInit, Init, PulsesInv, PulsesApart, Far
<1>2. TypeOK /\ PulsesInv /\ [Next]_vars => PulsesInv'
  <2> SUFFICES ASSUME TypeOK, PulsesInv, [Next]_vars PROVE PulsesInv'
    OBVIOUS
  <2>1. CASE UNCHANGED vars
    BY <2>1 DEF vars, PulsesInv, PulsesApart
  <2>2. ASSUME NEW PORTC3 \in BOOLEAN, Edge(PORTC3) PROVE PulsesInv'
    <3>1. /\ timer' = IF timer = 0 THEN Period - 1 ELSE timer - 1
          /\ o_debounced' = IF timer = 0 THEN r_button_state ELSE o_debounced
          /\ r_last' = o_debounced
          /\ r_button_event' = (o_debounced /\ ~r_last)
          /\ since' = IF r_button_event THEN 1
                      ELSE IF since + 1 < 2 * Period THEN since + 1 ELSE 2 * Period
      BY <2>2 DEF BoardTick, Edge, Sample, CountDown, Detect, Min, Far
    <3>2. /\ Period \in Nat /\ Period >= 2 /\ timer \in 0 .. Period - 1
          /\ since \in 1 .. 2 * Period
          /\ o_debounced \in BOOLEAN /\ r_last \in BOOLEAN
          /\ r_button_event \in BOOLEAN /\ r_button_state \in BOOLEAN
      BY BoardAssumption DEF TypeOK, Far
    <3>3. CASE r_button_event
      <4>1. o_debounced /\ timer = Period - 2 /\ r_last
        <5>1. o_debounced /\ timer = Period - 2
          BY <3>3 DEF PulsesInv
        <5>2. timer # Period - 1
          BY <3>2, <5>1
        <5>3. QED
          BY <5>1, <5>2 DEF PulsesInv
      <4>2. r_last' /\ ~r_button_event' /\ since' = 1
        BY <3>1, <3>3, <4>1
      <4>3. \/ timer = 0 /\ Period = 2 /\ timer' = 1
            \/ timer > 0 /\ timer' = Period - 3 /\ o_debounced'
        BY <3>1, <3>2, <4>1
      <4>4. QED
        <5>1. /\ ~o_debounced' => 1 >= 2 * Period - 2 - timer'
              /\ 1 >= Period - 2 - timer'
          BY <3>2, <4>3
        <5>2. ~(r_last' <=> o_debounced') => timer' = Period - 1
          BY <3>2, <4>2, <4>3
        <5>3. QED
          BY <4>2, <5>1, <5>2 DEF PulsesInv, PulsesApart
    <3>4. CASE ~r_button_event
      BY <3>1, <3>2, <3>4 DEF PulsesInv, PulsesApart, Far
    <3>5. QED
      BY <3>3, <3>4
  <2>3. QED
    BY <2>1, <2>2 DEF Next
<1>3. QED
  BY <1>1, <1>2, BoardTypeCorrect, PTL DEF Spec

(* Two step pulses are at least two sampling periods apart.                *)
THEOREM PulsesAreApart == Spec => []PulsesApart
<1>1. PulsesInv => PulsesApart
  BY DEF PulsesInv
<1>2. QED
  BY <1>1, PulsesInvariant, PTL

(* The two registers and the next sample carry a steady level on.          *)
THEOREM HeldInvariant == Spec => []HeldInv
<1>1. Init => HeldInv
  <2> SUFFICES ASSUME Init PROVE HeldInv
    OBVIOUS
  <2>1. steady.level = FALSE
    BY DEF Init
  <2>2. sync_pipe = FALSE /\ r_button_state = FALSE /\ o_debounced = FALSE
    BY DEF BoardInit, Init
  <2>3. QED
    BY <2>1, <2>2, Zenon DEF HeldInv
<1>2. TypeOK /\ HeldInv /\ [Next]_vars => HeldInv'
  <2> SUFFICES ASSUME TypeOK, HeldInv, [Next]_vars PROVE HeldInv'
    OBVIOUS
  <2>1. CASE UNCHANGED vars
    BY <2>1 DEF vars, HeldInv
  <2>2. ASSUME NEW PORTC3 \in BOOLEAN, Edge(PORTC3) PROVE HeldInv'
    <3>1. /\ sync_pipe' = PORTC3
          /\ r_button_state' = sync_pipe
          /\ timer' = IF timer = 0 THEN Period - 1 ELSE timer - 1
          /\ o_debounced' = IF timer = 0 THEN r_button_state ELSE o_debounced
          /\ steady'.level = PORTC3
          /\ steady'.edges = IF PORTC3 = steady.level
                             THEN IF steady.edges + 1 < Period + 2
                                  THEN steady.edges + 1 ELSE Period + 2
                             ELSE 1
      BY <2>2 DEF BoardTick, Edge, Sync, Sample, CountDown, Min, Long
    <3>2. /\ Period \in Nat /\ Period >= 2
          /\ timer \in 0 .. Period - 1 /\ steady.edges \in 1 .. Period + 2
      BY BoardAssumption DEF TypeOK, Long
    <3>3. steady'.edges >= 2 => PORTC3 = steady.level
      BY <3>1
    <3>4. steady'.edges >= 2 => r_button_state' = steady'.level
      BY <3>1, <3>3 DEF HeldInv
    <3>5. ASSUME steady'.edges >= Period + 2 - timer'
          PROVE  o_debounced' = steady'.level
      <4>1. steady'.edges >= 3 /\ steady.edges >= 2
        BY <3>1, <3>2, <3>5
      <4>2. PORTC3 = steady.level
        BY <3>3, <4>1, <3>1, <3>2
      <4>3. CASE timer = 0
        BY <3>1, <4>1, <4>2, <4>3 DEF HeldInv
      <4>4. CASE timer # 0
        <5>1. steady.edges >= Period + 2 - timer
          BY <3>1, <3>2, <3>5, <4>2, <4>4
        <5>2. QED
          BY <3>1, <4>2, <4>4, <5>1 DEF HeldInv
      <4>5. QED
        BY <4>3, <4>4
    <3>6. QED
      BY <3>1, <3>4, <3>5 DEF HeldInv
  <2>3. QED
    BY <2>1, <2>2 DEF Next
<1>3. QED
  BY <1>1, <1>2, BoardTypeCorrect, PTL DEF Spec

(* A level held for a period and two edges is the debounced level, however *)
(* the button bounced before.                                              *)
THEOREM HeldLevelIsSeen == Spec => []HeldIsSeen
<1>1. TypeOK /\ HeldInv => HeldIsSeen
  BY BoardAssumption DEF TypeOK, HeldInv, HeldIsSeen, Long
<1>2. QED
  BY <1>1, HeldInvariant, BoardTypeCorrect, PTL
=============================================================================
