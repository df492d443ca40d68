------------------------------ MODULE Fifo_proofs ------------------------------
(* Driven by a client that keeps to Both, a FIFO of any depth has flags     *)
(* that tell its occupancy and is a bounded queue.                          *)
EXTENDS FifoClient, SequenceTheorems, TLAPS

(* The pointers wrap inside the memory.                                    *)
LEMMA NextPtrType ==
  ASSUME NEW ptr \in Address
  PROVE  /\ NextPtr(ptr) \in Address
         /\ NextPtr(ptr) = ptr + 1 \/ NextPtr(ptr) = ptr + 1 - Depth
  BY FifoAssumption DEF NextPtr, Address

(* A clock edge keeps every register in its range.                         *)
LEMMA TickType ==
  ASSUME NEW f \in FifoRegs, NEW i \in FifoInputs
  PROVE  FifoTick(f, i) \in FifoRegs
<1>1. /\ f.write_ptr \in Address /\ f.read_ptr \in Address
      /\ f.memory \in [Address -> Data] /\ f.FULL \in BOOLEAN /\ f.EMPTY \in BOOLEAN
      /\ i.DATA_IN \in Data
  BY DEF FifoRegs, FifoInputs
<1>2. 0 \in Address
  BY FifoAssumption DEF Address
<1>3. MemoryTick(f, i) \in [Address -> Data]
  <2>1. CASE i.RESET \/ (i.ENABLE /\ i.FLUSH)
    BY <2>1, FifoAssumption DEF MemoryTick
  <2>2. CASE ~(i.RESET \/ (i.ENABLE /\ i.FLUSH))
    BY <1>1, <2>2 DEF MemoryTick
  <2>3. QED
    BY <2>1, <2>2
<1>4. FullTick(f, i) \in BOOLEAN /\ EmptyTick(f, i) \in BOOLEAN
  BY <1>1 DEF FullTick, EmptyTick
<1>5. NextPtr(f.write_ptr) \in Address /\ NextPtr(f.read_ptr) \in Address
  BY <1>1, NextPtrType
<1>6. QED
  BY <1>1, <1>2, <1>3, <1>4, <1>5 DEF FifoTick, FifoRegs

(* The registers keep their ranges.                                        *)
THEOREM FifoTypeCorrect == Spec => []TypeOK
<1>1. Init => TypeOK
  <2> SUFFICES ASSUME Init PROVE TypeOK
    OBVIOUS
  <2>1. fifo \in FifoRegs
    BY FifoAssumption DEF Init, FifoInit, FifoRegs, Address
  <2>2. in \in FifoInputs /\ count \in Int
    BY FifoAssumption DEF Init, Quiet, FifoInputs
  <2>3. QED
    BY <2>1, <2>2 DEF TypeOK
<1>2. TypeOK /\ [Next]_vars => TypeOK'
  <2> SUFFICES ASSUME TypeOK, [Next]_vars PROVE TypeOK'
    OBVIOUS
  <2>1. CASE UNCHANGED vars
    BY <2>1 DEF vars, TypeOK
  <2>2. ASSUME NEW i \in FifoInputs, Edge(i) PROVE TypeOK'
    <3>1. fifo' \in FifoRegs /\ in' \in FifoInputs
      BY <2>2, TickType DEF Edge, TypeOK
    <3>2. count' \in Int
      BY <2>2 DEF Edge, One, TypeOK
    <3>3. QED
      BY <3>1, <3>2 DEF TypeOK
  <2>3. QED
    BY <2>1, <2>2 DEF Next
<1>3. QED
  BY <1>1, <1>2, PTL DEF Spec

(* With no edge that pushes and pops at once outside 2 .. Depth - 2, the    *)
(* flags of a FIFO of any depth tell what it holds.                         *)
THEOREM OccupancyCorrect ==
  ASSUME Both \subseteq 2 .. Depth - 2
  PROVE  Spec => []Occupancy
<1>1. Init => Occupancy
  BY FifoAssumption DEF Init, FifoInit, Occupancy, EmptyIsEmpty, FullIsFull
<1>2. TypeOK /\ Occupancy /\ [Next]_vars => Occupancy'
  <2> SUFFICES ASSUME TypeOK, Occupancy, [Next]_vars PROVE Occupancy'
    OBVIOUS
  <2>1. CASE UNCHANGED vars
    BY <2>1 DEF vars, Occupancy, EmptyIsEmpty, FullIsFull
  <2>2. ASSUME NEW i \in FifoInputs, Allowed(i), Edge(i) PROVE Occupancy'
    <3> DEFINE w == AcceptWrite(fifo, i)
               r == AcceptRead(fifo, i)
    <3>1. /\ fifo.write_ptr \in Address /\ fifo.read_ptr \in Address
          /\ fifo.EMPTY \in BOOLEAN /\ fifo.FULL \in BOOLEAN
          /\ NextPtr(fifo.write_ptr) \in Address /\ NextPtr(fifo.read_ptr) \in Address
      BY NextPtrType DEF TypeOK, FifoRegs
    <3>2. CASE Cleared(i)
      <4>1. /\ fifo'.write_ptr = 0 /\ fifo'.read_ptr = 0
            /\ fifo'.EMPTY = TRUE /\ fifo'.FULL = FALSE /\ count' = 0
        BY <2>2, <3>2 DEF Edge, FifoTick
      <4>2. QED
        BY <4>1, FifoAssumption DEF Occupancy, EmptyIsEmpty, FullIsFull
    <3>3. CASE ~Cleared(i)
      <4>1. /\ fifo'.write_ptr = IF w THEN NextPtr(fifo.write_ptr) ELSE fifo.write_ptr
            /\ fifo'.read_ptr = IF r THEN NextPtr(fifo.read_ptr) ELSE fifo.read_ptr
            /\ fifo'.EMPTY = EmptyTick(fifo, i) /\ fifo'.FULL = FullTick(fifo, i)
            /\ count' = count + One(w) - One(r)
        <5>1. EmptyTick(fifo, i) \in BOOLEAN /\ FullTick(fifo, i) \in BOOLEAN
          BY <3>1 DEF EmptyTick, FullTick
        <5>2. count' = count + One(w) - One(r)
          BY <2>2, <3>3 DEF Edge
        <5>3. fifo' = FifoTick(fifo, i)
          BY <2>2 DEF Edge
        <5>4. /\ FifoTick(fifo, i).EMPTY = EmptyTick(fifo, i)
              /\ FifoTick(fifo, i).FULL = FullTick(fifo, i)
          BY <3>3, <5>1 DEF FifoTick
        <5>5. /\ FifoTick(fifo, i).write_ptr = IF w THEN NextPtr(fifo.write_ptr)
                                               ELSE fifo.write_ptr
              /\ FifoTick(fifo, i).read_ptr = IF r THEN NextPtr(fifo.read_ptr)
                                              ELSE fifo.read_ptr
          BY <3>3 DEF FifoTick
        <5>6. QED
          BY <5>2, <5>3, <5>4, <5>5
      <4>2. (w => i.PUSH /\ (i.POP \/ count # Depth)) /\ (r => i.POP /\ (i.PUSH \/ count # 0))
            /\ (w /\ r => count \in 2 .. Depth - 2)
        BY <2>2, <3>3 DEF AcceptWrite, AcceptRead, Allowed, Occupancy, EmptyIsEmpty,
                          FullIsFull, Cleared
      <4>3. (w /\ ~r => count < Depth) /\ (r /\ ~w => count > 0)
        BY <2>2, <3>3, FifoAssumption
           DEF AcceptWrite, AcceptRead, Occupancy, EmptyIsEmpty, FullIsFull, Cleared
      <4> HIDE DEF w, r
      <4>4. CASE w /\ r
        BY <3>1, <4>1, <4>2, <4>4, FifoAssumption
           DEF Occupancy, EmptyIsEmpty, FullIsFull, One, NextPtr, Address, EmptyTick,
               FullTick, w, r
      <4>5. CASE w /\ ~r
        BY <3>1, <4>1, <4>3, <4>5, FifoAssumption
           DEF Occupancy, EmptyIsEmpty, FullIsFull, One, NextPtr, Address, EmptyTick,
               FullTick, w, r
      <4>6. CASE ~w /\ r
        BY <3>1, <4>1, <4>3, <4>6, FifoAssumption
           DEF Occupancy, EmptyIsEmpty, FullIsFull, One, NextPtr, Address, EmptyTick,
               FullTick, w, r
      <4>7. CASE ~w /\ ~r
        BY <3>1, <4>1, <4>7
           DEF Occupancy, EmptyIsEmpty, FullIsFull, One, EmptyTick, FullTick, w, r
      <4>8. QED
        BY <4>4, <4>5, <4>6, <4>7
    <3>4. QED
      BY <3>2, <3>3
  <2>3. QED
    BY <2>1, <2>2 DEF Next
<1>3. QED
  BY <1>1, <1>2, FifoTypeCorrect, PTL DEF Spec
-----------------------------------------------------------------------------
\* The location of the k-th value held when the oldest is at ptr.
Slot(ptr, k) == (ptr + k - 1) % Depth

(* Counting on from a pointer wraps once at most.                          *)
LEMMA SlotWraps ==
  ASSUME NEW ptr \in Address, NEW k \in 1 .. Depth
  PROVE  /\ Slot(ptr, k) = IF ptr + k - 1 < Depth THEN ptr + k - 1 ELSE ptr + k - 1 - Depth
         /\ Slot(ptr, k) \in Address
<1>1. \A a \in 0 .. Depth - 1 : a % Depth = a
  BY FifoAssumption
<1>2. \A a \in Depth .. 2 * Depth - 1 : a % Depth = a - Depth
  BY FifoAssumption
<1>3. CASE ptr + k - 1 < Depth
  BY <1>1, <1>3, FifoAssumption DEF Slot, Address
<1>4. CASE ~(ptr + k - 1 < Depth)
  BY <1>2, <1>4, FifoAssumption DEF Slot, Address
<1>5. QED
  BY <1>3, <1>4

(* The queue is as long as count says and begins at the read pointer.      *)
HeldInOrder ==
  /\ Contents \in Seq(Data)
  /\ Len(Contents) = count
  /\ \A k \in 1 .. count : Contents[k] = fifo.memory[Slot(fifo.read_ptr, k)]
  /\ count = 0 <=> Contents = <<>>

LEMMA ContentsProperties ==
  ASSUME TypeOK, Occupancy
  PROVE  HeldInOrder
<1>1. /\ fifo.read_ptr \in Address /\ fifo.memory \in [Address -> Data]
      /\ count \in 0 .. Depth /\ Depth \in Nat
  BY FifoAssumption DEF TypeOK, Occupancy, FifoRegs
<1>2. \A k \in 1 .. count : /\ Contents[k] = fifo.memory[Slot(fifo.read_ptr, k)]
                            /\ Contents[k] \in Data
  <2> TAKE k \in 1 .. count
  <2>1. Slot(fifo.read_ptr, k) \in Address
    BY <1>1, SlotWraps
  <2>2. QED
    BY <1>1, <2>1 DEF Contents, Slot
<1>3. Contents \in [1 .. count -> Data]
  BY <1>2 DEF Contents
<1>4. Contents \in Seq(Data) /\ Len(Contents) = count
  BY <1>1, <1>3
<1>5. count = 0 <=> Contents = <<>>
  BY <1>4, EmptySeq
<1>6. QED
  BY <1>2, <1>4, <1>5 DEF HeldInOrder

LEMMA ContentsNext == TypeOK' /\ Occupancy' => HeldInOrder'
<1>1. TypeOK /\ Occupancy => HeldInOrder
  BY ContentsProperties
<1>2. QED
  BY <1>1, PTL

(* Flags and output show the queue.                                        *)
LEMMA ContentsShown ==
  ASSUME TypeOK, Occupancy
  PROVE  Queue!Shown
<1>1. /\ fifo.read_ptr \in Address /\ fifo.memory \in [Address -> Data]
      /\ count \in 0 .. Depth /\ Depth \in Nat \ {0}
  BY FifoAssumption DEF TypeOK, Occupancy, FifoRegs
<1>2. (fifo.EMPTY <=> Contents = <<>>) /\ (fifo.FULL <=> Len(Contents) = Depth)
  BY ContentsProperties DEF HeldInOrder, Occupancy, EmptyIsEmpty, FullIsFull
<1>3. DataOut(fifo, TRUE) = fifo.memory[fifo.read_ptr] /\ DataOut(fifo, TRUE) \in Data
  BY <1>1 DEF DataOut
<1>4. Contents # <<>> => DataOut(fifo, TRUE) = Head(Contents)
  <2> SUFFICES ASSUME Contents # <<>> PROVE DataOut(fifo, TRUE) = Head(Contents)
    OBVIOUS
  <2>1. 1 \in 1 .. count /\ 1 \in 1 .. Depth
    BY <1>1, ContentsProperties DEF HeldInOrder
  <2>2. Slot(fifo.read_ptr, 1) = fifo.read_ptr
    BY <1>1, <2>1, SlotWraps DEF Address
  <2>3. Contents[1] = fifo.memory[fifo.read_ptr]
    BY <2>1, <2>2, ContentsProperties DEF HeldInOrder
  <2>4. Head(Contents) = Contents[1]
    BY ContentsProperties DEF HeldInOrder
  <2>5. QED
    BY <1>3, <2>3, <2>4
<1>5. QED
  BY <1>2, <1>3, <1>4 DEF Queue!Shown

(* The pointer after a pop counts from the second value.                   *)
LEMMA SlotNext ==
  ASSUME NEW ptr \in Address, NEW k \in 1 .. Depth - 1
  PROVE  Slot(NextPtr(ptr), k) = Slot(ptr, k + 1)
<1>1. NextPtr(ptr) \in Address /\ k \in 1 .. Depth /\ k + 1 \in 1 .. Depth
  BY NextPtrType, FifoAssumption
<1>2. QED
  BY <1>1, SlotWraps, FifoAssumption DEF NextPtr, Address

(* The write pointer is behind the values held, apart from all of them     *)
(* unless the FIFO is full.                                                *)
LEMMA WriteSlot ==
  ASSUME TypeOK, Occupancy, count < Depth
  PROVE  /\ Slot(fifo.read_ptr, count + 1) = fifo.write_ptr
         /\ \A k \in 1 .. count : Slot(fifo.read_ptr, k) # fifo.write_ptr
<1>1. /\ fifo.read_ptr \in Address /\ fifo.write_ptr \in Address
      /\ count \in 0 .. Depth /\ Depth \in Nat \ {0}
      /\ fifo.write_ptr - fifo.read_ptr \in {count, count - Depth}
  BY FifoAssumption DEF TypeOK, Occupancy, FifoRegs
<1>2. count + 1 \in 1 .. Depth /\ \A k \in 1 .. count : k \in 1 .. Depth
  BY <1>1
<1>3. PICK r \in Address, w \in Address : r = fifo.read_ptr /\ w = fifo.write_ptr
  BY <1>1
<1>4. \A k \in 1 .. Depth :
        Slot(r, k) = IF r + k - 1 < Depth THEN r + k - 1 ELSE r + k - 1 - Depth
  BY SlotWraps
<1>5. r \in 0 .. Depth - 1 /\ w \in 0 .. Depth - 1 /\ w - r \in {count, count - Depth}
  BY <1>1, <1>3 DEF Address
<1>6. Slot(r, count + 1) = w
  BY <1>1, <1>2, <1>4, <1>5
<1>7. ASSUME NEW k \in 1 .. count PROVE Slot(r, k) # w
  BY <1>1, <1>2, <1>4, <1>5
<1>8. QED
  BY <1>3, <1>6, <1>7

LEMMA ShownNext == TypeOK' /\ Occupancy' => Queue!Shown'
<1>1. TypeOK /\ Occupancy => Queue!Shown
  BY ContentsShown
<1>2. QED
  BY <1>1, PTL

\* An edge that the client may make, on a FIFO whose flags are honest before
\* and after it.
Driven(i) ==
  /\ i \in FifoInputs /\ Allowed(i) /\ Edge(i) /\ Both \subseteq 2 .. Depth - 2
  /\ TypeOK /\ Occupancy /\ TypeOK' /\ Occupancy'

(* What an edge that clears nothing does to the registers the queue is in. *)
LEMMA DrivenStep ==
  ASSUME NEW i, Driven(i), ~Cleared(i)
  PROVE  LET w == AcceptWrite(fifo, i)
             r == AcceptRead(fifo, i)
         IN  /\ fifo'.read_ptr = IF r THEN NextPtr(fifo.read_ptr) ELSE fifo.read_ptr
             /\ fifo'.memory = IF w THEN [fifo.memory EXCEPT ![fifo.write_ptr] = i.DATA_IN]
                               ELSE fifo.memory
             /\ count' = count + One(w) - One(r)
             /\ w <=> i.PUSH /\ count < Depth
             /\ r <=> i.POP /\ count > 0
<1>1. /\ count \in 0 .. Depth /\ Depth \in Nat /\ (fifo.EMPTY <=> count = 0)
      /\ (fifo.FULL <=> count = Depth)
      /\ (i.PUSH /\ i.POP => count > 0 /\ count < Depth)
  BY FifoAssumption DEF Driven, Occupancy, EmptyIsEmpty, FullIsFull, Allowed
<1>2. ~i.RESET /\ i.ENABLE /\ ~i.FLUSH
  BY DEF Cleared
<1>3. fifo' = FifoTick(fifo, i) /\ count' = count + One(AcceptWrite(fifo, i)) - One(AcceptRead(fifo, i))
  BY DEF Driven, Edge
<1>4. AcceptWrite(fifo, i) <=> i.PUSH /\ count < Depth
  BY <1>1, <1>2 DEF AcceptWrite
<1>5. AcceptRead(fifo, i) <=> i.POP /\ count > 0
  BY <1>1, <1>2 DEF AcceptRead
<1>6. FifoTick(fifo, i).memory = IF AcceptWrite(fifo, i)
                                 THEN [fifo.memory EXCEPT ![fifo.write_ptr] = i.DATA_IN]
                                 ELSE fifo.memory
  BY <1>2 DEF FifoTick, MemoryTick
<1>7. FifoTick(fifo, i).read_ptr = IF AcceptRead(fifo, i) THEN NextPtr(fifo.read_ptr)
                                   ELSE fifo.read_ptr
  BY <1>2 DEF FifoTick, Cleared
<1>8. QED
  BY <1>3, <1>4, <1>5, <1>6, <1>7

(* A pop leaves the queue's tail, a push puts its value behind the rest.   *)
LEMMA ContentsStep ==
  ASSUME NEW i, Driven(i), ~Cleared(i)
  PROVE  Contents' = IF count = Depth THEN Queue!Popped(Contents, i)
                     ELSE Queue!Popped(Contents, i) \o Queue!Pushed(Contents, i)
<1> DEFINE w == AcceptWrite(fifo, i)
           r == AcceptRead(fifo, i)
           q == Contents
           p == IF r THEN Tail(q) ELSE q
           s == IF w THEN p \o <<i.DATA_IN>> ELSE p
           held == IF r THEN count - 1 ELSE count
<1>1. /\ fifo'.read_ptr = IF r THEN NextPtr(fifo.read_ptr) ELSE fifo.read_ptr
      /\ fifo'.memory = IF w THEN [fifo.memory EXCEPT ![fifo.write_ptr] = i.DATA_IN]
                        ELSE fifo.memory
      /\ count' = count + One(w) - One(r)
      /\ w <=> i.PUSH /\ count < Depth
      /\ r <=> i.POP /\ count > 0
  BY DrivenStep
<1>2. /\ fifo.read_ptr \in Address /\ fifo.write_ptr \in Address
      /\ fifo.memory \in [Address -> Data] /\ i.DATA_IN \in Data
      /\ count \in 0 .. Depth /\ Depth \in Nat \ {0}
  BY FifoAssumption DEF Driven, TypeOK, Occupancy, FifoRegs, FifoInputs
<1>3. /\ q \in Seq(Data) /\ Len(q) = count /\ (count = 0 <=> q = <<>>)
      /\ \A k \in 1 .. count : q[k] = fifo.memory[Slot(fifo.read_ptr, k)]
  BY ContentsProperties DEF Driven, HeldInOrder
<1>4. /\ Contents' \in Seq(Data) /\ Len(Contents') = count'
      /\ \A k \in 1 .. count' : Contents'[k] = fifo'.memory[Slot(fifo'.read_ptr, k)]
  BY ContentsProperties, ContentsNext DEF Driven, HeldInOrder
<1>5. s = IF count = Depth THEN Queue!Popped(Contents, i)
          ELSE Queue!Popped(Contents, i) \o Queue!Pushed(Contents, i)
  <2>1. Queue!Popped(q, i) = p
    BY <1>1, <1>2, <1>3 DEF Queue!Popped
  <2>2. p \in Seq(Data)
    BY <1>1, <1>2, <1>3
  <2>3. Queue!Pushed(q, i) = IF i.PUSH THEN <<i.DATA_IN>> ELSE <<>>
    BY DEF Queue!Pushed
  <2>4. CASE count = Depth
    BY <1>1, <1>2, <2>1, <2>4
  <2>5. CASE count # Depth /\ i.PUSH
    BY <1>1, <1>2, <2>1, <2>3, <2>5
  <2>6. CASE count # Depth /\ ~i.PUSH
    BY <1>1, <1>2, <2>1, <2>2, <2>3, <2>6, ConcatEmptySeq
  <2>. QED
    BY <2>4, <2>5, <2>6
<1> HIDE DEF w, r, q
<1>6. /\ p \in Seq(Data) /\ Len(p) = held /\ held \in 0 .. Depth
      /\ \A k \in 1 .. held : p[k] = fifo.memory[Slot(fifo'.read_ptr, k)]
  <2>1. CASE r
    <3>1. q # <<>> /\ count > 0
      BY <1>1, <1>2, <1>3, <2>1
    <3>2. /\ Tail(q) \in Seq(Data) /\ Len(Tail(q)) = count - 1
          /\ \A k \in 1 .. count - 1 : Tail(q)[k] = q[k + 1]
      BY <1>3, <3>1, HeadTailProperties
    <3>3. ASSUME NEW k \in 1 .. count - 1
          PROVE  Tail(q)[k] = fifo.memory[Slot(fifo'.read_ptr, k)]
      <4>1. k \in 1 .. Depth - 1 /\ k + 1 \in 1 .. count
        BY <1>2
      <4>. QED
        BY <1>1, <1>2, <1>3, <2>1, <3>2, <4>1, SlotNext
    <3>. QED
      BY <1>2, <2>1, <3>1, <3>2, <3>3
  <2>2. CASE ~r
    BY <1>1, <1>2, <1>3, <2>2
  <2>. QED
    BY <2>1, <2>2
<1> HIDE DEF p
<1>7. s \in Seq(Data) /\ Len(s) = count'
  <2>1. <<i.DATA_IN>> \in Seq(Data) /\ Len(<<i.DATA_IN>>) = 1
    BY <1>2
  <2>2. p \o <<i.DATA_IN>> \in Seq(Data) /\ Len(p \o <<i.DATA_IN>>) = held + 1
    BY <1>6, <2>1, ConcatProperties
  <2>. QED
    <3>1. CASE w
      BY <1>1, <1>2, <1>6, <2>2, <3>1 DEF One
    <3>2. CASE ~w
      BY <1>1, <1>2, <1>6, <3>2 DEF One
    <3>. QED
      BY <3>1, <3>2
<1>8. \A k \in 1 .. count' : s[k] = fifo'.memory[Slot(fifo'.read_ptr, k)]
  <2>1. CASE ~w
    BY <1>1, <1>2, <1>6, <2>1 DEF One
  <2>2. CASE w
    <3>1. /\ count < Depth /\ count' = held + 1
          /\ Slot(fifo.read_ptr, count + 1) = fifo.write_ptr
          /\ \A k \in 1 .. count : Slot(fifo.read_ptr, k) # fifo.write_ptr
      BY <1>1, <1>2, <2>2, WriteSlot DEF Driven, One
    <3>2. \A k \in 1 .. held + 1 : /\ Slot(fifo'.read_ptr, k) \in Address
                                   /\ Slot(fifo'.read_ptr, k) = fifo.write_ptr <=> k = held + 1
      <4>1. ASSUME NEW k \in 1 .. held + 1, r
            PROVE  k \in 1 .. Depth - 1 /\ k + 1 \in 1 .. Depth /\ k + 1 \in 1 .. count + 1
        BY <1>1, <1>2, <3>1, <4>1
      <4>2. ASSUME NEW k \in 1 .. held + 1, r
            PROVE  Slot(fifo'.read_ptr, k) = Slot(fifo.read_ptr, k + 1)
        BY <1>1, <1>2, <4>1, <4>2, SlotNext
      <4>3. \A k \in 1 .. count + 1 : Slot(fifo.read_ptr, k) = fifo.write_ptr <=> k = count + 1
        BY <1>2, <3>1
      <4>4. CASE r
        <5>1. held = count - 1
          BY <4>4
        <5> HIDE DEF held
        <5>. QED
          BY <1>2, <4>1, <4>2, <4>3, <4>4, <5>1, SlotWraps
      <4>5. CASE ~r
        <5>1. held = count
          BY <4>5
        <5> HIDE DEF held
        <5>. QED
          BY <1>1, <1>2, <3>1, <4>3, <4>5, <5>1, SlotWraps
      <4>. QED
        BY <4>4, <4>5
    <3>3. /\ s = p \o <<i.DATA_IN>>
          /\ \A k \in 1 .. held : s[k] = p[k]
          /\ s[held + 1] = i.DATA_IN
      <4>1. s = p \o <<i.DATA_IN>>
        BY <2>2
      <4>2. /\ <<i.DATA_IN>> \in Seq(Data) /\ Len(<<i.DATA_IN>>) = 1
            /\ <<i.DATA_IN>>[1] = i.DATA_IN
        BY <1>2
      <4>3. held + 1 - held = 1 /\ \A k \in 1 .. held : k <= held /\ k \in 1 .. held + 1
        BY <1>6
      <4> HIDE DEF s, held
      <4>. QED
        BY <1>6, <4>1, <4>2, <4>3, ConcatProperties
    <3>4. /\ fifo'.memory[fifo.write_ptr] = i.DATA_IN
          /\ \A a \in Address : a # fifo.write_ptr => fifo'.memory[a] = fifo.memory[a]
      BY <1>1, <1>2, <2>2
    <3> HIDE DEF s, held
    <3>5. ASSUME NEW k \in 1 .. held + 1
          PROVE  s[k] = fifo'.memory[Slot(fifo'.read_ptr, k)]
      <4>1. CASE k = held + 1
        BY <3>2, <3>3, <3>4, <4>1
      <4>2. CASE k # held + 1
        <5>1. k \in 1 .. held
          BY <1>6, <4>2
        <5>2. Slot(fifo'.read_ptr, k) \in Address /\ Slot(fifo'.read_ptr, k) # fifo.write_ptr
          BY <3>2, <4>2
        <5>3. s[k] = p[k] /\ p[k] = fifo.memory[Slot(fifo'.read_ptr, k)]
          BY <1>6, <3>3, <5>1
        <5>. QED
          BY <3>4, <5>2, <5>3
      <4>. QED
        BY <4>1, <4>2
    <3>. QED
      BY <3>1, <3>5
  <2>. QED
    BY <2>1, <2>2
<1>9. QED
  BY <1>4, <1>5, <1>7, <1>8, SeqEqual

(* A FIFO whose client keeps to Both is a bounded queue of its depth:       *)
(* nothing is lost, repeated or reordered, and the flags never lie.         *)
THEOREM FifoImplementsQueue ==
  ASSUME Both \subseteq 2 .. Depth - 2
  PROVE  Spec => RefinesQueue
<1>1. Init /\ TypeOK /\ Occupancy => Queue!Init
  <2> SUFFICES ASSUME Init, TypeOK, Occupancy PROVE Queue!Init
    OBVIOUS
  <2>1. Contents = <<>>
    BY ContentsProperties DEF HeldInOrder, Init
  <2>2. in \in Queue!Inputs
    BY DEF TypeOK, FifoInputs, Queue!Inputs
  <2>3. QED
    BY <2>1, <2>2, ContentsShown DEF Queue!Init
<1>2. TypeOK /\ Occupancy /\ TypeOK' /\ Occupancy' /\ [Next]_vars
        => [Queue!Next]_<<Contents, fifo.EMPTY, fifo.FULL, DataOut(fifo, TRUE), in>>
  <2> SUFFICES ASSUME TypeOK, Occupancy, TypeOK', Occupancy', [Next]_vars
               PROVE  [Queue!Next]_<<Contents, fifo.EMPTY, fifo.FULL, DataOut(fifo, TRUE), in>>
    OBVIOUS
  <2>1. CASE UNCHANGED vars
    BY <2>1 DEF vars, Contents, DataOut
  <2>2. ASSUME NEW i \in FifoInputs, Allowed(i), Edge(i) PROVE Queue!Next
    <3>1. Driven(i)
      BY <2>2 DEF Driven
    <3>2. in' = i /\ in' \in Queue!Inputs
      BY <2>2 DEF Edge, FifoInputs, Queue!Inputs
    <3>3. Queue!Shown'
      BY ShownNext
    <3>4. Contents' = Queue!Serve(Contents, i)
      <4>1. CASE Cleared(i)
        <5>1. count' = 0
          BY <2>2, <4>1 DEF Edge
        <5>2. Contents' = <<>>
          BY <5>1, ContentsNext DEF HeldInOrder
        <5>3. Queue!Serve(Contents, i) = <<>>
          BY <4>1 DEF Queue!Serve, Cleared
        <5>. QED
          BY <5>2, <5>3
      <4>2. CASE ~Cleared(i)
        <5>1. Queue!Serve(Contents, i) =
                IF Len(Contents) = Depth THEN Queue!Popped(Contents, i)
                ELSE Queue!Popped(Contents, i) \o Queue!Pushed(Contents, i)
          BY <4>2 DEF Queue!Serve, Cleared
        <5>2. Len(Contents) = count
          BY ContentsProperties DEF HeldInOrder
        <5>. QED
          BY <3>1, <4>2, <5>1, <5>2, ContentsStep
      <4>. QED
        BY <4>1, <4>2
    <3>. QED
      BY <3>2, <3>3, <3>4 DEF Queue!Next
  <2>3. QED
    BY <2>1, <2>2 DEF Next
<1>3. QED
  BY <1>1, <1>2, FifoTypeCorrect, OccupancyCorrect, PTL DEF Spec, RefinesQueue, Queue!Spec
=============================================================================
