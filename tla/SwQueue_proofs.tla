---------------------------- MODULE SwQueue_proofs ----------------------------
(***************************************************************************)
(* The software queue is a bounded FIFO, for every capacity, offset and    *)
(* set of items.  The argument: the i-th oldest item lies in the cell      *)
(* CellOf(indexes, i); the cells of different items differ; the write      *)
(* index is the cell of item size + 1; and moving the read index by one    *)
(* renumbers the cells by one.                                             *)
(*                                                                         *)
(* The first part is what the index arithmetic of circular_index.c returns *)
(* and preserves, for rings of every capacity: adding to an index stays    *)
(* inside the ring and changes the number of used elements by exactly what *)
(* was added, as long as the caller keeps to the RAM_ASSERTs of the code   *)
(* (lines 117 and 144), which a release build does not check.              *)
(***************************************************************************)
EXTENDS SwQueue, Integers, SequenceTheorems, TLAPS

(* The index arithmetic *)

\* `%' only ever sees sums below twice the capacity: one subtraction.
LEMMA ModAdd ==
  ASSUME NEW cap \in Nat \ {0}, NEW i \in 0 .. cap - 1, NEW n \in 0 .. cap
  PROVE  (i + n) % cap = IF i + n < cap THEN i + n ELSE i + n - cap
<1>1. CASE i + n < cap
  BY <1>1, SMT
<1>2. CASE i + n >= cap
  BY <1>2, SMT
<1> QED
  BY <1>1, <1>2

\* ramRingGetSize() never exceeds the capacity; the three tests of a ring
\* (empty, full, remaining capacity) agree with it.
THEOREM SizeInRange ==
  ASSUME NEW off \in Nat, NEW cap \in Nat \ {0},
         NEW r \in RAM_RING_INDEXES_T(off, cap)
  PROVE  /\ ramRingGetSize(r) \in 0 .. cap
         /\ ramRingGetRemainingCapacity(r) \in 0 .. cap
         /\ ramRingIsEmpty(r) <=> ramRingGetSize(r) = 0
         /\ ramRingIsFull(r) <=> ramRingGetSize(r) = cap
  BY DEF RAM_RING_INDEXES_T, ramRingGetSize, ramRingGetRemainingCapacity,
         ramRingIsEmpty, ramRingIsFull

\* Freeing elements: ramRingAddToReadIndex() under its RAM_ASSERT takes
\* exactly toAdd elements out of the ring, whether it was full or not.
THEOREM AddToReadIndex ==
  ASSUME NEW off \in Nat, NEW cap \in Nat \ {0},
         NEW r \in RAM_RING_INDEXES_T(off, cap),
         NEW toAdd \in 0 .. ramRingGetSize(r)
  PROVE  /\ ramRingAddToReadIndex(r, toAdd) \in RAM_RING_INDEXES_T(off, cap)
         /\ ramRingGetSize(ramRingAddToReadIndex(r, toAdd)) = ramRingGetSize(r) - toAdd
         /\ ramRingAddToReadIndex(r, toAdd).start =
              IF r.start + toAdd < cap THEN r.start + toAdd ELSE r.start + toAdd - cap
<1> DEFINE q == ramRingAddToReadIndex(r, toAdd)
<1>1. /\ r.capacity = cap /\ r.offset = off
      /\ r.start \in 0 .. cap - 1 /\ r.end \in 0 .. cap
  BY DEF RAM_RING_INDEXES_T
<1>2. toAdd \in 0 .. cap
  BY SizeInRange
<1>3. CASE toAdd = 0
  BY <1>1, <1>3, SizeInRange DEF ramRingAddToReadIndex
<1>4. CASE toAdd # 0
  <2>1. (r.start + toAdd) % cap =
          IF r.start + toAdd < cap THEN r.start + toAdd ELSE r.start + toAdd - cap
    BY <1>1, <1>2, ModAdd
  <2> DEFINE s == IF r.start + toAdd < cap THEN r.start + toAdd ELSE r.start + toAdd - cap
             e == IF r.end = cap THEN r.start ELSE r.end
  <2>2. q = [r EXCEPT !.end = e, !.start = s]
    BY <1>1, <1>4, <2>1 DEF ramRingAddToReadIndex, ramRingIsFull
  <2>3. s \in 0 .. cap - 1 /\ e \in 0 .. cap
    BY <1>1, <1>2
  <2> HIDE DEF s, e, q
  <2>4. /\ q \in RAM_RING_INDEXES_T(off, cap)
        /\ q.capacity = cap /\ q.start = s /\ q.end = e
    <3>1. q \in RAM_RING_INDEXES_T(off, cap)
      BY <2>2, <2>3 DEF RAM_RING_INDEXES_T
    <3>2. q.capacity = cap
      BY <2>2 DEF RAM_RING_INDEXES_T
    <3>3. q.start = s
      BY <2>2 DEF RAM_RING_INDEXES_T
    <3>4. q.end = e
      BY <2>2 DEF RAM_RING_INDEXES_T
    <3> QED
      BY <3>1, <3>2, <3>3, <3>4
  <2>5. ramRingGetSize(q) = ramRingGetSize(r) - toAdd
    <3>1. toAdd \in 1 .. ramRingGetSize(r)
      BY <1>2, <1>4
    <3> QED
      BY <1>1, <1>2, <2>3, <2>4, <3>1 DEF ramRingGetSize, ramRingIsFull, s, e
  <2> QED
    BY <2>4, <2>5 DEF q, s
<1> QED
  BY <1>3, <1>4

\* Using elements: ramRingAddToWriteIndex() under its RAM_ASSERT puts exactly
\* toAdd elements into the ring, also when they fill it.
THEOREM AddToWriteIndex ==
  ASSUME NEW off \in Nat, NEW cap \in Nat \ {0},
         NEW r \in RAM_RING_INDEXES_T(off, cap),
         NEW toAdd \in 0 .. ramRingGetRemainingCapacity(r)
  PROVE  /\ ramRingAddToWriteIndex(r, toAdd) \in RAM_RING_INDEXES_T(off, cap)
         /\ ramRingGetSize(ramRingAddToWriteIndex(r, toAdd)) = ramRingGetSize(r) + toAdd
         /\ ramRingAddToWriteIndex(r, toAdd).start = r.start
<1> DEFINE q == ramRingAddToWriteIndex(r, toAdd)
<1>1. /\ r.capacity = cap /\ r.offset = off
      /\ r.start \in 0 .. cap - 1 /\ r.end \in 0 .. cap
  BY DEF RAM_RING_INDEXES_T
<1>2. toAdd \in 0 .. cap
  BY SizeInRange
<1>3. CASE toAdd = 0
  BY <1>3, SizeInRange DEF ramRingAddToWriteIndex
<1>4. CASE toAdd # 0
  <2>1. r.end \in 0 .. cap - 1
    BY <1>1, <1>4 DEF ramRingGetRemainingCapacity, ramRingGetSize, ramRingIsFull
  <2>2. (r.end + toAdd) % cap =
          IF r.end + toAdd < cap THEN r.end + toAdd ELSE r.end + toAdd - cap
    BY <1>2, <2>1, ModAdd
  <2> DEFINE e == IF r.end + toAdd < cap THEN r.end + toAdd ELSE r.end + toAdd - cap
             f == IF e = r.start THEN cap ELSE e
  <2>3. q = [r EXCEPT !.end = f]
    BY <1>1, <1>4, <2>2 DEF ramRingAddToWriteIndex
  <2>4. e \in 0 .. cap - 1 /\ f \in 0 .. cap
    BY <1>1, <1>2, <2>1
  <2> HIDE DEF e, f, q
  <2>5. /\ q \in RAM_RING_INDEXES_T(off, cap)
        /\ q.capacity = cap /\ q.start = r.start /\ q.end = f
    BY <2>3, <2>4 DEF RAM_RING_INDEXES_T
  <2>6. ramRingGetSize(q) = ramRingGetSize(r) + toAdd
    <3>1. toAdd \in 1 .. ramRingGetRemainingCapacity(r)
      BY <1>4, <1>2
    <3> QED
      BY <1>1, <1>2, <2>1, <2>4, <2>5, <3>1
         DEF ramRingGetSize, ramRingIsFull, ramRingGetRemainingCapacity, e, f
  <2> QED
    BY <2>5, <2>6 DEF q
<1> QED
  BY <1>3, <1>4
-----------------------------------------------------------------------------
(* The queue *)

USE QueueAssumption

Ring == RAM_RING_INDEXES_T(Offset, Capacity)

\* The content of a ring r over the cells b.
ContentOf(r, b) == [i \in 1 .. ramRingGetSize(r) |-> b[CellOf(r, i)]]

LEMMA RingFields ==
  ASSUME NEW r \in Ring
  PROVE  /\ r.capacity = Capacity /\ r.offset = Offset
         /\ r.start \in 0 .. Capacity - 1 /\ r.end \in 0 .. Capacity
         /\ ramRingGetSize(r) \in 0 .. Capacity
         /\ ramRingIsEmpty(r) <=> ramRingGetSize(r) = 0
         /\ ramRingIsFull(r) <=> ramRingGetSize(r) = Capacity
  BY SizeInRange DEF Ring, RAM_RING_INDEXES_T

\* The cells of the items are cells of the queue, and no two items share one.
LEMMA CellsDiffer ==
  ASSUME NEW r \in Ring, NEW i \in 1 .. Capacity
  PROVE  /\ CellOf(r, i) \in Cell
         /\ \A j \in 1 .. Capacity : CellOf(r, i) = CellOf(r, j) => i = j
<1> USE RingFields DEF CellOf, Cell
<1>1. CellOf(r, i) \in Cell
  OBVIOUS
<1>2. ASSUME NEW j \in 1 .. Capacity, CellOf(r, i) = CellOf(r, j)
      PROVE  i = j
  BY <1>2
<1> QED
  BY <1>1, <1>2

\* The write index of a ring that is not full is the cell behind its content.
LEMMA WriteCell ==
  ASSUME NEW r \in Ring, ~ramRingIsFull(r)
  PROVE  /\ ramRingGetSize(r) \in 0 .. Capacity - 1
         /\ ramRingGetWriteIndex(r) = CellOf(r, ramRingGetSize(r) + 1)
BY RingFields DEF ramRingGetWriteIndex, CellOf, ramRingGetSize, ramRingIsFull

LEMMA ContentIsSeq ==
  ASSUME NEW r \in Ring, NEW b \in [Cell -> Item]
  PROVE  /\ ContentOf(r, b) \in Seq(Item)
         /\ Len(ContentOf(r, b)) = ramRingGetSize(r)
         /\ \A i \in 1 .. ramRingGetSize(r) : ContentOf(r, b)[i] = b[CellOf(r, i)]
<1>1. ramRingGetSize(r) \in Nat /\ ramRingGetSize(r) <= Capacity
  BY RingFields
<1>2. \A i \in 1 .. ramRingGetSize(r) : b[CellOf(r, i)] \in Item
  BY <1>1, CellsDiffer
<1>3. ContentOf(r, b) \in [1 .. ramRingGetSize(r) -> Item]
  BY <1>2 DEF ContentOf
<1>4. ContentOf(r, b) \in Seq(Item)
  BY <1>1, <1>3, SeqDef
<1>5. Len(ContentOf(r, b)) = ramRingGetSize(r)
  BY <1>1, <1>3, <1>4, LenProperties
<1> QED
  BY <1>4, <1>5 DEF ContentOf

\* Writing behind the content and moving the write index appends.
LEMMA PushAppends ==
  ASSUME NEW r \in Ring, ~ramRingIsFull(r), NEW b \in [Cell -> Item], NEW item \in Item
  PROVE  /\ ramRingIncWriteIndex(r) \in Ring
         /\ [b EXCEPT ![ramRingGetWriteIndex(r)] = item] \in [Cell -> Item]
         /\ ContentOf(ramRingIncWriteIndex(r), [b EXCEPT ![ramRingGetWriteIndex(r)] = item]) =
              Append(ContentOf(r, b), item)
<1> DEFINE w == ramRingIncWriteIndex(r)
           d == [b EXCEPT ![ramRingGetWriteIndex(r)] = item]
           n == ramRingGetSize(r)
<1>1. n \in 0 .. Capacity - 1 /\ ramRingGetWriteIndex(r) = CellOf(r, n + 1)
  BY WriteCell
<1>2. 1 \in 0 .. ramRingGetRemainingCapacity(r)
  BY <1>1, RingFields DEF ramRingGetRemainingCapacity
<1>3. w \in Ring /\ ramRingGetSize(w) = n + 1 /\ w.start = r.start
  BY <1>2, AddToWriteIndex DEF ramRingIncWriteIndex, Ring
<1>4. d \in [Cell -> Item]
  OBVIOUS
<1>5. \A i \in 1 .. Capacity : CellOf(w, i) = CellOf(r, i)
  BY <1>3, RingFields DEF CellOf
<1>6. \A i \in 1 .. n + 1 : d[CellOf(w, i)] = IF i = n + 1 THEN item ELSE b[CellOf(r, i)]
  BY <1>1, <1>5, CellsDiffer
<1> HIDE DEF w, n, d
<1>7. ContentOf(w, d) \in Seq(Item) /\ Len(ContentOf(w, d)) = n + 1
      /\ \A i \in 1 .. n + 1 : ContentOf(w, d)[i] = d[CellOf(w, i)]
  BY <1>3, <1>4, ContentIsSeq
<1>8. ContentOf(r, b) \in Seq(Item) /\ Len(ContentOf(r, b)) = n
      /\ \A i \in 1 .. n : ContentOf(r, b)[i] = b[CellOf(r, i)]
  BY ContentIsSeq DEF n
<1>9. /\ Append(ContentOf(r, b), item) \in Seq(Item)
      /\ Len(Append(ContentOf(r, b), item)) = n + 1
      /\ \A i \in 1 .. n + 1 : Append(ContentOf(r, b), item)[i] =
                                IF i = n + 1 THEN item ELSE ContentOf(r, b)[i]
  BY <1>1, <1>8
<1>10. \A i \in 1 .. n + 1 : ContentOf(w, d)[i] = Append(ContentOf(r, b), item)[i]
  BY <1>1, <1>6, <1>7, <1>8, <1>9
<1>11. ContentOf(w, d) = Append(ContentOf(r, b), item)
  BY <1>7, <1>9, <1>10, SeqEqual
<1> QED
  BY <1>3, <1>4, <1>11 DEF w, d

\* Moving the read index by one takes the head away, and nothing else.
LEMMA PopTails ==
  ASSUME NEW r \in Ring, ~ramRingIsEmpty(r), NEW b \in [Cell -> Item]
  PROVE  /\ ramRingIncReadIndex(r) \in Ring
         /\ ContentOf(r, b) # << >>
         /\ b[ramRingGetReadIndex(r)] = Head(ContentOf(r, b))
         /\ ContentOf(ramRingIncReadIndex(r), b) = Tail(ContentOf(r, b))
<1> DEFINE q == ramRingIncReadIndex(r)
           n == ramRingGetSize(r)
<1>1. n \in 1 .. Capacity
  BY RingFields
<1>2. /\ q \in Ring /\ ramRingGetSize(q) = n - 1
      /\ q.start = IF r.start + 1 < Capacity THEN r.start + 1 ELSE r.start + 1 - Capacity
  BY <1>1, AddToReadIndex DEF ramRingIncReadIndex, Ring
<1>3. \A i \in 1 .. n - 1 : CellOf(q, i) = CellOf(r, i + 1)
  BY <1>1, <1>2, RingFields DEF CellOf
<1>4. ramRingGetReadIndex(r) = CellOf(r, 1)
  BY RingFields DEF ramRingGetReadIndex, CellOf
<1> HIDE DEF q, n
<1>5. ContentOf(r, b) \in Seq(Item) /\ Len(ContentOf(r, b)) = n
      /\ \A i \in 1 .. n : ContentOf(r, b)[i] = b[CellOf(r, i)]
  BY ContentIsSeq DEF n
<1>6. ContentOf(q, b) \in Seq(Item) /\ Len(ContentOf(q, b)) = n - 1
      /\ \A i \in 1 .. n - 1 : ContentOf(q, b)[i] = b[CellOf(q, i)]
  BY <1>2, ContentIsSeq
<1>7. ContentOf(r, b) # << >>
  BY <1>1, <1>5
<1>8. /\ Tail(ContentOf(r, b)) \in Seq(Item)
      /\ Len(Tail(ContentOf(r, b))) = n - 1
      /\ \A i \in 1 .. n - 1 : Tail(ContentOf(r, b))[i] = ContentOf(r, b)[i + 1]
  BY <1>5, <1>7, HeadTailProperties
<1>9. \A i \in 1 .. n - 1 : ContentOf(q, b)[i] = Tail(ContentOf(r, b))[i]
  <2> TAKE i \in 1 .. n - 1
  <2>1. i + 1 \in 1 .. n
    BY <1>1
  <2> QED
    BY <2>1, <1>3, <1>5, <1>6, <1>8
<1>10. ContentOf(q, b) = Tail(ContentOf(r, b))
  BY <1>6, <1>8, <1>9, SeqEqual
<1>11. Head(ContentOf(r, b)) = b[CellOf(r, 1)]
  BY <1>1, <1>5
<1> QED
  BY <1>2, <1>4, <1>7, <1>10, <1>11 DEF q

LEMMA ResetEmpties ==
  ASSUME NEW r \in Ring, NEW b \in [Cell -> Item]
  PROVE  /\ ramRingReset(r) \in Ring
         /\ ContentOf(ramRingReset(r), b) = << >>
<1> DEFINE q == ramRingReset(r)
<1>0. q = [r EXCEPT !.start = 0, !.end = 0]
  BY DEF ramRingReset
<1>a. q \in Ring
  <2>1. 0 \in 0 .. Capacity - 1 /\ 0 \in 0 .. Capacity
    OBVIOUS
  <2>2. \A s \in 0 .. Capacity - 1, e \in 0 .. Capacity :
          [r EXCEPT !.start = s, !.end = e] \in Ring
    BY DEF Ring, RAM_RING_INDEXES_T
  <2> QED
    BY <1>0, <2>1, <2>2
<1>b. q.start = 0 /\ q.end = 0
  BY <1>0 DEF Ring, RAM_RING_INDEXES_T
<1>1. /\ ramRingReset(r) \in Ring
      /\ ramRingIsEmpty(ramRingReset(r))
  BY <1>a, <1>b DEF ramRingIsEmpty
<1>2. ramRingGetSize(ramRingReset(r)) = 0
  BY <1>1, RingFields
<1>3. ContentOf(ramRingReset(r), b) \in Seq(Item)
      /\ Len(ContentOf(ramRingReset(r), b)) = 0
  BY <1>1, <1>2, ContentIsSeq
<1> QED
  BY <1>1, <1>3, EmptySeq

\* A full queue makes room by its read index (queueForcePush(), lines 110-117).
LEMMA FullRingHasOldest ==
  ASSUME NEW r \in Ring, ramRingIsFull(r)
  PROVE  /\ ~ramRingIsEmpty(r)
         /\ ~ramRingIsFull(ramRingIncReadIndex(r))
<1>1. ramRingGetSize(r) = Capacity /\ 1 \in 0 .. ramRingGetSize(r)
  BY RingFields
<1>2. /\ ramRingIncReadIndex(r) \in Ring
      /\ ramRingGetSize(ramRingIncReadIndex(r)) = Capacity - 1
  BY <1>1, AddToReadIndex DEF ramRingIncReadIndex, Ring
<1> QED
  BY <1>1, <1>2, RingFields
-----------------------------------------------------------------------------
\* Every step of the queue keeps its types and is a step of the FIFO.
LEMMA NextStep ==
  ASSUME TypeOK, [Next]_vars
  PROVE  TypeOK' /\ [Fifo!FifoNext]_<<Content, pItem>>
<1>1. /\ indexes \in Ring /\ pBuffer \in [Cell -> Item] /\ pItem \in Item
      /\ Content = ContentOf(indexes, pBuffer)
  BY DEF TypeOK, Ring, Content, ContentOf
<1>2. Content' = ContentOf(indexes', pBuffer')
  BY DEF Content, ContentOf
<1>3. Content \in Seq(Item) /\ Len(Content) = ramRingGetSize(indexes)
  BY <1>1, ContentIsSeq
<1> DEFINE Goal == /\ indexes' \in Ring /\ pBuffer' \in [Cell -> Item] /\ pItem' \in Item
                   /\ [Fifo!FifoNext]_<<Content, pItem>>
<1> SUFFICES Goal
  BY DEF TypeOK, Ring
<1> USE DEF Fifo!FifoNext
<1>4. ASSUME NEW item \in Item, queuePush(item)
      PROVE  Goal
  <2>1. ~Fifo!IsFull(Content)
    BY <1>1, <1>3, <1>4, RingFields DEF queuePush, queueIsFull, Fifo!IsFull
  <2>2. /\ indexes' \in Ring /\ pBuffer' \in [Cell -> Item] /\ pItem' = pItem
        /\ Content' = Append(Content, item)
    BY <1>1, <1>2, <1>4, PushAppends DEF queuePush, queueIsFull
  <2> QED
    BY <1>1, <2>1, <2>2 DEF Fifo!Push
<1>5. ASSUME NEW item \in Item, queueForcePush(item)
      PROVE  Goal
  <2> DEFINE room == IF queueIsFull THEN ramRingIncReadIndex(indexes) ELSE indexes
  <2>1. /\ room \in Ring /\ ~ramRingIsFull(room)
        /\ ContentOf(room, pBuffer) = IF Fifo!IsFull(Content) THEN Tail(Content) ELSE Content
    <3>1. CASE queueIsFull
      BY <3>1, <1>1, <1>3, FullRingHasOldest, PopTails, RingFields DEF queueIsFull, Fifo!IsFull
    <3>2. CASE ~queueIsFull
      BY <3>2, <1>1, <1>3, RingFields DEF queueIsFull, Fifo!IsFull
    <3> QED
      BY <3>1, <3>2
  <2>2. /\ pBuffer' = [pBuffer EXCEPT ![ramRingGetWriteIndex(room)] = item]
        /\ indexes' = ramRingIncWriteIndex(room) /\ pItem' = pItem
    BY <1>5 DEF queueForcePush
  <2> HIDE DEF room
  <2>3. /\ indexes' \in Ring /\ pBuffer' \in [Cell -> Item]
        /\ ContentOf(indexes', pBuffer') = Append(ContentOf(room, pBuffer), item)
    <3>1. /\ ramRingIncWriteIndex(room) \in Ring
          /\ [pBuffer EXCEPT ![ramRingGetWriteIndex(room)] = item] \in [Cell -> Item]
          /\ ContentOf(ramRingIncWriteIndex(room),
                       [pBuffer EXCEPT ![ramRingGetWriteIndex(room)] = item]) =
               Append(ContentOf(room, pBuffer), item)
      <4>1. ASSUME NEW r \in Ring, ~ramRingIsFull(r)
            PROVE  /\ ramRingIncWriteIndex(r) \in Ring
                   /\ [pBuffer EXCEPT ![ramRingGetWriteIndex(r)] = item] \in [Cell -> Item]
                   /\ ContentOf(ramRingIncWriteIndex(r),
                                [pBuffer EXCEPT ![ramRingGetWriteIndex(r)] = item]) =
                        Append(ContentOf(r, pBuffer), item)
        BY <1>1, <4>1, PushAppends
      <4> QED
        BY <2>1, <4>1
    <3> QED
      BY <2>2, <3>1
  <2>4. Content' = Fifo!ForcePushed(Content, item)
    BY <1>2, <2>1, <2>3 DEF Fifo!ForcePushed
  <2>5. Fifo!ForcePush(item)
    BY <2>2, <2>4 DEF Fifo!ForcePush
  <2> QED
    BY <1>1, <2>2, <2>3, <2>5
<1>6. ASSUME queuePop PROVE Goal
  BY <1>1, <1>2, <1>6, PopTails, ContentIsSeq, HeadTailProperties
     DEF queuePop, queueIsEmpty, Fifo!Pop
<1>7. ASSUME queuePeek PROVE Goal
  BY <1>1, <1>2, <1>7, PopTails, ContentIsSeq, HeadTailProperties
     DEF queuePeek, queueIsEmpty, Fifo!Peek
<1>8. ASSUME queueSkip PROVE Goal
  BY <1>1, <1>2, <1>8, PopTails DEF queueSkip, queueIsEmpty, Fifo!Skip
<1>9. ASSUME queueReset PROVE Goal
  BY <1>1, <1>2, <1>9, ResetEmpties DEF queueReset, Fifo!Erase
<1>10. CASE UNCHANGED vars
  BY <1>1, <1>2, <1>10 DEF vars
<1> QED
  BY <1>4, <1>5, <1>6, <1>7, <1>8, <1>9, <1>10 DEF Next

LEMMA InitStep == Init => TypeOK /\ Fifo!FifoInit
<1> SUFFICES ASSUME Init PROVE TypeOK /\ Fifo!FifoInit
  OBVIOUS
<1>1. TypeOK
  BY DEF Init, TypeOK, RAM_RING_INDEXES_T
<1>2. ramRingGetSize(indexes) = 0
  BY DEF Init, ramRingGetSize, ramRingIsFull
<1>3. Content \in Seq(Item) /\ Len(Content) = 0
  BY <1>1, <1>2, ContentIsSeq DEF TypeOK, Ring, Content, ContentOf
<1> QED
  BY <1>1, <1>3, EmptySeq DEF Fifo!FifoInit, TypeOK

\* The indexes of a queue stay inside its cells whatever is pushed, popped or
\* erased (sw_queue.c and circular_index.c).
THEOREM TypeCorrect == Spec => []TypeOK
<1>1. Init => TypeOK
  BY InitStep
<1>2. TypeOK /\ [Next]_vars => TypeOK'
  BY NextStep
<1> QED
  BY <1>1, <1>2, PTL DEF Spec

\* The ring of cells of sw_queue.c implements the bounded FIFO, for every
\* capacity, offset and set of items.
THEOREM QueueIsFifo == Spec => ImplementsFifo
<1>1. Init => Fifo!FifoInit
  BY InitStep
<1>2. TypeOK /\ [Next]_vars => [Fifo!FifoNext]_<<Content, pItem>>
  BY NextStep
<1> QED
  BY <1>1, <1>2, TypeCorrect, PTL DEF Spec, ImplementsFifo, Fifo!FifoSpec, Fifo!fifoVars
=============================================================================
