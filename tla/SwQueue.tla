------------------------------- MODULE SwQueue -------------------------------
(***************************************************************************)
(* A software queue (srclib/fifo/sw_queue.{h,c}): a ring of Capacity       *)
(* memory cells addressed by circular indexes.  Every call is one atomic   *)
(* step: tasks use the ...Safe variants, which run in a critical section,  *)
(* and the plain variants are called by the interrupt routine, which no    *)
(* task can interrupt.                                                     *)
(***************************************************************************)
EXTENDS CircularIndex, Sequences

CONSTANTS Capacity,   \* indexes.capacity
          Offset,     \* indexes.offset, the place of the queue in a shared buffer
          Item        \* the items, each of itemSize bytes

ASSUME QueueAssumption == Capacity \in Nat \ {0} /\ Offset \in Nat

VARIABLES indexes,    \* pThis->indexes
          pBuffer,    \* the memory cells pThis->pBuffer
          pItem       \* the variable of the caller that receives an item

vars == <<indexes, pBuffer, pItem>>

Cell == Offset .. Offset + Capacity - 1

TypeOK ==
  /\ indexes \in RAM_RING_INDEXES_T(Offset, Capacity)
  /\ pBuffer \in [Cell -> Item]
  /\ pItem \in Item
-----------------------------------------------------------------------------
\* queueCreateOffset(): the memory cells keep what they held before.
Init ==
  /\ indexes = [offset |-> Offset, capacity |-> Capacity, start |-> 0, end |-> 0]
  /\ pBuffer \in [Cell -> Item]
  /\ pItem \in Item

queueIsFull  == ramRingIsFull(indexes)
queueIsEmpty == ramRingIsEmpty(indexes)

\* queuePush(): refused when the queue is full (the call returns false).
queuePush(item) ==
  /\ ~queueIsFull
  /\ pBuffer' = [pBuffer EXCEPT ![ramRingGetWriteIndex(indexes)] = item]
  /\ indexes' = ramRingIncWriteIndex(indexes)
  /\ UNCHANGED pItem

\* queueForcePush(): a full queue loses its oldest item (the call returns false).
queueForcePush(item) ==
  LET room == IF queueIsFull THEN ramRingIncReadIndex(indexes) ELSE indexes
  IN  /\ pBuffer' = [pBuffer EXCEPT ![ramRingGetWriteIndex(room)] = item]
      /\ indexes' = ramRingIncWriteIndex(room)
      /\ UNCHANGED pItem

\* queuePop(), queuePeek() and queueSkip() return false when the queue is empty.
queuePop ==
  /\ ~queueIsEmpty
  /\ pItem' = pBuffer[ramRingGetReadIndex(indexes)]
  /\ indexes' = ramRingIncReadIndex(indexes)
  /\ UNCHANGED pBuffer

queuePeek ==
  /\ ~queueIsEmpty
  /\ pItem' = pBuffer[ramRingGetReadIndex(indexes)]
  /\ UNCHANGED <<indexes, pBuffer>>

queueSkip ==
  /\ ~queueIsEmpty
  /\ indexes' = ramRingIncReadIndex(indexes)
  /\ UNCHANGED <<pBuffer, pItem>>

queueReset ==
  /\ indexes' = ramRingReset(indexes)
  /\ UNCHANGED <<pBuffer, pItem>>

Next ==
  \/ \E item \in Item : queuePush(item) \/ queueForcePush(item)
  \/ queuePop \/ queuePeek \/ queueSkip \/ queueReset

Spec == Init /\ [][Next]_vars
-----------------------------------------------------------------------------
\* The cell of the i-th item, counted from the oldest.
CellOf(r, i) == LET k == r.start + i - 1
                IN  r.offset + IF k < r.capacity THEN k ELSE k - r.capacity

\* The items the ring holds, the oldest first: the refinement mapping.
Content == [i \in 1 .. ramRingGetSize(indexes) |-> pBuffer[CellOf(indexes, i)]]

Fifo == INSTANCE BoundedFifo WITH queue <- Content, popped <- pItem

\* The ring of cells behaves as a bounded FIFO: no item is lost, repeated,
\* reordered or invented by the wrap of the indexes or by the encoding of
\* "full", whatever the sequence of queuePush, queueForcePush, queuePop,
\* queuePeek, queueSkip and queueReset (sw_queue.c).
ImplementsFifo == Fifo!FifoSpec
=============================================================================
