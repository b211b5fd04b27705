---------------------------- MODULE CircularIndex ----------------------------
(***************************************************************************)
(* The index arithmetic of every ring buffer of the SCU software           *)
(* (srclib/fifo/circular_index.{h,c}): the software queues between the     *)
(* interrupt routine and the tasks of the LM32, and the shared rings that  *)
(* the LM32 writes and a Linux client reads.                               *)
(*                                                                         *)
(* A ring is the record RAM_RING_INDEXES_T.  Its one subtlety is how a     *)
(* full ring is told from an empty one: `start = end' is empty, and a ring *)
(* that has become full gets the otherwise illegal write index `capacity'. *)
(* Indexes are uint32_t in the code; end + toAdd stays far below 2^32 as   *)
(* no ring of the system holds 2^31 elements.                              *)
(***************************************************************************)
EXTENDS Naturals

\* The values a RAM_RING_INDEXES_T of the given place and size can have.
RAM_RING_INDEXES_T(off, cap) ==
  [offset : {off}, capacity : {cap}, start : 0 .. cap - 1, end : 0 .. cap]

ramRingReset(r) == [r EXCEPT !.start = 0, !.end = 0]

ramRingIsFull(r)  == r.end = r.capacity
ramRingIsEmpty(r) == r.end = r.start

ramRingGetSize(r) ==
  IF ramRingIsFull(r) THEN r.capacity
  ELSE IF r.end >= r.start THEN r.end - r.start
  ELSE (r.capacity - r.start) + r.end

ramRingGetRemainingCapacity(r) == r.capacity - ramRingGetSize(r)

ramRingGetReadIndex(r) == r.start + r.offset

\* The write index of a full ring is marked invalid: there the read index is
\* the next place to write.
ramRingGetWriteIndex(r) ==
  IF ramRingIsFull(r) THEN ramRingGetReadIndex(r) ELSE r.end + r.offset

\* A write index that catches up with the read index has made the ring full.
ramRingAddToWriteIndex(r, toAdd) ==
  IF toAdd = 0 THEN r
  ELSE LET e == (r.end + toAdd) % r.capacity
       IN  [r EXCEPT !.end = IF e = r.start THEN r.capacity ELSE e]

ramRingIncWriteIndex(r) == ramRingAddToWriteIndex(r, 1)

ReadIndexWithoutWrap(r, toAdd) ==
  IF toAdd = 0 THEN r
  ELSE [r EXCEPT !.end   = IF ramRingIsFull(r) THEN r.start ELSE @,
                 !.start = r.start + toAdd]

ReadIndexStillFull(r, toAdd) ==
  IF toAdd = 0 THEN r ELSE [r EXCEPT !.start = (r.start + toAdd) % r.capacity]

\* Reading from a full ring first restores a valid write index.
ramRingAddToReadIndex(r, toAdd) ==
  IF toAdd = 0 THEN r
  ELSE [r EXCEPT !.end   = IF ramRingIsFull(r) THEN r.start ELSE @,
                 !.start = (r.start + toAdd) % r.capacity]

ramRingIncReadIndex(r) == ramRingAddToReadIndex(r, 1)

ramRingGetUpperReadSize(r) == r.capacity - r.start
=============================================================================
