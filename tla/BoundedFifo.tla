----------------------------- MODULE BoundedFifo -----------------------------
(***************************************************************************)
(* What a software queue of the SCU promises its users: a FIFO of at most  *)
(* Capacity items that can be pushed (refused when full), force-pushed     *)
(* (the oldest item makes place), popped, skipped and erased.  srclib/fifo *)
(* /sw_queue.c implements it with a ring of memory cells; module SwQueue   *)
(* is that implementation and refines this specification.                  *)
(***************************************************************************)
EXTENDS Naturals, Sequences

CONSTANTS Capacity,  \* the most items the queue holds
          Item       \* the items that can be sent

VARIABLES queue,     \* the items in the queue, the oldest first
          popped     \* what the last successful pop or peek delivered

fifoVars == <<queue, popped>>

\* The results of the operations, for the modules that only need a queue as data.
IsFull(q) == Len(q) = Capacity
ForcePushed(q, item) == Append(IF IsFull(q) THEN Tail(q) ELSE q, item)

FifoInit == queue = << >> /\ popped \in Item

Push(item) ==
  /\ ~IsFull(queue)
  /\ queue' = Append(queue, item)
  /\ UNCHANGED popped

ForcePush(item) ==
  /\ queue' = ForcePushed(queue, item)
  /\ UNCHANGED popped

Peek ==
  /\ queue # << >>
  /\ popped' = Head(queue)
  /\ UNCHANGED queue

Pop ==
  /\ queue # << >>
  /\ popped' = Head(queue)
  /\ queue' = Tail(queue)

Skip ==
  /\ queue # << >>
  /\ queue' = Tail(queue)
  /\ UNCHANGED popped

Erase == queue' = << >> /\ UNCHANGED popped

FifoNext ==
  \/ \E item \in Item : Push(item) \/ ForcePush(item)
  \/ Peek \/ Pop \/ Skip \/ Erase

FifoSpec == FifoInit /\ [][FifoNext]_fifoVars
=============================================================================
