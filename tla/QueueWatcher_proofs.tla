-------------------------- MODULE QueueWatcher_proofs --------------------------
(***************************************************************************)
(* Each erasure of a watched queue has a loss of its own for its cause,    *)
(* for any set of queues and events, any capacities and any number of      *)
(* losses.  ErasedForALoss with the types is inductive: an alarm is in the *)
(* alarm queue, or in the hand of the main task, until its erasure is      *)
(* counted.  What has to be shown is how Append and Tail change the number *)
(* of the places that a queue has in the alarm queue.                      *)
(***************************************************************************)
EXTENDS QueueWatcher, SequenceTheorems, FiniteSetTheorems, TLAPS

InHand(w) == IF main # "poll" /\ overflowed = w THEN 1 ELSE 0

\* The places of w in a sequence of alarms are finite in number.
LEMMA PlacesFinite ==
  ASSUME NEW w \in Watched, NEW s \in Seq(Watched)
  PROVE  IsFiniteSet(PlacesOf(w, s)) /\ Cardinality(PlacesOf(w, s)) \in Nat
<1>1. Len(s) \in Nat /\ PlacesOf(w, s) \in SUBSET (1 .. Len(s))
  BY DEF PlacesOf
<1>2. IsFiniteSet(1 .. Len(s))
  BY <1>1, FS_Interval
<1>3. IsFiniteSet(PlacesOf(w, s))
  BY <1>1, <1>2, FS_Subset
<1>. QED
  BY <1>3, FS_CardinalityType

\* A new alarm adds one place to its own queue, and none to the others.
LEMMA AppendPlaces ==
  ASSUME NEW w \in Watched, NEW v \in Watched, NEW s \in Seq(Watched)
  PROVE  Cardinality(PlacesOf(w, Append(s, v))) =
           Cardinality(PlacesOf(w, s)) + (IF v = w THEN 1 ELSE 0)
<1>1. /\ Len(s) \in Nat /\ Len(Append(s, v)) = Len(s) + 1
      /\ \A i \in 1 .. Len(s) : Append(s, v)[i] = s[i]
      /\ Append(s, v)[Len(s) + 1] = v
  OBVIOUS
<1>2. CASE v = w
  <2>1. PlacesOf(w, Append(s, v)) = PlacesOf(w, s) \cup {Len(s) + 1}
    BY <1>1, <1>2 DEF PlacesOf
  <2>2. Len(s) + 1 \notin PlacesOf(w, s)
    BY <1>1 DEF PlacesOf
  <2>. QED
    BY <1>2, <2>1, <2>2, PlacesFinite, FS_AddElement
<1>3. CASE v # w
  <2>1. PlacesOf(w, Append(s, v)) = PlacesOf(w, s)
    BY <1>1, <1>3 DEF PlacesOf
  <2>. QED
    BY <1>3, <2>1, PlacesFinite
<1>. QED
  BY <1>2, <1>3

\* An alarm that is taken leaves one place of its own queue, and none of the others.
LEMMA TailPlaces ==
  ASSUME NEW w \in Watched, NEW s \in Seq(Watched), s # << >>
  PROVE  Cardinality(PlacesOf(w, s)) =
           Cardinality(PlacesOf(w, Tail(s))) + (IF Head(s) = w THEN 1 ELSE 0)
<1> DEFINE behind == PlacesOf(w, s) \ {1}
           shift  == [i \in behind |-> i - 1]
<1>1. /\ Len(s) \in Nat \ {0} /\ Len(Tail(s)) = Len(s) - 1
      /\ \A i \in 1 .. Len(s) - 1 : Tail(s)[i] = s[i + 1]
      /\ Head(s) = s[1] /\ Tail(s) \in Seq(Watched)
  OBVIOUS
<1>2. IsFiniteSet(behind) /\ IsFiniteSet(PlacesOf(w, s))
  BY PlacesFinite, FS_RemoveElement
<1>3. Cardinality(PlacesOf(w, Tail(s))) = Cardinality(behind)
  <2>1. shift \in [behind -> PlacesOf(w, Tail(s))]
    BY <1>1 DEF PlacesOf
  <2>2. \A i, j \in behind : shift[i] = shift[j] => i = j
    BY <1>1 DEF PlacesOf
  <2>3. \A k \in PlacesOf(w, Tail(s)) : k + 1 \in behind /\ shift[k + 1] = k
    BY <1>1 DEF PlacesOf
  <2>4. ExistsBijection(behind, PlacesOf(w, Tail(s)))
    <3>1. shift \in Injection(behind, PlacesOf(w, Tail(s)))
      BY <2>1, <2>2, Zenon DEF Injection, IsInjective
    <3>2. shift \in Surjection(behind, PlacesOf(w, Tail(s)))
      BY <2>1, <2>3, Zenon DEF Surjection
    <3>. QED
      BY <3>1, <3>2, Zenon DEF ExistsBijection, Bijection
  <2>. QED
    BY <1>2, <2>4, FS_Bijection
<1>4. Cardinality(behind) =
        IF 1 \in PlacesOf(w, s) THEN Cardinality(PlacesOf(w, s)) - 1
                                ELSE Cardinality(PlacesOf(w, s))
  BY <1>2, FS_RemoveElement
<1>5. 1 \in PlacesOf(w, s) <=> Head(s) = w
  BY <1>1 DEF PlacesOf
<1>. QED
  BY <1>3, <1>4, <1>5, PlacesFinite
-----------------------------------------------------------------------------
IInv == TypeOK /\ ErasedForALoss

LEMMA Pending ==
  ASSUME TypeOK, NEW w \in Watched
  PROVE  /\ PendingAlarms(w) = Cardinality(PlacesOf(w, alarm)) + InHand(w)
         /\ Cardinality(PlacesOf(w, alarm)) \in Nat /\ InHand(w) \in {0, 1}
  BY PlacesFinite DEF TypeOK, PendingAlarms, InHand

LEMMA InitIInv == Init => IInv
<1>. SUFFICES ASSUME Init PROVE IInv
  OBVIOUS
<1>1. TypeOK
  BY QueueWatcherAssumption DEF Init, TypeOK
<1>2. \A w \in Watched : PlacesOf(w, alarm) = {}
  BY DEF Init, PlacesOf
<1>3. ErasedForALoss
  <2>1. \A w \in Watched : PendingAlarms(w) = 0 + 0
    BY <1>2, FS_EmptySet, Zenon DEF Init, PendingAlarms
  <2>. QED
    BY <2>1 DEF Init, ErasedForALoss
<1>. QED
  BY <1>1, <1>3 DEF IInv

LEMMA PushKeeps ==
  ASSUME IInv, NEW w \in Watched, Push(w) \/ Take(w)
  PROVE  IInv'
<1>1. count' \in [Watched -> 0 .. Capacity]
  BY QueueWatcherAssumption DEF IInv, TypeOK, Push, Take
<1>2. UNCHANGED <<alarm, main, overflowed, lost, erased, unlogged, refused>>
  BY DEF Push, Take
<1>. QED
  BY <1>1, <1>2 DEF IInv, TypeOK, ErasedForALoss, PendingAlarms, PlacesOf

LEMMA PushFullKeeps ==
  ASSUME IInv, NEW w \in Watched, PushFull(w)
  PROVE  IInv'
<1>1. /\ lost' = [lost EXCEPT ![w] = @ + 1] /\ lost[w] < MaxLost
      /\ lost \in [Watched -> 0 .. MaxLost] /\ MaxLost \in Nat
      /\ UNCHANGED <<count, main, overflowed, erased>>
  BY QueueWatcherAssumption DEF PushFull, IInv, TypeOK
<1>2. lost' \in [Watched -> 0 .. MaxLost]
  BY <1>1
<1>3. /\ alarm \in Seq(Watched) /\ Len(alarm) <= AlarmCapacity /\ AlarmCapacity \in Nat
      /\ (alarm' = Append(alarm, w) /\ Len(alarm) < AlarmCapacity) \/ alarm' = alarm
  BY QueueWatcherAssumption DEF PushFull, Alarm, IInv, TypeOK
<1>4. alarm' \in Seq(Watched) /\ Len(alarm') <= AlarmCapacity
  BY <1>3
<1>5. refused' \subseteq Watched /\ unlogged' \in [Watched -> BOOLEAN]
  BY DEF PushFull, Alarm, IInv, TypeOK
<1>6. TypeOK'
  BY <1>1, <1>2, <1>4, <1>5 DEF IInv, TypeOK
<1>7. ASSUME NEW v \in Watched
      PROVE  erased'[v] + PendingAlarms(v)' <= lost'[v]
  <2>1. Cardinality(PlacesOf(v, alarm'))
          <= Cardinality(PlacesOf(v, alarm)) + (IF w = v THEN 1 ELSE 0)
    <3>1. Cardinality(PlacesOf(v, alarm)) \in Nat
      BY <1>3, PlacesFinite
    <3>2. CASE alarm' = Append(alarm, w)
      BY <1>3, <3>1, <3>2, AppendPlaces
    <3>3. CASE alarm' = alarm
      <4>1. Cardinality(PlacesOf(v, alarm')) = Cardinality(PlacesOf(v, alarm))
        BY <3>3
      <4>. QED
        BY <3>1, <4>1
    <3>. QED
      BY <1>3, <3>2, <3>3
  <2>2. InHand(v)' = InHand(v)
    BY <1>1 DEF InHand
  <2>3. lost'[v] = lost[v] + (IF w = v THEN 1 ELSE 0)
    BY <1>1
  <2>4. erased[v] + PendingAlarms(v) <= lost[v]
    BY DEF IInv, ErasedForALoss
  <2>5. erased[v] \in Nat /\ lost[v] \in Nat /\ erased' = erased
    BY <1>1, QueueWatcherAssumption DEF IInv, TypeOK
  <2>6. /\ PendingAlarms(v) = Cardinality(PlacesOf(v, alarm)) + InHand(v)
        /\ Cardinality(PlacesOf(v, alarm)) \in Nat /\ InHand(v) \in {0, 1}
    BY Pending DEF IInv
  <2>7. /\ PendingAlarms(v)' = Cardinality(PlacesOf(v, alarm')) + InHand(v)'
        /\ Cardinality(PlacesOf(v, alarm')) \in Nat
    BY <1>4, PlacesFinite DEF PendingAlarms, InHand
  <2>. QED
    BY <2>1, <2>2, <2>3, <2>4, <2>5, <2>6, <2>7
<1>. QED
  BY <1>6, <1>7 DEF IInv, ErasedForALoss

LEMMA PollAlarmKeeps ==
  ASSUME IInv, PollAlarm
  PROVE  IInv'
<1>1. /\ main = "poll" /\ alarm # << >> /\ alarm \in Seq(Watched)
      /\ overflowed' = Head(alarm) /\ alarm' = Tail(alarm) /\ main' = "log"
      /\ UNCHANGED <<count, lost, erased, unlogged, refused>>
  BY DEF PollAlarm, IInv, TypeOK
<1>2. /\ alarm' \in Seq(Watched) /\ Len(alarm') <= Len(alarm)
      /\ Len(alarm) \in Nat /\ Len(alarm') \in Nat /\ overflowed' \in Watched
  BY <1>1
<1>3. TypeOK'
  BY <1>1, <1>2, QueueWatcherAssumption DEF IInv, TypeOK
<1>4. ASSUME NEW v \in Watched
      PROVE  PendingAlarms(v)' = PendingAlarms(v)
  BY <1>1, TailPlaces, PlacesFinite DEF PendingAlarms
<1>. QED
  BY <1>1, <1>3, <1>4 DEF IInv, ErasedForALoss

LEMMA LogKeeps ==
  ASSUME IInv, Log
  PROVE  IInv'
<1>1. /\ main = "log" /\ main' \in {"poll", "erase"}
      /\ UNCHANGED <<count, alarm, overflowed, lost, erased>>
  BY DEF Log
<1>2. unlogged' \in [Watched -> BOOLEAN] /\ refused' \subseteq Watched
  BY DEF Log, IInv, TypeOK
<1>3. TypeOK'
  BY <1>1, <1>2 DEF IInv, TypeOK
<1>4. ASSUME NEW v \in Watched
      PROVE  erased'[v] + PendingAlarms(v)' <= lost'[v]
  <2>1. InHand(v)' <= InHand(v) /\ InHand(v)' \in {0, 1}
    BY <1>1 DEF InHand
  <2>2. PendingAlarms(v)' = Cardinality(PlacesOf(v, alarm)) + InHand(v)'
    BY <1>1 DEF PendingAlarms, InHand
  <2>3. erased[v] + PendingAlarms(v) <= lost[v] /\ erased[v] \in Nat /\ lost[v] \in Nat
    BY QueueWatcherAssumption DEF IInv, ErasedForALoss, TypeOK
  <2>. QED
    BY <1>1, <2>1, <2>2, <2>3, Pending DEF IInv
<1>. QED
  BY <1>3, <1>4 DEF IInv, ErasedForALoss

LEMMA EraseKeeps ==
  ASSUME IInv, Erase
  PROVE  IInv'
<1>1. /\ main = "erase" /\ main' = "poll" /\ overflowed \in Watched
      /\ count' = [count EXCEPT ![overflowed] = 0]
      /\ erased' = [erased EXCEPT ![overflowed] = @ + 1]
      /\ UNCHANGED <<alarm, overflowed, lost, unlogged, refused>>
      /\ erased \in [Watched -> 0 .. MaxLost] /\ lost \in [Watched -> 0 .. MaxLost]
      /\ MaxLost \in Nat
  BY QueueWatcherAssumption DEF Erase, IInv, TypeOK
<1>2. ASSUME NEW v \in Watched
      PROVE  /\ erased'[v] + PendingAlarms(v)' <= lost[v]
             /\ erased'[v] \in 0 .. MaxLost
  <2>1. InHand(v) = (IF overflowed = v THEN 1 ELSE 0) /\ InHand(v)' = 0
    BY <1>1 DEF InHand
  <2>2. PendingAlarms(v)' = Cardinality(PlacesOf(v, alarm))
    <3>1. PendingAlarms(v)' = Cardinality(PlacesOf(v, alarm)) + 0
      BY <1>1 DEF PendingAlarms
    <3>. QED
      BY <3>1, Pending DEF IInv
  <2>3. erased'[v] = erased[v] + (IF overflowed = v THEN 1 ELSE 0)
    BY <1>1
  <2>4. erased[v] + PendingAlarms(v) <= lost[v]
    BY DEF IInv, ErasedForALoss
  <2>5. /\ PendingAlarms(v) = Cardinality(PlacesOf(v, alarm)) + InHand(v)
        /\ Cardinality(PlacesOf(v, alarm)) \in Nat
    BY Pending DEF IInv
  <2>6. erased[v] \in 0 .. MaxLost /\ lost[v] \in 0 .. MaxLost
    BY <1>1
  <2>. QED
    BY <1>1, <2>1, <2>2, <2>3, <2>4, <2>5, <2>6
<1>3. erased' \in [Watched -> 0 .. MaxLost]
  BY <1>1, <1>2
<1>4. count' \in [Watched -> 0 .. Capacity]
  BY <1>1, QueueWatcherAssumption DEF IInv, TypeOK
<1>5. TypeOK'
  BY <1>1, <1>3, <1>4 DEF IInv, TypeOK
<1>. QED
  BY <1>1, <1>2, <1>5 DEF IInv, ErasedForALoss

LEMMA NextIInv == IInv /\ [Next]_vars => IInv'
<1>. SUFFICES ASSUME IInv, [Next]_vars PROVE IInv'
  OBVIOUS
<1>1. ASSUME NEW w \in Watched, Push(w) \/ PushFull(w) \/ Take(w) PROVE IInv'
  BY <1>1, PushKeeps, PushFullKeeps
<1>2. CASE MainTask
  BY <1>2, PollAlarmKeeps, LogKeeps, EraseKeeps DEF MainTask
<1>3. CASE UNCHANGED vars
  BY <1>3 DEF vars, IInv, TypeOK, ErasedForALoss, PendingAlarms, PlacesOf
<1>. QED
  BY <1>1, <1>2, <1>3 DEF Next

LEMMA Inductive == Spec => []IInv
  BY InitIInv, NextIInv, PTL DEF Spec
-----------------------------------------------------------------------------
\* The alarm queue, the counters and what the main task holds stay in their ranges;
\* that no queue is erased more often than it may lose messages needs ErasedForALoss.
THEOREM TypeCorrect == Spec => []TypeOK
  BY Inductive, PTL DEF IInv

\* queuePollAlarm() erases a queue at most once for each message that the queue has
\* lost, however its steps mix with interrupts and with the alarms of other queues.
THEOREM NoErasureWithoutLoss == Spec => []ErasedForALoss
  BY Inductive, PTL DEF IInv
=============================================================================
