--------------------------- MODULE MilDaqRing_proofs ---------------------------
(***************************************************************************)
(* The MIL-DAQ ring for any capacity, item length, middle buffer and       *)
(* number of items, clears and restarts: the client never acknowledges     *)
(* more words than the ring holds, it never meets a part of an item, what  *)
(* it hands on is never made of two items, and as long as nothing is       *)
(* removed it gets every item once and in order.                           *)
(*                                                                         *)
(* The first argument: let Content be the words that the ring will hold    *)
(* when the server is back at the head of its loop.  Making an item never  *)
(* lessens it, with an overflow or without: only an acknowledgement does.  *)
(* What the client is about to acknowledge, has acknowledged, or may have  *)
(* to acknowledge once more is at most Content from the moment it has seen *)
(* the indexes, and while it is on its way to the server there is no other *)
(* acknowledgement on its way.                                             *)
(*                                                                         *)
(* The second: number all the words that are ever made.  The ring always   *)
(* holds those from Oldest on without a gap, Oldest begins an item and     *)
(* moves by whole items only, and what the client has read are the words   *)
(* from the same number on, as long as Oldest has not moved meanwhile.     *)
(* When nothing is removed, Oldest is the number of words that onData()    *)
(* has got, but for the one acknowledgement that is on its way.            *)
(***************************************************************************)
EXTENDS MilDaqRing, SequenceTheorems, TLAPS

Pushing == server \in {"write", "publish_start", "publish_end"}

\* The words that will be in the ring when the server is back at its loop.
Content ==
  IF Pushing THEN ramRingGetSize(local) + (ItemLen - written)
  ELSE IF server = "sync_start" /\ ramRingIsEmpty(indexes) THEN Capacity
  ELSE ramRingGetSize(indexes)

Moved(start) == IF start + ItemLen < Capacity THEN start + ItemLen ELSE start + ItemLen - Capacity

Positions ==
  /\ removed <= items
  /\ server = "write" => written < ItemLen
  /\ server \in {"publish_start", "publish_end"} => written = ItemLen
  /\ client \in {"send", "deliver"} => Len(middle) = toRead
  /\ client \in {"resend", "clear"} => Len(middle) = 0

Copy ==
  /\ Pushing => Content <= Capacity /\ ramRingGetSize(indexes) <= Content
  /\ server \in {"write", "publish_start"} =>
        \/ local.start = indexes.start
        \/ ramRingGetSize(indexes) >= ItemLen /\ local.start = Moved(indexes.start)
  /\ server = "publish_end" => local.start = indexes.start

Reading == client \in {"read", "send", "resend", "clear"}

Claims ==
  /\ wasRead = 0 => toAdd = 0
  /\ server \in {"sync_full", "sync_start"} => toAdd # 0 /\ toAdd <= Content
  /\ Reading => ~AckUnderWay /\ toRead <= Content
  /\ toAdd # 0 => ~unapplied /\ server \in {"sync_full", "sync_start", "sync_done"}
  /\ unapplied => wasRead <= Content /\ cWasRead <= Content
  /\ ~unapplied /\ wasRead # 0 => toAdd # 0

IInv == TypeOK /\ Positions /\ Copy /\ (~repeated => Claims)

ServerTypes ==
  /\ indexes \in Ring /\ local \in Ring
  /\ wasRead \in 0 .. Capacity /\ toAdd \in 0 .. Capacity
  /\ ram \in [0 .. Capacity - 1 -> Word]
  /\ server \in ServerAt
  /\ written \in 0 .. ItemLen /\ items \in 0 .. MaxItems /\ removed \in 0 .. MaxItems

ClientTypes ==
  /\ client \in ClientAt
  /\ lastReadIndex \in 0 .. Capacity - 1 /\ readIndex \in 0 .. Capacity - 1
  /\ cWasRead \in 0 .. Capacity /\ toRead \in 0 .. Capacity
  /\ middle \in Seq(Word) /\ Len(middle) <= toRead
  /\ delivered \in Seq(0 .. MaxItems)
  /\ clears \in 0 .. MaxClears /\ restarts \in 0 .. MaxRestarts

HistoryTypes == overtaken \in BOOLEAN /\ unapplied \in BOOLEAN /\ repeated \in BOOLEAN

LEMMA TypeParts == TypeOK <=> ServerTypes /\ ClientTypes /\ HistoryTypes
  BY Zenon DEF TypeOK, ServerTypes, ClientTypes, HistoryTypes

LEMMA TypePartsNext == TypeOK' <=> ServerTypes' /\ ClientTypes' /\ HistoryTypes'
  BY Zenon DEF TypeOK, ServerTypes, ClientTypes, HistoryTypes
-----------------------------------------------------------------------------
(* The constants and the ring *)

\* A multiple of the item length that is not zero is no less than it.
LEMMA Lengths ==
  /\ Capacity \in Nat \ {0} /\ ItemLen \in Nat \ {0, 1}
  /\ MiddleBuffer \in 1 .. Capacity
  /\ 2 * ItemLen <= Capacity + 1
<1> DEFINE k == Capacity \div ItemLen
<1>1. /\ Capacity \in Nat \ {0} /\ ItemLen \in Nat \ {0, 1} /\ MiddleBuffer \in 1 .. k
      /\ MiddleBuffer % ItemLen = 0 /\ ItemLen <= Capacity
  BY MilDaqRingAssumption
<1>2. k \in Nat /\ ItemLen * k <= Capacity
  BY <1>1
<1>3. MiddleBuffer >= ItemLen
  BY <1>1, <1>2
<1>4. k >= 2 /\ k <= ItemLen * k
  BY <1>1, <1>2, <1>3
<1>5. ItemLen * 2 <= ItemLen * k
  BY <1>1, <1>2, <1>4
<1>. QED
  BY <1>1, <1>2, <1>4, <1>5

LEMMA RingFields ==
  ASSUME NEW r \in Ring
  PROVE  /\ r.capacity = Capacity /\ r.offset = 0
         /\ r.start \in 0 .. Capacity - 1 /\ r.end \in 0 .. Capacity
         /\ ramRingGetSize(r) \in 0 .. Capacity
         /\ ramRingGetRemainingCapacity(r) = Capacity - ramRingGetSize(r)
         /\ ramRingIsEmpty(r) <=> ramRingGetSize(r) = 0
         /\ ramRingIsFull(r) <=> ramRingGetSize(r) = Capacity
  BY Lengths DEF Ring, RAM_RING_INDEXES_T, ramRingGetSize, ramRingGetRemainingCapacity, ramRingIsEmpty,
                 ramRingIsFull

\* `%' only ever sees sums below twice the capacity: one subtraction.
LEMMA ModAdd ==
  ASSUME NEW cap \in Nat \ {0}, NEW i \in 0 .. cap - 1, NEW n \in 0 .. cap
  PROVE  (i + n) % cap = IF i + n < cap THEN i + n ELSE i + n - cap
<1>1. CASE i + n < cap
  BY <1>1, SMT
<1>2. CASE i + n >= cap
  BY <1>2, SMT
<1>. QED
  BY <1>1, <1>2

LEMMA AdvancedInRing ==
  ASSUME NEW i \in 0 .. Capacity - 1, NEW n \in 0 .. Capacity
  PROVE  Advanced(i, n) \in 0 .. Capacity - 1
  BY ModAdd, Lengths DEF Advanced

\* An item is removed: its words, no more.
LEMMA OldestRemoved ==
  ASSUME NEW r \in Ring, ItemLen <= ramRingGetSize(r)
  PROVE  /\ RemoveOldest(r) \in Ring
         /\ ramRingGetSize(RemoveOldest(r)) = ramRingGetSize(r) - ItemLen
         /\ RemoveOldest(r).start = Moved(r.start)
<1> DEFINE s == (r.start + ItemLen) % Capacity
           e == IF ramRingIsFull(r) THEN r.start ELSE r.end
<1>1. /\ r.capacity = Capacity /\ r.start \in 0 .. Capacity - 1 /\ r.end \in 0 .. Capacity
      /\ ItemLen \in 0 .. Capacity /\ ItemLen # 0 /\ Capacity \in Nat \ {0}
  BY Lengths, RingFields
<1>2. RemoveOldest(r) = [r EXCEPT !.end = e, !.start = s]
  BY <1>1 DEF RemoveOldest, ramRingAddToReadIndex
<1>3. s = IF r.start + ItemLen < Capacity THEN r.start + ItemLen
          ELSE r.start + ItemLen - Capacity
  BY <1>1, ModAdd
<1>4. s \in 0 .. Capacity - 1 /\ e \in 0 .. Capacity
  BY <1>1, <1>3
<1>. HIDE DEF s, e
<1>5. /\ RemoveOldest(r) \in Ring /\ RemoveOldest(r).capacity = Capacity
      /\ RemoveOldest(r).start = s /\ RemoveOldest(r).end = e
  BY <1>2, <1>4 DEF Ring, RAM_RING_INDEXES_T
<1>6. ramRingGetSize(RemoveOldest(r)) = ramRingGetSize(r) - ItemLen
  <2>1. ItemLen \in 1 .. ramRingGetSize(r)
    BY <1>1, RingFields
  <2>. QED
    BY <1>1, <1>3, <1>4, <1>5, <2>1 DEF ramRingGetSize, ramRingIsFull, e
<1>. QED
  BY <1>3, <1>5, <1>6 DEF Moved

LEMMA WordWritten ==
  ASSUME NEW r \in Ring, ramRingGetSize(r) < Capacity
  PROVE  /\ ramRingIncWriteIndex(r) \in Ring
         /\ ramRingGetSize(ramRingIncWriteIndex(r)) = ramRingGetSize(r) + 1
         /\ ramRingIncWriteIndex(r).start = r.start
         /\ ramRingGetWriteIndex(r) \in 0 .. Capacity - 1
<1> DEFINE e == IF r.end + 1 < Capacity THEN r.end + 1 ELSE 0
           f == IF e = r.start THEN Capacity ELSE e
<1>1. /\ r.capacity = Capacity /\ r.start \in 0 .. Capacity - 1 /\ r.end \in 0 .. Capacity - 1
      /\ Capacity \in Nat \ {0} /\ 1 \in 0 .. Capacity
  BY RingFields, Lengths DEF ramRingIsFull
<1>2. (r.end + 1) % Capacity = e
  <2>1. (r.end + 1) % Capacity = IF r.end + 1 < Capacity THEN r.end + 1 ELSE r.end + 1 - Capacity
    BY <1>1, ModAdd
  <2>. QED
    BY <1>1, <2>1
<1>3. ramRingIncWriteIndex(r) = [r EXCEPT !.end = f]
  BY <1>1, <1>2 DEF ramRingIncWriteIndex, ramRingAddToWriteIndex
<1>4. e \in 0 .. Capacity - 1 /\ f \in 0 .. Capacity
  BY <1>1
<1>. HIDE DEF e, f
<1>5. /\ ramRingIncWriteIndex(r) \in Ring /\ ramRingIncWriteIndex(r).capacity = Capacity
      /\ ramRingIncWriteIndex(r).start = r.start /\ ramRingIncWriteIndex(r).end = f
  BY <1>3, <1>4 DEF Ring, RAM_RING_INDEXES_T
<1>6. ramRingGetSize(ramRingIncWriteIndex(r)) = ramRingGetSize(r) + 1
  BY <1>1, <1>4, <1>5 DEF ramRingGetSize, ramRingIsFull, e, f
<1>7. ramRingGetWriteIndex(r) \in 0 .. Capacity - 1
  BY RingFields, Lengths DEF ramRingGetWriteIndex, ramRingGetReadIndex, ramRingIsFull
<1>. QED
  BY <1>5, <1>6, <1>7

\* The start of the copied indexes is stored and their end not yet: a full ring still
\* looks full, and any other has lost the oldest item.
LEMMA StartPublished ==
  ASSUME NEW r \in Ring, ItemLen <= ramRingGetSize(r)
  PROVE  ramRingGetSize([r EXCEPT !.start = Moved(r.start)]) <= ramRingGetSize(r)
<1>1. /\ [r EXCEPT !.start = Moved(r.start)].start = Moved(r.start)
      /\ [r EXCEPT !.start = Moved(r.start)].end = r.end
      /\ [r EXCEPT !.start = Moved(r.start)].capacity = r.capacity
  BY DEF Ring, RAM_RING_INDEXES_T
<1>. QED
  BY <1>1, RingFields, Lengths DEF ramRingGetSize, ramRingIsFull, Moved
-----------------------------------------------------------------------------
LEMMA InitIInv == Init => IInv
<1>. SUFFICES ASSUME Init PROVE IInv
  OBVIOUS
<1>1. EmptyRing \in Ring /\ ramRingGetSize(EmptyRing) = 0
  BY Lengths DEF EmptyRing, Ring, RAM_RING_INDEXES_T, ramRingGetSize, ramRingIsFull
<1>2. NoWord \in Word
  BY MilDaqRingAssumption DEF NoWord, Word
<1>3. ServerTypes
  BY <1>1, <1>2, MilDaqRingAssumption DEF Init, ServerTypes, ServerAt
<1>4. ClientTypes
  BY Lengths, MilDaqRingAssumption DEF Init, ClientTypes, ClientAt
<1>5. HistoryTypes
  BY Zenon DEF Init, HistoryTypes
<1>6. Positions /\ Copy
  BY <1>1 DEF Init, Positions, Copy, Pushing
<1>7. Claims
  BY <1>1 DEF Init, Claims, Content, Pushing, Reading, AckUnderWay
<1>. QED
  BY <1>3, <1>4, <1>5, <1>6, <1>7, TypeParts DEF IInv
-----------------------------------------------------------------------------
(* The server *)

\* A step of the server leaves the client alone.
LEMMA ClientUnchanged ==
  ASSUME IInv, UNCHANGED clientVars
  PROVE  /\ ClientTypes'
         /\ client \in {"send", "deliver"} => Len(middle') = toRead'
         /\ client \in {"resend", "clear"} => Len(middle') = 0
  BY TypeParts DEF IInv, clientVars, ClientTypes, Positions

LEMMA SyncLoadKeeps ==
  ASSUME IInv, SyncLoad
  PROVE  IInv'
<1>1. /\ server = "pass" /\ toAdd' = wasRead
      /\ server' = IF wasRead = 0 THEN "sync_done" ELSE "sync_full"
      /\ UNCHANGED <<indexes, wasRead, ram, local, written, items, removed, clientVars,
                     overtaken, repeated>>
  BY DEF SyncLoad, shared
<1>2. unapplied' = (unapplied /\ wasRead = 0)
  BY DEF SyncLoad
<1>3. ServerTypes /\ ClientTypes /\ HistoryTypes
  BY TypeParts DEF IInv
<1>4. ServerTypes'
  BY <1>1, <1>3 DEF ServerTypes, ServerAt
<1>5. HistoryTypes'
  BY <1>1, <1>2, <1>3, Zenon DEF HistoryTypes
<1>6. Positions' /\ Copy'
  BY <1>1 DEF IInv, Positions, Copy, Pushing, clientVars
<1>7. ASSUME ~repeated' PROVE Claims'
  <2>1. Claims
    BY <1>1, <1>7 DEF IInv
  <2>2. Content' = Content
    BY <1>1 DEF Content, Pushing
  <2>3. unapplied' => unapplied /\ wasRead = 0
    BY <1>2, Zenon
  <2>4. ~unapplied' => ~unapplied \/ wasRead # 0
    BY <1>2, Zenon
  <2>5. /\ ~unapplied => wasRead = 0
        /\ unapplied => wasRead <= Content
    BY <1>1, <2>1 DEF Claims
  <2>. QED
    BY <1>1, <2>1, <2>2, <2>3, <2>4, <2>5 DEF Claims, Reading, AckUnderWay, clientVars
<1>. QED
  BY <1>1, <1>4, <1>5, <1>6, <1>7, ClientUnchanged, TypePartsNext DEF IInv

LEMMA SyncFullKeeps ==
  ASSUME IInv, SyncFull
  PROVE  IInv'
<1>1. /\ server = "sync_full" /\ server' = "sync_start"
      /\ indexes' = IF ramRingIsFull(indexes) THEN [indexes EXCEPT !.end = indexes.start]
                    ELSE indexes
      /\ UNCHANGED <<wasRead, ram, toAdd, local, written, items, removed, clientVars, history>>
  BY DEF SyncFull
<1>2. ServerTypes /\ ClientTypes /\ HistoryTypes
  BY TypeParts DEF IInv
<1>3. indexes \in Ring /\ indexes' \in Ring
  BY <1>1, <1>2, Lengths DEF ServerTypes, Ring, RAM_RING_INDEXES_T
<1>4. ServerTypes'
  BY <1>1, <1>2, <1>3 DEF ServerTypes, ServerAt
<1>5. HistoryTypes'
  BY <1>1, <1>2, Zenon DEF HistoryTypes, history
<1>6. Positions' /\ Copy'
  BY <1>1 DEF IInv, Positions, Copy, Pushing, clientVars
<1>7. ASSUME ~repeated' PROVE Claims'
  <2>1. Claims
    BY <1>1, <1>7 DEF IInv, history
  <2>2. toAdd # 0 /\ toAdd <= ramRingGetSize(indexes) /\ toAdd \in 0 .. Capacity
    BY <1>1, <1>2, <2>1 DEF Claims, Content, Pushing, ServerTypes
  <2>3. toAdd <= Content'
    <3>1. CASE ramRingIsFull(indexes)
      <4>1. ramRingIsEmpty(indexes')
        BY <1>1, <1>3, <3>1 DEF ramRingIsEmpty, Ring, RAM_RING_INDEXES_T
      <4>. QED
        BY <1>1, <2>2, <4>1 DEF Content, Pushing
    <3>2. CASE ~ramRingIsFull(indexes)
      BY <1>1, <2>2, <3>2 DEF Content, Pushing
    <3>. QED
      BY <3>1, <3>2
  <2>4. ~Reading /\ ~unapplied
    BY <2>1, <2>2 DEF Claims, AckUnderWay
  <2>. QED
    BY <1>1, <2>1, <2>2, <2>3, <2>4 DEF Claims, Reading, clientVars, history
<1>. QED
  BY <1>1, <1>4, <1>5, <1>6, <1>7, ClientUnchanged, TypePartsNext DEF IInv

LEMMA SyncStartKeeps ==
  ASSUME IInv, SyncStart
  PROVE  IInv'
<1>1. /\ server = "sync_start" /\ server' = "sync_done"
      /\ indexes' = [indexes EXCEPT !.start = Advanced(indexes.start, toAdd)]
      /\ UNCHANGED <<wasRead, ram, toAdd, local, written, items, removed, clientVars, history>>
  BY DEF SyncStart
<1>2. ServerTypes /\ ClientTypes /\ HistoryTypes
  BY TypeParts DEF IInv
<1>3. indexes' \in Ring
  <2>1. Advanced(indexes.start, toAdd) \in 0 .. Capacity - 1
    BY <1>2, AdvancedInRing, RingFields DEF ServerTypes
  <2>. QED
    BY <1>1, <1>2, <2>1 DEF ServerTypes, Ring, RAM_RING_INDEXES_T
<1>4. ServerTypes'
  BY <1>1, <1>2, <1>3 DEF ServerTypes, ServerAt
<1>5. HistoryTypes'
  BY <1>1, <1>2, Zenon DEF HistoryTypes, history
<1>6. Positions' /\ Copy'
  BY <1>1 DEF IInv, Positions, Copy, Pushing, clientVars
<1>7. ASSUME ~repeated' PROVE Claims'
  <2>1. Claims
    BY <1>1, <1>7 DEF IInv, history
  <2>2. toAdd # 0 /\ ~Reading /\ ~unapplied
    BY <1>1, <2>1 DEF Claims, AckUnderWay
  <2>. QED
    BY <1>1, <2>1, <2>2 DEF Claims, Reading, clientVars, history
<1>. QED
  BY <1>1, <1>4, <1>5, <1>6, <1>7, ClientUnchanged, TypePartsNext DEF IInv

LEMMA SyncDoneKeeps ==
  ASSUME IInv, SyncDone \/ PassEnd
  PROVE  IInv'
<1>1. /\ server \in {"sync_done", "run"} /\ server' \in {"run", "pass"}
      /\ wasRead' \in {0, wasRead} /\ toAdd' \in {0, toAdd}
      /\ wasRead' = 0 => toAdd' = 0 \/ server = "run"
      /\ toAdd' = 0 \/ server = "run"
      /\ wasRead' = 0 \/ server = "run"
      /\ server = "run" => UNCHANGED <<wasRead, toAdd>>
      /\ UNCHANGED <<indexes, ram, local, written, items, removed, clientVars, history>>
  BY DEF SyncDone, PassEnd, shared
<1>2. ServerTypes /\ ClientTypes /\ HistoryTypes
  BY TypeParts DEF IInv
<1>4. ServerTypes'
  BY <1>1, <1>2, Lengths DEF ServerTypes, ServerAt
<1>5. HistoryTypes'
  BY <1>1, <1>2, Zenon DEF HistoryTypes, history
<1>6. Positions' /\ Copy'
  BY <1>1 DEF IInv, Positions, Copy, Pushing, clientVars
<1>7. ASSUME ~repeated' PROVE Claims'
  <2>1. Claims
    BY <1>1, <1>7 DEF IInv, history
  <2>2. Content' = Content /\ Content \in Nat
    BY <1>1, <1>2, RingFields DEF Content, Pushing, ServerTypes
  <2>. QED
    BY <1>1, <2>1, <2>2 DEF Claims, Reading, AckUnderWay, clientVars, history
<1>. QED
  BY <1>1, <1>4, <1>5, <1>6, <1>7, ClientUnchanged, TypePartsNext DEF IInv

LEMMA PushBeginKeeps ==
  ASSUME IInv, PushBegin
  PROVE  IInv'
<1> DEFINE noRoom == ramRingGetRemainingCapacity(indexes) < ItemLen
<1>1. /\ server = "run" /\ server' = "write" /\ items < MaxItems
      /\ local' = IF noRoom THEN RemoveOldest(indexes) ELSE indexes
      /\ removed' = IF noRoom THEN removed + 1 ELSE removed
      /\ items' = items + 1 /\ written' = 0
      /\ UNCHANGED <<indexes, wasRead, ram, toAdd, clientVars, unapplied>>
  BY DEF PushBegin, shared
<1>2. /\ overtaken' = (overtaken \/ (noRoom /\ client = "read"))
      /\ repeated' = (repeated \/ (noRoom /\ client = "clear"))
  BY Zenon DEF PushBegin
<1>3. ServerTypes /\ ClientTypes /\ HistoryTypes /\ removed <= items
  BY TypeParts DEF IInv, Positions
<1>4. /\ indexes \in Ring /\ ramRingGetSize(indexes) \in 0 .. Capacity
      /\ noRoom <=> ramRingGetSize(indexes) + ItemLen > Capacity
  BY <1>3, RingFields, Lengths DEF ServerTypes
<1>5. /\ local' \in Ring
      /\ noRoom => /\ ItemLen <= ramRingGetSize(indexes)
                   /\ ramRingGetSize(local') = ramRingGetSize(indexes) - ItemLen
                   /\ local'.start = Moved(indexes.start)
      /\ ~noRoom => local' = indexes
  BY <1>1, <1>4, Lengths, OldestRemoved
<1>6. ServerTypes'
  BY <1>1, <1>3, <1>5, MilDaqRingAssumption DEF ServerTypes, ServerAt
<1>7. HistoryTypes'
  BY <1>1, <1>2, <1>3, Zenon DEF HistoryTypes
<1>8. Positions'
  BY <1>1, <1>3, Lengths DEF IInv, Positions, ServerTypes, clientVars
<1>9. /\ Content = ramRingGetSize(indexes)
      /\ Content' = ramRingGetSize(local') + ItemLen
  BY <1>1, <1>5, RingFields, Lengths DEF Content, Pushing
<1>10. Content' <= Capacity /\ Content' >= Content
  BY <1>4, <1>5, <1>9, Lengths
<1>11. Copy'
  BY <1>1, <1>5, <1>9, <1>10 DEF Copy, Pushing
<1>12. ASSUME ~repeated' PROVE Claims'
  <2>1. Claims
    BY <1>2, <1>12, Zenon DEF IInv
  <2>2. Content \in Nat /\ Content' \in Nat /\ Content <= Content'
    BY <1>4, <1>5, <1>9, <1>10, Lengths, RingFields
  <2>3. wasRead \in Nat /\ toAdd \in Nat /\ toRead \in Nat /\ cWasRead \in Nat
    BY <1>3 DEF ServerTypes, ClientTypes
  <2>. QED
    BY <1>1, <2>1, <2>2, <2>3 DEF Claims, Reading, AckUnderWay, clientVars
<1>. QED
  BY <1>1, <1>6, <1>7, <1>8, <1>11, <1>12, ClientUnchanged, TypePartsNext DEF IInv

\* The contents of the ring's copy while it is filled.
LEMMA CopyHasRoom ==
  ASSUME IInv, Pushing
  PROVE  /\ Content = ramRingGetSize(local) + (ItemLen - written)
         /\ Content <= Capacity /\ Content \in Nat
         /\ ramRingGetSize(local) \in Nat /\ written \in 0 .. ItemLen
         /\ ramRingGetSize(indexes) \in 0 .. Content
<1>1. indexes \in Ring /\ local \in Ring /\ written \in 0 .. ItemLen
  BY TypeParts DEF IInv, ServerTypes
<1>2. Content = ramRingGetSize(local) + (ItemLen - written)
  BY DEF Content
<1>3. ramRingGetSize(indexes) \in Nat /\ ramRingGetSize(local) \in Nat
  BY <1>1, RingFields
<1>. QED
  BY <1>1, <1>2, <1>3, Lengths DEF IInv, Copy

LEMMA PushWriteKeeps ==
  ASSUME IInv, PushWrite
  PROVE  IInv'
<1>1. /\ server = "write"
      /\ ram' = [ram EXCEPT ![ramRingGetWriteIndex(local)] =
                               [item |-> items, part |-> written + 1]]
      /\ local' = ramRingIncWriteIndex(local)
      /\ written' = written + 1
      /\ server' = IF written + 1 = ItemLen THEN "publish_start" ELSE "write"
      /\ UNCHANGED <<indexes, wasRead, toAdd, items, removed, clientVars, history>>
  BY DEF PushWrite
<1>2. ServerTypes /\ ClientTypes /\ HistoryTypes /\ written < ItemLen
  BY <1>1, TypeParts DEF IInv, Positions
<1>3. /\ Pushing /\ Pushing'
      /\ local \in Ring /\ ramRingGetSize(local) < Capacity
      /\ written \in 0 .. ItemLen - 1
  BY <1>1, <1>2, CopyHasRoom, Lengths DEF Pushing, ServerTypes
<1>4. /\ local' \in Ring /\ ramRingGetSize(local') = ramRingGetSize(local) + 1
      /\ local'.start = local.start
      /\ ramRingGetWriteIndex(local) \in 0 .. Capacity - 1
  BY <1>1, <1>3, WordWritten
<1>5. ram' \in [0 .. Capacity - 1 -> Word]
  <2>1. [item |-> items, part |-> written + 1] \in Word
    BY <1>2, <1>3, Lengths DEF Word, ServerTypes
  <2>. QED
    BY <1>1, <1>2, <1>4, <2>1 DEF ServerTypes
<1>6. ServerTypes'
  BY <1>1, <1>2, <1>3, <1>4, <1>5, Lengths DEF ServerTypes, ServerAt
<1>7. HistoryTypes'
  BY <1>1, <1>2, Zenon DEF HistoryTypes, history
<1>8. Positions'
  BY <1>1, <1>3, Lengths DEF IInv, Positions, ServerTypes, clientVars
<1>9. Content' = Content
  <2>1. Content' = ramRingGetSize(local') + (ItemLen - written')
    BY <1>3 DEF Content
  <2>. QED
    BY <1>1, <1>3, <1>4, <2>1, CopyHasRoom, Lengths
<1>10. Copy'
  BY <1>1, <1>3, <1>4, <1>9 DEF IInv, Copy, Pushing
<1>11. ASSUME ~repeated' PROVE Claims'
  BY <1>1, <1>9, <1>11 DEF IInv, Claims, Reading, AckUnderWay, clientVars, history
<1>. QED
  BY <1>1, <1>6, <1>7, <1>8, <1>10, <1>11, ClientUnchanged, TypePartsNext DEF IInv

LEMMA PublishStartKeeps ==
  ASSUME IInv, PublishStart
  PROVE  IInv'
<1>1. /\ server = "publish_start" /\ server' = "publish_end"
      /\ indexes' = [indexes EXCEPT !.start = local.start]
      /\ UNCHANGED <<wasRead, ram, toAdd, local, written, items, removed, clientVars, history>>
  BY DEF PublishStart
<1>2. ServerTypes /\ ClientTypes /\ HistoryTypes /\ Pushing /\ Pushing'
  BY <1>1, TypeParts DEF IInv, Pushing
<1>3. indexes \in Ring /\ local \in Ring /\ indexes' \in Ring /\ indexes'.start = local.start
  BY <1>1, <1>2 DEF ServerTypes, Ring, RAM_RING_INDEXES_T
<1>4. ServerTypes'
  BY <1>1, <1>2, <1>3 DEF ServerTypes, ServerAt
<1>5. HistoryTypes'
  BY <1>1, <1>2, Zenon DEF HistoryTypes, history
<1>6. Positions'
  BY <1>1 DEF IInv, Positions, clientVars
<1>7. Content' = Content
  BY <1>1, <1>2 DEF Content
<1>8. ramRingGetSize(indexes') <= ramRingGetSize(indexes)
  <2>1. CASE local.start = indexes.start
    <3>1. indexes' = indexes
      BY <1>1, <1>3, <2>1 DEF Ring, RAM_RING_INDEXES_T
    <3>. QED
      BY <1>3, <3>1, RingFields
  <2>2. CASE ramRingGetSize(indexes) >= ItemLen /\ local.start = Moved(indexes.start)
    BY <1>1, <1>3, <2>2, StartPublished, Lengths, RingFields
  <2>. QED
    BY <1>1, <2>1, <2>2 DEF IInv, Copy
<1>9. Copy'
  <2>1. /\ Content \in Nat /\ ramRingGetSize(indexes) \in 0 .. Content /\ Content <= Capacity
        /\ ramRingGetSize(indexes') \in Nat
    BY <1>2, <1>3, CopyHasRoom, RingFields
  <2>. QED
    BY <1>1, <1>3, <1>7, <1>8, <2>1 DEF Copy
<1>10. ASSUME ~repeated' PROVE Claims'
  BY <1>1, <1>7, <1>10 DEF IInv, Claims, Reading, AckUnderWay, clientVars, history
<1>. QED
  BY <1>1, <1>4, <1>5, <1>6, <1>9, <1>10, ClientUnchanged, TypePartsNext DEF IInv

LEMMA PublishEndKeeps ==
  ASSUME IInv, PublishEnd
  PROVE  IInv'
<1>1. /\ server = "publish_end" /\ server' = "run"
      /\ indexes' = [indexes EXCEPT !.end = local.end]
      /\ UNCHANGED <<wasRead, ram, toAdd, local, written, items, removed, clientVars, history>>
  BY DEF PublishEnd
<1>2. ServerTypes /\ ClientTypes /\ HistoryTypes /\ Pushing /\ ~Pushing'
  BY <1>1, TypeParts DEF IInv, Pushing
<1>3. indexes' = local /\ local \in Ring
  BY <1>1, <1>2 DEF IInv, Copy, ServerTypes, Ring, RAM_RING_INDEXES_T
<1>4. ServerTypes'
  BY <1>1, <1>2, <1>3 DEF ServerTypes, ServerAt
<1>5. HistoryTypes'
  BY <1>1, <1>2, Zenon DEF HistoryTypes, history
<1>6. Positions' /\ Copy'
  BY <1>1, <1>2 DEF IInv, Positions, Copy, clientVars
<1>7. Content' = Content
  <2>1. written = ItemLen
    BY <1>1 DEF IInv, Positions
  <2>2. Content' = ramRingGetSize(local)
    BY <1>1, <1>2, <1>3 DEF Content
  <2>. QED
    BY <1>2, <2>1, <2>2, CopyHasRoom, Lengths
<1>8. ASSUME ~repeated' PROVE Claims'
  BY <1>1, <1>7, <1>8 DEF IInv, Claims, Reading, AckUnderWay, clientVars, history
<1>. QED
  BY <1>1, <1>4, <1>5, <1>6, <1>8, ClientUnchanged, TypePartsNext DEF IInv
-----------------------------------------------------------------------------
(* The client *)

\* A step of the client leaves the server and the indexes alone.
LEMMA ServerUnchanged ==
  ASSUME IInv, UNCHANGED <<indexes, ram, serverVars>>, wasRead' \in 0 .. Capacity
  PROVE  /\ ServerTypes' /\ Copy' /\ Content' = Content
         /\ removed' <= items'
         /\ server' = "write" => written' < ItemLen
         /\ server' \in {"publish_start", "publish_end"} => written' = ItemLen
<1>1. ServerTypes
  BY TypeParts DEF IInv
<1>2. ServerTypes'
  BY <1>1 DEF ServerTypes, serverVars
<1>3. Content' = Content
  BY DEF Content, Pushing, serverVars
<1>4. Copy'
  BY <1>3 DEF IInv, Copy, Pushing, serverVars
<1>. QED
  BY <1>2, <1>3, <1>4 DEF IInv, Positions, serverVars

\* What the client sees in the ring is no more than its Content, unless the server is
\* between the two stores of an acknowledgement that frees a full ring.
LEMMA SizeSeen ==
  ASSUME IInv
  PROVE  /\ ramRingGetSize(indexes) \in 0 .. Capacity
         /\ Content \in Nat
         /\ ramRingGetSize(indexes) <= Content
<1>1. indexes \in Ring /\ ramRingGetSize(indexes) \in 0 .. Capacity
  BY TypeParts, RingFields DEF IInv, ServerTypes
<1>2. CASE Pushing
  BY <1>1, <1>2, CopyHasRoom
<1>3. CASE ~Pushing
  BY <1>1, <1>3, Lengths DEF Content
<1>. QED
  BY <1>1, <1>2, <1>3

LEMMA RestartKeeps ==
  ASSUME IInv, Restart
  PROVE  IInv'
<1>1. /\ restarts < MaxRestarts /\ restarts' = restarts + 1
      /\ readIndex' = indexes.start /\ cWasRead' = wasRead /\ lastReadIndex' = 0
      /\ client' = "poll" /\ toRead' = 0 /\ middle' = << >>
      /\ UNCHANGED <<indexes, wasRead, ram, serverVars, delivered, clears, history>>
  BY DEF Restart, shared
<1>2. ServerTypes /\ ClientTypes /\ HistoryTypes
  BY TypeParts DEF IInv
<1>3. /\ ServerTypes' /\ Copy' /\ Content' = Content /\ Positions'
  BY <1>1, <1>2, ServerUnchanged DEF ServerTypes, Positions
<1>4. ClientTypes'
  BY <1>1, <1>2, RingFields, Lengths, MilDaqRingAssumption DEF ServerTypes, ClientTypes, ClientAt
<1>5. HistoryTypes'
  BY <1>1, <1>2, Zenon DEF HistoryTypes, history
<1>6. ASSUME ~repeated' PROVE Claims'
  BY <1>1, <1>3, <1>6 DEF IInv, Claims, Reading, AckUnderWay, history, serverVars
<1>. QED
  BY <1>3, <1>4, <1>5, <1>6, TypePartsNext DEF IInv

LEMMA ClearRequestKeeps ==
  ASSUME IInv, ClearRequest
  PROVE  IInv'
<1>1. /\ client = "poll" /\ clears < MaxClears /\ clears' = clears + 1
      /\ readIndex' = indexes.start /\ cWasRead' = wasRead
      /\ toRead' = ramRingGetSize(indexes) /\ client' = "clear" /\ middle' = << >>
      /\ UNCHANGED <<indexes, wasRead, ram, serverVars, lastReadIndex, delivered, restarts,
                     overtaken, unapplied>>
  BY DEF ClearRequest, shared
<1>2. repeated' = (repeated \/ AckUnderWay \/ Removing)
  BY Zenon DEF ClearRequest
<1>3. ServerTypes /\ ClientTypes /\ HistoryTypes
  BY TypeParts DEF IInv
<1>4. /\ ServerTypes' /\ Copy' /\ Content' = Content /\ Positions'
  BY <1>1, <1>3, ServerUnchanged DEF ServerTypes, Positions
<1>5. ClientTypes'
  BY <1>1, <1>3, RingFields, Lengths, MilDaqRingAssumption DEF ServerTypes, ClientTypes, ClientAt
<1>6. HistoryTypes'
  <2>1. AckUnderWay \in BOOLEAN /\ Removing \in BOOLEAN
    BY DEF AckUnderWay, Removing
  <2>. QED
    BY <1>1, <1>2, <1>3, <2>1, Zenon DEF HistoryTypes
<1>7. ASSUME ~repeated' PROVE Claims'
  <2>1. Claims /\ ~AckUnderWay
    BY <1>2, <1>7, Zenon DEF IInv
  <2>2. toRead' <= Content
    BY <1>1, SizeSeen
  <2>. QED
    BY <1>1, <1>4, <2>1, <2>2 DEF Claims, Reading, AckUnderWay, serverVars
<1>. QED
  BY <1>4, <1>5, <1>6, <1>7, TypePartsNext DEF IInv

LEMMA PollKeeps ==
  ASSUME IInv, Poll
  PROVE  IInv'
<1>1. /\ client = "poll"
      /\ readIndex' = indexes.start /\ cWasRead' = wasRead /\ middle' = << >>
      /\ UNCHANGED <<indexes, wasRead, ram, serverVars, delivered, clears, restarts, unapplied>>
  BY DEF Poll, shared
<1>2. /\ overtaken' = (overtaken \/ (client' = "read" /\ Removing))
      /\ repeated' = (repeated \/ (WasReadLost /\ ~unapplied))
  BY Zenon DEF Poll
<1>3. \/ /\ wasRead # 0
         /\ UNCHANGED <<client, lastReadIndex, toRead>>
      \/ /\ WasReadLost /\ toRead' = cWasRead /\ client' = "resend"
         /\ UNCHANGED lastReadIndex
      \/ /\ wasRead = 0 /\ ~WasReadLost /\ lastReadIndex' = indexes.start
         /\ \/ /\ toRead' = MinOf(ramRingGetSize(indexes), MiddleBuffer)
               /\ client' \in {"poll", "read"}
            \/ UNCHANGED <<toRead, client>>
  BY DEF Poll
<1>4. ServerTypes /\ ClientTypes /\ HistoryTypes
  BY TypeParts DEF IInv
<1>5. /\ indexes \in Ring /\ ramRingGetSize(indexes) \in 0 .. Capacity
      /\ indexes.start \in 0 .. Capacity - 1
  BY <1>4, RingFields DEF ServerTypes
<1>6. /\ MinOf(ramRingGetSize(indexes), MiddleBuffer) \in 0 .. Capacity
      /\ MinOf(ramRingGetSize(indexes), MiddleBuffer) <= ramRingGetSize(indexes)
  BY <1>5, Lengths DEF MinOf
<1>7. /\ ServerTypes' /\ Copy' /\ Content' = Content /\ Positions'
  BY <1>1, <1>3, <1>4, ServerUnchanged DEF ServerTypes, Positions
<1>8. ClientTypes'
  <2>1. client' \in ClientAt /\ toRead' \in 0 .. Capacity /\ lastReadIndex' \in 0 .. Capacity - 1
    BY <1>1, <1>3, <1>4, <1>5, <1>6 DEF ClientTypes, ClientAt
  <2>. QED
    BY <1>1, <1>4, <1>5, <2>1 DEF ServerTypes, ClientTypes
<1>9. HistoryTypes'
  <2>1. Removing \in BOOLEAN /\ WasReadLost \in BOOLEAN
    BY DEF Removing, WasReadLost
  <2>. QED
    BY <1>1, <1>2, <1>4, <2>1, Zenon DEF HistoryTypes
<1>10. ASSUME ~repeated' PROVE Claims'
  <2>1. Claims /\ (WasReadLost => unapplied)
    BY <1>2, <1>10, Zenon DEF IInv
  <2>2. /\ Content \in Nat /\ ramRingGetSize(indexes) <= Content
        /\ 0 <= Content
    BY SizeSeen
  <2>3. CASE wasRead # 0 /\ UNCHANGED <<client, lastReadIndex, toRead>>
    BY <1>1, <1>7, <2>1, <2>3 DEF Claims, Reading, AckUnderWay, serverVars
  <2>4. CASE WasReadLost /\ toRead' = cWasRead /\ client' = "resend"
    <3>1. wasRead = 0 /\ toAdd = 0 /\ cWasRead <= Content
      BY <2>1, <2>4 DEF WasReadLost, Claims
    <3>. QED
      BY <1>1, <1>7, <2>1, <2>2, <2>4, <3>1 DEF Claims, Reading, AckUnderWay, serverVars
  <2>5. CASE /\ wasRead = 0
             /\ \/ /\ toRead' = MinOf(ramRingGetSize(indexes), MiddleBuffer)
                   /\ client' \in {"poll", "read"}
                \/ UNCHANGED <<toRead, client>>
    <3>1. toAdd = 0 /\ (client' = "read" => toRead' <= Content)
      BY <1>1, <1>5, <1>6, <2>1, <2>2, <2>5, Lengths DEF Claims, MinOf
    <3>. QED
      BY <1>1, <1>7, <2>1, <2>2, <2>5, <3>1 DEF Claims, Reading, AckUnderWay, serverVars
  <2>. QED
    BY <1>3, <2>3, <2>4, <2>5
<1>. QED
  BY <1>7, <1>8, <1>9, <1>10, TypePartsNext DEF IInv

LEMMA ReadKeeps ==
  ASSUME IInv, Read
  PROVE  IInv'
<1> DEFINE left == toRead - Len(middle)
           part == MaxEbCycle - (Len(middle) % MaxEbCycle)
           n == MinOf(MinOf(left, part), Capacity - readIndex)
           words == [i \in 1 .. n |-> ram[readIndex + i - 1]]
<1>1. /\ client = "read" /\ client' = IF n = left THEN "send" ELSE "read"
      /\ middle' = middle \o words
      /\ readIndex' = Advanced(readIndex, n)
      /\ UNCHANGED <<indexes, wasRead, ram, serverVars, lastReadIndex, cWasRead, toRead, delivered,
                     clears, restarts, history>>
  BY Zenon DEF Read, shared
<1>2. ServerTypes /\ ClientTypes /\ HistoryTypes
  BY TypeParts DEF IInv
<1>3. n \in 0 .. left /\ n <= Capacity - readIndex /\ n \in 0 .. Capacity
  <2>1. /\ toRead \in 0 .. Capacity /\ Len(middle) \in Nat /\ Len(middle) <= toRead
        /\ readIndex \in 0 .. Capacity - 1
    BY <1>2 DEF ClientTypes
  <2>2. part \in Nat
    BY <2>1, MilDaqRingAssumption
  <2>. QED
    BY <2>1, <2>2, Lengths DEF MinOf
<1>4. words \in Seq(Word) /\ Len(words) = n
  <2>1. \A i \in 1 .. n : ram[readIndex + i - 1] \in Word
    BY <1>2, <1>3, Lengths DEF ServerTypes, ClientTypes
  <2>2. words \in [1 .. n -> Word]
    BY <2>1
  <2>. QED
    BY <1>3, <2>2
<1>5. middle' \in Seq(Word) /\ Len(middle') = Len(middle) + n
  <2>1. middle \in Seq(Word)
    BY <1>2 DEF ClientTypes
  <2>. HIDE DEF words, n
  <2>. QED
    BY <1>1, <1>4, <2>1, ConcatProperties
<1>6. /\ Len(middle') <= toRead
      /\ client' = "send" => Len(middle') = toRead
  BY <1>1, <1>2, <1>3, <1>5 DEF ClientTypes
<1>7. readIndex' \in 0 .. Capacity - 1
  BY <1>1, <1>2, <1>3, AdvancedInRing DEF ClientTypes
<1>8. ClientTypes'
  BY <1>1, <1>2, <1>5, <1>6, <1>7 DEF ClientTypes, ClientAt
<1>9. ServerTypes' /\ Copy' /\ Content' = Content /\ Positions'
  BY <1>1, <1>2, <1>6, ServerUnchanged DEF ServerTypes, Positions
<1>10. HistoryTypes'
  BY <1>1, <1>2, Zenon DEF HistoryTypes, history
<1>11. ASSUME ~repeated' PROVE Claims'
  BY <1>1, <1>9, <1>11 DEF IInv, Claims, Reading, AckUnderWay, history, serverVars
<1>. QED
  BY <1>8, <1>9, <1>10, <1>11, TypePartsNext DEF IInv

\* The three places from which an acknowledgement is written.
LEMMA SendKeeps ==
  ASSUME IInv, Send \/ Resend \/ ClearSend
  PROVE  IInv'
<1>1. /\ client \in {"send", "resend", "clear"}
      /\ cWasRead' = toRead /\ wasRead' = toRead
      /\ \/ client = "send" /\ client' = "deliver" /\ toRead' = toRead
         \/ client # "send" /\ client' = "poll" /\ toRead' = 0
      /\ UNCHANGED <<indexes, ram, serverVars, lastReadIndex, readIndex, middle,
                     delivered, clears, restarts, overtaken, repeated>>
  BY DEF Send, Resend, ClearSend, sendWasRead
<1>2. unapplied' = TRUE
  BY Zenon DEF Send, Resend, ClearSend, sendWasRead
<1>3. ServerTypes /\ ClientTypes /\ HistoryTypes
  BY TypeParts DEF IInv
<1>4. wasRead' \in 0 .. Capacity
  BY <1>1, <1>3 DEF ClientTypes
<1>5. /\ client = "send" => Len(middle) = toRead
      /\ client # "send" => Len(middle) = 0
  BY <1>1 DEF IInv, Positions
<1>6. ServerTypes' /\ Copy' /\ Content' = Content /\ Positions'
  BY <1>1, <1>4, <1>5, ServerUnchanged DEF Positions
<1>7. ClientTypes'
  BY <1>1, <1>3, <1>5, Lengths DEF ClientTypes, ClientAt
<1>8. HistoryTypes'
  BY <1>1, <1>2, <1>3, Zenon DEF HistoryTypes
<1>9. ASSUME ~repeated' PROVE Claims'
  <2>1. Claims
    BY <1>1, <1>9 DEF IInv
  <2>2. toAdd = 0 /\ toRead <= Content
    BY <1>1, <2>1 DEF Claims, Reading, AckUnderWay
  <2>. QED
    BY <1>1, <1>2, <1>6, <2>1, <2>2 DEF Claims, Reading, serverVars
<1>. QED
  BY <1>6, <1>7, <1>8, <1>9, TypePartsNext DEF IInv

\* The items that a middle buffer holds are cut out of its words.
LEMMA ItemCut ==
  ASSUME ClientTypes, Len(middle) = toRead, NEW i \in 1 .. toRead \div ItemLen
  PROVE  ItemAt(i) \in 0 .. MaxItems
<1> DEFINE word(k) == middle[(i - 1) * ItemLen + k]
<1>1. (i - 1) * ItemLen + 1 \in 1 .. Len(middle)
  <2>1. /\ toRead \in Nat /\ i \in Nat \ {0} /\ ItemLen \in Nat \ {0, 1}
        /\ toRead \div ItemLen \in Nat /\ i <= toRead \div ItemLen
    BY Lengths DEF ClientTypes
  <2>2. (toRead \div ItemLen) * ItemLen <= toRead
    BY <2>1
  <2>3. i * ItemLen <= (toRead \div ItemLen) * ItemLen
    BY <2>1
  <2>4. (i - 1) * ItemLen = i * ItemLen - ItemLen /\ (i - 1) * ItemLen \in Nat
    BY <2>1
  <2>5. i * ItemLen \in Nat
    BY <2>1
  <2>. QED
    BY <2>1, <2>2, <2>3, <2>4, <2>5
<1>2. word(1) \in Word
  BY <1>1 DEF ClientTypes
<1>3. word(1).item \in 0 .. MaxItems
  BY <1>2 DEF Word
<1>. QED
  BY <1>3, MilDaqRingAssumption DEF ItemAt

LEMMA DeliverKeeps ==
  ASSUME IInv, Deliver
  PROVE  IInv'
<1> DEFINE n == toRead \div ItemLen
           new == [i \in 1 .. n |-> ItemAt(i)]
<1>1. /\ client = "deliver" /\ client' = "poll" /\ middle' = << >> /\ toRead' = 0
      /\ delivered' = delivered \o new
      /\ UNCHANGED <<indexes, wasRead, ram, serverVars, lastReadIndex, cWasRead, readIndex,
                     clears, restarts, history>>
  BY Zenon DEF Deliver, shared
<1>2. ServerTypes /\ ClientTypes /\ HistoryTypes /\ Len(middle) = toRead
  BY <1>1, TypeParts DEF IInv, Positions
<1>3. n \in Nat
  BY <1>2, Lengths DEF ClientTypes
<1>4. new \in Seq(0 .. MaxItems)
  <2>1. \A i \in 1 .. n : ItemAt(i) \in 0 .. MaxItems
    BY <1>2, ItemCut
  <2>2. new \in [1 .. n -> 0 .. MaxItems]
    BY <2>1
  <2>. HIDE DEF new, n
  <2>. QED
    BY <1>3, <2>2, SeqDef
<1>5. delivered' \in Seq(0 .. MaxItems)
  <2>1. delivered \in Seq(0 .. MaxItems)
    BY <1>2 DEF ClientTypes
  <2>. HIDE DEF new
  <2>. QED
    BY <1>1, <1>4, <2>1
<1>6. ClientTypes'
  BY <1>1, <1>2, <1>5, Lengths DEF ClientTypes, ClientAt
<1>7. ServerTypes' /\ Copy' /\ Content' = Content /\ Positions'
  BY <1>1, <1>2, ServerUnchanged DEF ServerTypes, Positions
<1>8. HistoryTypes'
  BY <1>1, <1>2, Zenon DEF HistoryTypes, history
<1>9. ASSUME ~repeated' PROVE Claims'
  BY <1>1, <1>7, <1>9 DEF IInv, Claims, Reading, AckUnderWay, history, serverVars
<1>. QED
  BY <1>6, <1>7, <1>8, <1>9, TypePartsNext DEF IInv
-----------------------------------------------------------------------------
LEMMA NextIInv == IInv /\ [Next]_vars => IInv'
<1>. SUFFICES ASSUME IInv, [Next]_vars PROVE IInv'
  OBVIOUS
<1>1. CASE ServerNext
  BY <1>1, SyncLoadKeeps, SyncFullKeeps, SyncStartKeeps, SyncDoneKeeps, PushBeginKeeps,
     PushWriteKeeps, PublishStartKeeps, PublishEndKeeps DEF ServerNext
<1>2. CASE ClientNext
  BY <1>2, PollKeeps, ReadKeeps, SendKeeps, DeliverKeeps, ClearRequestKeeps, RestartKeeps
     DEF ClientNext
<1>3. CASE UNCHANGED vars
  <2>1. UNCHANGED <<indexes, ram, serverVars, wasRead, clientVars, history>>
    BY <1>3 DEF vars, shared
  <2>2. ServerTypes /\ ClientTypes /\ HistoryTypes
    BY TypeParts DEF IInv
  <2>3. wasRead' \in 0 .. Capacity
    BY <2>1, <2>2 DEF ServerTypes
  <2>4. ServerTypes' /\ Copy' /\ Content' = Content
    BY <2>1, <2>3, ServerUnchanged
  <2>5. ClientTypes' /\ Positions'
    BY <2>1, <2>2 DEF IInv, ClientTypes, Positions, clientVars, serverVars
  <2>6. HistoryTypes'
    BY <2>1, <2>2, Zenon DEF HistoryTypes, history
  <2>7. ASSUME ~repeated' PROVE Claims'
    BY <2>1, <2>4, <2>7 DEF IInv, Claims, Reading, AckUnderWay, history, serverVars, clientVars
  <2>. QED
    BY <2>4, <2>5, <2>6, <2>7, TypePartsNext DEF IInv
<1>. QED
  BY <1>1, <1>2, <1>3 DEF Next

LEMMA Inductive == Spec => []IInv
  BY InitIInv, NextIInv, PTL DEF Spec
-----------------------------------------------------------------------------
\* Indexes stay in the ring, and what the client takes out of it in its buffers, for any
\* interleaving of ramRingSharedSynchonizeReadIndex(), pushDaqData() and the client.
THEOREM TypeCorrect == Spec => []TypeOK
  BY Inductive, PTL DEF IInv

\* RAM_ASSERT( ramRingGetSize( pThis ) >= toAdd ) in ramRingAddToReadIndex() holds whenever the
\* LM32 applies what the client has acknowledged, as long as the client has not
\* acknowledged twice what the LM32 has removed once.
THEOREM AckIsThere == Spec => []AckWithinSize
<1>1. IInv => AckWithinSize
  BY DEF IInv, Claims, Content, Pushing, AckWithinSize
<1>. QED
  BY <1>1, Inductive, PTL
-----------------------------------------------------------------------------
(* Words and items: an index is Aligned when it is where an item begins, and the g-th  *)
(* word that the firmware has made is WordOf( g ).                                     *)
Aligned(n) == n % ItemLen = 0

WordOf(g) == [item |-> (g \div ItemLen) + 1, part |-> (g % ItemLen) + 1]

LEMMA Quotient ==
  ASSUME NEW n \in Nat
  PROVE  Aligned(n) <=> \E q \in Nat : n = q * ItemLen
<1>1. ItemLen \in Nat \ {0}
  BY Lengths
<1>2. n \div ItemLen \in Nat /\ n = (n \div ItemLen) * ItemLen + (n % ItemLen)
  BY <1>1
<1>3. ASSUME NEW q \in Nat, n = q * ItemLen PROVE Aligned(n)
  BY <1>1, <1>3 DEF Aligned
<1>4. ASSUME Aligned(n) PROVE n = (n \div ItemLen) * ItemLen
  BY <1>1, <1>2, <1>4 DEF Aligned
<1>. QED
  BY <1>2, <1>3, <1>4

LEMMA Multiples ==
  ASSUME NEW m \in Nat, NEW n \in Nat, m <= n
  PROVE  m * ItemLen \in Nat /\ n * ItemLen \in Nat /\ m * ItemLen <= n * ItemLen
  BY Lengths

LEMMA AlignedSum ==
  ASSUME NEW m \in Nat, NEW n \in Nat, Aligned(m), Aligned(n)
  PROVE  Aligned(m + n) /\ (n <= m => Aligned(m - n))
<1>1. PICK p \in Nat, q \in Nat : m = p * ItemLen /\ n = q * ItemLen
  BY Quotient
<1>2. m + n = (p + q) * ItemLen /\ p + q \in Nat
  BY <1>1, Lengths
<1>3. ASSUME n <= m PROVE m - n = (p - q) * ItemLen /\ p - q \in Nat
  <2>1. m - n = (p - q) * ItemLen
    BY <1>1, Lengths
  <2>2. ASSUME p < q PROVE FALSE
    <3>1. (p + 1) * ItemLen <= q * ItemLen
      BY <2>2, Lengths
    <3>. QED
      BY <1>1, <1>3, <3>1, Lengths
  <2>. QED
    BY <2>1, <2>2
<1>. QED
  BY <1>2, <1>3, Quotient

LEMMA WordOfItem ==
  ASSUME NEW q \in Nat, NEW k \in 0 .. ItemLen - 1
  PROVE  q * ItemLen + k \in Nat /\ WordOf(q * ItemLen + k) = [item |-> q + 1, part |-> k + 1]
<1>1. ItemLen \in Nat \ {0} /\ k \in Nat /\ k < ItemLen
  BY Lengths
<1>2. q * ItemLen \in Nat
  BY <1>1
<1>3. (q * ItemLen + k) \div ItemLen = q
  BY <1>1, <1>2
<1>4. (q * ItemLen + k) % ItemLen = k
  BY <1>1, <1>2, <1>3
<1>. QED
  BY <1>1, <1>2, <1>3, <1>4 DEF WordOf

LEMMA AlignedLengths == Aligned(0) /\ Aligned(ItemLen) /\ Aligned(Capacity)
<1>1. 0 = 0 * ItemLen /\ ItemLen = 1 * ItemLen
  BY Lengths
<1>. QED
  BY <1>1, Quotient, Lengths, MilDaqRingAssumption DEF Aligned

LEMMA AdvancedSum ==
  ASSUME NEW i \in 0 .. Capacity - 1, NEW n \in 0 .. Capacity
  PROVE  /\ Advanced(i, n) = IF i + n < Capacity THEN i + n ELSE i + n - Capacity
         /\ Advanced(i, n) \in 0 .. Capacity - 1
  BY ModAdd, AdvancedInRing, Lengths DEF Advanced

LEMMA AlignedAdvanced ==
  ASSUME NEW i \in 0 .. Capacity - 1, NEW n \in 0 .. Capacity, Aligned(i), Aligned(n)
  PROVE  Aligned(Advanced(i, n))
<1>1. Advanced(i, n) = IF i + n < Capacity THEN i + n ELSE i + n - Capacity
  BY ModAdd, Lengths DEF Advanced
<1>2. i \in Nat /\ n \in Nat /\ Capacity \in Nat /\ i + n \in Nat
  BY Lengths
<1>3. Aligned(i + n) /\ (Capacity <= i + n => Aligned(i + n - Capacity))
  BY <1>2, AlignedSum, AlignedLengths
<1>. QED
  BY <1>1, <1>2, <1>3

LEMMA AdvancedTwice ==
  ASSUME NEW i \in 0 .. Capacity - 1, NEW m \in 0 .. Capacity, NEW n \in 0 .. Capacity,
         m + n <= Capacity
  PROVE  Advanced(Advanced(i, m), n) = Advanced(i, m + n)
<1>1. \A j \in 0 .. Capacity - 1, k \in 0 .. Capacity :
         Advanced(j, k) = IF j + k < Capacity THEN j + k ELSE j + k - Capacity
  BY ModAdd, Lengths DEF Advanced
<1>2. m + n \in 0 .. Capacity /\ Advanced(i, m) \in 0 .. Capacity - 1
  BY AdvancedInRing, Lengths
<1>3. Advanced(i, m) = IF i + m < Capacity THEN i + m ELSE i + m - Capacity
  BY <1>1
<1>4. Advanced(i, m + n) = IF i + (m + n) < Capacity THEN i + (m + n) ELSE i + (m + n) - Capacity
  BY <1>1, <1>2
<1>5. Advanced(Advanced(i, m), n) = IF Advanced(i, m) + n < Capacity THEN Advanced(i, m) + n
                                    ELSE Advanced(i, m) + n - Capacity
  BY <1>1, <1>2
<1>. QED
  BY <1>3, <1>4, <1>5, Lengths

LEMMA AlignedSize ==
  ASSUME NEW r \in Ring, Aligned(r.start)
  PROVE  Aligned(r.end) <=> Aligned(ramRingGetSize(r))
<1>1. /\ r.start \in Nat /\ r.end \in Nat /\ Capacity \in Nat /\ r.capacity = Capacity
      /\ r.start < Capacity /\ r.end <= Capacity
  BY RingFields, Lengths
<1>2. CASE r.end = Capacity
  BY <1>1, <1>2, AlignedLengths DEF ramRingGetSize, ramRingIsFull
<1>3. CASE r.end # Capacity /\ r.end >= r.start
  <2>1. ramRingGetSize(r) = r.end - r.start /\ r.end - r.start \in Nat
    BY <1>1, <1>3 DEF ramRingGetSize, ramRingIsFull
  <2>2. r.end = (r.end - r.start) + r.start
    BY <1>1
  <2>. QED
    BY <1>1, <1>3, <2>1, <2>2, AlignedSum
<1>4. CASE r.end < r.start
  <2>1. ramRingGetSize(r) = (Capacity - r.start) + r.end /\ Capacity - r.start \in Nat
    BY <1>1, <1>4 DEF ramRingGetSize, ramRingIsFull
  <2>2. Aligned(Capacity - r.start)
    BY <1>1, AlignedSum, AlignedLengths
  <2>3. (Capacity - r.start) + r.end - (Capacity - r.start) = r.end /\ (Capacity - r.start) + r.end \in Nat
        /\ Capacity - r.start <= (Capacity - r.start) + r.end
    BY <1>1
  <2>4. Aligned(r.end) => Aligned((Capacity - r.start) + r.end)
    BY <1>1, <2>1, <2>2, AlignedSum
  <2>5. Aligned((Capacity - r.start) + r.end) => Aligned(r.end)
    <3>1. ASSUME NEW m \in Nat, NEW n \in Nat, Aligned(m), Aligned(n), n <= m PROVE Aligned(m - n)
      BY <3>1, AlignedSum
    <3>. QED
      BY <1>1, <2>1, <2>2, <2>3, <3>1
  <2>. QED
    BY <2>1, <2>4, <2>5
<1>. QED
  BY <1>1, <1>2, <1>3, <1>4
-----------------------------------------------------------------------------
(* Whole items: no index of either side is ever inside of an item                      *)
\* Indexes and numbers of words are those of whole items, also after an acknowledgement
\* of too much.
Whole ==
  /\ Aligned(indexes.start) /\ Aligned(indexes.end)
  /\ Pushing => /\ Aligned(local.start)
                /\ ramRingGetSize(local) >= written
                /\ Aligned(ramRingGetSize(local) - written)
  /\ Aligned(wasRead) /\ Aligned(toAdd) /\ Aligned(cWasRead) /\ Aligned(toRead)

LEMMA Typed ==
  ASSUME IInv
  PROVE  /\ indexes \in Ring /\ local \in Ring
         /\ wasRead \in 0 .. Capacity /\ toAdd \in 0 .. Capacity
         /\ cWasRead \in 0 .. Capacity /\ toRead \in 0 .. Capacity
         /\ written \in 0 .. ItemLen /\ items \in Nat /\ removed \in Nat
         /\ ram \in [0 .. Capacity - 1 -> Word]
         /\ readIndex \in 0 .. Capacity - 1
         /\ middle \in Seq(Word) /\ Len(middle) \in Nat /\ Len(middle) <= toRead
         /\ delivered \in Seq(0 .. MaxItems)
  BY TypeParts, MilDaqRingAssumption DEF IInv, ServerTypes, ClientTypes

\* The copy when a new item begins: the ring, or the ring without its oldest item.
LEMMA CopyTaken ==
  ASSUME IInv, PushBegin
  PROVE  /\ indexes \in Ring /\ ramRingGetSize(indexes) \in 0 .. Capacity
         /\ \/ removed' = removed /\ local' = indexes
            \/ /\ removed' = removed + 1
               /\ ItemLen <= ramRingGetSize(indexes)
               /\ local' = RemoveOldest(indexes)
               /\ ramRingGetSize(local') = ramRingGetSize(indexes) - ItemLen
               /\ local'.start = Advanced(indexes.start, ItemLen)
               /\ local'.start # indexes.start
<1> DEFINE noRoom == ramRingGetRemainingCapacity(indexes) < ItemLen
<1>1. /\ indexes \in Ring /\ ramRingGetSize(indexes) \in 0 .. Capacity
      /\ indexes.start \in 0 .. Capacity - 1
  BY Typed, RingFields
<1>2. CASE ~noRoom
  BY <1>1, <1>2 DEF PushBegin
<1>3. CASE noRoom
  <2>1. removed' = removed + 1 /\ local' = RemoveOldest(indexes)
    BY <1>3 DEF PushBegin
  <2>2. ItemLen <= ramRingGetSize(indexes)
    BY <1>1, <1>3, RingFields, Lengths
  <2>3. /\ ramRingGetSize(local') = ramRingGetSize(indexes) - ItemLen
        /\ local'.start = Moved(indexes.start)
    BY <1>1, <2>1, <2>2, OldestRemoved
  <2>4. Moved(indexes.start) = Advanced(indexes.start, ItemLen)
    <3>1. ItemLen \in 0 .. Capacity
      BY Lengths
    <3>. QED
      BY <1>1, <3>1, AdvancedSum DEF Moved
  <2>5. Moved(indexes.start) # indexes.start
    BY <1>1, Lengths DEF Moved
  <2>. QED
    BY <1>1, <2>1, <2>2, <2>3, <2>4, <2>5
<1>. QED
  BY <1>2, <1>3

LEMMA InitWhole == Init => Whole
  BY AlignedLengths DEF Init, Whole, Pushing, EmptyRing

LEMMA ServerKeepsWhole ==
  ASSUME IInv, Whole, ServerNext
  PROVE  Whole'
<1>1. /\ Aligned(indexes.start) /\ Aligned(indexes.end)
      /\ Aligned(wasRead) /\ Aligned(toAdd) /\ Aligned(cWasRead) /\ Aligned(toRead)
      /\ Aligned(0) /\ Aligned(ItemLen)
      /\ UNCHANGED <<cWasRead, toRead>>
  BY AlignedLengths DEF Whole, ServerNext, SyncLoad, SyncFull, SyncStart, SyncDone, PassEnd,
     PushBegin, PushWrite, PublishStart, PublishEnd, clientVars
<1>2. /\ indexes \in Ring /\ indexes.start \in 0 .. Capacity - 1
      /\ ramRingGetSize(indexes) \in Nat /\ toAdd \in 0 .. Capacity
  BY Typed, RingFields
<1>3. CASE SyncLoad
  BY <1>1, <1>3 DEF SyncLoad, Whole, Pushing, shared
<1>4. CASE SyncFull
  <2>1. indexes'.start = indexes.start /\ indexes'.end \in {indexes.start, indexes.end}
    BY <1>2, <1>4 DEF SyncFull, Ring, RAM_RING_INDEXES_T
  <2>. QED
    BY <1>1, <1>4, <2>1 DEF SyncFull, Whole, Pushing
<1>5. CASE SyncStart
  <2>1. indexes'.start = Advanced(indexes.start, toAdd) /\ indexes'.end = indexes.end
    BY <1>2, <1>5 DEF SyncStart, Ring, RAM_RING_INDEXES_T
  <2>2. Aligned(indexes'.start)
    BY <1>1, <1>2, <2>1, AlignedAdvanced
  <2>. QED
    BY <1>1, <1>5, <2>1, <2>2 DEF SyncStart, Whole, Pushing
<1>6. CASE SyncDone \/ PassEnd
  BY <1>1, <1>6 DEF SyncDone, PassEnd, Whole, Pushing, shared
<1>7. CASE PushBegin
  <2>1. Aligned(ramRingGetSize(indexes))
    BY <1>1, <1>2, AlignedSize
  <2>2. Aligned(Advanced(indexes.start, ItemLen))
    BY <1>1, <1>2, AlignedAdvanced, Lengths
  <2>3. ItemLen <= ramRingGetSize(indexes) => Aligned(ramRingGetSize(indexes) - ItemLen)
    BY <1>1, <1>2, <2>1, AlignedSum, Lengths
  <2>4. /\ written' = 0 /\ Aligned(local'.start)
        /\ ramRingGetSize(local') \in Nat /\ Aligned(ramRingGetSize(local'))
    BY <1>1, <1>2, <1>7, <2>1, <2>2, <2>3, CopyTaken, Lengths DEF PushBegin
  <2>. QED
    BY <1>1, <1>7, <2>4 DEF PushBegin, Whole, shared
<1>8. CASE PushWrite
  <2>1. /\ Pushing /\ written < ItemLen /\ written \in Nat
        /\ ramRingGetSize(local) \in Nat /\ ramRingGetSize(local) < Capacity /\ local \in Ring
    BY <1>8, CopyHasRoom, Typed, Lengths DEF PushWrite, Pushing, IInv, Positions
  <2>2. /\ ramRingGetSize(local') = ramRingGetSize(local) + 1 /\ local'.start = local.start
        /\ written' = written + 1
    BY <1>8, <2>1, WordWritten DEF PushWrite
  <2>3. ramRingGetSize(local') - written' = ramRingGetSize(local) - written
    BY <2>1, <2>2
  <2>4. ramRingGetSize(local') >= written'
    BY <2>1, <2>2 DEF Whole
  <2>. QED
    BY <1>1, <1>8, <2>1, <2>2, <2>3, <2>4 DEF PushWrite, Whole
<1>9. CASE PublishStart
  <2>1. indexes'.start = local.start /\ indexes'.end = indexes.end /\ Pushing
    BY <1>2, <1>9 DEF PublishStart, Ring, RAM_RING_INDEXES_T, Pushing
  <2>. QED
    BY <1>1, <1>9, <2>1 DEF PublishStart, Whole, Pushing
<1>10. CASE PublishEnd
  <2>1. Pushing /\ written = ItemLen /\ indexes'.end = local.end /\ indexes'.start = indexes.start
        /\ local.start = indexes.start
    BY <1>2, <1>10 DEF PublishEnd, Ring, RAM_RING_INDEXES_T, Pushing, IInv, Positions, Copy
  <2>2. /\ local \in Ring /\ ramRingGetSize(local) \in Nat /\ ramRingGetSize(local) >= ItemLen
        /\ Aligned(local.start) /\ Aligned(ramRingGetSize(local) - ItemLen)
    BY <2>1, Typed, RingFields DEF Whole
  <2>3. Aligned((ramRingGetSize(local) - ItemLen) + ItemLen)
    BY <1>1, <2>2, AlignedSum, Lengths
  <2>4. Aligned(ramRingGetSize(local))
    <3>1. (ramRingGetSize(local) - ItemLen) + ItemLen = ramRingGetSize(local)
      BY <2>2, Lengths
    <3>. QED
      BY <2>3, <3>1
  <2>5. Aligned(local.end)
    BY <2>2, <2>4, AlignedSize
  <2>. QED
    BY <1>1, <1>10, <2>1, <2>5 DEF PublishEnd, Whole, Pushing
<1>. QED
  BY <1>3, <1>4, <1>5, <1>6, <1>7, <1>8, <1>9, <1>10 DEF ServerNext

LEMMA ClientKeepsWhole ==
  ASSUME IInv, Whole, ClientNext
  PROVE  Whole'
<1>1. /\ Aligned(wasRead) /\ Aligned(cWasRead) /\ Aligned(toRead) /\ Aligned(0)
      /\ Aligned(ramRingGetSize(indexes))
  BY AlignedLengths, AlignedSize, Typed DEF Whole
<1>2. UNCHANGED <<indexes, serverVars>>
  BY DEF ClientNext, Poll, Read, Send, Resend, Deliver, ClearRequest, ClearSend, Restart, shared
<1>3. Aligned(wasRead') /\ Aligned(cWasRead') /\ Aligned(toRead')
  <2>1. CASE Poll
    BY <1>1, <2>1 DEF Poll, Aligned, shared
  <2>2. CASE Read
    BY <1>1, <2>2, Zenon DEF Read, shared
  <2>3. CASE Send \/ Resend \/ ClearSend
    BY <1>1, <2>3 DEF Send, Resend, ClearSend, sendWasRead
  <2>4. CASE Deliver
    BY <1>1, <2>4, Zenon DEF Deliver, shared
  <2>5. CASE ClearRequest
    BY <1>1, <2>5 DEF ClearRequest, shared
  <2>6. CASE Restart
    BY <1>1, <2>6 DEF Restart, shared
  <2>. QED
    BY <2>1, <2>2, <2>3, <2>4, <2>5, <2>6 DEF ClientNext
<1>. QED
  BY <1>2, <1>3 DEF Whole, Pushing, serverVars
-----------------------------------------------------------------------------
(* What is in the ring: the words from Oldest on, up to the last one made              *)
\* The words that have been made, those of the ring, and the number of its oldest one.
Total == IF Pushing THEN (items - 1) * ItemLen + written ELSE items * ItemLen
Used ==
  IF Pushing THEN ramRingGetSize(local)
  ELSE IF server = "sync_start" /\ ramRingIsEmpty(indexes) THEN Capacity
  ELSE ramRingGetSize(indexes)
Oldest == Total - Used
Start  == IF Pushing THEN local.start ELSE indexes.start

Stored == \A j \in 0 .. Used - 1 : ram[Advanced(Start, j)] = WordOf(Oldest + j)

Contents ==
  /\ Pushing => items > 0
  /\ server = "sync_start" => ~ramRingIsFull(indexes)
  /\ Used <= Total /\ Aligned(Oldest)
  /\ Stored
  /\ server \in {"write", "publish_start"} /\ ~Removing =>
        ramRingGetSize(local) = ramRingGetSize(indexes) + written

LEMMA Numbers ==
  ASSUME IInv, Contents
  PROVE  /\ Total \in Nat /\ Used \in 0 .. Capacity /\ Oldest \in Nat
         /\ Total = Oldest + Used
         /\ Start \in 0 .. Capacity - 1
<1>1. /\ items \in Nat /\ written \in 0 .. ItemLen /\ ItemLen \in Nat
      /\ indexes \in Ring /\ local \in Ring
  BY Typed, Lengths
<1>2. Total \in Nat
  <2>1. CASE Pushing
    <3>1. items - 1 \in Nat
      BY <1>1, <2>1 DEF Contents
    <3>2. (items - 1) * ItemLen \in Nat
      BY <1>1, <3>1
    <3>. QED
      BY <1>1, <2>1, <3>2 DEF Total
  <2>2. CASE ~Pushing
    BY <1>1, <2>2 DEF Total
  <2>. QED
    BY <2>1, <2>2
<1>3. Used \in 0 .. Capacity /\ Start \in 0 .. Capacity - 1
  BY <1>1, RingFields, Lengths DEF Used, Start
<1>. QED
  BY <1>2, <1>3, Lengths DEF Oldest, Contents

\* The words that remain when the oldest ones are removed.
LEMMA StoredAfter ==
  ASSUME IInv, Contents, NEW n \in 0 .. Used,
         Used' = Used - n, Oldest' = Oldest + n, Start' = Advanced(Start, n), ram' = ram
  PROVE  Stored'
<1>1. /\ Used \in 0 .. Capacity /\ Oldest \in Nat /\ Start \in 0 .. Capacity - 1
      /\ Capacity \in Nat
  BY Numbers, Lengths
<1>. SUFFICES ASSUME NEW j \in 0 .. Used' - 1
              PROVE  ram[Advanced(Start', j)] = WordOf(Oldest' + j)
  BY DEF Stored
<1>2. j \in Nat /\ n \in Nat /\ n + j \in 0 .. Used - 1
  BY <1>1
<1>3. Advanced(Start', j) = Advanced(Start, n + j)
  BY <1>1, <1>2, AdvancedTwice
<1>4. Oldest' + j = Oldest + (n + j)
  BY <1>1, <1>2
<1>. QED
  BY <1>2, <1>3, <1>4 DEF Stored, Contents

\* Nothing but the place of the server has changed.
LEMMA ContentsUnchanged ==
  ASSUME Contents, Used' = Used, Total' = Total, Start' = Start, ram' = ram,
         Pushing' => items' > 0,
         server' = "sync_start" => ~ramRingIsFull(indexes'),
         server' \in {"write", "publish_start"} /\ ~Removing' =>
            ramRingGetSize(local') = ramRingGetSize(indexes') + written'
  PROVE  Contents' /\ Oldest' = Oldest
  BY DEF Contents, Stored, Oldest

LEMMA InitContents == Init => Contents
<1>1. 0 * ItemLen = 0
  BY Lengths
<1>. QED
  BY <1>1, AlignedLengths, Lengths
     DEF Init, Contents, Stored, Total, Used, Oldest, Start, Pushing, EmptyRing, ramRingGetSize,
         ramRingIsFull, ramRingIsEmpty

LEMMA SyncFullKeepsContents ==
  ASSUME IInv, Claims, Contents, SyncFull
  PROVE  Contents' /\ Oldest' = Oldest
<1>1. /\ server = "sync_full" /\ server' = "sync_start"
      /\ indexes' = IF ramRingIsFull(indexes) THEN [indexes EXCEPT !.end = indexes.start]
                    ELSE indexes
      /\ UNCHANGED <<ram, items, written>>
      /\ ~Pushing /\ ~Pushing'
  BY DEF SyncFull, Pushing
<1>2. indexes \in Ring /\ toAdd \in Nat
  BY Typed, Lengths
<1>3. indexes'.start = indexes.start /\ ~ramRingIsFull(indexes')
  BY <1>1, <1>2, RingFields DEF Ring, RAM_RING_INDEXES_T, ramRingIsFull
<1>4. Used' = Used
  <2>1. CASE ramRingIsFull(indexes)
    <3>1. ramRingIsEmpty(indexes')
      BY <1>1, <1>2, <2>1 DEF ramRingIsEmpty, Ring, RAM_RING_INDEXES_T
    <3>. QED
      BY <1>1, <1>2, <2>1, <3>1, RingFields DEF Used
  <2>2. CASE ~ramRingIsFull(indexes)
    <3>1. ~ramRingIsEmpty(indexes)
      BY <1>1, <1>2, RingFields DEF Claims, Content
    <3>. QED
      BY <1>1, <2>2, <3>1 DEF Used
  <2>. QED
    BY <2>1, <2>2
<1>5. Total' = Total /\ Start' = Start
  BY <1>1, <1>3 DEF Total, Start
<1>. QED
  BY <1>1, <1>3, <1>4, <1>5, ContentsUnchanged

\* The words that the ring holds after the read index has moved.
LEMMA RingAfterSync ==
  ASSUME IInv, Claims, SyncStart, ~ramRingIsFull(indexes)
  PROVE  /\ toAdd \in 0 .. Used
         /\ indexes' \in Ring
         /\ indexes'.start = Advanced(indexes.start, toAdd)
         /\ ramRingGetSize(indexes') = Used - toAdd
<1>1. /\ server = "sync_start" /\ ~Pushing
      /\ indexes' = [indexes EXCEPT !.start = Advanced(indexes.start, toAdd)]
  BY DEF SyncStart, Pushing
<1>2. /\ indexes \in Ring /\ toAdd \in 0 .. Capacity /\ Capacity \in Nat
      /\ indexes.start \in 0 .. Capacity - 1 /\ indexes.end \in 0 .. Capacity
      /\ indexes.capacity = Capacity
  BY Typed, RingFields, Lengths
<1>3. toAdd # 0 /\ toAdd <= Used
  BY <1>1 DEF Claims, Content, Used
<1>4. /\ Advanced(indexes.start, toAdd) = IF indexes.start + toAdd < Capacity
                                         THEN indexes.start + toAdd
                                         ELSE indexes.start + toAdd - Capacity
      /\ Advanced(indexes.start, toAdd) \in 0 .. Capacity - 1
  BY <1>2, AdvancedSum
<1>5. /\ indexes' \in Ring
      /\ indexes'.start = Advanced(indexes.start, toAdd) /\ indexes'.end = indexes.end
      /\ indexes'.capacity = Capacity
  BY <1>1, <1>2, <1>4 DEF Ring, RAM_RING_INDEXES_T
<1>6. indexes.end # Capacity
  BY <1>2 DEF ramRingIsFull
<1>7. CASE indexes.end = indexes.start
  <2>1. Used = Capacity
    BY <1>1, <1>7 DEF Used, ramRingIsEmpty
  <2>. QED
    BY <1>2, <1>3, <1>4, <1>5, <1>6, <1>7, <2>1 DEF ramRingGetSize, ramRingIsFull
<1>8. CASE indexes.end # indexes.start
  <2>1. Used = IF indexes.end >= indexes.start THEN indexes.end - indexes.start
               ELSE (Capacity - indexes.start) + indexes.end
    BY <1>1, <1>2, <1>6, <1>8 DEF Used, ramRingIsEmpty, ramRingGetSize, ramRingIsFull
  <2>. QED
    BY <1>2, <1>3, <1>4, <1>5, <1>6, <1>8, <2>1 DEF ramRingGetSize, ramRingIsFull
<1>. QED
  BY <1>7, <1>8

LEMMA SyncStartKeepsContents ==
  ASSUME IInv, Claims, Whole, Contents, SyncStart
  PROVE  Contents' /\ Oldest' = Oldest + toAdd
<1>1. /\ server = "sync_start" /\ server' = "sync_done" /\ ~Pushing /\ ~Pushing'
      /\ UNCHANGED <<ram, items>>
  BY DEF SyncStart, Pushing
<1>2. /\ toAdd \in 0 .. Used /\ indexes'.start = Advanced(indexes.start, toAdd)
      /\ ramRingGetSize(indexes') = Used - toAdd
  BY <1>1, RingAfterSync DEF Contents
<1>3. /\ Used' = Used - toAdd /\ Start' = Advanced(Start, toAdd) /\ Total' = Total
  BY <1>1, <1>2 DEF Used, Start, Total
<1>4. Total \in Nat /\ Used \in Nat /\ Used <= Total /\ Oldest \in Nat /\ toAdd \in Nat
  BY <1>2, Numbers DEF Contents
<1>5. Oldest' = Oldest + toAdd /\ Used' <= Total'
  BY <1>2, <1>3, <1>4 DEF Oldest
<1>6. Aligned(Oldest')
  BY <1>4, <1>5, AlignedSum DEF Contents, Whole
<1>7. Stored'
  BY <1>1, <1>2, <1>3, <1>5, StoredAfter
<1>. QED
  BY <1>1, <1>5, <1>6, <1>7 DEF Contents

LEMMA PushBeginKeepsContents ==
  ASSUME IInv, Contents, PushBegin
  PROVE  Contents' /\ (removed' = removed => Oldest' = Oldest)
<1>1. /\ server = "run" /\ server' = "write" /\ ~Pushing /\ Pushing'
      /\ items' = items + 1 /\ written' = 0
      /\ UNCHANGED <<ram, indexes>>
  BY DEF PushBegin, Pushing, shared
<1>2. /\ items \in Nat /\ ItemLen \in Nat /\ ramRingGetSize(indexes) \in Nat
      /\ Used = ramRingGetSize(indexes) /\ Start = indexes.start
      /\ Used' = ramRingGetSize(local') /\ Start' = local'.start
  BY <1>1, Typed, RingFields, Lengths DEF Used, Start
<1>3. Total' = Total
  <2>1. items' - 1 = items
    BY <1>1, <1>2
  <2>2. items * ItemLen \in Nat
    BY <1>2
  <2>. QED
    BY <1>1, <2>1, <2>2 DEF Total
<1>4. CASE local' = indexes
  <2>1. Used' = Used /\ Start' = Start
    BY <1>2, <1>4
  <2>. QED
    BY <1>1, <1>2, <1>3, <1>4, <2>1, ContentsUnchanged
<1>5. CASE /\ removed' = removed + 1
           /\ ItemLen <= ramRingGetSize(indexes)
           /\ ramRingGetSize(local') = ramRingGetSize(indexes) - ItemLen
           /\ local'.start = Advanced(indexes.start, ItemLen)
           /\ local'.start # indexes.start
  <2>1. ItemLen \in 0 .. Used /\ Used' = Used - ItemLen /\ Start' = Advanced(Start, ItemLen)
    BY <1>2, <1>5
  <2>2. Total \in Nat /\ Used \in Nat /\ Used <= Total /\ Oldest \in Nat
    BY Numbers DEF Contents
  <2>3. Oldest' = Oldest + ItemLen /\ Used' <= Total'
    BY <1>2, <1>3, <2>1, <2>2 DEF Oldest
  <2>4. Aligned(Oldest')
    BY <1>2, <2>2, <2>3, AlignedSum, AlignedLengths DEF Contents
  <2>5. Stored'
    BY <1>1, <2>1, <2>3, StoredAfter
  <2>6. Removing'
    BY <1>1, <1>5 DEF Removing
  <2>. QED
    BY <1>1, <1>2, <1>5, <2>3, <2>4, <2>5, <2>6, Typed DEF Contents
<1>. QED
  BY <1>4, <1>5, CopyTaken

\* The place of the next word is the one behind the last.
LEMMA WritePlace ==
  ASSUME NEW r \in Ring, ramRingGetSize(r) < Capacity
  PROVE  /\ ramRingGetSize(r) \in 0 .. Capacity
         /\ ramRingGetWriteIndex(r) = Advanced(r.start, ramRingGetSize(r))
         /\ \A j \in 0 .. ramRingGetSize(r) - 1 :
               Advanced(r.start, j) # ramRingGetWriteIndex(r)
<1>1. /\ r.start \in 0 .. Capacity - 1 /\ r.end \in 0 .. Capacity - 1
      /\ r.capacity = Capacity /\ r.offset = 0 /\ Capacity \in Nat
      /\ ramRingGetSize(r) \in 0 .. Capacity
  BY RingFields, Lengths DEF ramRingIsFull
<1>2. /\ ramRingGetWriteIndex(r) = r.end
      /\ ramRingGetSize(r) = IF r.end >= r.start THEN r.end - r.start
                             ELSE (Capacity - r.start) + r.end
  BY <1>1 DEF ramRingGetWriteIndex, ramRingIsFull, ramRingGetSize
<1>3. r.end = Advanced(r.start, ramRingGetSize(r))
  BY <1>1, <1>2, AdvancedSum
<1>4. ASSUME NEW j \in 0 .. ramRingGetSize(r) - 1
      PROVE  Advanced(r.start, j) # r.end
  <2>1. j \in 0 .. Capacity
    BY <1>1
  <2>2. Advanced(r.start, j) = IF r.start + j < Capacity THEN r.start + j
                               ELSE r.start + j - Capacity
    BY <1>1, <2>1, AdvancedSum
  <2>. QED
    BY <1>1, <1>2, <2>1, <2>2
<1>. QED
  BY <1>1, <1>2, <1>3, <1>4

LEMMA PushWriteKeepsContents ==
  ASSUME IInv, Contents, PushWrite
  PROVE  Contents' /\ Oldest' = Oldest
<1>1. /\ server = "write" /\ Pushing /\ Pushing'
      /\ ram' = [ram EXCEPT ![ramRingGetWriteIndex(local)] =
                               [item |-> items, part |-> written + 1]]
      /\ local' = ramRingIncWriteIndex(local)
      /\ written' = written + 1
      /\ UNCHANGED <<indexes, items>>
  BY DEF PushWrite, Pushing
<1>2. /\ local \in Ring /\ ramRingGetSize(local) \in Nat /\ ramRingGetSize(local) < Capacity
      /\ written \in 0 .. ItemLen - 1 /\ written < ItemLen /\ items \in Nat \ {0}
      /\ ramRingGetSize(indexes) \in Nat
      /\ ram \in [0 .. Capacity - 1 -> Word]
  <2>1. written < ItemLen /\ written \in 0 .. ItemLen - 1
    BY <1>1, Typed, Lengths DEF IInv, Positions
  <2>2. local \in Ring /\ ramRingGetSize(local) \in Nat /\ ramRingGetSize(indexes) \in Nat
        /\ ram \in [0 .. Capacity - 1 -> Word]
    BY Typed, RingFields
  <2>3. ramRingGetSize(local) < Capacity
    BY <1>1, <2>1, <2>2, CopyHasRoom, Typed, Lengths DEF IInv, Positions
  <2>4. items \in Nat \ {0}
    BY <1>1, Typed DEF Contents
  <2>. QED
    BY <2>1, <2>2, <2>3, <2>4
<1>3. /\ ramRingGetSize(local') = ramRingGetSize(local) + 1 /\ local'.start = local.start
      /\ ramRingGetWriteIndex(local) \in 0 .. Capacity - 1
  BY <1>1, <1>2, WordWritten
<1>4. /\ Used = ramRingGetSize(local) /\ Used' = Used + 1 /\ Start' = Start
      /\ Start = local.start
  BY <1>1, <1>3 DEF Used, Start
<1>5. /\ items - 1 \in Nat /\ (items - 1) * ItemLen \in Nat
      /\ Total = (items - 1) * ItemLen + written /\ Total' = Total + 1
  <2>1. items - 1 \in Nat /\ ItemLen \in Nat
    BY <1>2, Lengths
  <2>2. (items - 1) * ItemLen \in Nat
    BY <2>1
  <2>. QED
    BY <1>1, <1>2, <2>1, <2>2 DEF Total
<1>6. /\ Total \in Nat /\ Used \in Nat /\ Used <= Total /\ Oldest \in Nat /\ Oldest + Used = Total
      /\ Oldest' = Oldest /\ Used' <= Total'
  BY <1>4, <1>5, Numbers DEF Contents, Oldest
<1>7. WordOf(Total) = [item |-> items, part |-> written + 1]
  <2>1. WordOf(Total) = [item |-> (items - 1) + 1, part |-> written + 1]
    BY <1>2, <1>5, WordOfItem
  <2>. QED
    BY <1>2, <2>1
<1>8. ASSUME NEW j \in 0 .. Used' - 1
      PROVE  ram'[Advanced(Start, j)] = WordOf(Oldest + j)
  <2>1. CASE j = Used
    <3>1. Advanced(Start, j) = ramRingGetWriteIndex(local)
      BY <1>2, <1>4, <2>1, WritePlace
    <3>. QED
      BY <1>1, <1>2, <1>3, <1>6, <1>7, <2>1, <3>1
  <2>2. CASE j \in 0 .. Used - 1
    <3>1. Advanced(Start, j) # ramRingGetWriteIndex(local)
      BY <1>2, <1>4, <2>2, WritePlace
    <3>2. Advanced(Start, j) \in 0 .. Capacity - 1
      <4>1. j \in 0 .. Capacity
        BY <1>2, <1>4, <2>2, Lengths
      <4>2. local.start \in 0 .. Capacity - 1
        BY <1>2, RingFields
      <4>. QED
        BY <1>4, <4>1, <4>2, AdvancedInRing
    <3>3. ram'[Advanced(Start, j)] = ram[Advanced(Start, j)]
      BY <1>1, <1>2, <3>1, <3>2
    <3>. QED
      BY <2>2, <3>3 DEF Contents, Stored
  <2>. QED
    BY <1>4, <1>6, <2>1, <2>2
<1>9. Stored'
  BY <1>4, <1>6, <1>8 DEF Stored
<1>10. ~Removing' => ramRingGetSize(local') = ramRingGetSize(indexes') + written'
  <2>1. Removing' <=> Removing
    BY <1>1, <1>3 DEF Removing, Pushing
  <2>. QED
    BY <1>1, <1>2, <1>3, <2>1 DEF Contents
<1>. QED
  BY <1>1, <1>2, <1>6, <1>9, <1>10 DEF Contents, Pushing

LEMMA PublishKeepsContents ==
  ASSUME IInv, Contents, PublishStart \/ PublishEnd
  PROVE  Contents' /\ Oldest' = Oldest
<1>1. CASE PublishStart
  <2>1. /\ Pushing /\ Pushing' /\ server' = "publish_end"
        /\ UNCHANGED <<ram, local, items, written>>
    BY <1>1 DEF PublishStart, Pushing
  <2>2. Used' = Used /\ Total' = Total /\ Start' = Start
    BY <2>1 DEF Used, Total, Start
  <2>3. items' > 0
    BY <2>1 DEF Contents
  <2>. QED
    BY <2>1, <2>2, <2>3, ContentsUnchanged
<1>2. CASE PublishEnd
  <2>1. /\ server = "publish_end" /\ server' = "run" /\ Pushing /\ ~Pushing'
        /\ indexes' = [indexes EXCEPT !.end = local.end]
        /\ UNCHANGED <<ram, local, items, written>>
    BY <1>2 DEF PublishEnd, Pushing
  <2>2. /\ indexes \in Ring /\ local \in Ring /\ items \in Nat \ {0} /\ written = ItemLen
        /\ ItemLen \in Nat
    BY <2>1, Typed, Lengths DEF IInv, Positions, Contents
  <2>3. indexes' = local
    BY <2>1, <2>2 DEF IInv, Copy, Ring, RAM_RING_INDEXES_T
  <2>4. Used' = Used /\ Start' = Start
    BY <2>1, <2>3 DEF Used, Start
  <2>5. Total' = Total
    <3>1. (items - 1) * ItemLen + ItemLen = items * ItemLen
      BY <2>2
    <3>. QED
      BY <2>1, <2>2, <3>1 DEF Total
  <2>. QED
    BY <2>1, <2>4, <2>5, ContentsUnchanged
<1>. QED
  BY <1>1, <1>2

LEMMA ServerKeepsContents ==
  ASSUME IInv, Claims, Whole, Contents, ServerNext
  PROVE  /\ Contents'
         /\ removed' = removed =>
              Oldest' = Oldest + (IF server = "sync_start" THEN toAdd ELSE 0)
<1>1. CASE SyncLoad \/ SyncDone \/ PassEnd
  <2>1. /\ ~Pushing /\ ~Pushing' /\ server # "sync_start" /\ server' # "sync_start"
        /\ UNCHANGED <<indexes, ram, local, written, items>>
    BY <1>1 DEF SyncLoad, SyncDone, PassEnd, Pushing, shared
  <2>2. Used' = Used /\ Total' = Total /\ Start' = Start
    BY <2>1 DEF Used, Total, Start
  <2>. QED
    BY <2>1, <2>2, Numbers, ContentsUnchanged DEF Pushing
<1>2. CASE SyncFull \/ PushBegin \/ PushWrite \/ PublishStart \/ PublishEnd
  <2>1. server # "sync_start" /\ Oldest \in Nat
    BY <1>2, Numbers DEF SyncFull, PushBegin, PushWrite, PublishStart, PublishEnd
  <2>. QED
    BY <1>2, <2>1, SyncFullKeepsContents, PushBeginKeepsContents, PushWriteKeepsContents,
       PublishKeepsContents
<1>3. CASE SyncStart
  BY <1>3, SyncStartKeepsContents DEF SyncStart
<1>. QED
  BY <1>1, <1>2, <1>3 DEF ServerNext

LEMMA ClientKeepsContents ==
  ASSUME Contents, UNCHANGED <<indexes, ram, serverVars>>
  PROVE  Contents' /\ Used' = Used /\ Oldest' = Oldest
  BY DEF Contents, Stored, Total, Used, Oldest, Start, Pushing, Removing, serverVars
-----------------------------------------------------------------------------
(* What the client takes out of it                                                     *)
\* The middle buffer holds the words that were made from number b on.
Holds(b) == \A i \in 1 .. Len(middle) : middle[i] = WordOf(b + i - 1)

ReadsOldest ==
  client = "read" =>
    /\ ~Removing /\ toRead <= ramRingGetSize(indexes)
    /\ readIndex = Advanced(indexes.start, Len(middle))
    /\ Holds(Oldest)

Untorn ==
  /\ ReadsOldest
  /\ client \in {"send", "deliver"} => \E b \in Nat : Aligned(b) /\ Holds(b)
  /\ \A k \in 1 .. Len(delivered) : delivered[k] # 0

\* While the client reads, the indexes show the words that have been read and are to be read.
LEMMA ShownIsStored ==
  ASSUME IInv, Contents, ~Removing
  PROVE  ramRingGetSize(indexes) <= Used /\ Start = indexes.start
<1>1. /\ ramRingGetSize(indexes) \in 0 .. Capacity /\ ramRingGetSize(local) \in 0 .. Capacity
      /\ written \in Nat /\ Capacity \in Nat /\ ItemLen \in Nat
  BY Typed, RingFields, Lengths
<1>2. CASE ~Pushing
  BY <1>1, <1>2 DEF Used, Start
<1>3. CASE server \in {"write", "publish_start"}
  <2>1. ramRingGetSize(local) = ramRingGetSize(indexes) + written
    BY <1>3 DEF Contents
  <2>. QED
    BY <1>1, <1>3, <2>1 DEF Used, Start, Pushing, Removing
<1>4. CASE server = "publish_end"
  BY <1>1, <1>4 DEF Used, Start, Pushing, Removing, IInv, Copy, Content, Positions
<1>. QED
  BY <1>2, <1>3, <1>4 DEF Pushing

LEMMA InitUntorn == Init => Untorn
  BY DEF Init, Untorn, ReadsOldest

LEMMA ServerKeepsUntorn ==
  ASSUME IInv, Claims, Whole, Contents, Untorn, ServerNext, ~overtaken'
  PROVE  Untorn'
<1>1. UNCHANGED <<client, toRead, readIndex, middle, delivered>>
  BY DEF ServerNext, SyncLoad, SyncFull, SyncStart, SyncDone, PassEnd,
     PushBegin, PushWrite, PublishStart, PublishEnd, clientVars
<1>2. ASSUME client = "read"
      PROVE  /\ ~Removing' /\ toRead <= ramRingGetSize(indexes')
             /\ indexes'.start = indexes.start /\ Oldest' = Oldest
  <2>1. ~Removing /\ toRead <= ramRingGetSize(indexes) /\ toRead \in Nat
    BY <1>2, Typed, Lengths DEF Untorn, ReadsOldest
  <2>2. toAdd = 0 /\ wasRead = 0 /\ server \notin {"sync_full", "sync_start"}
    BY <1>2 DEF Claims, Reading, AckUnderWay
  <2>3. CASE SyncLoad \/ SyncDone \/ PassEnd
    <3>1. removed' = removed /\ indexes' = indexes /\ ~Removing'
      BY <2>3, <2>2 DEF SyncLoad, SyncDone, PassEnd, shared, Removing
    <3>2. Oldest \in Nat
      BY Numbers
    <3>. QED
      BY <2>1, <2>2, <3>1, <3>2, ServerKeepsContents
  <2>4. CASE PushBegin
    <3>1. removed' = removed /\ local' = indexes /\ indexes' = indexes
      <4>1. ~(ramRingGetRemainingCapacity(indexes) < ItemLen)
        BY <1>2, <2>4, Zenon DEF PushBegin
      <4>. QED
        BY <2>4, <4>1 DEF PushBegin, shared
    <3>2. ~Removing'
      BY <3>1 DEF Removing
    <3>. QED
      BY <2>1, <2>4, <3>1, <3>2, PushBeginKeepsContents
  <2>5. CASE PushWrite
    <3>1. local'.start = local.start /\ indexes' = indexes
      <4>1. local \in Ring /\ ramRingGetSize(local) < Capacity
        BY <2>5, CopyHasRoom, Typed, Lengths DEF PushWrite, Pushing, IInv, Positions
      <4>. QED
        BY <2>5, <4>1, WordWritten DEF PushWrite
    <3>2. ~Removing'
      BY <2>1, <2>5, <3>1 DEF Removing, PushWrite
    <3>. QED
      BY <2>1, <2>5, <3>1, <3>2, PushWriteKeepsContents
  <2>6. CASE PublishStart
    <3>1. local.start = indexes.start /\ indexes \in Ring /\ local' = local
          /\ indexes' = [indexes EXCEPT !.start = local.start]
      BY <2>1, <2>6, Typed DEF PublishStart, Removing
    <3>2. indexes' = indexes
      BY <3>1 DEF Ring, RAM_RING_INDEXES_T
    <3>3. ~Removing'
      BY <3>1, <3>2 DEF Removing
    <3>. QED
      BY <2>1, <2>6, <3>2, <3>3, PublishKeepsContents
  <2>7. CASE PublishEnd
    <3>1. /\ server = "publish_end" /\ Pushing /\ written = ItemLen
          /\ indexes \in Ring /\ local \in Ring /\ local.start = indexes.start
          /\ indexes' = [indexes EXCEPT !.end = local.end]
      BY <2>7, Typed DEF PublishEnd, Pushing, IInv, Positions, Copy
    <3>2. indexes' = local
      BY <3>1 DEF Ring, RAM_RING_INDEXES_T
    <3>3. ramRingGetSize(indexes) <= ramRingGetSize(local)
      BY <3>1, CopyHasRoom, RingFields, Lengths DEF Content
    <3>4. ramRingGetSize(indexes) \in Nat /\ ramRingGetSize(local) \in Nat
      BY <3>1, RingFields
    <3>5. ~Removing'
      BY <2>7 DEF PublishEnd, Removing
    <3>. QED
      BY <2>1, <2>7, <3>1, <3>2, <3>3, <3>4, <3>5, PublishKeepsContents
  <2>. QED
    BY <2>2, <2>3, <2>4, <2>5, <2>6, <2>7 DEF ServerNext, SyncFull, SyncStart
<1>3. ReadsOldest'
  BY <1>1, <1>2 DEF Untorn, ReadsOldest, Holds
<1>. QED
  BY <1>1, <1>3 DEF Untorn, Holds

\* What a read takes out of the ring continues what the middle buffer holds.
LEMMA ReadContinues ==
  ASSUME IInv, Contents, ReadsOldest, Read
  PROVE  /\ Len(middle') \in Nat /\ Len(middle') <= toRead
         /\ readIndex' = Advanced(indexes.start, Len(middle'))
         /\ \A i \in 1 .. Len(middle') : middle'[i] = WordOf(Oldest + i - 1)
<1> DEFINE left == toRead - Len(middle)
           part == MaxEbCycle - (Len(middle) % MaxEbCycle)
           n == MinOf(MinOf(left, part), Capacity - readIndex)
           words == [i \in 1 .. n |-> ram[readIndex + i - 1]]
<1>1. /\ client = "read" /\ middle' = middle \o words /\ readIndex' = Advanced(readIndex, n)
  BY Zenon DEF Read
<1>2. /\ readIndex \in 0 .. Capacity - 1 /\ Capacity \in Nat
      /\ middle \in Seq(Word) /\ Len(middle) \in Nat /\ Len(middle) <= toRead
      /\ toRead \in 0 .. Capacity
      /\ ram \in [0 .. Capacity - 1 -> Word]
  BY Typed, Lengths
<1>3. /\ ~Removing /\ toRead <= ramRingGetSize(indexes) /\ ramRingGetSize(indexes) \in 0 .. Capacity
      /\ readIndex = Advanced(indexes.start, Len(middle)) /\ Holds(Oldest)
      /\ indexes.start \in 0 .. Capacity - 1
  BY <1>1, Typed, RingFields DEF ReadsOldest
<1>4. ramRingGetSize(indexes) <= Used /\ Start = indexes.start
  BY <1>3, ShownIsStored
<1>5. n \in 0 .. left /\ n <= Capacity - readIndex
  <2>1. part \in Nat
    BY <1>2, MilDaqRingAssumption
  <2>. QED
    BY <1>2, <2>1 DEF MinOf
<1>6. words \in Seq(Word) /\ Len(words) = n
  <2>1. \A i \in 1 .. n : ram[readIndex + i - 1] \in Word
    BY <1>2, <1>5
  <2>2. words \in [1 .. n -> Word]
    BY <2>1
  <2>. QED
    BY <1>5, <2>2
<1>7. /\ Len(middle') = Len(middle) + n
      /\ \A i \in 1 .. Len(middle') : middle'[i] = IF i <= Len(middle) THEN middle[i]
                                                   ELSE words[i - Len(middle)]
  <2>. HIDE DEF words, n
  <2>. QED
    BY <1>1, <1>2, <1>6, ConcatProperties
<1>8. Used \in 0 .. Capacity /\ Oldest \in Nat
  BY Numbers
<1>9. ASSUME NEW i \in 1 .. n
      PROVE  ram[readIndex + i - 1] = WordOf(Oldest + (Len(middle) + i) - 1)
  <2> DEFINE j == Len(middle) + (i - 1)
  <2>1. /\ i - 1 \in 0 .. Capacity /\ Len(middle) \in 0 .. Capacity /\ j \in 0 .. Used - 1
        /\ readIndex + (i - 1) < Capacity /\ j <= Capacity
    BY <1>2, <1>3, <1>4, <1>5, <1>8
  <2>2. Advanced(readIndex, i - 1) = readIndex + (i - 1)
    BY <1>2, <2>1, AdvancedSum
  <2>3. Advanced(readIndex, i - 1) = Advanced(indexes.start, j)
    BY <1>3, <2>1, AdvancedTwice
  <2>4. ram[Advanced(Start, j)] = WordOf(Oldest + j)
    BY <2>1 DEF Contents, Stored
  <2>5. readIndex + i - 1 = readIndex + (i - 1) /\ Oldest + (Len(middle) + i) - 1 = Oldest + j
    BY <1>2, <1>8
  <2>. QED
    BY <1>4, <2>2, <2>3, <2>4, <2>5
<1>10. Len(middle') \in Nat /\ Len(middle') <= toRead
  BY <1>2, <1>5, <1>7
<1>11. readIndex' = Advanced(indexes.start, Len(middle'))
  <2>1. Len(middle) \in 0 .. Capacity /\ n \in 0 .. Capacity /\ Len(middle) + n <= Capacity
    BY <1>2, <1>5
  <2>. HIDE DEF n
  <2>. QED
    BY <1>1, <1>3, <1>7, <2>1, AdvancedTwice
<1>12. ASSUME NEW i \in 1 .. Len(middle')
       PROVE  middle'[i] = WordOf(Oldest + i - 1)
  <2>0. i \in Nat /\ i >= 1 /\ Len(middle) \in Nat
    BY <1>2, <1>10
  <2>1. CASE i <= Len(middle)
    <3>1. middle'[i] = middle[i] /\ i \in 1 .. Len(middle)
      <4>. HIDE DEF words, n
      <4>. QED
        BY <1>7, <2>0, <2>1
    <3>. QED
      BY <1>3, <3>1 DEF Holds
  <2>2. CASE i > Len(middle)
    <3>1. i - Len(middle) \in 1 .. n /\ Len(middle) + (i - Len(middle)) = i
      BY <1>2, <1>5, <1>7, <2>2
    <3>2. middle'[i] = ram[readIndex + (i - Len(middle)) - 1]
      <4>1. middle'[i] = words[i - Len(middle)]
        <5>. HIDE DEF words, n
        <5>. QED
          BY <1>7, <2>0, <2>2
      <4>. QED
        BY <3>1, <4>1
    <3>3. ram[readIndex + (i - Len(middle)) - 1]
             = WordOf(Oldest + (Len(middle) + (i - Len(middle))) - 1)
      BY <1>9, <3>1
    <3>. QED
      BY <3>1, <3>2, <3>3
  <2>. QED
    BY <1>2, <2>1, <2>2
<1>. QED
  BY <1>10, <1>11, <1>12

\* The items that distributeData() cuts out of the middle buffer are those in it.
LEMMA ItemsInOrder ==
  ASSUME IInv, client = "deliver", NEW q \in Nat, Holds(q * ItemLen),
         NEW i \in 1 .. toRead \div ItemLen
  PROVE  ItemAt(i) = q + i
<1> DEFINE word(k) == middle[(i - 1) * ItemLen + k]
<1>1. /\ toRead \in Nat /\ i \in Nat \ {0} /\ ItemLen \in Nat \ {0, 1}
      /\ toRead \div ItemLen \in Nat /\ i <= toRead \div ItemLen
      /\ Len(middle) = toRead /\ i - 1 \in Nat
  BY Typed, Lengths DEF IInv, Positions
<1>2. i * ItemLen <= toRead
  <2>1. (toRead \div ItemLen) * ItemLen <= toRead
    BY <1>1
  <2>2. i * ItemLen <= (toRead \div ItemLen) * ItemLen
    BY <1>1
  <2>3. i * ItemLen \in Nat /\ (toRead \div ItemLen) * ItemLen \in Nat
    BY <1>1
  <2>. QED
    BY <1>1, <2>1, <2>2, <2>3
<1>3. /\ (i - 1) * ItemLen \in Nat /\ q * ItemLen \in Nat /\ i * ItemLen \in Nat
      /\ (i - 1) * ItemLen + ItemLen = i * ItemLen
      /\ q * ItemLen + (i - 1) * ItemLen = (q + i - 1) * ItemLen
      /\ q + i - 1 \in Nat
  BY <1>1
<1>4. ASSUME NEW k \in 1 .. ItemLen
      PROVE  word(k) = [item |-> q + i, part |-> k]
  <2>1. (i - 1) * ItemLen + k \in 1 .. Len(middle) /\ k - 1 \in 0 .. ItemLen - 1 /\ k \in Nat
    BY <1>1, <1>2, <1>3
  <2>2. word(k) = WordOf(q * ItemLen + ((i - 1) * ItemLen + k) - 1)
    BY <2>1 DEF Holds
  <2>3. q * ItemLen + ((i - 1) * ItemLen + k) - 1 = (q + i - 1) * ItemLen + (k - 1)
    BY <1>3, <2>1
  <2>4. WordOf((q + i - 1) * ItemLen + (k - 1)) = [item |-> (q + i - 1) + 1, part |-> (k - 1) + 1]
    BY <1>3, <2>1, WordOfItem
  <2>5. (q + i - 1) + 1 = q + i /\ (k - 1) + 1 = k
    BY <1>1, <2>1
  <2>. QED
    BY <2>2, <2>3, <2>4, <2>5
<1>5. 1 \in 1 .. ItemLen
  BY <1>1
<1>6. word(1).item = q + i
  <2>. HIDE DEF word
  <2>1. word(1) = [item |-> q + i, part |-> 1]
    BY <1>4, <1>5
  <2>. QED
    BY <2>1
<1>. QED
  BY <1>4, <1>6 DEF ItemAt

\* What onData() has got after a pass of distributeData().
LEMMA DeliveredItems ==
  ASSUME IInv, Deliver, NEW q \in Nat, Holds(q * ItemLen)
  PROVE  /\ toRead \div ItemLen \in Nat /\ Len(delivered) \in Nat
         /\ Len(delivered') = Len(delivered) + (toRead \div ItemLen)
         /\ delivered' = delivered \o [i \in 1 .. toRead \div ItemLen |-> q + i]
         /\ \A k \in 1 .. Len(delivered') :
              delivered'[k] = IF k <= Len(delivered) THEN delivered[k]
                              ELSE q + (k - Len(delivered))
<1> DEFINE n == toRead \div ItemLen
           new == [i \in 1 .. n |-> ItemAt(i)]
<1>1. n \in Nat
  <2>1. toRead \in Nat /\ ItemLen \in Nat \ {0}
    BY Typed, Lengths
  <2>. QED
    BY <2>1
<1>2. client = "deliver" /\ delivered' = delivered \o new
  BY DEF Deliver
<1>3. new = [i \in 1 .. n |-> q + i]
  BY <1>2, ItemsInOrder
<1>4. new \in Seq(Nat) /\ Len(new) = n /\ \A i \in 1 .. n : new[i] = q + i
  <2>1. new \in [1 .. n -> Nat]
    BY <1>3
  <2>. QED
    BY <1>1, <1>3, <2>1
<1>5. delivered \in Seq(Nat)
  <2>1. /\ Len(delivered) \in Nat
        /\ delivered \in [1 .. Len(delivered) -> 0 .. MaxItems]
    BY Typed, LenProperties
  <2>2. delivered \in [1 .. Len(delivered) -> Nat]
    BY <2>1
  <2>. QED
    BY <2>1, <2>2, SeqDef
<1>6. /\ Len(delivered) \in Nat
      /\ Len(delivered') = Len(delivered) + n
      /\ \A k \in 1 .. Len(delivered') : delivered'[k] = IF k <= Len(delivered) THEN delivered[k]
                                                         ELSE new[k - Len(delivered)]
  <2>. HIDE DEF new, n
  <2>. QED
    BY <1>1, <1>2, <1>4, <1>5, ConcatProperties
<1>7. ASSUME NEW k \in 1 .. Len(delivered'), ~(k <= Len(delivered))
      PROVE  delivered'[k] = q + (k - Len(delivered))
  <2>1. k - Len(delivered) \in 1 .. n
    <3>. HIDE DEF n
    <3>. QED
      BY <1>1, <1>6, <1>7
  <2>. HIDE DEF new, n
  <2>. QED
    BY <1>4, <1>6, <1>7, <2>1
<1>. QED
  BY <1>1, <1>2, <1>3, <1>6, <1>7

LEMMA ClientKeepsUntorn ==
  ASSUME IInv, Contents, Untorn, ClientNext, ~overtaken'
  PROVE  Untorn'
<1>1. UNCHANGED <<indexes, ram, serverVars>>
  BY DEF ClientNext, Poll, Read, Send, Resend, Deliver, ClearRequest, ClearSend, Restart, shared
<1>2. Oldest' = Oldest /\ (Removing' <=> Removing)
  BY <1>1, ClientKeepsContents DEF Removing, serverVars
<1>3. CASE Poll
  <2>1. client = "poll" /\ middle' = << >> /\ readIndex' = indexes.start /\ delivered' = delivered
    BY <1>3 DEF Poll
  <2>2. client' \in {"poll", "resend", "read"}
    BY <1>3 DEF Poll
  <2>3. ASSUME client' = "read"
        PROVE  ~Removing /\ toRead' <= ramRingGetSize(indexes)
    <3>1. ~Removing
      BY <1>3, <2>3, Zenon DEF Poll
    <3>2. toRead' = MinOf(ramRingGetSize(indexes), MiddleBuffer)
      BY <1>3, <2>3, <2>1 DEF Poll
    <3>3. ramRingGetSize(indexes) \in Nat /\ MiddleBuffer \in Nat
      BY Typed, RingFields, Lengths
    <3>. QED
      BY <3>1, <3>2, <3>3 DEF MinOf
  <2>4. indexes.start = Advanced(indexes.start, 0) /\ Len(<< >>) = 0
    <3>1. indexes.start \in 0 .. Capacity - 1 /\ 0 \in 0 .. Capacity /\ Capacity \in Nat
      BY Typed, RingFields, Lengths
    <3>. QED
      BY <3>1, AdvancedSum
  <2>5. ReadsOldest'
    BY <1>1, <1>2, <2>1, <2>3, <2>4 DEF ReadsOldest, Holds
  <2>. QED
    BY <2>1, <2>2, <2>5 DEF Untorn
<1>4. CASE Read
  <2>1. client = "read" /\ client' \in {"read", "send"} /\ UNCHANGED <<toRead, delivered>>
    BY <1>4 DEF Read
  <2>2. /\ readIndex' = Advanced(indexes.start, Len(middle'))
        /\ \A i \in 1 .. Len(middle') : middle'[i] = WordOf(Oldest + i - 1)
    BY <1>4, ReadContinues DEF Untorn
  <2>3. Holds(Oldest)' /\ Aligned(Oldest) /\ Oldest \in Nat
    BY <1>2, <2>2, Numbers DEF Holds, Contents
  <2>4. ReadsOldest'
    BY <1>1, <1>2, <2>1, <2>2, <2>3 DEF Untorn, ReadsOldest
  <2>5. \E b \in Nat : Aligned(b) /\ \A i \in 1 .. Len(middle') : middle'[i] = WordOf(b + i - 1)
    BY <2>2, <2>3
  <2>. QED
    BY <2>1, <2>4, <2>5 DEF Untorn, Holds
<1>5. CASE Send
  <2>1. client = "send" /\ client' = "deliver" /\ UNCHANGED <<middle, delivered>>
    BY <1>5 DEF Send
  <2>. QED
    BY <2>1 DEF Untorn, ReadsOldest, Holds
<1>6. CASE Deliver
  <2>1. client = "deliver" /\ client' = "poll"
    BY <1>6 DEF Deliver
  <2>2. PICK b \in Nat : Aligned(b) /\ Holds(b)
    BY <2>1 DEF Untorn
  <2>3. PICK q \in Nat : b = q * ItemLen
    BY <2>2, Quotient
  <2>4. /\ Len(delivered) \in Nat /\ Len(delivered') \in Nat
        /\ \A k \in 1 .. Len(delivered') :
             delivered'[k] = IF k <= Len(delivered) THEN delivered[k] ELSE q + (k - Len(delivered))
    BY <1>6, <2>2, <2>3, DeliveredItems
  <2>5. ASSUME NEW k \in 1 .. Len(delivered') PROVE delivered'[k] # 0
    <3>1. CASE k <= Len(delivered)
      BY <2>4, <3>1 DEF Untorn
    <3>2. CASE ~(k <= Len(delivered))
      BY <2>4, <3>2
    <3>. QED
      BY <3>1, <3>2
  <2>. QED
    BY <2>1, <2>5 DEF Untorn, ReadsOldest
<1>7. CASE Resend \/ ClearRequest \/ ClearSend \/ Restart
  <2>1. client' \in {"poll", "clear"} /\ UNCHANGED delivered
    BY <1>7 DEF Resend, ClearRequest, ClearSend, Restart
  <2>. QED
    BY <2>1 DEF Untorn, ReadsOldest
<1>. QED
  BY <1>3, <1>4, <1>5, <1>6, <1>7 DEF ClientNext
-----------------------------------------------------------------------------
(* As long as nothing has been removed the ring begins where the client is             *)
Applying == server \in {"sync_full", "sync_start"}

\* Words that onData() has got, that the client has acknowledged or is about to, and the
\* acknowledgement that it may have to repeat.
Done         == Len(delivered) * ItemLen
Acknowledged == Done + (IF client = "deliver" THEN toRead ELSE 0)
Claimed      == IF client = "resend" THEN toRead ELSE cWasRead

\* The ring begins where the client is, or the acknowledgement of what lies between is
\* on its way.
HandShake ==
  /\ Claimed <= MiddleBuffer
  /\ unapplied =>
       /\ Claimed # 0 /\ lastReadIndex = indexes.start
       /\ wasRead \in {0, Claimed} /\ toAdd = 0
       /\ Oldest + Claimed = Acknowledged
  /\ ~unapplied =>
       /\ wasRead = toAdd
       /\ toAdd # 0 => cWasRead = toAdd
       /\ Oldest + (IF Applying THEN toAdd ELSE 0) = Acknowledged
       /\ Applying => lastReadIndex = indexes.start
       /\ cWasRead # 0 /\ ~Applying => lastReadIndex # indexes.start

OnTheWay ==
  /\ client \in {"read", "send", "deliver"} =>
       /\ Holds(Done) /\ Done + toRead <= Published * ItemLen
       /\ toRead # 0 /\ toRead <= MiddleBuffer
  /\ client \in {"read", "send"} => ~unapplied /\ lastReadIndex = indexes.start
  /\ client = "resend" => unapplied /\ wasRead = 0

InStep ==
  /\ ~overtaken /\ ~repeated /\ client # "clear"
  /\ Pushing => /\ local.start = indexes.start
                /\ ramRingGetSize(local) = ramRingGetSize(indexes) + written
  /\ \A k \in 1 .. Len(delivered) : delivered[k] = k
  /\ HandShake /\ OnTheWay

LEMMA InitInStep == Init => InStep
<1>. SUFFICES ASSUME Init PROVE InStep
  OBVIOUS
<1>1. /\ items = 0 /\ server = "pass" /\ indexes = EmptyRing /\ delivered = << >>
      /\ client = "poll" /\ cWasRead = 0 /\ wasRead = 0 /\ toAdd = 0
  BY DEF Init
<1>2. ~overtaken /\ ~repeated /\ ~unapplied
  BY DEF Init
<1>3. 0 * ItemLen = 0 /\ ramRingGetSize(EmptyRing) = 0 /\ MiddleBuffer \in Nat
  BY Lengths DEF EmptyRing, ramRingGetSize, ramRingIsFull
<1>4. Total = 0 /\ Used = 0 /\ Done = 0 /\ Acknowledged = 0 /\ Claimed = 0 /\ ~Applying
  BY <1>1, <1>3 DEF Total, Used, Pushing, Done, Acknowledged, Claimed, Applying
<1>5. HandShake
  BY <1>1, <1>2, <1>3, <1>4 DEF HandShake, Oldest
<1>. QED
  BY <1>1, <1>2, <1>5 DEF InStep, OnTheWay, Pushing

LEMMA NumberDone ==
  ASSUME IInv
  PROVE  Done \in Nat /\ Acknowledged \in Nat /\ Len(delivered) \in Nat /\ toRead \in Nat
<1>1. Len(delivered) \in Nat /\ toRead \in Nat
  BY Typed, Lengths, LenProperties
<1>2. Len(delivered) * ItemLen \in Nat
  BY <1>1, Multiples
<1>. QED
  BY <1>1, <1>2 DEF Done, Acknowledged

\* The client has nothing to do with a step of the server that leaves the beginning of the
\* ring and the acknowledgement alone.
LEMMA ClientInStep ==
  ASSUME IInv, InStep,
         UNCHANGED <<clientVars, wasRead, toAdd, unapplied>>,
         indexes'.start = indexes.start, Oldest' = Oldest, Applying' <=> Applying,
         Published \in Nat, Published' \in Nat, Published <= Published'
  PROVE  HandShake' /\ OnTheWay'
<1>1. UNCHANGED <<Done, Acknowledged, Claimed>> /\ (\A b : Holds(b)' <=> Holds(b))
  BY DEF clientVars, Done, Acknowledged, Claimed, Holds
<1>2. Done + toRead \in Nat
  BY NumberDone
<1>3. /\ Published * ItemLen \in Nat /\ Published' * ItemLen \in Nat
      /\ Published * ItemLen <= Published' * ItemLen
  BY Multiples
<1>4. HandShake'
  BY <1>1 DEF InStep, HandShake, clientVars
<1>5. OnTheWay'
  BY <1>1, <1>2, <1>3 DEF InStep, OnTheWay, clientVars
<1>. QED
  BY <1>4, <1>5

LEMMA NumberPublished ==
  ASSUME IInv, Contents
  PROVE  /\ Published \in Nat /\ Published * ItemLen \in Nat
         /\ Published * ItemLen = Total - (IF Pushing THEN written ELSE 0)
<1>1. items \in Nat /\ written \in Nat /\ ItemLen \in Nat
  BY Typed, Lengths
<1>2. CASE Pushing
  <2>1. items - 1 \in Nat /\ Published = items - 1
    BY <1>1, <1>2 DEF Contents, Published, Pushing
  <2>2. (items - 1) * ItemLen \in Nat
    BY <1>1, <2>1
  <2>. QED
    BY <1>1, <1>2, <2>1, <2>2 DEF Total
<1>3. CASE ~Pushing
  <2>1. Published = items /\ items * ItemLen \in Nat
    BY <1>1, <1>3 DEF Published, Pushing
  <2>. QED
    BY <1>1, <1>3, <2>1 DEF Total
<1>. QED
  BY <1>2, <1>3

LEMMA SyncKeepsInStep ==
  ASSUME IInv, Claims, Whole, Contents, InStep, SyncLoad \/ SyncFull \/ SyncStart \/ SyncDone
  PROVE  InStep'
<1>1. /\ ~Pushing /\ ~Pushing'
      /\ UNCHANGED <<client, lastReadIndex, cWasRead, toRead, middle, delivered,
                     items, removed, overtaken, repeated>>
      /\ server \in {"pass", "sync_full", "sync_start", "sync_done"}
      /\ server' \in {"sync_full", "sync_start", "sync_done", "run"}
  BY DEF SyncLoad, SyncFull, SyncStart, SyncDone, Pushing, clientVars, history
<1>2. /\ UNCHANGED <<Done, Acknowledged, Claimed, Published>> /\ (\A b : Holds(b)' <=> Holds(b))
      /\ MiddleBuffer \in Nat /\ MiddleBuffer < Capacity /\ Capacity \in Nat
  <2>1. MiddleBuffer < Capacity
    <3>1. MiddleBuffer \in 1 .. Capacity \div ItemLen /\ MiddleBuffer % ItemLen = 0
          /\ ItemLen \in Nat \ {0, 1} /\ Capacity \in Nat \ {0}
      BY MilDaqRingAssumption
    <3>2. Capacity \div ItemLen \in Nat /\ ItemLen * (Capacity \div ItemLen) <= Capacity
      BY <3>1
    <3>3. 2 * (Capacity \div ItemLen) <= ItemLen * (Capacity \div ItemLen)
      BY <3>1, <3>2
    <3>. QED
      BY <3>1, <3>2, <3>3
  <2>. QED
    BY <1>1, <2>1, Lengths DEF Done, Acknowledged, Claimed, Published, Pushing, Holds
<1>3. /\ Oldest \in Nat /\ wasRead \in Nat /\ toAdd \in Nat /\ cWasRead \in Nat /\ toRead \in Nat
      /\ indexes.start \in 0 .. Capacity - 1 /\ indexes \in Ring
  BY Numbers, Typed, RingFields, Lengths
<1>4. Oldest' = Oldest + (IF server = "sync_start" THEN toAdd ELSE 0)
  BY <1>1, ServerKeepsContents DEF ServerNext
<1>5. HandShake' /\ (client \in {"read", "send"} => ~unapplied' /\ indexes'.start = indexes.start)
      /\ (client = "resend" => unapplied' /\ wasRead' = 0)
  <2>1. CASE SyncLoad
    <3>1. /\ server = "pass" /\ ~Applying /\ toAdd' = wasRead /\ indexes' = indexes
          /\ wasRead' = wasRead /\ (Applying' <=> wasRead # 0)
      BY <2>1 DEF SyncLoad, shared, Applying
    <3>2. unapplied' <=> (unapplied /\ wasRead = 0)
      BY <2>1 DEF SyncLoad
    <3>3. CASE ~unapplied
      <4>1. wasRead = 0 /\ toAdd = 0
        BY <3>1, <3>3 DEF Claims
      <4>. QED
        BY <1>1, <1>2, <1>3, <1>4, <3>1, <3>2, <3>3, <4>1 DEF InStep, HandShake, OnTheWay
    <3>4. CASE unapplied /\ wasRead = 0
      BY <1>1, <1>2, <1>3, <1>4, <3>1, <3>2, <3>4 DEF InStep, HandShake, OnTheWay
    <3>5. CASE unapplied /\ wasRead # 0
      <4>1. client # "resend" /\ Claimed = cWasRead /\ wasRead = cWasRead
        BY <3>5 DEF InStep, HandShake, OnTheWay, Claimed
      <4>. QED
        BY <1>1, <1>2, <1>3, <1>4, <3>1, <3>2, <3>5, <4>1 DEF InStep, HandShake, OnTheWay
    <3>. QED
      BY <3>3, <3>4, <3>5
  <2>2. CASE SyncFull \/ SyncStart
    <3>1. Applying /\ toAdd # 0 /\ ~unapplied /\ client \notin {"read", "send", "resend"}
          /\ UNCHANGED <<wasRead, toAdd, unapplied>>
      BY <2>2 DEF SyncFull, SyncStart, Applying, Claims, Reading, AckUnderWay, history
    <3>2. wasRead = toAdd /\ cWasRead = toAdd /\ Claimed = toAdd /\ toAdd <= MiddleBuffer
          /\ Oldest + toAdd = Acknowledged /\ lastReadIndex = indexes.start
      BY <3>1 DEF InStep, HandShake, Claimed
    <3>3. CASE SyncFull
      <4>1. indexes'.start = indexes.start /\ Applying' /\ server # "sync_start"
        BY <1>3, <3>3 DEF SyncFull, Applying, Ring, RAM_RING_INDEXES_T
      <4>. QED
        BY <1>1, <1>2, <1>3, <1>4, <3>1, <3>2, <4>1 DEF HandShake
    <3>4. CASE SyncStart
      <4>1. server = "sync_start" /\ ~Applying' /\ indexes'.start = Advanced(indexes.start, toAdd)
        BY <1>3, <3>4 DEF SyncStart, Applying, Ring, RAM_RING_INDEXES_T
      <4>2. Advanced(indexes.start, toAdd) # indexes.start
        <5>1. toAdd \in 0 .. Capacity
          BY <1>2, <1>3, <3>2
        <5>2. Advanced(indexes.start, toAdd) = IF indexes.start + toAdd < Capacity
                 THEN indexes.start + toAdd ELSE indexes.start + toAdd - Capacity
          BY <1>3, <5>1, AdvancedSum
        <5>. QED
          BY <1>2, <1>3, <3>1, <3>2, <5>2
      <4>. QED
        BY <1>1, <1>2, <1>3, <1>4, <3>1, <3>2, <4>1, <4>2 DEF HandShake
    <3>. QED
      BY <2>2, <3>3, <3>4
  <2>3. CASE SyncDone
    <3>1. /\ server = "sync_done" /\ wasRead' = 0 /\ toAdd' = 0 /\ indexes' = indexes
          /\ unapplied' = unapplied /\ ~Applying /\ ~Applying'
      BY <2>3 DEF SyncDone, Applying, history
    <3>. QED
      BY <1>1, <1>2, <1>3, <1>4, <3>1 DEF InStep, HandShake, OnTheWay
  <2>. QED
    BY <2>1, <2>2, <2>3
<1>6. OnTheWay'
  BY <1>1, <1>2, <1>5 DEF InStep, OnTheWay
<1>. QED
  BY <1>1, <1>2, <1>5, <1>6 DEF InStep

LEMMA PushKeepsInStep ==
  ASSUME IInv, Claims, Whole, Contents, Contents', IInv', InStep, removed' = removed,
         PassEnd \/ PushBegin \/ PushWrite \/ PublishStart \/ PublishEnd
  PROVE  InStep'
<1>1. /\ UNCHANGED <<clientVars, wasRead, toAdd>>
      /\ unapplied' = unapplied /\ ~Applying /\ ~Applying'
  BY DEF PassEnd, PushBegin, PushWrite, PublishStart, PublishEnd, shared, history, Applying
<1>2. Oldest' = Oldest
  <2>1. server # "sync_start" /\ Oldest \in Nat
    BY Numbers DEF PassEnd, PushBegin, PushWrite, PublishStart, PublishEnd
  <2>. QED
    BY <2>1, ServerKeepsContents DEF ServerNext
<1>3. /\ indexes \in Ring /\ local \in Ring /\ items \in Nat /\ written \in 0 .. ItemLen
      /\ ItemLen \in Nat /\ ramRingGetSize(indexes) \in Nat /\ ramRingGetSize(local) \in Nat
      /\ Pushing => items - 1 \in Nat
  BY Typed, RingFields, Lengths DEF Contents
<1>4. /\ ~overtaken' /\ ~repeated'
      /\ indexes'.start = indexes.start
      /\ Pushing' => /\ local'.start = indexes'.start
                     /\ ramRingGetSize(local') = ramRingGetSize(indexes') + written'
      /\ Published' \in {Published, Published + 1}
  <2>1. CASE PassEnd
    <3>1. /\ UNCHANGED <<indexes, items>> /\ ~Pushing /\ ~Pushing'
          /\ ~overtaken' /\ ~repeated'
      BY <2>1 DEF PassEnd, history, Pushing, shared, InStep
    <3>. QED
      BY <3>1 DEF Published, Pushing
  <2>2. CASE PushBegin
    <3>1. ~(ramRingGetRemainingCapacity(indexes) < ItemLen)
      BY <2>2, Typed DEF PushBegin
    <3>2. ~overtaken' /\ ~repeated'
      BY <2>2, <3>1, Zenon DEF PushBegin, InStep
    <3>3. /\ local' = indexes /\ indexes' = indexes /\ written' = 0 /\ items' = items + 1
          /\ server = "run" /\ server' = "write"
      BY <2>2, <3>1 DEF PushBegin, shared
    <3>4. Published' = Published
      BY <1>3, <3>3 DEF Published
    <3>. QED
      BY <1>3, <3>2, <3>3, <3>4
  <2>3. CASE PushWrite
    <3>1. Pushing /\ Pushing' /\ UNCHANGED <<indexes, items>> /\ ~overtaken' /\ ~repeated'
          /\ written' = written + 1 /\ local' = ramRingIncWriteIndex(local)
      BY <2>3 DEF PushWrite, Pushing, history, InStep
    <3>2. ramRingGetSize(local) < Capacity
      BY <2>3, <3>1, <1>3, CopyHasRoom, Lengths DEF PushWrite, IInv, Positions
    <3>3. ramRingGetSize(local') = ramRingGetSize(local) + 1 /\ local'.start = local.start
      BY <1>3, <3>1, <3>2, WordWritten
    <3>4. Published' = Published
      BY <3>1 DEF Published, Pushing
    <3>. QED
      BY <1>3, <3>1, <3>3, <3>4 DEF InStep
  <2>4. CASE PublishStart
    <3>1. Pushing /\ Pushing' /\ UNCHANGED <<local, written, items>> /\ ~overtaken' /\ ~repeated'
          /\ indexes' = [indexes EXCEPT !.start = local.start] /\ local.start = indexes.start
      BY <2>4 DEF PublishStart, Pushing, history, InStep
    <3>2. indexes' = indexes
      BY <1>3, <3>1 DEF Ring, RAM_RING_INDEXES_T
    <3>3. Published' = Published
      BY <3>1 DEF Published, Pushing
    <3>. QED
      BY <3>1, <3>2, <3>3 DEF InStep
  <2>5. CASE PublishEnd
    <3>1. Pushing /\ ~Pushing' /\ UNCHANGED <<local, items>> /\ ~overtaken' /\ ~repeated'
          /\ indexes' = [indexes EXCEPT !.end = local.end]
      BY <2>5 DEF PublishEnd, Pushing, history, InStep
    <3>2. indexes'.start = indexes.start
      BY <1>3, <3>1 DEF Ring, RAM_RING_INDEXES_T
    <3>3. Published = items - 1 /\ Published' = items
      BY <3>1 DEF Published, Pushing
    <3>. QED
      BY <1>3, <3>1, <3>2, <3>3
  <2>. QED
    BY <2>1, <2>2, <2>3, <2>4, <2>5
<1>5. Published \in Nat /\ Published' \in Nat /\ Published <= Published'
  <2>1. Published \in Nat
    BY NumberPublished
  <2>. QED
    BY <1>4, <2>1
<1>6. HandShake' /\ OnTheWay'
  BY <1>1, <1>2, <1>4, <1>5, ClientInStep
<1>. QED
  BY <1>1, <1>4, <1>6 DEF InStep, clientVars

LEMMA PollKeepsInStep ==
  ASSUME IInv, Claims, Whole, Contents, InStep, Poll
  PROVE  InStep'
<1>1. /\ client = "poll" /\ cWasRead' = wasRead /\ middle' = << >>
      /\ UNCHANGED <<indexes, wasRead, ram, serverVars, delivered, unapplied>>
      /\ client' \in {"poll", "resend", "read"}
  BY DEF Poll, shared
<1>2. /\ UNCHANGED <<Done, Published>> /\ Oldest' = Oldest
      /\ Acknowledged = Done /\ Acknowledged' = Done
      /\ Claimed = cWasRead
      /\ Applying' <=> Applying
      /\ Pushing' <=> Pushing
  BY <1>1, NumberDone, ClientKeepsContents
     DEF Done, Acknowledged, Claimed, Published, Applying, Pushing, serverVars
<1>3. /\ wasRead \in Nat /\ toAdd \in Nat /\ cWasRead \in Nat /\ Oldest \in Nat
      /\ ramRingGetSize(indexes) \in Nat /\ ramRingGetSize(local) \in Nat
      /\ MiddleBuffer \in Nat
  BY Typed, Numbers, RingFields, Lengths
<1>4. ~Removing
  BY DEF Removing, InStep, Pushing
<1>5. ~overtaken'
  BY <1>4, Zenon DEF Poll, InStep
<1>6. CASE wasRead # 0 /\ UNCHANGED <<client, toRead, lastReadIndex>>
  <2>1. ~repeated' /\ Claimed' = wasRead
    BY <1>1, <1>6 DEF Poll, WasReadLost, InStep, Claimed
  <2>2. HandShake'
    <3>1. CASE unapplied
      BY <1>1, <1>2, <1>3, <1>6, <2>1, <3>1 DEF InStep, HandShake, serverVars
    <3>2. CASE ~unapplied
      <4>1. toAdd = wasRead /\ cWasRead = wasRead
        BY <1>6, <3>2 DEF InStep, HandShake
      <4>. QED
        BY <1>1, <1>2, <1>3, <1>6, <2>1, <3>2, <4>1 DEF InStep, HandShake, serverVars
    <3>. QED
      BY <3>1, <3>2
  <2>. QED
    BY <1>1, <1>2, <1>5, <1>6, <2>1, <2>2 DEF InStep, OnTheWay, serverVars
<1>7. CASE WasReadLost /\ client' = "resend" /\ toRead' = cWasRead /\ UNCHANGED lastReadIndex
  <2>1. wasRead = 0 /\ toAdd = 0 /\ cWasRead # 0 /\ lastReadIndex = indexes.start /\ ~Applying
    BY <1>7 DEF WasReadLost, Claims, Applying
  <2>2. unapplied
    BY <2>1 DEF InStep, HandShake
  <2>3. ~repeated'
    BY <2>2, Zenon DEF Poll, InStep
  <2>4. Claimed' = Claimed
    BY <1>2, <1>7 DEF Claimed
  <2>5. HandShake'
    BY <1>1, <1>2, <1>3, <1>7, <2>1, <2>2, <2>4 DEF InStep, HandShake, serverVars
  <2>. QED
    BY <1>1, <1>2, <1>5, <1>7, <2>1, <2>2, <2>3, <2>5 DEF InStep, OnTheWay, serverVars
<1>8. CASE /\ wasRead = 0 /\ ~WasReadLost /\ lastReadIndex' = indexes.start
           /\ client' = "read" => toRead' = MinOf(ramRingGetSize(indexes), MiddleBuffer) /\ toRead' # 0
           /\ client' \in {"poll", "read"}
  <2>1. toAdd = 0 /\ ~Applying
    BY <1>8 DEF Claims, Applying
  <2>2. ~unapplied
    BY <1>2, <1>8 DEF InStep, HandShake, WasReadLost
  <2>3. ~repeated' /\ Claimed' = 0
    BY <1>1, <1>8 DEF Poll, InStep, Claimed
  <2>4. Oldest = Done
    BY <1>2, <1>3, <2>1, <2>2 DEF InStep, HandShake
  <2>5. HandShake'
    BY <1>1, <1>2, <1>3, <1>8, <2>1, <2>2, <2>3, <2>4 DEF InStep, HandShake, serverVars
  <2>6. ASSUME client' = "read"
        PROVE  toRead' # 0 /\ toRead' <= MiddleBuffer /\ Done + toRead' <= Published * ItemLen
    <3>1. /\ toRead' = MinOf(ramRingGetSize(indexes), MiddleBuffer) /\ toRead' # 0
          /\ toRead' <= MiddleBuffer /\ toRead' <= ramRingGetSize(indexes) /\ toRead' \in Nat
      BY <1>3, <1>8, <2>6 DEF MinOf
    <3>2. /\ Total \in Nat /\ Used \in Nat /\ Total = Oldest + Used
          /\ Published * ItemLen = Total - (IF Pushing THEN written ELSE 0)
          /\ written \in Nat
      BY Numbers, NumberPublished, Typed
    <3>3. ramRingGetSize(indexes) + (IF Pushing THEN written ELSE 0) <= Used
      <4>1. CASE Pushing
        BY <1>3, <3>2, <4>1 DEF InStep, Used
      <4>2. CASE ~Pushing
        BY <1>3, <1>4, <4>2, ShownIsStored
      <4>. QED
        BY <4>1, <4>2
    <3>. QED
      BY <1>3, <2>4, <3>1, <3>2, <3>3
  <2>7. OnTheWay'
    BY <1>1, <1>2, <1>8, <2>2, <2>6 DEF OnTheWay, Holds
  <2>. QED
    BY <1>1, <1>2, <1>5, <1>8, <2>3, <2>5, <2>7 DEF InStep, serverVars
<1>. QED
  <2>1. \/ wasRead # 0 /\ UNCHANGED <<client, toRead, lastReadIndex>>
        \/ WasReadLost /\ client' = "resend" /\ toRead' = cWasRead /\ UNCHANGED lastReadIndex
        \/ /\ wasRead = 0 /\ ~WasReadLost /\ lastReadIndex' = indexes.start
           /\ client' = "read" => toRead' = MinOf(ramRingGetSize(indexes), MiddleBuffer) /\ toRead' # 0
           /\ client' \in {"poll", "read"}
    BY <1>1 DEF Poll
  <2>. QED
    BY <1>6, <1>7, <1>8, <2>1

LEMMA ReadKeepsInStep ==
  ASSUME IInv, Claims, Contents, Untorn, InStep, Read
  PROVE  InStep'
<1>1. /\ client = "read" /\ client' \in {"read", "send"}
      /\ UNCHANGED <<shared, serverVars, lastReadIndex, cWasRead, toRead, delivered, history>>
  BY DEF Read
<1>2. UNCHANGED <<Done, Published, Claimed, Acknowledged>> /\ Oldest' = Oldest
      /\ (Applying' <=> Applying) /\ (Pushing' <=> Pushing)
  BY <1>1, ClientKeepsContents
     DEF Done, Acknowledged, Claimed, Published, Applying, Pushing, serverVars, shared
<1>3. toAdd = 0 /\ ~unapplied /\ ~Applying /\ Oldest \in Nat
  BY <1>1, Numbers DEF Claims, Reading, AckUnderWay, InStep, OnTheWay, Applying
<1>4. Oldest = Done
  BY <1>1, <1>3, NumberDone DEF InStep, HandShake, Acknowledged
<1>5. Holds(Done)'
  BY <1>2, <1>4, ReadContinues DEF Untorn, Holds
<1>6. HandShake'
  BY <1>1, <1>2 DEF InStep, HandShake, shared, serverVars, history
<1>7. OnTheWay'
  BY <1>1, <1>2, <1>5 DEF InStep, OnTheWay, shared, history
<1>. QED
  BY <1>1, <1>2, <1>6, <1>7 DEF InStep, shared, serverVars, history

LEMMA SendKeepsInStep ==
  ASSUME IInv, Claims, Contents, InStep, Send \/ Resend
  PROVE  InStep'
<1>1. /\ client \in {"send", "resend"}
      /\ cWasRead' = toRead /\ wasRead' = toRead
      /\ \/ client = "send" /\ client' = "deliver" /\ toRead' = toRead
         \/ client = "resend" /\ client' = "poll" /\ toRead' = 0
      /\ UNCHANGED <<indexes, ram, serverVars, lastReadIndex, middle, delivered, overtaken, repeated>>
  BY DEF Send, Resend, sendWasRead
<1>2. unapplied'
  BY DEF Send, Resend, sendWasRead
<1>3. /\ UNCHANGED <<Done, Published>> /\ Oldest' = Oldest /\ (\A b : Holds(b)' <=> Holds(b))
      /\ (Applying' <=> Applying) /\ (Pushing' <=> Pushing)
  BY <1>1, ClientKeepsContents DEF Done, Published, Applying, Pushing, serverVars, Holds
<1>4. toAdd = 0 /\ ~Applying /\ Oldest \in Nat /\ toRead \in Nat
  BY <1>1, Numbers, Typed DEF Claims, Reading, AckUnderWay, Applying
<1>5. Claimed' = toRead
  BY <1>1 DEF Claimed
<1>6. CASE client = "send"
  <2>1. ~unapplied /\ Acknowledged = Done /\ Acknowledged' = Done + toRead
    BY <1>1, <1>3, <1>6, NumberDone DEF InStep, OnTheWay, Acknowledged
  <2>2. Oldest = Done
    BY <1>4, <2>1 DEF InStep, HandShake
  <2>3. HandShake'
    BY <1>1, <1>2, <1>3, <1>4, <1>5, <1>6, <2>1, <2>2 DEF InStep, OnTheWay, HandShake, serverVars
  <2>4. OnTheWay'
    BY <1>1, <1>3, <1>6 DEF InStep, OnTheWay
  <2>. QED
    BY <1>1, <1>3, <1>6, <2>3, <2>4 DEF InStep, serverVars
<1>7. CASE client = "resend"
  <2>1. unapplied /\ Claimed = toRead /\ Acknowledged = Done /\ Acknowledged' = Done
    BY <1>1, <1>3, <1>7, NumberDone DEF InStep, OnTheWay, Acknowledged, Claimed
  <2>2. HandShake'
    BY <1>1, <1>2, <1>3, <1>4, <1>5, <1>7, <2>1 DEF InStep, HandShake, serverVars
  <2>. QED
    BY <1>1, <1>3, <1>7, <2>2 DEF InStep, OnTheWay, serverVars
<1>. QED
  BY <1>1, <1>6, <1>7

LEMMA DeliverKeepsInStep ==
  ASSUME IInv, Whole, Contents, InStep, Deliver
  PROVE  InStep'
<1>1. /\ client = "deliver" /\ client' = "poll" /\ toRead' = 0
      /\ UNCHANGED <<shared, serverVars, lastReadIndex, cWasRead, history>>
  BY DEF Deliver
<1>2. /\ Len(delivered) \in Nat /\ toRead \in Nat /\ ItemLen \in Nat \ {0, 1}
  BY Typed, Lengths, LenProperties
<1>3. /\ toRead \div ItemLen \in Nat /\ Len(delivered') = Len(delivered) + (toRead \div ItemLen)
      /\ \A k \in 1 .. Len(delivered') :
           delivered'[k] = IF k <= Len(delivered) THEN delivered[k]
                           ELSE Len(delivered) + (k - Len(delivered))
  <2>1. Holds(Len(delivered) * ItemLen)
    BY <1>1 DEF InStep, OnTheWay, Done
  <2>. QED
    BY <1>2, <2>1, DeliveredItems
<1>4. \A k \in 1 .. Len(delivered') : delivered'[k] = k
  BY <1>2, <1>3 DEF InStep
<1>5. Done' = Done + toRead
  <2>1. toRead = (toRead \div ItemLen) * ItemLen
    BY <1>2 DEF Whole, Aligned
  <2>2. \A m, n \in Nat : (m + n) * ItemLen = m * ItemLen + n * ItemLen
    BY <1>2
  <2>. QED
    BY <1>2, <1>3, <2>1, <2>2 DEF Done
<1>6. Acknowledged' = Acknowledged /\ Claimed' = Claimed
  <2>1. Len(delivered) * ItemLen \in Nat /\ Len(delivered') * ItemLen \in Nat
    BY <1>2, <1>3, Multiples
  <2>. QED
    BY <1>1, <1>2, <1>5, <2>1 DEF Acknowledged, Claimed, Done
<1>7. /\ Oldest' = Oldest /\ (Applying' <=> Applying) /\ (Pushing' <=> Pushing)
  BY <1>1, ClientKeepsContents DEF Applying, Pushing, serverVars, shared
<1>8. HandShake'
  BY <1>1, <1>6, <1>7 DEF InStep, HandShake, shared, serverVars, history
<1>9. OnTheWay'
  BY <1>1 DEF OnTheWay
<1>. QED
  BY <1>1, <1>4, <1>7, <1>8, <1>9 DEF InStep, shared, serverVars, history
-----------------------------------------------------------------------------
(* All of it *)

Strong ==
  /\ IInv /\ Whole
  /\ ~repeated => Contents
  /\ ~repeated /\ ~overtaken => Untorn
  /\ OneStream => InStep

LEMMA InitStrong == Init => Strong
  BY InitIInv, InitWhole, InitContents, InitUntorn, InitInStep DEF Strong

\* What has gone wrong stays wrong.
LEMMA Lasting ==
  ASSUME IInv, Next
  PROVE  /\ repeated => repeated'
         /\ overtaken => overtaken'
         /\ OneStream' => OneStream /\ removed' = removed
<1>1. removed \in Nat /\ clears \in Nat /\ restarts \in Nat
  BY Typed, TypeParts, MilDaqRingAssumption DEF IInv, ClientTypes
<1>2. CASE ServerNext
  <2>1. UNCHANGED <<clears, restarts>> /\ removed' \in {removed, removed + 1}
    BY <1>2 DEF ServerNext, SyncLoad, SyncFull, SyncStart, SyncDone, PassEnd,
       PushBegin, PushWrite, PublishStart, PublishEnd, clientVars
  <2>2. (repeated => repeated') /\ (overtaken => overtaken')
    <3>1. CASE PushBegin
      BY <3>1, Zenon DEF PushBegin
    <3>2. CASE ~PushBegin
      BY <1>2, <3>2 DEF ServerNext, SyncLoad, SyncFull, SyncStart, SyncDone, PassEnd,
         PushWrite, PublishStart, PublishEnd, history
    <3>. QED
      BY <3>1, <3>2
  <2>. QED
    BY <1>1, <2>1, <2>2 DEF OneStream
<1>3. CASE ClientNext
  <2>1. clears' \in {clears, clears + 1} /\ restarts' \in {restarts, restarts + 1} /\ removed' = removed
    BY <1>3 DEF ClientNext, Poll, Read, Send, Resend, Deliver, ClearRequest, ClearSend, Restart,
       serverVars
  <2>2. (repeated => repeated') /\ (overtaken => overtaken')
    <3>1. CASE Poll \/ ClearRequest
      <4>1. Poll => (repeated => repeated') /\ (overtaken => overtaken')
        BY Zenon DEF Poll
      <4>2. ClearRequest => (repeated => repeated') /\ (overtaken => overtaken')
        <5>1. ClearRequest => repeated' = (repeated \/ AckUnderWay \/ Removing)
          BY Zenon DEF ClearRequest
        <5>2. ClearRequest => (overtaken => overtaken')
          BY DEF ClearRequest
        <5>. QED
          BY <5>1, <5>2, Zenon
      <4>. QED
        BY <3>1, <4>1, <4>2, Zenon
    <3>2. CASE Read \/ Send \/ Resend \/ Deliver \/ ClearSend \/ Restart
      BY <3>2 DEF Read, Send, Resend, Deliver, ClearSend, Restart, history
    <3>. QED
      BY <1>3, <3>1, <3>2 DEF ClientNext
  <2>. QED
    BY <1>1, <2>1, <2>2 DEF OneStream
<1>. QED
  BY <1>2, <1>3 DEF Next

LEMMA NextStrong == Strong /\ [Next]_vars => Strong'
<1>. SUFFICES ASSUME Strong, [Next]_vars PROVE Strong'
  OBVIOUS
<1>1. IInv'
  BY NextIInv DEF Strong
<1>2. ASSUME UNCHANGED vars PROVE Strong'
  <2>1. UNCHANGED <<indexes, wasRead, ram, serverVars, clientVars, history>>
    BY <1>2 DEF vars, shared
  <2>2. (Contents' <=> Contents) /\ Oldest' = Oldest /\ (Whole' <=> Whole)
    BY <2>1 DEF Contents, Stored, Total, Used, Oldest, Start, Pushing, Removing, serverVars,
       Whole, clientVars
  <2>3. /\ (\A b : Holds(b)' <=> Holds(b)) /\ (Removing' <=> Removing) /\ (Pushing' <=> Pushing)
        /\ (Applying' <=> Applying)
        /\ UNCHANGED <<Done, Acknowledged, Claimed, Published>>
    BY <2>1 DEF Holds, Removing, Pushing, Done, Acknowledged, Claimed, Published, Applying,
       serverVars, clientVars
  <2>4. Untorn' <=> Untorn
    BY <2>1, <2>2, <2>3 DEF Untorn, ReadsOldest, clientVars
  <2>5. InStep' <=> InStep
    BY <2>1, <2>2, <2>3 DEF InStep, HandShake, OnTheWay, clientVars, serverVars, history
  <2>. QED
    BY <1>1, <2>1, <2>2, <2>4, <2>5 DEF Strong, OneStream, serverVars, clientVars, history
<1>3. ASSUME Next PROVE Strong'
  <2>1. /\ repeated => repeated'
        /\ overtaken => overtaken'
        /\ OneStream' => OneStream /\ removed' = removed
    BY <1>3, Lasting DEF Strong
  <2>2. Whole'
    BY <1>3, ServerKeepsWhole, ClientKeepsWhole DEF Strong, Next
  <2>3. ASSUME ~repeated' PROVE Contents'
    <3>1. Claims /\ Contents
      BY <2>1, <2>3 DEF Strong, IInv
    <3>2. ClientNext => UNCHANGED <<indexes, ram, serverVars>>
      BY DEF ClientNext, Poll, Read, Send, Resend, Deliver, ClearRequest, ClearSend, Restart, shared
    <3>. QED
      BY <1>3, <3>1, <3>2, ServerKeepsContents, ClientKeepsContents DEF Strong, Next
  <2>4. ASSUME ~repeated' /\ ~overtaken' PROVE Untorn'
    <3>1. Claims /\ Contents /\ Untorn
      BY <2>1, <2>4 DEF Strong, IInv
    <3>. QED
      BY <1>3, <2>4, <3>1, ServerKeepsUntorn, ClientKeepsUntorn DEF Strong, Next
  <2>5. ASSUME OneStream' PROVE InStep'
    <3>1. OneStream /\ removed' = removed /\ InStep
      BY <2>1, <2>5 DEF Strong
    <3>2. Claims /\ Whole /\ Contents /\ Untorn /\ IInv
      BY <3>1 DEF Strong, IInv, InStep
    <3>3. CASE SyncLoad \/ SyncFull \/ SyncStart \/ SyncDone
      BY <3>1, <3>2, <3>3, SyncKeepsInStep
    <3>4. CASE PassEnd \/ PushBegin \/ PushWrite \/ PublishStart \/ PublishEnd
      <4>1. Contents'
        BY <3>2, <3>4, ServerKeepsContents DEF ServerNext
      <4>. QED
        BY <1>1, <3>1, <3>2, <3>4, <4>1, PushKeepsInStep
    <3>5. CASE Poll \/ Read \/ Send \/ Resend \/ Deliver
      BY <3>1, <3>2, <3>5, PollKeepsInStep, ReadKeepsInStep, SendKeepsInStep, DeliverKeepsInStep
    <3>6. ~ClearSend /\ ~ClearRequest /\ ~Restart
      <4>1. clears \in Nat /\ restarts \in Nat
        BY <3>2, TypeParts, MilDaqRingAssumption DEF IInv, ClientTypes
      <4>. QED
        BY <2>5, <3>1, <4>1 DEF InStep, OneStream, ClearSend, ClearRequest, Restart
    <3>. QED
      BY <1>3, <3>3, <3>4, <3>5, <3>6 DEF Next, ServerNext, ClientNext
  <2>. QED
    BY <1>1, <2>2, <2>3, <2>4, <2>5 DEF Strong
<1>. QED
  BY <1>2, <1>3

LEMMA StrongInductive == Spec => []Strong
  BY InitStrong, NextStrong, PTL DEF Spec
-----------------------------------------------------------------------------
\* onDataError() of distributeData() is never called: however the steps of client and LM32
\* interleave, and whatever was acknowledged twice, the indexes that the client meets when it
\* may read hold whole items.
THEOREM WholeItems == Spec => []WholeItemsVisible
<1>1. Strong => WholeItemsVisible
  <2>1. Strong => indexes \in Ring /\ Aligned(ramRingGetSize(indexes))
    BY Typed, AlignedSize DEF Strong, Whole
  <2>. QED
    BY <2>1 DEF WholeItemsVisible, Aligned
<1>. QED
  BY <1>1, StrongInductive, PTL

\* What distributeData() hands to onData() are whole items, unless pushDaqData() has removed an
\* item while the client was reading, or the client has acknowledged twice.
THEOREM NoneTorn == Spec => []NoTornItem
<1>1. Strong => NoTornItem
  BY DEF Strong, Untorn, NoTornItem
<1>. QED
  BY <1>1, StrongInductive, PTL
-----------------------------------------------------------------------------
(* Refinement *)

LEMMA InitStream == Init => Stream!StreamInit
  BY DEF Init, Stream!StreamInit, Published, OneStream

LEMMA StepStream ==
  ASSUME Strong, [Next]_vars
  PROVE  [Stream!StreamNext]_(Stream!streamVars)
<1>1. IInv
  BY DEF Strong
<1>2. items \in Nat /\ removed \in Nat /\ clears \in Nat /\ restarts \in Nat
  BY <1>1, Typed, TypeParts, MilDaqRingAssumption DEF IInv, ClientTypes
<1>3. CASE ServerNext
  <2>1. UNCHANGED <<delivered, clears, restarts>>
    BY <1>3 DEF ServerNext, SyncLoad, SyncFull, SyncStart, SyncDone, PassEnd,
       PushBegin, PushWrite, PublishStart, PublishEnd, clientVars
  <2>2. CASE PublishEnd
    <3>1. Published' = Published + 1 /\ (OneStream' <=> OneStream)
      BY <1>2, <2>1, <2>2 DEF PublishEnd, Published, OneStream
    <3>. QED
      BY <2>1, <3>1 DEF Stream!StreamNext, Stream!Produce
  <2>3. CASE PushBegin
    <3>1. Published' = Published /\ removed' \in {removed, removed + 1}
      BY <1>2, <2>3 DEF PushBegin, Published
    <3>2. CASE removed' = removed
      <4>1. OneStream' <=> OneStream
        BY <2>1, <3>2 DEF OneStream
      <4>. QED
        BY <2>1, <3>1, <4>1 DEF Stream!streamVars
    <3>3. CASE removed' = removed + 1
      <4>1. ~OneStream'
        BY <1>2, <3>3 DEF OneStream
      <4>. QED
        BY <2>1, <3>1, <4>1 DEF Stream!StreamNext, Stream!Overflow
    <3>. QED
      BY <3>1, <3>2, <3>3
  <2>4. CASE SyncLoad \/ SyncFull \/ SyncStart \/ SyncDone \/ PassEnd \/ PushWrite \/ PublishStart
    <3>1. Published' = Published
      BY <2>4 DEF SyncLoad, SyncFull, SyncStart, SyncDone, PassEnd, PushWrite, PublishStart, Published
    <3>2. removed' = removed
      BY <2>4 DEF SyncLoad, SyncFull, SyncStart, SyncDone, PassEnd, PushWrite, PublishStart
    <3>3. OneStream' <=> OneStream
      BY <2>1, <3>2 DEF OneStream
    <3>. QED
      BY <2>1, <3>1, <3>3 DEF Stream!streamVars
  <2>. QED
    BY <1>3, <2>2, <2>3, <2>4 DEF ServerNext
<1>4. CASE ClientNext
  <2>1. UNCHANGED <<items, server, removed>> /\ Published' = Published
    BY <1>4 DEF ClientNext, Poll, Read, Send, Resend, Deliver, ClearRequest, ClearSend, Restart,
       serverVars, Published
  <2>2. CASE Poll \/ Read \/ Send \/ Resend \/ ClearSend
    <3>1. UNCHANGED <<delivered, clears, restarts>>
      BY <2>2 DEF Poll, Read, Send, Resend, ClearSend
    <3>2. OneStream' <=> OneStream
      BY <2>1, <3>1 DEF OneStream
    <3>. QED
      BY <2>1, <3>1, <3>2 DEF Stream!streamVars
  <2>3. CASE ClearRequest \/ Restart
    <3>1. delivered' = delivered /\ ~OneStream'
      BY <1>2, <2>3 DEF ClearRequest, Restart, OneStream
    <3>. QED
      BY <2>1, <3>1 DEF Stream!StreamNext, Stream!Overflow
  <2>4. CASE Deliver
    <3>1. OneStream' <=> OneStream
      BY <2>1, <2>4 DEF OneStream, Deliver
    <3>2. CASE ~OneStream
      BY <2>1, <3>1, <3>2 DEF Stream!StreamNext, Stream!DeliverAny
    <3>3. CASE OneStream
      <4> DEFINE n == toRead \div ItemLen
      <4>1. InStep /\ Whole
        BY <3>3 DEF Strong
      <4>2. /\ toRead \in Nat /\ ItemLen \in Nat \ {0, 1} /\ Len(delivered) \in Nat
            /\ toRead # 0 /\ Done + toRead <= Published * ItemLen /\ Holds(Len(delivered) * ItemLen)
        BY <1>1, <2>4, <4>1, Typed, Lengths, LenProperties DEF Deliver, InStep, OnTheWay, Done
      <4>3. /\ delivered' = delivered \o [i \in 1 .. n |-> Len(delivered) + i] /\ n \in Nat
        BY <1>1, <2>4, <4>2, DeliveredItems
      <4>4. toRead = n * ItemLen /\ n # 0
        BY <4>1, <4>2 DEF Whole, Aligned
      <4>5. Published \in Nat
        BY <1>1, <4>1, NumberPublished DEF Strong, InStep
      <4>6. Len(delivered) + n <= Published
        <5>1. (Len(delivered) + n) * ItemLen <= Published * ItemLen
          BY <4>2, <4>3, <4>4 DEF Done
        <5>2. ASSUME Published < Len(delivered) + n PROVE FALSE
          <6>1. (Published + 1) * ItemLen <= (Len(delivered) + n) * ItemLen
            BY <4>2, <4>3, <4>5, <5>2, Multiples
          <6>2. (Published + 1) * ItemLen = Published * ItemLen + ItemLen
            BY <4>2, <4>5
          <6>3. Published * ItemLen \in Nat /\ (Len(delivered) + n) * ItemLen \in Nat
            BY <4>2, <4>3, <4>5, Multiples
          <6>. QED
            BY <4>2, <5>1, <6>1, <6>2, <6>3
        <5>. QED
          BY <4>2, <4>3, <4>5, <5>2
      <4> DEFINE m == Len(delivered) + n
      <4>7. m \in Len(delivered) + 1 .. Published /\ m - Len(delivered) = n
        BY <4>2, <4>3, <4>4, <4>5, <4>6
      <4>8. delivered' = delivered \o [i \in 1 .. m - Len(delivered) |-> Len(delivered) + i]
        BY <4>3, <4>7
      <4>9. \E l \in Len(delivered) + 1 .. Published :
               delivered' = delivered \o [i \in 1 .. l - Len(delivered) |-> Len(delivered) + i]
        <5>. HIDE DEF m
        <5>. QED
          BY <4>7, <4>8
      <4>. QED
        BY <2>1, <3>1, <3>3, <4>9 DEF Stream!StreamNext, Stream!Deliver
    <3>. QED
      BY <3>2, <3>3
  <2>. QED
    BY <1>4, <2>2, <2>3, <2>4 DEF ClientNext
<1>5. CASE UNCHANGED vars
  <2>1. UNCHANGED <<items, server, removed, delivered, clears, restarts>>
    BY <1>5 DEF vars, serverVars, clientVars
  <2>2. Published' = Published /\ (OneStream' <=> OneStream)
    BY <2>1 DEF Published, OneStream
  <2>. QED
    BY <2>1, <2>2 DEF Stream!streamVars
<1>. QED
  BY <1>3, <1>4, <1>5 DEF Next

\* As long as pushDaqData() removes nothing, and the client neither clears the ring nor is
\* started again, onData() gets every item once and in the order in which the firmware made
\* them, although a wasRead may be lost and is then sent again.
THEOREM Implements == Spec => ImplementsStream
<1>1. Strong /\ [Next]_vars => [Stream!StreamNext]_(Stream!streamVars)
  BY StepStream
<1>. QED
  BY <1>1, InitStream, StrongInductive, PTL DEF Spec, ImplementsStream, Stream!StreamSpec
=============================================================================
