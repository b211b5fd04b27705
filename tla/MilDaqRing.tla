------------------------------ MODULE MilDaqRing ------------------------------
(***************************************************************************)
(* The ring buffer through which the MIL data acquisition reaches Linux.   *)
(*                                                                         *)
(* The server is the MIL task of the LM32: it puts items of ItemLen memory *)
(* words into the DDR3-RAM (pushDaqData()) and, once in every pass of      *)
(* milExecuteTasks(), moves the read index by the number of words that the *)
(* client says it has read (ramRingSharedSynchonizeReadIndex()).  The      *)
(* client is a Linux process: it polls the indexes, reads words out of the *)
(* DDR3-RAM, writes their number to wasRead, and hands the items on        *)
(* (DaqBaseInterface, MiLdaq::DaqAdministration::distributeData()).        *)
(*                                                                         *)
(* Nothing locks the shared object RAM_RING_SHARED_INDEXES_T.  A step of   *)
(* the server is one store or load of the LM32; a step of the client is    *)
(* one Etherbone cycle, which no store of the LM32 divides.                *)
(***************************************************************************)
EXTENDS CircularIndex, Sequences

CONSTANTS Capacity,      \* words in the ring
          ItemLen,       \* RAM_ITEM_PER_MIL_DAQ_ITEM: words of an item
          MiddleBuffer,  \* m_middleBufferSize: most words the client takes at once
          MaxEbCycle,    \* m_maxEbCycleDataLen: most words read in one cycle
          MaxItems,      \* bound: items made by the firmware
          MaxClears,     \* bound: calls of clearBufferRequest()
          MaxRestarts,   \* bound: restarts of the client process
          MaxBoth        \* bound: the two together

\* The static assertion of scu_shared_mem.h:127 wants the ring to hold whole items.
\* initPtr() (mdaq_administration.cpp:204): min( capacity / ItemLen, 400 ), which
\* the assertion of line 206 wants to hold whole items.
ASSUME MilDaqRingAssumption ==
  /\ ItemLen \in Nat \ {0, 1} /\ Capacity \in Nat \ {0} /\ ItemLen <= Capacity
  /\ Capacity % ItemLen = 0
  /\ MiddleBuffer \in 1 .. Capacity \div ItemLen /\ MiddleBuffer % ItemLen = 0
  /\ MaxEbCycle \in Nat \ {0}
  /\ MaxItems \in Nat /\ MaxClears \in Nat /\ MaxRestarts \in Nat /\ MaxBoth \in Nat

VARIABLES
  \* shared: g_shared.mDaq.memAdmin and the DDR3-RAM
  indexes,     \* memAdmin.indexes
  wasRead,     \* memAdmin.wasRead
  ram,         \* the words of the ring
  \* server
  server,      \* where the MIL task is
  toAdd,       \* the value of wasRead it has loaded
  local,       \* pushDaqData(): the local copy of the indexes
  written,     \* pushDaqData(): words written of the current item
  items,       \* number of the last item made
  removed,     \* how many items pushDaqData() has removed to make place
  \* client
  client,      \* where the client is
  lastReadIndex, \* m_lastReadIndex
  cWasRead,    \* m_poRingAdmin->wasRead
  readIndex,   \* m_poRingAdmin->indexes.start
  toRead,      \* words to read and to acknowledge
  middle,      \* the middle buffer: words read so far
  delivered,   \* the items handed to onData()
  clears, restarts,
  \* history
  overtaken,   \* an item was removed, or about to be, while the client read
  unapplied,   \* the server has not seen the last acknowledgement
  repeated     \* the client has acknowledged twice what the server has removed once

history    == <<overtaken, unapplied, repeated>>
shared     == <<indexes, wasRead, ram>>
serverVars == <<server, toAdd, local, written, items, removed>>
clientVars == <<client, lastReadIndex, cWasRead, readIndex, toRead, middle,
                delivered, clears, restarts>>
vars       == <<shared, serverVars, clientVars, history>>

Word    == [item : 0 .. MaxItems, part : 0 .. ItemLen]
NoWord  == [item |-> 0, part |-> 0]      \* what the DDR3-RAM holds at first
Ring    == RAM_RING_INDEXES_T(0, Capacity)
EmptyRing == [offset |-> 0, capacity |-> Capacity, start |-> 0, end |-> 0]

ServerAt == {"pass", "sync_full", "sync_start", "sync_done", "run", "write",
             "publish_start", "publish_end"}
ClientAt == {"poll", "resend", "read", "send", "deliver", "clear"}

TypeOK ==
  /\ indexes \in Ring /\ local \in Ring
  /\ wasRead \in 0 .. Capacity /\ toAdd \in 0 .. Capacity
  /\ ram \in [0 .. Capacity - 1 -> Word]
  /\ server \in ServerAt /\ client \in ClientAt
  /\ written \in 0 .. ItemLen /\ items \in 0 .. MaxItems /\ removed \in 0 .. MaxItems
  /\ lastReadIndex \in 0 .. Capacity - 1 /\ readIndex \in 0 .. Capacity - 1
  /\ cWasRead \in 0 .. Capacity /\ toRead \in 0 .. Capacity
  /\ middle \in Seq(Word) /\ Len(middle) <= toRead
  /\ delivered \in Seq(0 .. MaxItems)
  /\ clears \in 0 .. MaxClears /\ restarts \in 0 .. MaxRestarts
  /\ overtaken \in BOOLEAN /\ unapplied \in BOOLEAN /\ repeated \in BOOLEAN

\* RAM_RING_INDEXES_MDAQ_INITIALIZER (daq_ring_admin.h); a client has connected.
Init ==
  /\ indexes = EmptyRing /\ local = EmptyRing
  /\ wasRead = 0 /\ toAdd = 0
  /\ ram = [c \in 0 .. Capacity - 1 |-> NoWord]
  /\ server = "pass" /\ written = 0 /\ items = 0 /\ removed = 0
  /\ client = "poll" /\ lastReadIndex = 0 /\ cWasRead = 0 /\ readIndex = 0
  /\ toRead = 0 /\ middle = << >> /\ delivered = << >>
  /\ clears = 0 /\ restarts = 0 
  /\ overtaken = FALSE /\ unapplied = FALSE /\ repeated = FALSE
-----------------------------------------------------------------------------
\* The read index of ramRingAddToReadIndex(), n words further.
AdvancedWithoutWrap(index, n) == index + n
Advanced(index, n) == (index + n) % Capacity

(* The server: ramRingSharedSynchonizeReadIndex(), one store after the other. *)

\* Loads wasRead; the call does nothing but the last store when it is zero.
SyncLoad ==
  /\ server = "pass"
  /\ toAdd' = wasRead
  /\ server' = IF wasRead = 0 THEN "sync_done" ELSE "sync_full"
  /\ unapplied' = (unapplied /\ wasRead = 0)
  /\ UNCHANGED <<shared, local, written, items, removed, clientVars, overtaken, repeated>>

\* A full ring gets a valid write index before the read index moves.
SyncFull ==
  /\ server = "sync_full"
  /\ indexes' = IF ramRingIsFull(indexes) THEN [indexes EXCEPT !.end = indexes.start]
                ELSE indexes
  /\ server' = "sync_start"
  /\ UNCHANGED <<wasRead, ram, toAdd, local, written, items, removed, clientVars, history>>

SyncStart ==
  /\ server = "sync_start"
  /\ indexes' = [indexes EXCEPT !.start = Advanced(indexes.start, toAdd)]
  /\ server' = "sync_done"
  /\ UNCHANGED <<wasRead, ram, toAdd, local, written, items, removed, clientVars, history>>

SyncDoneForgotten ==
  /\ server = "sync_done"
  /\ toAdd' = 0
  /\ server' = "run"
  /\ UNCHANGED <<shared, local, written, items, removed, clientVars, history>>

\* wasRead = 0, whatever the client has written to it in the meantime.
SyncDone ==
  /\ server = "sync_done"
  /\ wasRead' = 0
  /\ toAdd' = 0
  /\ server' = "run"
  /\ UNCHANGED <<indexes, ram, local, written, items, removed, clientVars, history>>

\* The finite state machines have nothing more to push in this pass.
PassEnd ==
  /\ server = "run"
  /\ server' = "pass"
  /\ UNCHANGED <<shared, toAdd, local, written, items, removed, clientVars, history>>

\* What pushDaqData() removes when the new item does not fit: the oldest one.
RemoveOneWord(r) == ramRingAddToReadIndex(r, 1)
RemoveOldest(r) == ramRingAddToReadIndex(r, ItemLen)

\* pushDaqData() begins with a local copy of the indexes.
PushBegin ==
  /\ server = "run" /\ items < MaxItems
  /\ LET noRoom == ramRingGetRemainingCapacity(indexes) < ItemLen
     IN  /\ local' = IF noRoom THEN RemoveOldest(indexes) ELSE indexes
         /\ removed' = IF noRoom THEN removed + 1 ELSE removed
         /\ overtaken' = (overtaken \/ (noRoom /\ client = "read"))
         /\ repeated' = (repeated \/ (noRoom /\ client = "clear"))
  /\ items' = items + 1
  /\ written' = 0
  /\ server' = "write"
  /\ UNCHANGED <<shared, toAdd, clientVars, unapplied>>

PushWriteShort ==
  /\ server = "write"
  /\ ram' = [ram EXCEPT ![ramRingGetWriteIndex(local)] =
                           [item |-> items, part |-> written + 1]]
  /\ local' = ramRingIncWriteIndex(local)
  /\ written' = written + 1
  /\ server' = IF written + 2 = ItemLen THEN "publish_start" ELSE "write"
  /\ UNCHANGED <<indexes, wasRead, toAdd, items, removed, clientVars, history>>

PushWrite ==
  /\ server = "write"
  /\ ram' = [ram EXCEPT ![ramRingGetWriteIndex(local)] =
                           [item |-> items, part |-> written + 1]]
  /\ local' = ramRingIncWriteIndex(local)
  /\ written' = written + 1
  /\ server' = IF written + 1 = ItemLen THEN "publish_start" ELSE "write"
  /\ UNCHANGED <<indexes, wasRead, toAdd, items, removed, clientVars, history>>

\* memAdmin.indexes = indexes: the structure is copied word by word.
PublishStart ==
  /\ server = "publish_start"
  /\ indexes' = [indexes EXCEPT !.start = local.start]
  /\ server' = "publish_end"
  /\ UNCHANGED <<wasRead, ram, toAdd, local, written, items, removed, clientVars, history>>

PublishEnd ==
  /\ server = "publish_end"
  /\ indexes' = [indexes EXCEPT !.end = local.end]
  /\ server' = "run"
  /\ UNCHANGED <<wasRead, ram, toAdd, local, written, items, removed, clientVars, history>>

ServerNext ==
  \/ SyncLoad \/ SyncFull \/ SyncStart \/ SyncDone \/ PassEnd
  \/ PushBegin \/ PushWrite \/ PublishStart \/ PublishEnd
-----------------------------------------------------------------------------
(* The client *)

MinOf(a, b) == IF a < b THEN a ELSE b

\* The server has set wasRead to zero but not moved the read index: it has
\* overwritten the last wasRead before it looked at it.
NeverLost == FALSE
LostWithoutAck == wasRead = 0 /\ lastReadIndex = indexes.start
WasReadLost == wasRead = 0 /\ lastReadIndex = indexes.start /\ cWasRead # 0

\* The oldest item is removed in the server's copy, and the indexes do not say so yet.
Removing ==
  server \in {"write", "publish_start", "publish_end"} /\ local.start # indexes.start

\* The server has not applied the last wasRead yet, or is about to.
AckUnderWay == wasRead # 0 \/ toAdd # 0

\* getNumberOfNewData() and the head of distributeData(): one cycle reads
\* start, end and wasRead.
Poll ==
  /\ client = "poll"
  /\ readIndex' = indexes.start
  /\ cWasRead' = wasRead
  /\ \/ \* the server has not synchronized its read index yet
        /\ wasRead # 0
        /\ UNCHANGED <<client, lastReadIndex, toRead>>
     \/ /\ WasReadLost
        /\ toRead' = cWasRead
        /\ client' = "resend"
        /\ UNCHANGED lastReadIndex
     \/ /\ wasRead = 0 /\ ~WasReadLost
        /\ lastReadIndex' = indexes.start
        /\ LET n == MinOf(ramRingGetSize(indexes), MiddleBuffer)
           IN  IF n % ItemLen = 0   \* otherwise onDataError()
                 THEN /\ toRead' = n
                      /\ client' = IF n = 0 THEN "poll" ELSE "read"
                 ELSE UNCHANGED <<toRead, client>>
  /\ middle' = << >>
  /\ overtaken' = (overtaken \/ (client' = "read" /\ Removing))
  /\ repeated' = (repeated \/ (WasReadLost /\ ~unapplied))
  /\ UNCHANGED <<shared, serverVars, delivered, clears, restarts, unapplied>>

\* readDaqData() and readRam(): parts of MaxEbCycle words, each read in one cycle
\* or, across the end of the memory, in two.
Read ==
  /\ client = "read"
  /\ LET left == toRead - Len(middle)
         part == MaxEbCycle - (Len(middle) % MaxEbCycle)
         n == MinOf(MinOf(left, part), Capacity - readIndex)
     IN  /\ middle' = middle \o [i \in 1 .. n |-> ram[readIndex + i - 1]]
         /\ readIndex' = Advanced(readIndex, n)
         /\ client' = IF n = left THEN "send" ELSE "read"
  /\ UNCHANGED <<shared, serverVars, lastReadIndex, cWasRead, toRead, delivered,
                 clears, restarts, history>>

\* sendWasRead( n )
sendWasRead(n) ==
  /\ cWasRead' = n
  /\ wasRead' = n
  /\ unapplied' = TRUE

Send ==
  /\ client = "send"
  /\ sendWasRead(toRead)
  /\ client' = "deliver"
  /\ UNCHANGED <<indexes, ram, serverVars, lastReadIndex, readIndex, toRead, middle,
                 delivered, clears, restarts, overtaken, repeated>>

\* "Second sendWasRead" in getNumberOfNewData()
Resend ==
  /\ client = "resend"
  /\ sendWasRead(toRead)
  /\ client' = "poll"
  /\ toRead' = 0
  /\ UNCHANGED <<indexes, ram, serverVars, lastReadIndex, readIndex, middle,
                 delivered, clears, restarts, overtaken, repeated>>

\* The i-th item of the middle buffer, or 0 when its words are not of one item.
ItemAt(i) ==
  LET word(k) == middle[(i - 1) * ItemLen + k]
  IN  IF \A k \in 1 .. ItemLen : word(k) = [item |-> word(1).item, part |-> k]
        THEN word(1).item ELSE 0

\* The loop of distributeData() that calls onData() for each item.
Deliver ==
  /\ client = "deliver"
  /\ delivered' = delivered \o [i \in 1 .. toRead \div ItemLen |-> ItemAt(i)]
  /\ client' = "poll"
  /\ middle' = << >> /\ toRead' = 0
  /\ UNCHANGED <<shared, serverVars, lastReadIndex, cWasRead, readIndex, clears, restarts, history>>

\* clearBufferRequest(): updateMemAdmin(), then sendWasRead() of all there is.
ClearRequest ==
  /\ client = "poll" /\ clears < MaxClears /\ clears + restarts < MaxBoth
  /\ readIndex' = indexes.start
  /\ cWasRead' = wasRead
  /\ toRead' = ramRingGetSize(indexes)
  /\ clears' = clears + 1
  /\ client' = "clear"
  /\ middle' = << >>
  /\ repeated' = (repeated \/ AckUnderWay \/ Removing)
  /\ UNCHANGED <<shared, serverVars, lastReadIndex, delivered, restarts, overtaken, unapplied>>

ClearSend ==
  /\ client = "clear"
  /\ sendWasRead(toRead)
  /\ client' = "poll"
  /\ toRead' = 0
  /\ UNCHANGED <<indexes, ram, serverVars, lastReadIndex, readIndex, middle,
                 delivered, clears, restarts, overtaken, repeated>>

\* The process ends anywhere and a new one connects: initRingAdmin().
Restart ==
  /\ restarts < MaxRestarts /\ clears + restarts < MaxBoth
  /\ restarts' = restarts + 1
  /\ readIndex' = indexes.start
  /\ cWasRead' = wasRead
  /\ lastReadIndex' = 0
  /\ client' = "poll" /\ toRead' = 0 /\ middle' = << >>
  /\ UNCHANGED <<shared, serverVars, delivered, clears, history>>

ClientNext ==
  Poll \/ Read \/ Send \/ Resend \/ Deliver \/ ClearRequest \/ ClearSend \/ Restart

Next == ServerNext \/ ClientNext

Spec == Init /\ [][Next]_vars

\* The MIL task passes milExecuteTasks() again and again, and the client polls.
\* Their loops are not synchronized: when the client acknowledges for ever, then
\* not every time between the load and the store of a synchronisation.
Acknowledge == Send \/ Resend
AcknowledgeInTime == server \notin {"sync_full", "sync_start", "sync_done"} /\ Acknowledge

Fairness ==
  /\ WF_vars(ServerNext)
  /\ WF_vars(Poll \/ Read \/ Send \/ Resend \/ Deliver \/ ClearSend)
  /\ []<><<Acknowledge>>_vars => []<><<AcknowledgeInTime>>_vars

FairSpec == Spec /\ Fairness
-----------------------------------------------------------------------------
\* The items the client can see: the write index of the last one is published.
Published == IF server \in {"write", "publish_start", "publish_end"} THEN items - 1 ELSE items

\* Nothing has been removed behind the client's back: no overflow, no
\* clearBufferRequest(), and it is still the first process.
OneStream == removed = 0 /\ clears = 0 /\ restarts = 0

Stream == INSTANCE DaqStream WITH produced <- Published, overflow <- ~OneStream

\* As long as nothing is removed the client gets every item once and in order,
\* although a wasRead that the client writes between the load and the store of
\* ramRingSharedSynchonizeReadIndex() is lost and has to be sent again, and
\* although the client polls in the middle of a push or of a synchronisation.
ImplementsStream == Stream!StreamSpec

\* RAM_ASSERT( ramRingGetSize( pThis ) >= toAdd ) of ramRingAddToReadIndex()
\* (circular_index.c:144): the client never acknowledges more than there is, also when a
\* second sendWasRead() was needed, when items have been removed by an overflow, or when
\* it was started again or cleared the ring.  What breaks it is a client that starts with
\* the wasRead of its predecessor and repeats it after the LM32 has applied it, or that
\* clears what is acknowledged or removed meanwhile.
AckWithinSize == server = "sync_full" /\ ~repeated => toAdd <= ramRingGetSize(indexes)

\* The client never meets a part of an item (onDataError() in distributeData()).
WholeItemsVisible ==
  client = "poll" /\ wasRead = 0 => ramRingGetSize(indexes) % ItemLen = 0

\* Every item reaches onData() unless it is removed: neither a lost wasRead nor
\* a wrap of the read index stops the handshake.
EveryItemArrives ==
  \A i \in 1 .. MaxItems :
    Published >= i ~> (~OneStream \/ \E k \in 1 .. Len(delivered) : delivered[k] = i)

\* The client gets whole items, never the half of each of two, unless the firmware removes
\* an item while the client reads: it overwrites the words of the oldest item before the
\* indexes say so, although it says of its local copy of them that it "will prevent a
\* possible race condition with the Linux client" (scu_mil_fg_handler.c:883).
NoTornItem ==
  ~overtaken /\ ~repeated => \A k \in 1 .. Len(delivered) : delivered[k] # 0
=============================================================================
