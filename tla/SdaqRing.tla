------------------------------- MODULE SdaqRing -------------------------------
(***************************************************************************)
(* The ring buffer through which the ADDAC/ACU data acquisition reaches    *)
(* Linux.  It has the indexes and the handshake of the ring of the MIL     *)
(* data (module MilDaqRing), but holds blocks of two lengths: short ones   *)
(* of a continuous measurement and long ones of a high-resolution or post- *)
(* mortem measurement.  Which of the two a block is stands in its          *)
(* descriptor, the first word of the block and the last one to be written. *)
(*                                                                         *)
(* The server is the DAQ task of the LM32 (taskDaq()).  When a new block   *)
(* does not fit it removes old ones, whose length it takes from their      *)
(* descriptors.  The client (DaqAdministration::distributeData()) reads as *)
(* many words as a short block has, and the rest if the descriptor says    *)
(* so.  A third process is the main task of the LM32: it resets the ring   *)
(* when the client commands so (opReset()), and when SAFTLIB commands a    *)
(* new scan of the bus.  Then it deletes the DAQ task wherever it is, and  *)
(* starts a new one afterwards.                                            *)
(***************************************************************************)
EXTENDS CircularIndex, Sequences, FiniteSets

CONSTANTS Capacity,   \* words in the ring
          ShortLen,   \* RAM_DAQ_SHORT_BLOCK_LEN
          LongLen,    \* RAM_DAQ_LONG_BLOCK_LEN
          MaxEbCycle, \* m_maxEbCycleDataLen: most words read in one cycle
          SeqMod,     \* values of the sequence number in a descriptor (2^8)
          MaxBlocks,  \* bound: blocks that the devices have for the DAQ task
          MaxLost,    \* bound: blocks that are lost before they are in the ring
          MaxResets   \* bound: resets commanded by the client, and scans

\* The static_assert of distributeData().  Two long blocks make the ring less
\* than one word larger than needed: RAM_SDAQ_MAX_CAPACITY is far above.
ASSUME SdaqRingAssumption ==
  /\ ShortLen \in Nat \ {0, 1} /\ LongLen \in Nat /\ Capacity \in Nat
  /\ LongLen > ShortLen /\ LongLen % ShortLen = 0
  /\ 2 * LongLen <= Capacity + 1
  /\ MaxEbCycle \in Nat \ {0} /\ SeqMod \in Nat \ {0, 1}
  /\ MaxBlocks \in Nat /\ MaxLost \in Nat /\ MaxResets \in Nat

VARIABLES
  \* shared: g_shared.sDaq.ringAdmin and the DDR3-RAM
  indexes, wasRead, ram,
  \* the DAQ task
  server,      \* where it is
  toAdd,       \* by how much it is moving the read index
  local,       \* oDataIndexes and oDescriptorIndexes.end: its copy of the indexes
  written,     \* words of the current block in the ring
  made,        \* for each block taken up so far, whether it is a long one
  \* the client
  client,      \* where it is
  lastReadIndex, cWasRead, readIndex,   \* as in MilDaqRing
  got,         \* m_poBlockBuffer
  sequence,    \* m_sequence for each kind of block, SeqMod when not m_continued
  delivered,   \* what reached onDataBlock()
  \* the main task
  main,        \* where it is in ramRingSharedReset()
  resets,
  scans,       \* how many blocks there were at each scan of the bus
  \* history
  published,   \* the number of blocks whose write index has been published
  lossy,       \* a block has been lost: in the device, by removal or by a reset
  calm,        \* the read index is where it was when the client began to read or acknowledged
  spoilt       \* the handshake has met one of the three things before Next that break it

shared     == <<indexes, wasRead, ram>>
serverVars == <<server, toAdd, local, written, made>>
clientVars == <<client, lastReadIndex, cWasRead, readIndex, got, sequence, delivered>>
mainVars   == <<main, resets, scans>>
vars       == <<shared, serverVars, clientVars, mainVars, published, lossy, calm, spoilt>>

Word   == [block : 0 .. MaxBlocks, part : 0 .. LongLen]
NoWord == [block |-> 0, part |-> 0]
Ring   == RAM_RING_INDEXES_T(0, Capacity)
EmptyRing == [offset |-> 0, capacity |-> Capacity, start |-> 0, end |-> 0]
Delivery  == [block : 1 .. MaxBlocks, whole : BOOLEAN, calm : BOOLEAN, lost : BOOLEAN]

ServerAt == {"pass", "sync_full", "sync_start", "sync_done", "run", "space",
             "remove_full", "remove_start", "clear_start", "clear_end", "clear_was",
             "write", "publish", "none"}
ClientAt == {"poll", "resend", "read", "rest", "send", "reset"}
MainAt   == {"idle", "reset_start", "reset_end", "reset_was"}

TypeOK ==
  /\ indexes \in Ring /\ local \in Ring
  /\ wasRead \in 0 .. LongLen /\ toAdd \in 0 .. LongLen
  /\ ram \in [0 .. Capacity - 1 -> Word]
  /\ server \in ServerAt /\ client \in ClientAt /\ main \in MainAt
  /\ written \in 0 .. LongLen
  /\ made \in Seq(BOOLEAN) /\ Len(made) <= MaxBlocks /\ published \in 0 .. Len(made)
  /\ lastReadIndex \in 0 .. Capacity - 1 /\ readIndex \in 0 .. Capacity - 1
  /\ cWasRead \in 0 .. LongLen
  /\ got \in Seq(Word) /\ Len(got) <= LongLen
  /\ sequence \in [BOOLEAN -> 0 .. SeqMod]
  /\ delivered \in Seq(Delivery)
  /\ resets \in 0 .. MaxResets /\ scans \subseteq 0 .. MaxBlocks
  /\ lossy \in BOOLEAN /\ calm \in BOOLEAN /\ spoilt \in BOOLEAN

\* RAM_RING_SHARED_SDAQ_OBJECT_INITIALIZER (daq_ring_admin.h); a client has connected.
Init ==
  /\ indexes = EmptyRing /\ local = EmptyRing /\ wasRead = 0 /\ toAdd = 0
  /\ ram = [c \in 0 .. Capacity - 1 |-> NoWord]
  /\ server = "pass" /\ written = 0 /\ made = << >> /\ published = 0
  /\ client = "poll" /\ lastReadIndex = 0 /\ cWasRead = 0 /\ readIndex = 0
  /\ got = << >> /\ sequence = [long \in BOOLEAN |-> SeqMod] /\ delivered = << >>
  /\ main = "idle" /\ resets = 0 /\ scans = {}
  /\ lossy = FALSE /\ calm = TRUE /\ spoilt = FALSE

BlockLen(long) == IF long THEN LongLen ELSE ShortLen

\* What a word of the memory says when it is taken for a descriptor: nothing
\* unless it is one (daqDescriptorVerifyMode()).
IsDescriptor(w) == w.part = 1
IsLongBlock(w)  == made[w.block]

\* The sequence number in the descriptor of a block: its kind has a counter of
\* its own, which is incremented before the block is pushed, and cleared by a scan.
SameCount(i, b) == made[i] = made[b] /\ \A s \in scans : i <= s => b <= s
SequenceOf(b) == Cardinality({i \in 1 .. b : SameCount(i, b)}) % SeqMod

AdvancedWithoutWrap(index, n) == index + n
Advanced(index, n) == (index + n) % Capacity

-----------------------------------------------------------------------------
(* The DAQ task: ramRingSharedSynchonizeReadIndex(), store by store *)

SyncLoad ==
  /\ server = "pass"
  /\ toAdd' = wasRead
  /\ server' = IF wasRead = 0 THEN "sync_done" ELSE "sync_full"
  /\ UNCHANGED <<shared, local, written, made, published, lossy, calm>>

\* ramRingAddToReadIndex(): a full ring gets a valid write index, ...
StoreFull(at, to) ==
  /\ server = at
  /\ indexes' = IF ramRingIsFull(indexes) THEN [indexes EXCEPT !.end = indexes.start]
                ELSE indexes
  /\ server' = to
  /\ UNCHANGED <<wasRead, ram, toAdd, local, written, made, published, lossy, calm>>

\* ... then the read index moves.
StoreStart(at, to) ==
  /\ server = at
  /\ indexes' = [indexes EXCEPT !.start = Advanced(indexes.start, toAdd)]
  /\ server' = to
  /\ calm' = FALSE
  /\ UNCHANGED <<wasRead, ram, toAdd, local, written, made, published>>

SyncFull  == StoreFull("sync_full", "sync_start")
SyncStart == StoreStart("sync_start", "sync_done") /\ UNCHANGED lossy

SyncDoneForgotten ==
  /\ server = "sync_done"
  /\ toAdd' = 0
  /\ server' = "run"
  /\ UNCHANGED <<shared, local, written, made, published, lossy, calm>>

SyncDone ==
  /\ server = "sync_done"
  /\ wasRead' = 0
  /\ toAdd' = 0
  /\ server' = "run"
  /\ UNCHANGED <<indexes, ram, local, written, made, published, lossy, calm>>

\* Nothing (more) to do in this turn of the loop of taskDaq().
PassEnd ==
  /\ server = "run"
  /\ server' = "pass"
  /\ UNCHANGED <<shared, toAdd, local, written, made, published, lossy, calm>>
-----------------------------------------------------------------------------
(* The DAQ task: ramPushDaqDataBlock() *)

\* The block taken up last does not come into the ring.
LoseBlock ==
  /\ Len(made') - published <= MaxLost
  /\ server' = "run"
  /\ lossy' = TRUE

\* A device has a block of the given kind.  It is counted in any case, and lost
\* when the FIFO holds less than a descriptor.
PushBegin ==
  /\ server = "run" /\ Len(made) < MaxBlocks
  /\ \E long \in BOOLEAN : made' = Append(made, long)
  /\ \/ server' = "space" /\ UNCHANGED lossy
     \/ LoseBlock
  /\ UNCHANGED <<shared, toAdd, local, written, published, calm>>

NewLen == BlockLen(made[Len(made)])
FitsShort == ramRingGetRemainingCapacity(indexes) >= ShortLen
Fits   == ramRingGetRemainingCapacity(indexes) >= NewLen

\* ramWriteDaqData() takes a copy of the indexes and skips the place of the
\* descriptor; it returns at once when the FIFO does not hold a whole block.
WriteBegin ==
  /\ server = "space" /\ Fits
  /\ UNCHANGED made
  /\ \/ /\ local' = ramRingIncWriteIndex(indexes)
        /\ written' = 1
        /\ server' = "write"
        /\ UNCHANGED lossy
     \/ LoseBlock /\ UNCHANGED <<local, written>>
  /\ UNCHANGED <<shared, toAdd, published, calm>>

\* oDescriptorIndexes.end: where the block begins.
DescriptorPlace == (ramRingGetWriteIndex(local) + Capacity - written) % Capacity

\* The next word of the data and, as the last one, the descriptor.  The block is
\* published when its integrity is right.
WriteWord ==
  /\ server = "write"
  /\ UNCHANGED made
  /\ LET last == written = NewLen
         cell == IF last THEN DescriptorPlace ELSE ramRingGetWriteIndex(local)
         part == IF last THEN 1 ELSE written + 1
     IN  /\ ram' = [ram EXCEPT ![cell] = [block |-> Len(made), part |-> part]]
         /\ IF last
              THEN /\ written' = 0
                   /\ \/ server' = "publish" /\ UNCHANGED lossy
                      \/ LoseBlock
                   /\ UNCHANGED local
              ELSE /\ written' = written + 1
                   /\ local' = ramRingIncWriteIndex(local)
                   /\ UNCHANGED <<server, lossy>>
  /\ UNCHANGED <<indexes, wasRead, toAdd, published, calm>>

\* publishWrittenData(): only the write index.
Publish ==
  /\ server = "publish"
  /\ indexes' = [indexes EXCEPT !.end = local.end]
  /\ published' = published + 1
  /\ server' = "run"
  /\ UNCHANGED <<wasRead, ram, toAdd, local, written, made, lossy, calm>>

\* ramRingGetTypeOfOldestBlock()
OldestWord      == ram[indexes.start]
OldestUndefined == ramRingGetSize(indexes) % ShortLen # 0 \/ ~IsDescriptor(OldestWord)

\* ramRemoveOldestBlock(), again and again until there is space: the length of
\* the oldest block is taken from its descriptor, ...
RemoveBlock ==
  /\ server = "space" /\ ~Fits /\ ~OldestUndefined
  /\ toAdd' = BlockLen(IsLongBlock(OldestWord))
  /\ server' = "remove_full"
  /\ UNCHANGED <<shared, local, written, made, published, lossy, calm>>

RemoveFull  == StoreFull("remove_full", "remove_start")
RemoveStart == StoreStart("remove_start", "space") /\ lossy' = TRUE

\* ... and when it is none, everything is removed: ramRingSharedReset().
RemoveNothing ==
  /\ server = "space" /\ ~Fits /\ OldestUndefined
  /\ UNCHANGED <<shared, serverVars, published, lossy, calm>>

RemoveAll ==
  /\ server = "space" /\ ~Fits /\ OldestUndefined
  /\ server' = "clear_start"
  /\ UNCHANGED <<shared, toAdd, local, written, made, published, lossy, calm>>

\* The stores of ramRingSharedReset().
ResetStart ==
  /\ indexes' = [indexes EXCEPT !.start = 0]
  /\ calm' = FALSE
  /\ lossy' = TRUE
  /\ UNCHANGED <<wasRead, ram>>
ResetEnd ==
  /\ indexes' = [indexes EXCEPT !.end = 0]
  /\ UNCHANGED <<wasRead, ram, lossy, calm>>
ResetWasRead ==
  /\ wasRead' = 0
  /\ UNCHANGED <<indexes, ram, lossy, calm>>

ClearStart ==
  /\ server = "clear_start" /\ server' = "clear_end" /\ ResetStart
  /\ UNCHANGED <<toAdd, local, written, made, published>>
ClearEnd ==
  /\ server = "clear_end" /\ server' = "clear_was" /\ ResetEnd
  /\ UNCHANGED <<toAdd, local, written, made, published>>
ClearWasRead ==
  /\ server = "clear_was" /\ server' = "space" /\ ResetWasRead
  /\ UNCHANGED <<toAdd, local, written, made, published>>

ServerNext ==
  /\ \/ SyncLoad \/ SyncFull \/ SyncStart \/ SyncDone \/ PassEnd
     \/ PushBegin \/ WriteBegin \/ WriteWord \/ Publish
     \/ RemoveBlock \/ RemoveFull \/ RemoveStart
     \/ RemoveAll \/ ClearStart \/ ClearEnd \/ ClearWasRead
  /\ UNCHANGED <<clientVars, mainVars>>
-----------------------------------------------------------------------------
(* The client: distributeData() *)

\* getNumberOfNewData(): the server has set wasRead to zero, but the read index has
\* not moved since the last call.
NeverLost   == FALSE
WasReadLost == wasRead = 0 /\ lastReadIndex = indexes.start /\ cWasRead # 0

\* One cycle reads start, end and wasRead.
Poll ==
  /\ client = "poll"
  /\ readIndex' = indexes.start
  /\ cWasRead' = IF WasReadLost THEN cWasRead ELSE wasRead
  /\ \/ wasRead # 0 /\ UNCHANGED <<client, lastReadIndex, calm>>
     \/ WasReadLost /\ client' = "resend" /\ UNCHANGED <<lastReadIndex, calm>>
     \/ /\ wasRead = 0 /\ ~WasReadLost
        /\ lastReadIndex' = indexes.start
        /\ LET size   == ramRingGetSize(indexes)
               toRead == IF size < LongLen THEN size ELSE LongLen
           IN  IF toRead # 0 /\ toRead % ShortLen = 0
                 THEN client' = "read" /\ calm' = TRUE
                 ELSE UNCHANGED <<client, calm>>
  /\ got' = << >>
  /\ UNCHANGED <<shared, sequence, delivered>>

\* "Second sendWasRead"
sendWasRead(n) == cWasRead' = n /\ wasRead' = n

Resend ==
  /\ client = "resend"
  /\ sendWasRead(cWasRead)
  /\ client' = "poll" /\ calm' = TRUE
  /\ UNCHANGED <<indexes, ram, lastReadIndex, readIndex, got, sequence, delivered>>

\* readDaqData() and readRam(): up to n words are in the buffer, in parts of
\* MaxEbCycle words, each read in one cycle or, across the end of the memory, in two.
ReadUpTo(n) ==
  LET done == IF client = "rest" THEN Len(got) - ShortLen ELSE Len(got)
      left == n - Len(got)
      part == MaxEbCycle - (done % MaxEbCycle)
      len  == CHOOSE m \in {left, part, Capacity - readIndex} :
                \A k \in {left, part, Capacity - readIndex} : m <= k
  IN  /\ got' = got \o [i \in 1 .. len |-> ram[readIndex + i - 1]]
      /\ readIndex' = Advanced(readIndex, len)

\* The first piece of a block, as long as a short one.
Read ==
  /\ client = "read"
  /\ ReadUpTo(ShortLen)
  /\ client' = IF Len(got') < ShortLen THEN "read"
               ELSE IF IsDescriptor(got'[1]) /\ IsLongBlock(got'[1]) THEN "rest" ELSE "send"
  /\ UNCHANGED <<shared, lastReadIndex, cWasRead, sequence, delivered, calm>>

ReadRest ==
  /\ client = "rest"
  /\ ReadUpTo(LongLen)
  /\ client' = IF Len(got') < LongLen THEN "rest" ELSE "send"
  /\ UNCHANGED <<shared, lastReadIndex, cWasRead, sequence, delivered, calm>>

\* DaqChannel::verifySequence(): a block of this kind is missing.
compareUnwrapped(long, number) == sequence[long] # SeqMod /\ sequence[long] < number
compare(long, number) == sequence[long] # SeqMod /\ sequence[long] # number

\* A piece that does not begin with a descriptor is acknowledged and refused
\* (onErrorDescriptor()).
SendRefusedUnread ==
  /\ client = "send" /\ ~IsDescriptor(got[1])
  /\ client' = "poll" /\ got' = << >> /\ calm' = TRUE
  /\ UNCHANGED <<shared, lastReadIndex, cWasRead, readIndex, sequence, delivered>>

SendRefused ==
  /\ client = "send" /\ ~IsDescriptor(got[1])
  /\ sendWasRead(ShortLen)
  /\ client' = "poll" /\ got' = << >> /\ calm' = TRUE
  /\ UNCHANGED <<indexes, ram, lastReadIndex, readIndex, sequence, delivered>>

\* A block is acknowledged with its length and handed on.
SendBlock ==
  /\ client = "send" /\ IsDescriptor(got[1])
  /\ LET b == got[1].block
         long == made[b]
     IN  /\ sendWasRead(BlockLen(long))
         /\ delivered' = Append(delivered,
                           [block |-> b, calm |-> calm,
                            whole |-> \A i \in 1 .. Len(got) : got[i] = [block |-> b, part |-> i],
                            lost  |-> compare(long, SequenceOf(b))])
         /\ sequence' = [sequence EXCEPT ![long] = (SequenceOf(b) + 1) % SeqMod]
  /\ client' = "poll" /\ got' = << >> /\ calm' = TRUE
  /\ UNCHANGED <<indexes, ram, lastReadIndex, readIndex>>

\* sendReset(): the client writes the command and waits until it is done.
SendReset ==
  /\ client = "poll" /\ main = "idle" /\ resets < MaxResets
  /\ client' = "reset" /\ main' = "reset_start" /\ resets' = resets + 1 /\ UNCHANGED scans
  /\ UNCHANGED <<shared, lastReadIndex, cWasRead, readIndex, got, sequence, delivered, calm>>

\* A new process connects: readSharedTotal(), then sendReset() in init().
Restart ==
  /\ main = "idle" /\ resets < MaxResets
  /\ readIndex' = indexes.start /\ cWasRead' = wasRead /\ lastReadIndex' = 0
  /\ got' = << >> /\ sequence' = [long \in BOOLEAN |-> SeqMod] /\ calm' = TRUE
  /\ client' = "reset" /\ main' = "reset_start" /\ resets' = resets + 1 /\ UNCHANGED scans
  /\ UNCHANGED <<shared, delivered>>

\* cmdReadyWait(): the command is done, ...
ResetDone ==
  /\ client = "reset" /\ main = "idle"
  /\ client' = "poll"
  /\ UNCHANGED <<shared, lastReadIndex, cWasRead, readIndex, got, sequence, delivered,
                 mainVars, calm>>

\* ... or the client has waited too long for it.
ResetTimeout ==
  /\ client = "reset" /\ main # "idle"
  /\ client' = "poll"
  /\ UNCHANGED <<shared, lastReadIndex, cWasRead, readIndex, got, sequence, delivered,
                 mainVars, calm>>

ClientNext ==
  /\ \/ (Poll \/ Resend \/ Read \/ ReadRest \/ SendRefused \/ SendBlock) /\ UNCHANGED mainVars
     \/ SendReset \/ Restart \/ ResetDone \/ ResetTimeout
  /\ UNCHANGED <<serverVars, published, lossy>>
-----------------------------------------------------------------------------
(* The main task: opReset() resets the ring store by store. *)

OpResetStart   == main = "reset_start" /\ main' = "reset_end" /\ ResetStart /\ UNCHANGED server
OpResetEnd     == main = "reset_end"   /\ main' = "reset_was" /\ ResetEnd /\ UNCHANGED server
OpResetWasRead ==
  /\ main = "reset_was" /\ main' = "idle" /\ ResetWasRead
  /\ server' = IF server = "none" THEN "pass" ELSE server

MainNext ==
  /\ OpResetStart \/ OpResetEnd \/ OpResetWasRead
  /\ UNCHANGED <<toAdd, local, written, made, clientVars, resets, scans, published>>

\* FG_OP_RESCAN: the DAQ task is deleted in the middle of whatever it does, the numbers
\* of the blocks are cleared (daqBusFindAndInitializeAll()), the ring is reset
\* (initBuffer()) without the client's knowledge, and a new DAQ task is started.
Rescan ==
  /\ main = "idle" /\ resets < MaxResets
  /\ resets' = resets + 1 /\ scans' = scans \cup {Len(made)}
  /\ main' = "reset_start" /\ server' = "none"
  /\ toAdd' = 0 /\ written' = 0 /\ lossy' = TRUE
  /\ UNCHANGED <<shared, local, made, clientVars, published, calm>>
-----------------------------------------------------------------------------
\* A reset spoils the handshake when it meets one that is not at rest: the main task
\* the DAQ task in the middle of something (unless it has deleted it), an
\* acknowledgement that is under way, or a client that does not wait; the DAQ task a
\* client that is reading.
AtRest(place) == client = place /\ wasRead = 0
ResetOfUnfinished ==
  \/ main # "idle" /\ ~(AtRest("reset") /\ server \in {"pass", "run", "none"})
                   /\ ~(AtRest("poll") /\ server = "none")
  \/ server \in {"clear_start", "clear_end", "clear_was"} /\ ~AtRest("poll")

\* So does a block that is lost when others have already been removed for it: what
\* is left can be shorter than the block the client is about to acknowledge.
RemovedForNothing == toAdd # 0 /\ server \in {"space", "write"} /\ server' = "run"

\* And a second sendWasRead() when the first one was not lost: the read index has
\* gone once round the ring and is where the client saw it last.
SecondForNothing == client = "resend" /\ client' = "poll" /\ ~calm

Next ==
  /\ ServerNext \/ ClientNext \/ MainNext \/ Rescan
  /\ spoilt' = (spoilt \/ ResetOfUnfinished' \/ RemovedForNothing \/ SecondForNothing)

\* Bound of the runs: nothing is promised of what comes after.
Unspoilt == ~spoilt

Spec == Init /\ [][Next]_vars

\* All three loop for ever.  The client acknowledges again and again, and not each
\* time in the few instructions of a synchronisation.
Acknowledge == Resend \/ SendRefused \/ SendBlock
AcknowledgeInTime == server \notin {"sync_full", "sync_start", "sync_done"} /\ Acknowledge

Fairness ==
  /\ WF_vars(ServerNext /\ Next)
  /\ WF_vars((Poll \/ Resend \/ Read \/ ReadRest \/ SendRefused \/ SendBlock \/ ResetDone) /\ Next)
  /\ WF_vars(MainNext /\ Next)
  /\ []<><<Acknowledge>>_vars => []<><<AcknowledgeInTime>>_vars

FairSpec == Spec /\ Fairness
-----------------------------------------------------------------------------
\* RAM_ASSERT( ramRingGetSize( pThis ) >= toAdd ) of ramRingAddToReadIndex()
\* (circular_index.c:144): the client never acknowledges more than there is.
AckWithinSize == server = "sync_full" => toAdd <= ramRingGetSize(indexes)

\* This holds although the server removes blocks that the client has already read
\* and then takes the acknowledgement for others, and although a second
\* sendWasRead() may repeat an acknowledgement that is no longer true: what has
\* been removed is always replaced by at least as much.  Only a reset that meets an
\* unfinished handshake, and a block that is lost after the removal, break it.
AcksWithinSize == ~spoilt => AckWithinSize

\* Blocks are delivered whole and in their order, whatever has been removed or
\* reset, except one whose removal has overtaken the client while it was reading.
WholeAndInOrder ==
  ~spoilt => \A k \in 1 .. Len(delivered) :
    delivered[k].calm =>
      /\ delivered[k].whole
      /\ \A j \in 1 .. k - 1 : delivered[j].calm => delivered[j].block < delivered[k].block

\* verifySequence(): a missing block is noticed with the next one of its kind, and
\* there is no false alarm.
LossNoticed ==
  \A j, k \in 1 .. Len(delivered) :
    LET b == delivered[j].block
        c == delivered[k].block
        ofKind(i) == made[i] = made[c]
        missing == Cardinality({i \in b + 1 .. c - 1 : ofKind(i)})
    IN  j < k /\ b < c /\ ofKind(b) /\ (\A i \in j + 1 .. k - 1 : ~ofKind(delivered[i].block))
          /\ missing < SeqMod /\ resets = 0
        => (delivered[k].lost <=> missing > 0)

\* As long as nothing is lost the client gets the blocks like the items of a stream.
Stream == INSTANCE DaqStream
            WITH produced  <- published,
                 overflow  <- lossy,
                 delivered <- [i \in 1 .. Len(delivered) |-> delivered[i].block]

ImplementsStream == Stream!StreamSpec

\* Whatever the client has refused, lost or been told late: it comes to an end with
\* what is in the ring, and does not ask for the same for ever.
Drains == <>[](spoilt \/ ramRingGetSize(indexes) = 0)

\* The loop of ramMakeSpaceIfNecessary() ends.
SpaceIsMade == server = "space" ~> (server \in {"write", "run", "none"} \/ spoilt)
=============================================================================
