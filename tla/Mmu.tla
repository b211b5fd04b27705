---------------------------------- MODULE Mmu ----------------------------------
(***************************************************************************)
(* The partition list in the DDR3-RAM: mmuAlloc() gives the log and the    *)
(* DAQ rings their areas.  The list is a chain of descriptors of two       *)
(* 64-bit words, each in front of its area; the last one has iNext = 0.    *)
(*                                                                         *)
(* The same code runs in the LM32, which reaches the RAM word by word, and *)
(* in lm32-logd and mem-mon, which reach a descriptor in one Etherbone     *)
(* cycle.  Nothing locks the list, and a new descriptor is linked before   *)
(* it is written.  The LM32 may be reset and a program ended anywhere, and *)
(* mem-mon may delete the list.                                            *)
(*                                                                         *)
(* A call that meets the list in the middle of the change of another one   *)
(* reads words that nobody has written.  The variable spoilt says when     *)
(* that happens, and nothing is promised then; all other interleavings of  *)
(* the calls are safe.                                                     *)
(***************************************************************************)
EXTENDS Naturals, Sequences, FiniteSets

CONSTANTS User,        \* the LM32 and the Linux programs
          Lm32,
          MemMon,
          Script,      \* the requests of each in their order
          Tag,
          DaqTag,      \* the tags of mmuAllocateDaqBuffer()
          MaxCapacity, \* mmuGetMaxCapacity64()
          SizeMod,     \* size_t counts modulo 2^32
          MaxRestarts, \* bound: resets and restarts
          MaxDeletes   \* bound: deletions of the list

MMU_ITEMSIZE == 2
Address == 0 .. MaxCapacity - 1
Request == [tag : Tag, len : 1 .. MaxCapacity, create : BOOLEAN]

\* The RAM and what is asked of it are far smaller than 2^32 words: the sum in line 228
\* (scu_mmu.c) does not wrap around as long as the list is whole.
ASSUME MmuAssumption ==
  /\ {Lm32, MemMon} \subseteq User /\ Lm32 # MemMon
  /\ DaqTag \subseteq Tag /\ Tag \subseteq Nat \ {0}
  /\ Script \in [User -> Seq(Request)]
  /\ MaxCapacity \in Nat \ {0, 1} /\ SizeMod \in Nat /\ SizeMod > MaxCapacity
  /\ \A u \in User : \A n \in 1 .. Len(Script[u]) :
        MaxCapacity + Script[u][n].len + MMU_ITEMSIZE < SizeMod
  /\ MaxRestarts \in Nat /\ MaxDeletes \in Nat

VARIABLES
  mem,       \* the 64-bit words of the RAM
  \* mmuAlloc() of each user
  at,        \* where it is
  local,     \* its variables; half: it has accessed the first word of a descriptor
  step,      \* the number of the request in its script
  restarts, deletes,
  \* history
  areas,     \* granted since the list was made
  spoilt     \* a call has met the list in the middle of another's change

vars == <<mem, at, local, step, restarts, deletes, areas, spoilt>>

\* A word holds two 32-bit numbers: magic or tag with iNext, and iStart with length.
Magic    == 0
NotMagic == 999
Blank    == <<NotMagic, 0>>
Item(tag, next, start, len) == << <<tag, next>>, <<start, len>> >>
iNext(i)  == i[1][2]
iStart(i) == i[2][1]
length(i) == i[2][2]
StartBlock == Item(Magic, 0, 0, 0)
NewCall    == [half |-> FALSE, item |-> StartBlock, lastNext |-> 0, level |-> 0]

Half    == 0 .. MaxCapacity \cup {NotMagic}
Word    == (Half \cup Tag) \X (0 .. MaxCapacity)
AtPlace == {"idle", "probe", "start", "climb", "link", "new"}

TypeOK ==
  /\ mem \in [Address -> Word]
  /\ at \in [User -> AtPlace]
  /\ local \in [User -> [half : BOOLEAN, item : Word \X Word, lastNext : Address,
                     level : 0 .. SizeMod - 1]]
  /\ step \in [User -> Nat]
  /\ \A u \in User : /\ step[u] \in 1 .. Len(Script[u]) + 1
                     /\ at[u] # "idle" => step[u] <= Len(Script[u])
  /\ restarts \in 0 .. MaxRestarts /\ deletes \in 0 .. MaxDeletes
  /\ areas \subseteq [tag : Tag, start : Half, length : 0 .. MaxCapacity]
  /\ spoilt \in BOOLEAN

Init ==
  /\ mem = [a \in Address |-> Blank]
  /\ at = [u \in User |-> "idle"] /\ local = [u \in User |-> NewCall]
  /\ step = [u \in User |-> 1]
  /\ restarts = 0 /\ deletes = 0 /\ areas = {} /\ spoilt = FALSE
-----------------------------------------------------------------------------
(* Access to the RAM *)

mmuIsPresent == mem[0][1] = Magic
request(u)   == Script[u][step[u]]
half(u)      == local[u].half
level(u)     == local[u].level

Goto(u, place) == at' = [at EXCEPT ![u] = place]

\* mmuWriteItem(): the first word by itself, if u is the LM32 ...
WriteFirst(u, a, i) ==
  /\ u = Lm32 /\ ~half(u)
  /\ mem' = [mem EXCEPT ![a] = i[1]]
  /\ local' = [local EXCEPT ![u].half = TRUE]
  /\ UNCHANGED at

\* ... and the rest.
WriteRest(u, a, i) ==
  /\ u = Lm32 => half(u)
  /\ mem' = IF half(u) THEN [mem EXCEPT ![a + 1] = i[2]]
                       ELSE [mem EXCEPT ![a] = i[1], ![a + 1] = i[2]]

\* What v has not finished: the start block without its second word, and the descriptor
\* that is linked already.
Unfinished(v, a) ==
  \/ at[v] = "start" /\ half(v) /\ a = 0
  \/ at[v] = "new" /\ a = level(v)
  \/ at[v] = "link" /\ half(v) /\ a = level(v)

Torn(u, a) == \E v \in User \ {u} : Unfinished(v, a)

Return(u) ==
  /\ Goto(u, "idle")
  /\ local' = [local EXCEPT ![u] = NewCall]
  /\ step' = [step EXCEPT ![u] = @ + 1]
-----------------------------------------------------------------------------
(* mmuAlloc() *)

Call(u) ==
  /\ at[u] = "idle" /\ step[u] <= Len(Script[u])
  /\ Goto(u, "probe")
  /\ UNCHANGED <<mem, local, step, areas, spoilt>>

Probe(u) ==
  /\ at[u] = "probe"
  /\ IF ~mmuIsPresent /\ ~request(u).create
     THEN Return(u)                                          \* LIST_NOT_FOUND
     ELSE /\ Goto(u, IF mmuIsPresent THEN "climb" ELSE "start")
          /\ UNCHANGED <<local, step>>
  /\ UNCHANGED <<mem, areas, spoilt>>

\* The start block: in the meantime there may be another one.
WriteStart(u) ==
  /\ at[u] = "start"
  /\ \/ WriteFirst(u, 0, StartBlock)
     \/ /\ WriteRest(u, 0, StartBlock) /\ Goto(u, "climb")
        /\ local' = [local EXCEPT ![u].half = FALSE]
  /\ spoilt' = (spoilt \/ (~half(u) /\ mmuIsPresent))
  /\ UNCHANGED <<step, areas>>

\* mmuReadNextItem(): the first word ...
ReadFirst(u) ==
  LET address == iNext(local[u].item)
  IN  /\ at[u] = "climb" /\ u = Lm32 /\ ~half(u)
      /\ local' = [local EXCEPT ![u].half = TRUE, ![u].lastNext = address,
                                ![u].item = <<mem[address], @[2]>>]
      /\ spoilt' = (spoilt \/ Torn(u, address))
      /\ UNCHANGED <<mem, at, step, areas>>

FoundButLast(u, i) == level(u) # 0 /\ iNext(i) # 0 /\ i[1][1] = request(u).tag

\* The descriptor u has in its hands is the one that it looks for.
Found(u, i) == level(u) # 0 /\ i[1][1] = request(u).tag

FitsWithoutItem(u, top) == top + request(u).len <= MaxCapacity
FitsByItself(u, top) == request(u).len < MaxCapacity

Fits(u, top) == (top + request(u).len + MMU_ITEMSIZE) % SizeMod < MaxCapacity

Granted(u, i) == [tag |-> request(u).tag, start |-> iStart(i), length |-> length(i)]

\* A DAQ ring of the LM32 that gets no area keeps the place that its initializer gives
\* it: mmuAllocateDaqBuffer() only logs the status.
Misplaced(u) == u = Lm32 /\ request(u).tag \in DaqTag

\* ... and the rest: the tag is found, the climb goes on, or it has reached the end.
ReadRest(u) ==
  LET address == IF half(u) THEN local[u].lastNext ELSE iNext(local[u].item)
      i       == <<IF half(u) THEN local[u].item[1] ELSE mem[address], mem[address + 1]>>
      top     == (level(u) + MMU_ITEMSIZE + length(i)) % SizeMod
      goOn    == iNext(i) # 0 \/ (request(u).create /\ Fits(u, top))
  IN  /\ at[u] = "climb" /\ (u = Lm32 => half(u))
      /\ IF Found(u, i) \/ ~goOn
         THEN Return(u)        \* ALREADY_PRESENT, OK; TAG_NOT_FOUND, OUT_OF_MEM
         ELSE /\ Goto(u, IF iNext(i) # 0 THEN "climb" ELSE "link")
              /\ local' = [local EXCEPT ![u] = [half |-> FALSE, item |-> i,
                                                lastNext |-> address, level |-> top]]
              /\ UNCHANGED step
      /\ areas' = IF Found(u, i) THEN areas \cup {Granted(u, i)} ELSE areas
      /\ spoilt' = (spoilt \/ Torn(u, address) \/ (~Found(u, i) /\ ~goOn /\ Misplaced(u)))
      /\ UNCHANGED mem

\* The last descriptor gets its successor, which is not written yet.  The list may have
\* grown since u has read it.
Link(u) ==
  LET last   == local[u].lastNext
      i      == local[u].item
      linked == Item(i[1][1], level(u), iStart(i), length(i))
  IN  /\ at[u] = "link"
      /\ \/ WriteFirst(u, last, linked)
         \/ /\ WriteRest(u, last, linked) /\ Goto(u, "new")
            /\ local' = [local EXCEPT ![u].half = FALSE]
      /\ spoilt' = (spoilt \/ (~half(u) /\ mem[last][2] # 0))
      /\ UNCHANGED <<step, areas>>

NewItemAtLevel(u) == Item(request(u).tag, 0, level(u), request(u).len)
NewItemLinked(u) == Item(request(u).tag, level(u), level(u) + MMU_ITEMSIZE, request(u).len)

NewItem(u) == Item(request(u).tag, 0, level(u) + MMU_ITEMSIZE, request(u).len)

WriteNew(u) ==
  /\ at[u] = "new"
  /\ \/ WriteFirst(u, level(u), NewItem(u)) /\ UNCHANGED <<step, areas>>
     \/ /\ WriteRest(u, level(u), NewItem(u)) /\ Return(u)
        /\ areas' = areas \cup {Granted(u, NewItem(u))}
  /\ UNCHANGED spoilt

mmuAlloc(u) ==
  /\ \/ Call(u) \/ Probe(u) \/ WriteStart(u) \/ ReadFirst(u) \/ ReadRest(u)
     \/ Link(u) \/ WriteNew(u)
  /\ UNCHANGED <<restarts, deletes>>
-----------------------------------------------------------------------------
(* Faults and deletion *)

\* The LM32 is reset, or a program ended and started again.
Restart(u) ==
  /\ restarts < MaxRestarts
  /\ restarts' = restarts + 1
  /\ Goto(u, "idle")
  /\ local' = [local EXCEPT ![u] = NewCall]
  /\ step' = [step EXCEPT ![u] = 1]
  /\ spoilt' = (spoilt \/ \E a \in Address : Unfinished(u, a))
  /\ UNCHANGED <<mem, deletes, areas>>

\* mem-mon: the magic number is overwritten.  Whoever has an area has to be started again.
mmuDelete ==
  /\ at[MemMon] = "idle" /\ step[MemMon] = 1
  /\ deletes < MaxDeletes /\ mmuIsPresent
  /\ deletes' = deletes + 1
  /\ mem' = [mem EXCEPT ![0] = Blank]
  /\ areas' = {}
  /\ spoilt' = (spoilt \/ \E u \in User : at[u] # "idle")
  /\ UNCHANGED <<at, local, step, restarts>>

Next == \/ \E u \in User : mmuAlloc(u) \/ Restart(u)
        \/ mmuDelete

Spec == Init /\ [][Next]_vars

\* Each processor executes its call to its end.
Fairness == \A u \in User : WF_vars(at[u] # "idle" /\ mmuAlloc(u))
FairSpec == Spec /\ Fairness
-----------------------------------------------------------------------------
(* Properties *)

Extent(area) == area.start - MMU_ITEMSIZE .. area.start + area.length - 1

\* The areas that are granted lie in the RAM behind the start block, and none of them
\* covers a word, or the descriptor, of another: two programs that allocate in turn,
\* restarts in between included, do not get each other's memory.
Separate ==
  ~spoilt => /\ \A a \in areas : Extent(a) \subseteq MMU_ITEMSIZE .. MaxCapacity - 1
             /\ \A a, b \in areas : a.tag # b.tag => Extent(a) \cap Extent(b) = {}

\* Whoever asks for a tag gets the same area, also the LM32 after a reset and the daemon
\* that asks for another length: the rings stay where their other side looks for them.
SameArea ==
  ~spoilt => \A a, b \in areas : a.tag = b.tag => a = b

\* The climb along the list comes to an end: the LM32 is not caught in mmuAlloc() while
\* it starts.
CallsEnd == \A u \in User : at[u] # "idle" ~> (at[u] = "idle" \/ spoilt)

\* Bound: a spoilt list is not followed further.
Unspoilt == ~spoilt
=============================================================================
