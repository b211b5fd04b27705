------------------------------- MODULE Mmu_proofs -------------------------------
(***************************************************************************)
(* The partition list for any set of programs, scripts, tags and size of   *)
(* the RAM, and any number of restarts and deletions: as long as no call   *)
(* has met the list in the middle of the change of another one, the areas  *)
(* that are granted are apart from each other and from the list, and a tag *)
(* has one area.                                                           *)
(*                                                                         *)
(* The argument: there is a set D of descriptors which begins with the     *)
(* start block, each of which points to where it ends or, the last one, to *)
(* nothing, and whose tags differ.  A call that climbs has passed only     *)
(* descriptors of other tags.  A call that links a new descriptor has the  *)
(* last one in its hands, or sees that it is not the last any more, and    *)
(* is then the only one that does so; until the new descriptor is written  *)
(* it lies behind D, and whoever climbs to it spoils the list.  Nothing    *)
(* but the deletion takes a descriptor away, and nothing changes the words *)
(* of one but its link to the next.                                        *)
(*                                                                         *)
(* D is not a variable of the model: the invariant says that it exists,    *)
(* and each step shows the set that comes after it.                        *)
(***************************************************************************)
EXTENDS Mmu, SequenceTheorems, TLAPS

\* A descriptor at d, its area and its two words.
End(d)       == d + MMU_ITEMSIZE + mem[d + 1][2]
Successor(d) == mem[d][2]
TagOf(d)     == mem[d][1]

\* Calls that have begun to change the list.
Starting(u) == at[u] = "start" /\ half(u)
Pending(u)  == at[u] = "new" \/ (at[u] = "link" /\ half(u))

\* D is the list: the words at each descriptor, and how one follows the other.
Chain(D) ==
  /\ D \subseteq Address
  /\ D # {} => 0 \in D
  /\ mmuIsPresent <=> D # {} \/ \E u \in User : Starting(u)
  /\ \A d \in D :
       /\ d + 1 \in Address /\ End(d) <= MaxCapacity
       /\ Successor(d) \in {0, End(d)}
       /\ Successor(d) # 0 => End(d) \in D \/ \E u \in User : Pending(u) /\ local[u].lastNext = d
       /\ d # 0 => TagOf(d) \in Tag /\ mem[d + 1][1] = d + MMU_ITEMSIZE
  /\ \A c, d \in D : c < d => Successor(c) # 0 /\ End(c) \in D /\ End(c) <= d
  /\ \A c, d \in D \ {0} : TagOf(c) = TagOf(d) => c = d

\* Only areas of the list are granted.
AreaOf(d) == [tag |-> TagOf(d), start |-> d + MMU_ITEMSIZE, length |-> mem[d + 1][2]]
Listed(D) == areas \subseteq {AreaOf(d) : d \in D \ {0}}

\* What a call knows of the list.
Place(u) == IF half(u) THEN local[u].lastNext ELSE iNext(local[u].item)

Caller(u, D) ==
  /\ half(u) => u = Lm32
  /\ at[u] \in {"idle", "probe"} => local[u] = NewCall
  /\ at[u] = "start" => local[u] = [NewCall EXCEPT !.half = half(u)]
  /\ Starting(u) => D = {} /\ mem[0] = StartBlock[1]
  /\ at[u] = "climb" =>
       /\ Place(u) = level(u) /\ (level(u) \in D \/ Torn(u, level(u)))
       /\ half(u) => /\ level(u) \in D /\ local[u].item[1][1] = TagOf(level(u))
                     /\ local[u].item[1][2] \in {0, Successor(level(u))}
  /\ at[u] \in {"link", "new"} =>
       /\ local[u].lastNext \in D /\ level(u) = End(local[u].lastNext)
       /\ level(u) + MMU_ITEMSIZE + request(u).len < MaxCapacity
  /\ at[u] = "link" => /\ local[u].item[1][1] = TagOf(local[u].lastNext)
                       /\ local[u].item[2] = mem[local[u].lastNext + 1]
  /\ Pending(u) => Successor(local[u].lastNext) = level(u) /\ level(u) \notin D
  /\ at[u] = "new" /\ half(u) => mem[level(u)] = NewItem(u)[1]
  /\ at[u] \in {"climb", "link", "new"} =>
       \A d \in D \ {0} : d < level(u) => TagOf(d) # request(u).tag

\* The whole: only one call at a time has a new descriptor linked.
List(D) ==
  /\ Chain(D) /\ Listed(D)
  /\ \A u \in User : Caller(u, D)
  /\ \A u, v \in User : Pending(u) /\ Pending(v) => u = v

CallType == [half : BOOLEAN, item : Word \X Word, lastNext : Address, level : 0 .. SizeMod - 1]

\* Only u has moved.
Own(u) ==
  /\ at' = [at EXCEPT ![u] = at'[u]]
  /\ local' = [local EXCEPT ![u] = local'[u]]
  /\ step' = [step EXCEPT ![u] = step'[u]]

LEMMA Constants ==
  /\ MaxCapacity \in Nat /\ MaxCapacity >= 2 /\ SizeMod \in Nat /\ SizeMod > MaxCapacity
  /\ MMU_ITEMSIZE = 2 /\ Magic = 0 /\ NotMagic = 999
  /\ Lm32 \in User /\ MemMon \in User /\ Lm32 # MemMon
  /\ Tag \subseteq Nat \ {0}
  /\ 0 \in Address /\ 1 \in Address
  BY MmuAssumption DEF MMU_ITEMSIZE, Magic, NotMagic, Address

LEMMA WordParts ==
  ASSUME NEW w \in Word
  PROVE  w = <<w[1], w[2]>> /\ w[1] \in Half \cup Tag /\ w[2] \in 0 .. MaxCapacity
  BY DEF Word

LEMMA Numbers ==
  /\ StartBlock \in Word \X Word
  /\ Blank \in Word
  /\ NewCall \in CallType
  /\ NewCall.half = FALSE /\ NewCall.level = 0 /\ NewCall.lastNext = 0 /\ iNext(NewCall.item) = 0
  /\ StartBlock[1] = <<Magic, 0>> /\ StartBlock[2] = <<0, 0>>
<1>1. StartBlock = << <<0, 0>>, <<0, 0>> >>
  BY DEF StartBlock, Item, Magic
<1>2. <<0, 0>> \in Word /\ Blank \in Word
  BY Constants DEF Word, Half, Blank
<1>3. NewCall = [half |-> FALSE, item |-> StartBlock, lastNext |-> 0, level |-> 0]
  BY DEF NewCall
<1>4. NewCall \in CallType
  BY <1>1, <1>2, <1>3, Constants DEF CallType
<1>. QED
  BY <1>1, <1>2, <1>3, <1>4 DEF iNext, Magic

LEMMA UserTypes ==
  ASSUME TypeOK, NEW u \in User
  PROVE  /\ at[u] \in AtPlace /\ local[u] \in CallType
         /\ level(u) \in Nat /\ local[u].lastNext \in Address
         /\ half(u) \in BOOLEAN
         /\ step[u] \in 1 .. Len(Script[u]) + 1 /\ Len(Script[u]) \in Nat
<1>1. local[u] \in CallType
  BY DEF TypeOK, CallType
<1>2. local[u].level \in 0 .. SizeMod - 1 /\ local[u].lastNext \in Address /\ local[u].half \in BOOLEAN
  BY <1>1 DEF CallType
<1>. QED
  BY <1>1, <1>2, MmuAssumption DEF TypeOK, level, half

LEMMA RequestIs ==
  ASSUME TypeOK, NEW u \in User, at[u] # "idle"
  PROVE  /\ request(u) \in Request
         /\ request(u).tag \in Tag /\ request(u).len \in 1 .. MaxCapacity
         /\ MaxCapacity + request(u).len + MMU_ITEMSIZE < SizeMod
<1>1. step[u] \in 1 .. Len(Script[u]) /\ Script[u] \in Seq(Request)
  BY UserTypes, MmuAssumption DEF TypeOK
<1>2. request(u) \in Request
  BY <1>1, ElementOfSeq DEF request
<1>. QED
  BY <1>1, <1>2, MmuAssumption DEF Request, request

LEMMA UnfinishedIs ==
  ASSUME NEW u \in User, NEW a
  PROVE  Unfinished(u, a) <=> (Starting(u) /\ a = 0) \/ (Pending(u) /\ a = level(u))
  BY DEF Unfinished, Starting, Pending

\* A descriptor, its area, and what it is followed by.
LEMMA InRam ==
  ASSUME TypeOK, NEW D, Chain(D), NEW d \in D
  PROVE  /\ d \in Nat /\ d \in Address /\ d + 1 \in Address
         /\ mem[d] \in Word /\ mem[d + 1] \in Word
         /\ mem[d + 1][2] \in 0 .. MaxCapacity /\ Successor(d) \in 0 .. MaxCapacity
         /\ End(d) \in Nat /\ d + MMU_ITEMSIZE <= End(d) /\ End(d) <= MaxCapacity
<1>1. d \in Address /\ d + 1 \in Address /\ End(d) <= MaxCapacity
  BY DEF Chain
<1>2. mem[d] \in Word /\ mem[d + 1] \in Word
  BY <1>1 DEF TypeOK
<1>3. mem[d + 1][2] \in 0 .. MaxCapacity /\ mem[d][2] \in 0 .. MaxCapacity
  BY <1>2, WordParts
<1>. QED
  BY <1>1, <1>2, <1>3, Constants DEF Address, End, Successor

\* The last descriptor lies behind all others.
LEMMA LastIs ==
  ASSUME TypeOK, NEW D, Chain(D), NEW l \in D, Successor(l) = 0 \/ End(l) \notin D
  PROVE  \A d \in D : d # l => d + 1 < l /\ End(d) <= l /\ End(d) \in D /\ Successor(d) # 0
<1>. SUFFICES ASSUME NEW d \in D, d # l
              PROVE  d + 1 < l /\ End(d) <= l /\ End(d) \in D /\ Successor(d) # 0
  OBVIOUS
<1>1. ~(l < d)
  BY DEF Chain
<1>2. d < l
  BY <1>1, InRam
<1>3. End(d) <= l /\ End(d) \in D /\ Successor(d) # 0
  BY <1>2 DEF Chain
<1>. QED
  BY <1>3, InRam, Constants

-----------------------------------------------------------------------------
(* Steps of one call *)

\* One call makes a step: the variables of the others stay as they are.
LEMMA OthersKept ==
  ASSUME TypeOK, NEW u \in User, Own(u), NEW v \in User \ {u}
  PROVE  /\ at'[v] = at[v] /\ local'[v] = local[v] /\ step'[v] = step[v]
         /\ half(v)' = half(v) /\ level(v)' = level(v) /\ request(v)' = request(v)
         /\ Starting(v)' <=> Starting(v)
         /\ Pending(v)' <=> Pending(v)
         /\ Place(v)' = Place(v)
         /\ NewItem(v)' = NewItem(v)
<1>1. at'[v] = at[v] /\ local'[v] = local[v] /\ step'[v] = step[v]
  <2>1. /\ at \in [User -> AtPlace] /\ local \in [User -> CallType] /\ step \in [User -> Nat]
    BY DEF TypeOK, CallType
  <2>. QED
    BY <2>1 DEF Own
<1>. QED
  BY <1>1 DEF half, level, request, Starting, Pending, Place, NewItem

\* Types: of what a call has, and of the rest.
LEMMA OwnTyped ==
  ASSUME TypeOK, NEW u \in User, Own(u),
         at'[u] \in AtPlace, local'[u] \in CallType, step'[u] \in 1 .. Len(Script[u]) + 1,
         at'[u] # "idle" => step'[u] <= Len(Script[u]),
         mem' \in [Address -> Word],
         areas' \subseteq [tag : Tag, start : Half, length : 0 .. MaxCapacity],
         restarts' \in 0 .. MaxRestarts, deletes' \in 0 .. MaxDeletes, spoilt' \in BOOLEAN
  PROVE  TypeOK'
<1>1. at' \in [User -> AtPlace] /\ local' \in [User -> CallType]
  BY DEF Own, TypeOK, CallType
<1>3. step' \in [User -> Nat]
  <2>1. step'[u] \in Nat /\ step \in [User -> Nat]
    BY UserTypes DEF TypeOK
  <2>. QED
    BY <2>1 DEF Own
<1>2. ASSUME NEW v \in User
      PROVE  /\ step'[v] \in 1 .. Len(Script[v]) + 1
             /\ at'[v] # "idle" => step'[v] <= Len(Script[v])
  <2>1. CASE v = u
    BY <2>1
  <2>2. CASE v # u
    BY <2>2, OthersKept DEF TypeOK
  <2>. QED
    BY <2>1, <2>2
<1>. QED
  BY <1>1, <1>2, <1>3 DEF TypeOK, CallType

\* The normal form of each step of a call.
LEMMA Owned ==
  ASSUME TypeOK, NEW u \in User
  PROVE  /\ UNCHANGED at => at' = [at EXCEPT ![u] = at'[u]]
         /\ UNCHANGED local => local' = [local EXCEPT ![u] = local'[u]]
         /\ UNCHANGED step => step' = [step EXCEPT ![u] = step'[u]]
         /\ \A p : Goto(u, p) => at' = [at EXCEPT ![u] = at'[u]] /\ at'[u] = p
         /\ \A r : local' = [local EXCEPT ![u] = r] =>
               local' = [local EXCEPT ![u] = local'[u]] /\ local'[u] = r
         /\ \A s : step' = [step EXCEPT ![u] = s] =>
               step' = [step EXCEPT ![u] = step'[u]] /\ step'[u] = s
<1>1. at \in [User -> AtPlace] /\ local \in [User -> CallType] /\ step \in [User -> Nat]
  BY DEF TypeOK, CallType
<1>2. UNCHANGED at => at' = [at EXCEPT ![u] = at'[u]]
  BY <1>1
<1>3. UNCHANGED local => local' = [local EXCEPT ![u] = local'[u]]
  BY <1>1
<1>4. UNCHANGED step => step' = [step EXCEPT ![u] = step'[u]]
  BY <1>1
<1>5. ASSUME NEW p, Goto(u, p) PROVE at' = [at EXCEPT ![u] = at'[u]] /\ at'[u] = p
  BY <1>1, <1>5 DEF Goto
<1>6. ASSUME NEW r, local' = [local EXCEPT ![u] = r]
      PROVE  local' = [local EXCEPT ![u] = local'[u]] /\ local'[u] = r
  BY <1>1, <1>6
<1>7. ASSUME NEW s, step' = [step EXCEPT ![u] = s]
      PROVE  step' = [step EXCEPT ![u] = step'[u]] /\ step'[u] = s
  BY <1>1, <1>7
<1>. QED
  BY <1>2, <1>3, <1>4, <1>5, <1>6, <1>7

LEMMA HalfSet ==
  ASSUME TypeOK, NEW u \in User, NEW b, local' = [local EXCEPT ![u].half = b]
  PROVE  /\ local' = [local EXCEPT ![u] = local'[u]]
         /\ local'[u] = [local[u] EXCEPT !.half = b]
         /\ half(u)' = b /\ level(u)' = level(u)
         /\ local'[u].lastNext = local[u].lastNext /\ local'[u].item = local[u].item
         /\ b \in BOOLEAN => local'[u] \in CallType
<1>1. local \in [User -> CallType] /\ local[u] \in CallType
  BY DEF TypeOK, CallType
<1>2. local' = [local EXCEPT ![u] = local'[u]] /\ local'[u] = [local[u] EXCEPT !.half = b]
  BY <1>1
<1>3. \A r \in CallType, c \in BOOLEAN : [r EXCEPT !.half = c] \in CallType
  BY DEF CallType
<1>4. b \in BOOLEAN => local'[u] \in CallType
  BY <1>1, <1>2, <1>3
<1>. QED
  BY <1>1, <1>2, <1>4 DEF CallType, half, level

-----------------------------------------------------------------------------
(* What the others keep *)

\* What another call v has seen of the list D is so of E too, when u has changed it.
LEMMA CallerKept ==
  ASSUME TypeOK, NEW D, NEW E, D \subseteq E, NEW u \in User, Own(u), NEW v \in User \ {u},
         Caller(v, D),
         \A d \in D : /\ TagOf(d)' = TagOf(d) /\ mem'[d + 1] = mem[d + 1]
                      /\ Successor(d) # 0 => Successor(d)' = Successor(d),
         Starting(v) => E = {} /\ mem'[0] = mem[0],
         at[v] = "climb" /\ (level(v) \in D \/ Torn(v, level(v))) =>
            level(v) \in E \/ Torn(v, level(v))',
         Pending(v) => level(v) \notin E /\ Successor(local[v].lastNext) # 0,
         at[v] = "new" /\ half(v) => mem'[level(v)] = mem[level(v)],
         at[v] \in {"climb", "link", "new"} =>
            \A d \in E \ D : d < level(v) => TagOf(d)' # request(v).tag
  PROVE  Caller(v, E)'
<1>1. /\ at'[v] = at[v] /\ local'[v] = local[v] /\ step'[v] = step[v]
      /\ half(v)' = half(v) /\ level(v)' = level(v) /\ request(v)' = request(v)
      /\ Starting(v)' <=> Starting(v)
      /\ Pending(v)' <=> Pending(v)
      /\ Place(v)' = Place(v)
      /\ NewItem(v)' = NewItem(v)
  BY OthersKept
<1>2. \A d \in D : End(d)' = End(d)
  BY DEF End
<1>3. /\ half(v)' => v = Lm32
      /\ at'[v] \in {"idle", "probe"} => local'[v] = NewCall
      /\ at'[v] = "start" => local'[v] = [NewCall EXCEPT !.half = half(v)']
      /\ Starting(v)' => E = {} /\ mem'[0] = StartBlock[1]
  BY <1>1 DEF Caller
<1>4. ASSUME at'[v] = "climb"
      PROVE  /\ Place(v)' = level(v)' /\ (level(v)' \in E \/ Torn(v, level(v))')
             /\ half(v)' => /\ level(v)' \in E /\ local'[v].item[1][1] = TagOf(level(v))'
                            /\ local'[v].item[1][2] \in {0, Successor(level(v))'}
  <2>1. at[v] = "climb" /\ Place(v) = level(v) /\ (level(v) \in D \/ Torn(v, level(v)))
    BY <1>1, <1>4 DEF Caller
  <2>2. ASSUME half(v)
        PROVE  /\ level(v) \in E /\ local[v].item[1][1] = TagOf(level(v))'
               /\ local[v].item[1][2] \in {0, Successor(level(v))'}
    <3>1. /\ level(v) \in D /\ local[v].item[1][1] = TagOf(level(v))
          /\ local[v].item[1][2] \in {0, Successor(level(v))}
      BY <2>1, <2>2 DEF Caller
    <3>2. /\ TagOf(level(v))' = mem'[level(v)][1] /\ Successor(level(v))' = mem'[level(v)][2]
      BY <1>1 DEF TagOf, Successor
    <3>3. /\ mem'[level(v)][1] = TagOf(level(v))
          /\ Successor(level(v)) # 0 => mem'[level(v)][2] = Successor(level(v))
      BY <3>1 DEF TagOf, Successor
    <3>. QED
      BY <3>1, <3>2, <3>3
  <2>. QED
    BY <1>1, <2>1, <2>2
<1>5. ASSUME at'[v] \in {"link", "new"}
      PROVE  /\ local'[v].lastNext \in E /\ level(v)' = End(local[v].lastNext)'
             /\ level(v)' + MMU_ITEMSIZE + request(v)'.len < MaxCapacity
  BY <1>1, <1>2, <1>5 DEF Caller, End
<1>6. ASSUME at'[v] = "link"
      PROVE  /\ local'[v].item[1][1] = TagOf(local[v].lastNext)'
             /\ local'[v].item[2] = mem'[local[v].lastNext + 1]
  BY <1>1, <1>6 DEF Caller, TagOf
<1>7. Pending(v)' => Successor(local[v].lastNext)' = level(v)' /\ level(v)' \notin E
  BY <1>1 DEF Caller, Pending, Successor
<1>8. at'[v] = "new" /\ half(v)' => mem'[level(v)'] = NewItem(v)'[1]
  BY <1>1 DEF Caller
<1>9. ASSUME at'[v] \in {"climb", "link", "new"}, NEW d \in E \ {0}, d < level(v)'
      PROVE  TagOf(d)' # request(v)'.tag
  <2>1. at[v] \in {"climb", "link", "new"} /\ d < level(v)
    BY <1>1, <1>9
  <2>2. CASE d \in D
    BY <1>1, <1>9, <2>1, <2>2 DEF Caller
  <2>3. CASE d \notin D
    BY <1>1, <1>9, <2>1, <2>3
  <2>. QED
    BY <2>2, <2>3
<1>. QED
  BY <1>1, <1>3, <1>4, <1>5, <1>6, <1>7, <1>8, <1>9
     DEF Caller, TagOf, Successor, End

\* A step that writes nothing to the RAM.
LEMMA NothingWritten ==
  ASSUME TypeOK, NEW D, List(D), NEW u \in User, Own(u), mem' = mem,
         ~Starting(u), ~Starting(u)', ~Pending(u), ~Pending(u)',
         areas' \subseteq areas \cup {AreaOf(d) : d \in D \ {0}},
         Caller(u, D)'
  PROVE  List(D)'
<1>1. /\ \A d : End(d)' = End(d) /\ Successor(d)' = Successor(d) /\ TagOf(d)' = TagOf(d)
      /\ \A d : AreaOf(d)' = AreaOf(d)
      /\ mmuIsPresent' <=> mmuIsPresent
  BY DEF End, Successor, TagOf, AreaOf, mmuIsPresent
<1>2. \A v \in User : /\ Starting(v)' <=> Starting(v)
                      /\ Pending(v)' <=> Pending(v)
                      /\ Pending(v) => local'[v].lastNext = local[v].lastNext
  BY OthersKept
<1>3. Chain(D)'
  <2>1. Chain(D)
    BY DEF List
  <2>2. ASSUME NEW d \in D
        PROVE  (\E v \in User : Pending(v) /\ local[v].lastNext = d)
                  => \E v \in User : Pending(v)' /\ local'[v].lastNext = d
    BY <1>2
  <2>3. (\E v \in User : Starting(v)) <=> \E v \in User : Starting(v)'
    BY <1>2
  <2>. QED
    BY <1>1, <2>1, <2>2, <2>3 DEF Chain
<1>4. Listed(D)'
  BY <1>1 DEF List, Listed
<1>5. ASSUME NEW v \in User \ {u}, Torn(v, level(v)) PROVE Torn(v, level(v))'
  <2>1. PICK w \in User \ {v} : Unfinished(w, level(v))
    BY <1>5 DEF Torn
  <2>2. w # u
    BY <2>1, UnfinishedIs
  <2>3. Unfinished(w, level(v))'
    BY <2>1, <2>2, OthersKept DEF Unfinished
  <2>. QED
    BY <2>1, <2>3 DEF Torn
<1>6. ASSUME NEW v \in User \ {u} PROVE Caller(v, D)'
  <2>1. Caller(v, D)
    BY DEF List
  <2>2. Pending(v) => level(v) \notin D /\ Successor(local[v].lastNext) # 0
    <3>1. Pending(v) => /\ level(v) \notin D /\ Successor(local[v].lastNext) = level(v)
                        /\ local[v].lastNext \in D /\ level(v) = End(local[v].lastNext)
      BY <2>1 DEF Caller, Pending
    <3>2. Chain(D)
      BY DEF List
    <3>3. \A d \in D : End(d) # 0
      BY <3>2, InRam, Constants
    <3>. QED
      BY <3>1, <3>3
  <2>3. Starting(v) => D = {}
    BY <2>1 DEF Caller
  <2>. QED
    BY <1>1, <1>5, <2>1, <2>2, <2>3, CallerKept
<1>7. \A v \in User : Caller(v, D)'
  BY <1>6
<1>8. \A v, w \in User : Pending(v)' /\ Pending(w)' => v = w
  BY <1>2 DEF List
<1>. QED
  BY <1>3, <1>4, <1>7, <1>8 DEF List

-----------------------------------------------------------------------------
(* The steps that only read *)

LEMMA CallKeeps ==
  ASSUME TypeOK, NEW D, List(D), NEW u \in User, Call(u), UNCHANGED <<restarts, deletes>>
  PROVE  TypeOK' /\ List(D)'
<1>1. /\ at[u] = "idle" /\ at'[u] = "probe" /\ step[u] <= Len(Script[u])
      /\ local'[u] = local[u] /\ step'[u] = step[u] /\ Own(u)
      /\ UNCHANGED <<mem, areas, spoilt>>
  BY Owned DEF Call, Own
<1>2. local[u] = NewCall
  BY <1>1 DEF List, Caller
<1>3. TypeOK'
  <2>1. /\ at'[u] \in AtPlace /\ local'[u] \in CallType /\ step'[u] \in 1 .. Len(Script[u]) + 1
        /\ step'[u] <= Len(Script[u])
    BY <1>1, UserTypes DEF AtPlace
  <2>2. /\ mem' \in [Address -> Word] /\ restarts' \in 0 .. MaxRestarts /\ deletes' \in 0 .. MaxDeletes
        /\ areas' \subseteq [tag : Tag, start : Half, length : 0 .. MaxCapacity]
    BY <1>1 DEF TypeOK
  <2>3. spoilt' \in BOOLEAN
    BY <1>1 DEF TypeOK
  <2>. QED
    BY <1>1, <2>1, <2>2, <2>3, OwnTyped
<1>4. ~Starting(u) /\ ~Starting(u)' /\ ~Pending(u) /\ ~Pending(u)' /\ half(u)' = FALSE
  BY <1>1, <1>2, Numbers DEF Starting, Pending, half
<1>5. Caller(u, D)'
  BY <1>1, <1>2, <1>4 DEF Caller
<1>6. List(D)'
  BY <1>1, <1>4, <1>5, NothingWritten
<1>. QED
  BY <1>3, <1>6

\* A call returns, or is ended.
LEMMA ReturnKeeps ==
  ASSUME TypeOK, NEW D, List(D), NEW u \in User, Own(u), mem' = mem,
         at'[u] = "idle", local'[u] = NewCall, step'[u] \in 1 .. Len(Script[u]) + 1,
         ~Starting(u), ~Pending(u),
         areas' \subseteq areas \cup {AreaOf(d) : d \in D \ {0}},
         restarts' \in 0 .. MaxRestarts, deletes' \in 0 .. MaxDeletes, ~spoilt'
  PROVE  /\ at'[u] \in AtPlace /\ local'[u] \in CallType /\ mem' \in [Address -> Word]
         /\ List(D)'
<1>1. at'[u] \in AtPlace /\ local'[u] \in CallType /\ mem' \in [Address -> Word]
  BY Numbers DEF AtPlace, TypeOK
<1>2. ~Starting(u)' /\ ~Pending(u)' /\ half(u)' = FALSE
  BY Numbers DEF Starting, Pending, half
<1>3. Caller(u, D)'
  BY <1>2 DEF Caller
<1>4. List(D)'
  BY <1>2, <1>3, NothingWritten
<1>. QED
  BY <1>1, <1>4

LEMMA ProbeKeeps ==
  ASSUME TypeOK, NEW D, List(D), NEW u \in User, Probe(u), UNCHANGED <<restarts, deletes>>, ~spoilt'
  PROVE  TypeOK' /\ List(D)'
<1>1. /\ at[u] = "probe" /\ UNCHANGED <<mem, areas, spoilt>>
  BY DEF Probe
<1>2. local[u] = NewCall /\ half(u) = FALSE /\ ~Starting(u) /\ ~Pending(u)
  BY <1>1, Numbers DEF List, Caller, half, Starting, Pending
<1>3. /\ mem' \in [Address -> Word] /\ restarts' \in 0 .. MaxRestarts /\ deletes' \in 0 .. MaxDeletes
      /\ areas' \subseteq [tag : Tag, start : Half, length : 0 .. MaxCapacity]
  BY <1>1 DEF TypeOK
<1>4. spoilt' \in BOOLEAN
  BY <1>1 DEF TypeOK
<1>5. CASE ~mmuIsPresent /\ ~request(u).create
  <2>1. Return(u)
    BY <1>5 DEF Probe
  <2>2. at'[u] = "idle" /\ local'[u] = NewCall /\ step'[u] = step[u] + 1 /\ Own(u)
    BY <2>1, Owned DEF Return, Own
  <2>3. step'[u] \in 1 .. Len(Script[u]) + 1
    <3>1. step[u] \in 1 .. Len(Script[u]) + 1 /\ Len(Script[u]) \in Nat
      BY UserTypes
    <3>2. step[u] <= Len(Script[u])
      BY <1>1 DEF TypeOK
    <3>. QED
      BY <2>2, <3>1, <3>2
  <2>4. /\ at'[u] \in AtPlace /\ local'[u] \in CallType /\ List(D)'
    BY <1>1, <1>2, <1>3, <2>2, <2>3, ReturnKeeps
  <2>. QED
    BY <1>3, <1>4, <2>2, <2>3, <2>4, OwnTyped
<1>6. CASE ~(~mmuIsPresent /\ ~request(u).create)
  <2>1. /\ at'[u] = IF mmuIsPresent THEN "climb" ELSE "start"
        /\ local'[u] = local[u] /\ step'[u] = step[u] /\ Own(u)
    BY <1>6, Owned DEF Probe, Own
  <2>2. ~Starting(u)' /\ ~Pending(u)' /\ half(u)' = FALSE /\ level(u)' = 0 /\ Place(u)' = 0
    BY <1>2, <2>1, Numbers DEF Starting, Pending, half, level, Place
  <2>3. ASSUME mmuIsPresent PROVE 0 \in D \/ Torn(u, 0)'
    <3>1. 0 \in D \/ \E v \in User : Starting(v)
      BY <2>3 DEF List, Chain
    <3>2. ASSUME NEW v \in User, Starting(v) PROVE Torn(u, 0)'
      <4>1. v # u
        BY <1>2, <3>2
      <4>2. Starting(v)'
        BY <2>1, <3>2, <4>1, OthersKept
      <4>. QED
        BY <4>1, <4>2 DEF Torn, Unfinished, Starting
    <3>. QED
      BY <3>1, <3>2
  <2>4. \A d \in D \ {0} : ~(d < 0)
    BY Constants DEF List, Chain, Address
  <2>5. Torn(u, level(u))' <=> Torn(u, 0)'
    BY <2>2 DEF Torn, Unfinished
  <2>6. Caller(u, D)'
    <3>1. CASE mmuIsPresent
      BY <1>2, <2>1, <2>2, <2>3, <2>4, <2>5, <3>1 DEF Caller
    <3>2. CASE ~mmuIsPresent
      <4>1. local'[u] = [NewCall EXCEPT !.half = half(u)']
        <5>1. [NewCall EXCEPT !.half = FALSE] = NewCall
          BY Numbers DEF CallType
        <5>. QED
          BY <1>2, <2>1, <2>2, <5>1
      <4>. QED
        BY <2>1, <2>2, <3>2, <4>1 DEF Caller
    <3>. QED
      BY <3>1, <3>2
  <2>7. List(D)'
    BY <1>1, <1>2, <2>1, <2>2, <2>6, NothingWritten
  <2>8. /\ at'[u] \in AtPlace /\ local'[u] \in CallType /\ step'[u] \in 1 .. Len(Script[u]) + 1
        /\ step'[u] <= Len(Script[u])
    BY <1>1, <2>1, UserTypes DEF AtPlace, TypeOK
  <2>. QED
    BY <1>3, <1>4, <2>1, <2>7, <2>8, OwnTyped
<1>. QED
  BY <1>5, <1>6

\* Where a call climbs to there is a descriptor, when nobody is about to write it.
LEMMA ClimbsInList ==
  ASSUME TypeOK, NEW D, List(D), NEW u \in User, at[u] = "climb", ~Torn(u, Place(u))
  PROVE  /\ Place(u) = level(u) /\ level(u) \in D
         /\ level(u) \in Nat /\ level(u) \in Address /\ level(u) + 1 \in Address
         /\ mem[level(u)] \in Word /\ mem[level(u) + 1] \in Word
         /\ ~Starting(u) /\ ~Pending(u)
<1>1. Place(u) = level(u) /\ level(u) \in D
  BY DEF List, Caller
<1>. QED
  BY <1>1, InRam DEF List, Starting, Pending

LEMMA ReadFirstKeeps ==
  ASSUME TypeOK, NEW D, List(D), NEW u \in User, ReadFirst(u), UNCHANGED <<restarts, deletes>>,
         ~spoilt'
  PROVE  TypeOK' /\ List(D)'
<1> DEFINE address == iNext(local[u].item)
           new == [local[u] EXCEPT !.half = TRUE, !.lastNext = address,
                                   !.item = <<mem[address], local[u].item[2]>>]
<1>1. /\ at[u] = "climb" /\ u = Lm32 /\ ~half(u) /\ UNCHANGED <<mem, at, step, areas>>
      /\ Place(u) = address
  BY DEF ReadFirst, Place
<1>2. local' = [local EXCEPT ![u] = new]
  <2>1. local \in [User -> CallType] /\ local[u] \in CallType
    BY DEF TypeOK, CallType
  <2>2. local' = [local EXCEPT ![u].half = TRUE, ![u].lastNext = address,
                                ![u].item = <<mem[address], @[2]>>]
    BY DEF ReadFirst
  <2>. QED
    BY <2>1, <2>2 DEF CallType
<1>3. ~Torn(u, address) /\ ~spoilt
  BY DEF ReadFirst
<1>4. /\ address = level(u) /\ level(u) \in D
      /\ level(u) \in Address /\ mem[level(u)] \in Word
      /\ ~Starting(u) /\ ~Pending(u)
  BY <1>1, <1>3, ClimbsInList
<1>5. local[u] \in CallType
  BY UserTypes
<1>6. /\ new \in CallType
      /\ new.half = TRUE /\ new.lastNext = address /\ new.level = level(u)
      /\ new.item = <<mem[address], local[u].item[2]>>
  BY <1>4, <1>5 DEF CallType, level
<1>7. local'[u] = new /\ at'[u] = "climb" /\ step'[u] = step[u] /\ Own(u)
  <2>. HIDE DEF new
  <2>. QED
    BY <1>1, <1>2, Owned DEF Own
<1>. HIDE DEF new
<1>8. /\ ~Starting(u)' /\ ~Pending(u)' /\ half(u)' = TRUE /\ level(u)' = level(u)
      /\ Place(u)' = level(u)
  BY <1>4, <1>6, <1>7 DEF Starting, Pending, half, level, Place
<1>9. TagOf(level(u))' = TagOf(level(u)) /\ Successor(level(u))' = Successor(level(u))
  BY <1>1, <1>8 DEF TagOf, Successor
<1>10. /\ local'[u].item[1][1] = TagOf(level(u)) /\ local'[u].item[1][2] = Successor(level(u))
  BY <1>4, <1>6, <1>7 DEF TagOf, Successor
<1>11. \A d \in D \ {0} : d < level(u) => TagOf(d)' # request(u)'.tag
  BY <1>1 DEF List, Caller, TagOf, request
<1>12. Caller(u, D)'
  BY <1>1, <1>4, <1>7, <1>8, <1>9, <1>10, <1>11 DEF Caller
<1>13. List(D)'
  BY <1>1, <1>4, <1>7, <1>8, <1>12, NothingWritten
<1>14. /\ mem' \in [Address -> Word] /\ restarts' \in 0 .. MaxRestarts /\ deletes' \in 0 .. MaxDeletes
       /\ areas' \subseteq [tag : Tag, start : Half, length : 0 .. MaxCapacity]
  BY <1>1 DEF TypeOK
<1>15. spoilt' \in BOOLEAN
  <2>1. spoilt' = (spoilt \/ Torn(u, address))
    BY Zenon DEF ReadFirst
  <2>. QED
    BY <2>1, Zenon
<1>16. /\ at'[u] \in AtPlace /\ local'[u] \in CallType /\ step'[u] \in 1 .. Len(Script[u]) + 1
       /\ step'[u] <= Len(Script[u])
  BY <1>1, <1>6, <1>7, UserTypes DEF AtPlace, TypeOK
<1>. QED
  BY <1>7, <1>13, <1>14, <1>15, <1>16, OwnTyped

\* The tag of the descriptor that a call has passed is not the one that it looks for.
LEMMA TagsPassed ==
  ASSUME TypeOK, NEW D, Chain(D), NEW d \in D, NEW tag,
         \A e \in D \ {0} : e < d => TagOf(e) # tag,
         d # 0 => TagOf(d) # tag
  PROVE  \A e \in D \ {0} : e < End(d) => TagOf(e) # tag
<1>. SUFFICES ASSUME NEW e \in D \ {0}, e < End(d) PROVE TagOf(e) # tag
  OBVIOUS
<1>1. d \in Nat /\ e \in Nat /\ End(d) \in Nat
  BY InRam
<1>2. ~(d < e)
  BY <1>1 DEF Chain
<1>. QED
  BY <1>1, <1>2

LEMMA ReadRestKeeps ==
  ASSUME TypeOK, NEW D, List(D), NEW u \in User, ReadRest(u), UNCHANGED <<restarts, deletes>>,
         ~spoilt'
  PROVE  TypeOK' /\ List(D)'
<1> DEFINE d == level(u)
           i == <<IF half(u) THEN local[u].item[1] ELSE mem[Place(u)], mem[Place(u) + 1]>>
           top == (d + MMU_ITEMSIZE + length(i)) % SizeMod
           goOn == iNext(i) # 0 \/ (request(u).create /\ Fits(u, top))
           new == [half |-> FALSE, item |-> i, lastNext |-> Place(u), level |-> top]
<1>1. /\ at[u] = "climb" /\ mem' = mem /\ ~Torn(u, Place(u)) /\ ~spoilt
      /\ IF Found(u, i) \/ ~goOn
         THEN Return(u)
         ELSE /\ Goto(u, IF iNext(i) # 0 THEN "climb" ELSE "link")
              /\ local' = [local EXCEPT ![u] = new]
              /\ UNCHANGED step
      /\ areas' = IF Found(u, i) THEN areas \cup {Granted(u, i)} ELSE areas
  BY Zenon DEF ReadRest, Place
<1>2. /\ Place(u) = d /\ d \in D /\ d \in Nat /\ d \in Address /\ d + 1 \in Address
      /\ mem[d] \in Word /\ mem[d + 1] \in Word
      /\ ~Starting(u) /\ ~Pending(u)
  <2>. HIDE DEF d
  <2>. QED
    BY <1>1, ClimbsInList DEF d
<1>3. /\ i \in Word \X Word /\ i[2] = mem[d + 1]
      /\ i[1][1] = TagOf(d) /\ i[1][2] \in {0, Successor(d)}
  <2>1. CASE half(u)
    <3>1. local[u].item[1] \in Word
      BY UserTypes DEF CallType
    <3>2. local[u].item[1][1] = TagOf(d) /\ local[u].item[1][2] \in {0, Successor(d)}
      BY <1>1, <2>1 DEF List, Caller
    <3>. QED
      BY <1>2, <2>1, <3>1, <3>2
  <2>2. CASE ~half(u)
    BY <1>2, <2>2 DEF TagOf, Successor
  <2>. QED
    BY <2>1, <2>2
<1>4. /\ length(i) = mem[d + 1][2] /\ iStart(i) = mem[d + 1][1] /\ iNext(i) = i[1][2]
  BY <1>3 DEF length, iStart, iNext
<1>5. Chain(D)
  BY DEF List
<1>6. /\ mem[d + 1][2] \in 0 .. MaxCapacity /\ End(d) \in Nat /\ End(d) <= MaxCapacity
      /\ d + MMU_ITEMSIZE <= End(d)
  BY <1>2, <1>5, InRam
<1>7. top = End(d)
  <2>1. d + MMU_ITEMSIZE + length(i) = End(d)
    BY <1>4 DEF End
  <2>2. End(d) % SizeMod = End(d)
    BY <1>6, Constants
  <2>. QED
    BY <2>1, <2>2
<1>8. /\ mem' \in [Address -> Word] /\ restarts' \in 0 .. MaxRestarts /\ deletes' \in 0 .. MaxDeletes
      /\ spoilt' \in BOOLEAN
  <2>1. spoilt' \in BOOLEAN
    <3>1. (~spoilt') = TRUE \/ spoilt' \in BOOLEAN
      OBVIOUS
    <3>. QED
      BY Zenon DEF ReadRest
  <2>. QED
    BY <1>1, <2>1 DEF TypeOK
<1>9. /\ Found(u, i) => d # 0 /\ Granted(u, i) = AreaOf(d)
      /\ areas' \subseteq [tag : Tag, start : Half, length : 0 .. MaxCapacity]
  <2>1. ASSUME Found(u, i)
        PROVE  /\ d # 0 /\ Granted(u, i) = AreaOf(d)
               /\ AreaOf(d) \in [tag : Tag, start : Half, length : 0 .. MaxCapacity]
    <3>1. d # 0 /\ request(u).tag = TagOf(d)
      BY <1>3, <2>1 DEF Found
    <3>2. TagOf(d) \in Tag /\ mem[d + 1][1] = d + MMU_ITEMSIZE
      BY <1>2, <1>5, <3>1 DEF Chain
    <3>3. d + MMU_ITEMSIZE \in Half
      BY <1>2, <1>6, Constants DEF Half
    <3>. QED
      BY <1>4, <1>6, <3>1, <3>2, <3>3 DEF Granted, AreaOf
  <2>. QED
    BY <1>1, <2>1 DEF TypeOK
<1>10. areas' \subseteq areas \cup {AreaOf(e) : e \in D \ {0}}
  BY <1>1, <1>2, <1>9
<1>11. CASE Found(u, i) \/ ~goOn
  <2>1. at'[u] = "idle" /\ local'[u] = NewCall /\ step'[u] = step[u] + 1 /\ Own(u)
    <3>1. Return(u)
      BY <1>1, <1>11
    <3>. QED
      BY <3>1, Owned DEF Return, Own
  <2>2. step'[u] \in 1 .. Len(Script[u]) + 1
    <3>1. step[u] \in 1 .. Len(Script[u]) + 1 /\ Len(Script[u]) \in Nat
      BY UserTypes
    <3>2. step[u] <= Len(Script[u])
      BY <1>1 DEF TypeOK
    <3>. QED
      BY <2>1, <3>1, <3>2
  <2>3. at'[u] \in AtPlace /\ local'[u] \in CallType /\ List(D)'
    BY <1>1, <1>2, <1>8, <1>10, <2>1, <2>2, ReturnKeeps
  <2>. QED
    BY <1>8, <1>9, <2>1, <2>2, <2>3, OwnTyped
<1>12. CASE ~(Found(u, i) \/ ~goOn)
  <2>1. /\ at'[u] = IF iNext(i) # 0 THEN "climb" ELSE "link"
        /\ local'[u] = new /\ step'[u] = step[u] /\ Own(u)
    <3>1. /\ Goto(u, IF iNext(i) # 0 THEN "climb" ELSE "link")
          /\ local' = [local EXCEPT ![u] = new]
          /\ UNCHANGED step
      BY <1>1, <1>12
    <3>. HIDE DEF new, i
    <3>. QED
      BY <3>1, Owned DEF Own
  <2>2. request(u)' = request(u)
    BY <2>1 DEF request
  <2>3. /\ half(u)' = FALSE /\ level(u)' = End(d) /\ local'[u].lastNext = d /\ local'[u].item = i
        /\ Place(u)' = iNext(i)
    BY <1>2, <1>7, <2>1 DEF half, level, Place
  <2>4. ~Starting(u)' /\ ~Pending(u)'
    BY <2>1, <2>3 DEF Starting, Pending
  <2>5. \A e \in D \ {0} : e < End(d) => TagOf(e)' # request(u)'.tag
    <3>1. \A e \in D \ {0} : e < d => TagOf(e) # request(u).tag
      BY <1>1 DEF List, Caller
    <3>2. d # 0 => TagOf(d) # request(u).tag
      BY <1>3, <1>12 DEF Found
    <3>3. \A e \in D \ {0} : e < End(d) => TagOf(e) # request(u).tag
      BY <1>2, <1>5, <3>1, <3>2, TagsPassed
    <3>. QED
      BY <1>1, <2>2, <3>3 DEF TagOf
  <2> PICK e : e = End(d)
    OBVIOUS
  <2>6. ASSUME iNext(i) # 0
        PROVE  iNext(i) = e /\ (e \in D \/ Torn(u, e)')
    <3>1. Successor(d) # 0 /\ iNext(i) = Successor(d) /\ Successor(d) = End(d)
      BY <1>2, <1>3, <1>4, <1>5, <2>6 DEF Chain
    <3>2. End(d) \in D \/ \E v \in User : Pending(v) /\ local[v].lastNext = d
      BY <1>2, <1>5, <3>1 DEF Chain
    <3>3. ASSUME NEW v \in User, Pending(v), local[v].lastNext = d PROVE Torn(u, e)'
      <4>1. v # u
        BY <1>2, <3>3
      <4>2. level(v) = e
        BY <3>3 DEF List, Caller, Pending
      <4>3. Pending(v)' /\ level(v)' = level(v)
        BY <2>1, <3>3, <4>1, OthersKept
      <4>4. Unfinished(v, e)'
        BY <4>2, <4>3 DEF Unfinished, Pending
      <4>. QED
        BY <4>1, <4>4 DEF Torn
    <3>. QED
      BY <3>1, <3>2, <3>3
  <2>7. ASSUME iNext(i) = 0 PROVE End(d) + MMU_ITEMSIZE + request(u).len < MaxCapacity
    <3>1. (End(d) + request(u).len + MMU_ITEMSIZE) % SizeMod < MaxCapacity
      BY <1>7, <1>12, <2>7 DEF Fits
    <3>2. request(u).len \in Nat /\ MaxCapacity + request(u).len + MMU_ITEMSIZE < SizeMod
      BY <1>1, RequestIs, Constants
    <3>3. \A m, n, k \in Nat : m <= MaxCapacity /\ MaxCapacity + n + 2 < k
             => (m + n + 2) % k = m + n + 2
      BY Constants
    <3>4. End(d) + request(u).len + 2 < MaxCapacity
      BY <1>6, <3>1, <3>2, <3>3, Constants
    <3>. HIDE DEF d
    <3>. QED
      BY <1>6, <3>2, <3>4, Constants
  <2>8. Caller(u, D)'
    <3>1. ASSUME iNext(i) # 0 PROVE Place(u)' = level(u)' /\ (level(u)' \in D \/ Torn(u, level(u))')
      <4>1. Place(u)' = e /\ level(u)' = e /\ (e \in D \/ Torn(u, e)')
        BY <2>3, <2>6, <3>1
      <4>. QED
        BY <4>1 DEF Torn, Unfinished
    <3>2. CASE iNext(i) # 0
      BY <2>1, <2>3, <2>4, <2>5, <3>1, <3>2 DEF Caller
    <3>3. CASE iNext(i) = 0
      <4>1. /\ local'[u].lastNext \in D /\ level(u)' = End(local[u].lastNext)'
            /\ level(u)' + MMU_ITEMSIZE + request(u)'.len < MaxCapacity
        BY <1>1, <1>2, <2>2, <2>3, <2>7, <3>3 DEF End
      <4>2. /\ local'[u].item[1][1] = TagOf(local[u].lastNext)'
            /\ local'[u].item[2] = mem'[local'[u].lastNext + 1]
        BY <1>1, <1>3, <2>3 DEF TagOf
      <4>. QED
        BY <2>1, <2>3, <2>4, <2>5, <3>3, <4>1, <4>2 DEF Caller
    <3>. QED
      BY <3>2, <3>3
  <2>9. List(D)'
    BY <1>1, <1>2, <1>10, <2>1, <2>4, <2>8, NothingWritten
  <2>10. /\ at'[u] \in AtPlace /\ local'[u] \in CallType /\ step'[u] \in 1 .. Len(Script[u]) + 1
         /\ step'[u] <= Len(Script[u])
    <3>1. new \in CallType
      BY <1>2, <1>3, <1>6, <1>7, Constants DEF CallType
    <3>. QED
      BY <1>1, <2>1, <3>1, UserTypes DEF AtPlace, TypeOK
  <2>. QED
    BY <1>8, <1>9, <2>1, <2>9, <2>10, OwnTyped
<1>. QED
  BY <1>11, <1>12

-----------------------------------------------------------------------------
(* Restarts and the start block *)

\* A reset or a restart: the call was not in the middle of a change.
LEMMA RestartKeeps ==
  ASSUME TypeOK, NEW D, List(D), NEW u \in User, Restart(u), ~spoilt'
  PROVE  TypeOK' /\ List(D)'
<1>1. /\ at'[u] = "idle" /\ local'[u] = NewCall /\ step'[u] = 1 /\ Own(u)
      /\ mem' = mem /\ areas' = areas
  BY Owned DEF Restart, Own
<1>2. ~ \E a \in Address : Unfinished(u, a)
  BY Zenon DEF Restart
<1>3. ~Starting(u)
  BY <1>2, Constants, UnfinishedIs
<1>4. ~Pending(u)
  <2>. SUFFICES ASSUME Pending(u) PROVE FALSE
    OBVIOUS
  <2>1. level(u) \in Nat /\ request(u).len \in Nat /\ level(u) + MMU_ITEMSIZE + request(u).len < MaxCapacity
    <3>1. at[u] \in {"link", "new"} /\ Caller(u, D)
      BY DEF Pending, List
    <3>2. at[u] # "idle" /\ request(u).len \in Nat
      BY <3>1, RequestIs
    <3>. QED
      BY <3>1, <3>2, UserTypes DEF Caller
  <2>2. level(u) \in Address
    BY <2>1, Constants DEF Address
  <2>. QED
    BY <1>2, <2>2, UnfinishedIs
<1>5. /\ restarts' \in 0 .. MaxRestarts /\ deletes' \in 0 .. MaxDeletes /\ spoilt' \in BOOLEAN
  <2>1. restarts' \in 0 .. MaxRestarts /\ deletes' = deletes
    BY MmuAssumption DEF Restart, TypeOK
  <2>2. spoilt' \in BOOLEAN
    BY Zenon DEF Restart
  <2>. QED
    BY <2>1, <2>2 DEF TypeOK
<1>6. step'[u] \in 1 .. Len(Script[u]) + 1
  BY <1>1, UserTypes
<1>7. at'[u] \in AtPlace /\ local'[u] \in CallType /\ mem' \in [Address -> Word] /\ List(D)'
  BY <1>1, <1>3, <1>4, <1>5, <1>6, ReturnKeeps
<1>8. areas' \subseteq [tag : Tag, start : Half, length : 0 .. MaxCapacity]
  BY <1>1 DEF TypeOK
<1>. QED
  BY <1>1, <1>5, <1>6, <1>7, <1>8, OwnTyped

\* Before there is a list no call climbs but on a start block in the making.
LEMMA NoList ==
  ASSUME TypeOK, List({}), NEW v \in User
  PROVE  /\ areas = {} /\ ~Pending(v) /\ at[v] \notin {"link", "new"}
         /\ at[v] = "climb" => level(v) = 0 /\ \E w \in User \ {v} : Starting(w)
<1>1. areas = {}
  BY DEF List, Listed
<1>2. \A w \in User : ~Pending(w) /\ at[w] \notin {"link", "new"}
  BY DEF List, Caller, Pending
<1>3. ASSUME at[v] = "climb" PROVE level(v) = 0 /\ \E w \in User \ {v} : Starting(w)
  <2>1. Torn(v, level(v))
    BY <1>3 DEF List, Caller
  <2>2. PICK w \in User \ {v} : Unfinished(w, level(v))
    BY <2>1 DEF Torn
  <2>. QED
    BY <1>2, <2>2, UnfinishedIs
<1>. QED
  BY <1>1, <1>2, <1>3

\* The start block is written when there is none, and only by one call.
LEMMA StartIsFirst ==
  ASSUME TypeOK, NEW D, List(D), NEW u \in User, WriteStart(u), ~spoilt'
  PROVE  /\ at[u] = "start" /\ D = {} /\ ~Pending(u)
         /\ \A v \in User \ {u} : ~Starting(v)
         /\ half(u) => mem[0] = StartBlock[1]
<1>1. at[u] = "start" /\ (half(u) \/ ~mmuIsPresent)
  BY DEF WriteStart
<1>2. CASE half(u)
  BY <1>1, <1>2 DEF List, Caller, Starting, Pending
<1>3. CASE ~mmuIsPresent /\ ~half(u)
  BY <1>1, <1>3 DEF List, Chain, Pending
<1>. QED
  BY <1>1, <1>2, <1>3

LEMMA StartFirstKeeps ==
  ASSUME TypeOK, List({}), NEW u \in User, WriteStart(u), WriteFirst(u, 0, StartBlock),
         UNCHANGED <<restarts, deletes>>, ~spoilt'
  PROVE  TypeOK' /\ List({})'
<1>1. /\ at[u] = "start" /\ ~Pending(u) /\ u = Lm32 /\ ~half(u)
      /\ \A v \in User \ {u} : ~Starting(v)
      /\ UNCHANGED <<at, step, areas>>
  BY StartIsFirst DEF WriteFirst, WriteStart
<1>2. mem' = [mem EXCEPT ![0] = <<Magic, 0>>] /\ mem'[0] = <<Magic, 0>>
  BY Numbers, Constants DEF WriteFirst, TypeOK
<1>3. /\ Own(u) /\ at'[u] = "start" /\ step'[u] = step[u]
      /\ local'[u] = [local[u] EXCEPT !.half = TRUE] /\ half(u)' = TRUE /\ level(u)' = level(u)
  BY <1>1, Owned, HalfSet DEF WriteFirst, Own
<1>4. local'[u] = [NewCall EXCEPT !.half = TRUE] /\ local'[u] \in CallType
  <2>1. local[u] = [NewCall EXCEPT !.half = half(u)]
    BY <1>1 DEF List, Caller
  <2>. QED
    BY <1>3, <2>1, Numbers DEF CallType
<1>5. Starting(u)' /\ ~Pending(u)'
  BY <1>3 DEF Starting, Pending
<1>6. \A v \in User : ~Pending(v)'
  BY <1>3, <1>5, NoList, OthersKept
<1>7. Chain({})'
  BY <1>2, <1>5 DEF Chain, mmuIsPresent
<1>8. Listed({})'
  BY <1>1, NoList DEF Listed
<1>9. Caller(u, {})'
  BY <1>1, <1>2, <1>3, <1>4, <1>5, Numbers DEF Caller
<1>10. ASSUME NEW v \in User \ {u} PROVE Caller(v, {})'
  <2>1. Caller(v, {}) /\ at[v] \notin {"climb", "link", "new"} /\ ~Pending(v) /\ ~Starting(v)
    <3>1. \A w \in User \ {v} : ~Starting(w)
      BY <1>1 DEF Starting
    <3>. QED
      BY <1>1, <3>1, NoList DEF List
  <2>. QED
    BY <1>3, <2>1, CallerKept
<1>11. List({})'
  BY <1>6, <1>7, <1>8, <1>9, <1>10 DEF List
<1>12. /\ mem' \in [Address -> Word] /\ restarts' \in 0 .. MaxRestarts /\ deletes' \in 0 .. MaxDeletes
       /\ areas' \subseteq [tag : Tag, start : Half, length : 0 .. MaxCapacity]
  <2>1. <<Magic, 0>> \in Word
    BY Constants DEF Word, Half
  <2>. QED
    BY <1>1, <1>2, <2>1 DEF TypeOK
<1>13. spoilt' \in BOOLEAN
  BY Zenon DEF WriteStart
<1>14. /\ at'[u] \in AtPlace /\ step'[u] \in 1 .. Len(Script[u]) + 1 /\ step'[u] <= Len(Script[u])
  BY <1>1, <1>3, UserTypes DEF AtPlace, TypeOK
<1>. QED
  BY <1>3, <1>4, <1>11, <1>12, <1>13, <1>14, OwnTyped

LEMMA StartRestKeeps ==
  ASSUME TypeOK, List({}), NEW u \in User, WriteStart(u), WriteRest(u, 0, StartBlock),
         Goto(u, "climb"), local' = [local EXCEPT ![u].half = FALSE],
         UNCHANGED <<restarts, deletes>>, ~spoilt'
  PROVE  TypeOK' /\ List({0})'
<1>1. /\ at[u] = "start" /\ ~Pending(u) /\ (half(u) => mem[0] = <<Magic, 0>>)
      /\ \A v \in User \ {u} : ~Starting(v)
      /\ UNCHANGED <<step, areas>>
  BY StartIsFirst, Numbers DEF WriteStart
<1>2. <<Magic, 0>> \in Word /\ <<0, 0>> \in Word
  BY Constants DEF Word, Half
<1>3. mem' \in [Address -> Word] /\ mem'[0] = <<Magic, 0>> /\ mem'[1] = <<0, 0>>
  <2>1. mem \in [Address -> Word] /\ 0 + 1 = 1 /\ 0 # 1
    BY DEF TypeOK
  <2>2. CASE half(u)
    <3>1. mem' = [mem EXCEPT ![1] = <<0, 0>>]
      BY <2>2, Numbers DEF WriteRest
    <3>. QED
      BY <1>1, <1>2, <2>1, <2>2, <3>1, Constants
  <2>3. CASE ~half(u)
    <3>1. mem' = [mem EXCEPT ![0] = <<Magic, 0>>, ![1] = <<0, 0>>]
      BY <2>3, Numbers DEF WriteRest
    <3>. QED
      BY <1>2, <2>1, <3>1, Constants
  <2>. QED
    BY <2>2, <2>3
<1>4. /\ Own(u) /\ at'[u] = "climb" /\ step'[u] = step[u]
      /\ local'[u] = [local[u] EXCEPT !.half = FALSE] /\ half(u)' = FALSE /\ level(u)' = level(u)
  BY <1>1, Owned, HalfSet DEF Own
<1>5. local'[u] = NewCall
  <2>1. local[u] = [NewCall EXCEPT !.half = half(u)]
    BY <1>1 DEF List, Caller
  <2>. QED
    <3>1. \A r \in CallType : r = [half |-> r.half, item |-> r.item,
                                  lastNext |-> r.lastNext, level |-> r.level]
      BY DEF CallType
    <3>2. local'[u] \in CallType
      BY HalfSet
    <3>3. local[u].item = NewCall.item /\ local[u].lastNext = NewCall.lastNext /\ local[u].level = NewCall.level
      BY <2>1, Numbers DEF CallType
    <3>4. /\ local'[u].half = FALSE /\ local'[u].item = local[u].item
          /\ local'[u].lastNext = local[u].lastNext /\ local'[u].level = local[u].level
      BY HalfSet DEF half, level
    <3>. QED
      BY <3>1, <3>2, <3>3, <3>4, Numbers
<1>6. ~Starting(u)' /\ ~Pending(u)' /\ level(u)' = 0 /\ Place(u)' = 0
  BY <1>4, <1>5, Numbers DEF Starting, Pending, level, Place
<1>7. \A v \in User : ~Pending(v)'
  BY <1>4, <1>6, NoList, OthersKept
<1>8. /\ Successor(0)' = 0 /\ End(0)' = 2 /\ mmuIsPresent'
  BY <1>3, Constants DEF Successor, End, mmuIsPresent
<1>9. Chain({0})'
  BY <1>8, Constants DEF Chain
<1>10. Listed({0})'
  BY <1>1, NoList DEF Listed
<1>11. Caller(u, {0})'
  BY <1>4, <1>6 DEF Caller
<1>12. ASSUME NEW v \in User \ {u} PROVE Caller(v, {0})'
  <2>1. Caller(v, {}) /\ at[v] \notin {"link", "new"} /\ ~Pending(v) /\ ~Starting(v)
    BY <1>1, NoList DEF List
  <2>2. at[v] = "climb" => level(v) = 0
    BY NoList
  <2>. QED
    BY <1>4, <2>1, <2>2, CallerKept
<1>13. List({0})'
  BY <1>7, <1>9, <1>10, <1>11, <1>12 DEF List
<1>14. /\ restarts' \in 0 .. MaxRestarts /\ deletes' \in 0 .. MaxDeletes
       /\ areas' \subseteq [tag : Tag, start : Half, length : 0 .. MaxCapacity]
  BY <1>1 DEF TypeOK
<1>15. spoilt' \in BOOLEAN
  BY Zenon DEF WriteStart
<1>16. /\ at'[u] \in AtPlace /\ local'[u] \in CallType /\ step'[u] \in 1 .. Len(Script[u]) + 1
       /\ step'[u] <= Len(Script[u])
  BY <1>1, <1>4, <1>5, Numbers, UserTypes DEF AtPlace, TypeOK
<1>. QED
  BY <1>3, <1>4, <1>13, <1>14, <1>15, <1>16, OwnTyped

LEMMA WriteStartKeeps ==
  ASSUME TypeOK, NEW D, List(D), NEW u \in User, WriteStart(u), UNCHANGED <<restarts, deletes>>,
         ~spoilt'
  PROVE  TypeOK' /\ \E E : List(E)'
<1>1. List({})
  BY StartIsFirst
<1>2. \/ WriteFirst(u, 0, StartBlock)
      \/ /\ WriteRest(u, 0, StartBlock) /\ Goto(u, "climb")
         /\ local' = [local EXCEPT ![u].half = FALSE]
  BY DEF WriteStart
<1>. QED
  BY <1>1, <1>2, StartFirstKeeps, StartRestKeeps

-----------------------------------------------------------------------------
(* The link to a new descriptor *)

\* The descriptor that is about to get a successor is the last, and no other call links one.
LEMMA LinksLast ==
  ASSUME TypeOK, NEW D, List(D), NEW u \in User, Link(u), ~spoilt'
  PROVE  /\ at[u] = "link" /\ local[u].lastNext \in D /\ level(u) = End(local[u].lastNext)
         /\ level(u) \notin D /\ level(u) \in Nat /\ level(u) # 0
         /\ Successor(local[u].lastNext) = IF half(u) THEN level(u) ELSE 0
         /\ \A d \in D : d # local[u].lastNext =>
               /\ d + 1 < local[u].lastNext /\ End(d) <= local[u].lastNext
               /\ End(d) \in D /\ Successor(d) # 0
         /\ \A v \in User : ~Starting(v)
         /\ \A v \in User \ {u} : ~Pending(v)
<1> DEFINE l == local[u].lastNext
<1>1. at[u] = "link" /\ (half(u) \/ Successor(l) = 0)
  BY DEF Link, Successor
<1>2. l \in D /\ level(u) = End(l) /\ (half(u) => Successor(l) = level(u) /\ level(u) \notin D)
  BY <1>1 DEF List, Caller, Pending
<1>3. Chain(D)
  BY DEF List
<1>4. level(u) \in Nat /\ level(u) # 0 /\ l < level(u) /\ l \in Nat /\ \A d \in D : d \in Nat
  BY <1>2, <1>3, InRam, Constants
<1>5. Successor(l) = IF half(u) THEN level(u) ELSE 0
  BY <1>1, <1>2
<1>6. \A d \in D : d # l => d + 1 < l /\ End(d) <= l /\ End(d) \in D /\ Successor(d) # 0
  BY <1>2, <1>3, <1>5, LastIs
<1>7. level(u) \notin D
  <2>. SUFFICES ASSUME level(u) \in D PROVE FALSE
    OBVIOUS
  <2>1. level(u) # l
    BY <1>4
  <2>2. level(u) + 1 < l
    BY <1>6, <2>1
  <2>. QED
    BY <1>4, <2>2
<1>8. \A v \in User : ~Starting(v)
  BY <1>2 DEF List, Caller
<1>9. ASSUME NEW v \in User \ {u}, Pending(v) PROVE FALSE
  <2>1. /\ local[v].lastNext \in D /\ level(v) = End(local[v].lastNext)
        /\ Successor(local[v].lastNext) = level(v) /\ level(v) \notin D
    BY <1>9 DEF List, Caller, Pending
  <2>2. local[v].lastNext = l
    BY <1>6, <2>1
  <2>3. half(u)
    BY <1>1, <1>2, <1>4, <2>1, <2>2
  <2>. QED
    BY <1>1, <1>9, <2>3 DEF List, Pending
<1>. QED
  BY <1>1, <1>2, <1>4, <1>5, <1>6, <1>7, <1>8, <1>9

LEMMA LinkedKeeps ==
  ASSUME TypeOK, NEW D, List(D), NEW u \in User, Link(u), Own(u), ~spoilt',
         mem'[local[u].lastNext] = <<TagOf(local[u].lastNext), level(u)>>,
         \A a \in Address \ {local[u].lastNext} : mem'[a] = mem[a],
         at'[u] \in {"link", "new"}, at'[u] = "link" <=> half(u)', half(u)' => u = Lm32,
         level(u)' = level(u), step'[u] = step[u], areas' = areas,
         local'[u].lastNext = local[u].lastNext, local'[u].item = local[u].item
  PROVE  List(D)'
<1> DEFINE l == local[u].lastNext
<1>1. /\ at[u] = "link" /\ l \in D /\ level(u) = End(l)
      /\ level(u) \notin D /\ level(u) \in Nat /\ level(u) # 0
      /\ Successor(l) \in {0, level(u)}
      /\ \A d \in D : d # l => d + 1 < l /\ End(d) <= l /\ End(d) \in D /\ Successor(d) # 0
      /\ \A v \in User : ~Starting(v)
      /\ \A v \in User \ {u} : ~Pending(v)
  BY LinksLast
<1>2. Chain(D) /\ Caller(u, D)
  BY DEF List
<1>3. \A d \in D : /\ d \in Address /\ d + 1 \in Address /\ d \in Nat
                   /\ mem[d] \in Word /\ End(d) \in Nat /\ End(d) <= MaxCapacity
  BY <1>2, InRam
<1>4. PICK k : k = l
  OBVIOUS
<1>5. \A d \in D : /\ TagOf(d)' = TagOf(d) /\ mem'[d + 1] = mem[d + 1] /\ End(d)' = End(d)
                   /\ Successor(d)' = IF d = k THEN End(d) ELSE Successor(d)
  <2>. SUFFICES ASSUME NEW d \in D
                PROVE  /\ TagOf(d)' = TagOf(d) /\ mem'[d + 1] = mem[d + 1] /\ End(d)' = End(d)
                       /\ Successor(d)' = IF d = k THEN End(d) ELSE Successor(d)
    OBVIOUS
  <2>1. d + 1 # l
    BY <1>1, <1>3
  <2>2. mem'[d + 1] = mem[d + 1]
    BY <1>3, <2>1
  <2>3. CASE d = l
    BY <1>1, <1>4, <2>2, <2>3 DEF TagOf, Successor, End
  <2>4. CASE d # l
    <3>1. mem'[d] = mem[d]
      BY <1>3, <2>4
    <3>. QED
      BY <1>4, <2>2, <2>4, <3>1 DEF TagOf, Successor, End
  <2>. QED
    BY <2>3, <2>4
<1>6. /\ ~Starting(u)' /\ Pending(u)' /\ local'[u].lastNext = k
  BY <1>4 DEF Starting, Pending
<1>7. \A v \in User \ {u} : ~Starting(v)' /\ ~Pending(v)'
  BY <1>1, OthersKept
<1>8. mmuIsPresent' /\ D # {}
  <2>1. mmuIsPresent /\ 0 \in D
    BY <1>1, <1>2 DEF Chain
  <2>. QED
    BY <1>5, <2>1 DEF mmuIsPresent, TagOf
<1>9. Chain(D)'
  <2>1. \A d \in D : /\ Successor(d)' \in {0, End(d)'}
                     /\ Successor(d)' # 0 =>
                           End(d)' \in D \/ \E v \in User : Pending(v)' /\ local'[v].lastNext = d
    <3>. SUFFICES ASSUME NEW d \in D
                  PROVE  /\ Successor(d)' \in {0, End(d)'}
                         /\ Successor(d)' # 0 =>
                              End(d)' \in D \/ \E v \in User : Pending(v)' /\ local'[v].lastNext = d
      OBVIOUS
    <3>1. CASE d = k
      BY <1>5, <1>6, <3>1
    <3>2. CASE d # k
      BY <1>1, <1>2, <1>4, <1>5, <3>2 DEF Chain
    <3>. QED
      BY <3>1, <3>2
  <2>2. \A d \in D : /\ d + 1 \in Address /\ End(d)' <= MaxCapacity
                     /\ d # 0 => TagOf(d)' \in Tag /\ mem'[d + 1][1] = d + MMU_ITEMSIZE
    BY <1>2, <1>5 DEF Chain
  <2>3. \A c, d \in D : c < d => Successor(c)' # 0 /\ End(c)' \in D /\ End(c)' <= d
    <3>1. \A c, d \in D : c < d => c # k
      BY <1>1, <1>3, <1>4
    <3>. QED
      BY <1>2, <1>5, <3>1 DEF Chain
  <2>4. \A c, d \in D \ {0} : TagOf(c)' = TagOf(d)' => c = d
    BY <1>2, <1>5 DEF Chain
  <2>5. D \subseteq Address /\ 0 \in D
    BY <1>2, <1>8 DEF Chain
  <2>. QED
    BY <1>8, <2>1, <2>2, <2>3, <2>4, <2>5 DEF Chain
<1>10. Listed(D)'
  <2>1. \A d \in D : AreaOf(d)' = AreaOf(d)
    BY <1>5 DEF AreaOf
  <2>. QED
    BY <2>1 DEF List, Listed
<1>11. Caller(u, D)'
  <2>1. request(u)' = request(u)
    BY DEF request
  <2>2. /\ l \in D /\ level(u) = End(l) /\ level(u) + MMU_ITEMSIZE + request(u).len < MaxCapacity
        /\ local[u].item[1][1] = TagOf(l) /\ local[u].item[2] = mem[l + 1]
        /\ \A d \in D \ {0} : d < level(u) => TagOf(d) # request(u).tag
    BY <1>1, <1>2 DEF Caller
  <2>3. /\ End(local[u].lastNext)' = End(k) /\ TagOf(local[u].lastNext)' = TagOf(k)
        /\ Successor(local[u].lastNext)' = End(k)
        /\ mem'[local'[u].lastNext + 1] = mem[k + 1]
    <3>1. /\ End(local[u].lastNext)' = End(k)' /\ TagOf(local[u].lastNext)' = TagOf(k)'
          /\ Successor(local[u].lastNext)' = Successor(k)'
      BY <1>6 DEF End, TagOf, Successor
    <3>. QED
      BY <1>1, <1>4, <1>5, <1>6, <3>1
  <2>4. \A d \in D \ {0} : d < level(u)' => TagOf(d)' # request(u)'.tag
    BY <1>5, <2>1, <2>2
  <2>5. /\ local'[u].lastNext \in D /\ level(u)' = End(local[u].lastNext)'
        /\ level(u)' + MMU_ITEMSIZE + request(u)'.len < MaxCapacity
        /\ local'[u].item[1][1] = TagOf(local[u].lastNext)'
        /\ local'[u].item[2] = mem'[local'[u].lastNext + 1]
        /\ Successor(local[u].lastNext)' = level(u)' /\ level(u)' \notin D
    BY <1>1, <1>4, <2>1, <2>2, <2>3
  <2>6. /\ half(u)' => u = Lm32
        /\ at'[u] \notin {"idle", "probe", "start", "climb"} /\ ~(at'[u] = "new" /\ half(u)')
    OBVIOUS
  <2>. QED
    BY <1>6, <2>4, <2>5, <2>6 DEF Caller
<1>12. ASSUME NEW v \in User \ {u} PROVE Caller(v, D)'
  <2>1. Caller(v, D) /\ ~Starting(v) /\ ~Pending(v) /\ at[v] # "new"
    BY <1>1 DEF List, Pending
  <2>2. ASSUME Torn(v, level(v)) PROVE Torn(v, level(v))'
    <3>1. PICK w \in User \ {v} : Unfinished(w, level(v))
      BY <2>2 DEF Torn
    <3>2. w = u /\ level(v) = level(u)
      BY <1>1, <3>1, UnfinishedIs
    <3>3. level(v)' = level(u)'
      BY <3>2, OthersKept
    <3>4. Unfinished(u, level(v))'
      BY <1>6, <3>3 DEF Unfinished, Pending
    <3>. QED
      BY <3>4 DEF Torn
  <2>3. \A d \in D : Successor(d) # 0 => Successor(d)' = Successor(d)
    BY <1>1, <1>4, <1>5
  <2>. QED
    BY <1>5, <2>1, <2>2, <2>3, CallerKept
<1>13. \A v \in User : Caller(v, D)'
  BY <1>11, <1>12
<1>14. \A v, w \in User : Pending(v)' /\ Pending(w)' => v = w
  BY <1>7
<1>. QED
  BY <1>9, <1>10, <1>13, <1>14 DEF List

LEMMA LinkKeeps ==
  ASSUME TypeOK, NEW D, List(D), NEW u \in User, Link(u), UNCHANGED <<restarts, deletes>>, ~spoilt'
  PROVE  TypeOK' /\ List(D)'
<1> DEFINE l == local[u].lastNext
           i == local[u].item
           linked == Item(i[1][1], level(u), iStart(i), length(i))
<1>1. /\ at[u] = "link" /\ l \in D /\ level(u) = End(l)
      /\ Successor(l) = IF half(u) THEN level(u) ELSE 0
  BY LinksLast
<1>2. l \in Address /\ l + 1 \in Address /\ l \in Nat /\ mem[l] \in Word /\ mem[l + 1] \in Word
      /\ level(u) \in 0 .. MaxCapacity
  BY <1>1, InRam DEF List
<1>3. linked = << <<TagOf(l), level(u)>>, mem[l + 1]>>
  <2>1. i[1][1] = TagOf(l) /\ i[2] = mem[l + 1]
    BY <1>1 DEF List, Caller
  <2>2. mem[l + 1] = <<i[2][1], i[2][2]>>
    BY <1>2, <2>1, WordParts
  <2>. QED
    BY <2>1, <2>2 DEF Item, iStart, length
<1>4. linked[1] = <<TagOf(l), level(u)>> /\ linked[2] = mem[l + 1] /\ <<TagOf(l), level(u)>> \in Word
  <2>1. mem[l][1] \in Half \cup Tag
    BY <1>2, WordParts
  <2>. QED
    BY <1>2, <1>3, <2>1 DEF Word, TagOf
<1>5. /\ \/ WriteFirst(u, l, linked)
         \/ /\ WriteRest(u, l, linked) /\ Goto(u, "new")
            /\ local' = [local EXCEPT ![u].half = FALSE]
      /\ UNCHANGED <<step, areas>>
  BY DEF Link
<1>. HIDE DEF linked
<1>6. CASE WriteFirst(u, l, linked)
  <2>1. /\ u = Lm32 /\ mem' = [mem EXCEPT ![l] = <<TagOf(l), level(u)>>] /\ at' = at
        /\ local' = [local EXCEPT ![u].half = TRUE]
    BY <1>4, <1>6 DEF WriteFirst
  <2>2. /\ mem' \in [Address -> Word] /\ mem'[l] = <<TagOf(l), level(u)>>
        /\ \A a \in Address \ {l} : mem'[a] = mem[a]
    <3>1. mem \in [Address -> Word]
      BY DEF TypeOK
    <3>. QED
      BY <1>2, <1>4, <2>1, <3>1
  <2>3. /\ Own(u) /\ at'[u] = "link" /\ step'[u] = step[u] /\ half(u)' = TRUE /\ level(u)' = level(u)
        /\ local'[u] \in CallType /\ local'[u].lastNext = l /\ local'[u].item = i
    BY <1>1, <1>5, <2>1, Owned, HalfSet DEF Own
  <2>4. List(D)'
    BY <1>5, <2>1, <2>2, <2>3, LinkedKeeps
  <2>5. /\ restarts' \in 0 .. MaxRestarts /\ deletes' \in 0 .. MaxDeletes
        /\ areas' \subseteq [tag : Tag, start : Half, length : 0 .. MaxCapacity]
    BY <1>5 DEF TypeOK
  <2>6. spoilt' \in BOOLEAN
    BY Zenon DEF Link
  <2>7. /\ at'[u] \in AtPlace /\ step'[u] \in 1 .. Len(Script[u]) + 1 /\ step'[u] <= Len(Script[u])
    BY <1>1, <2>3, UserTypes DEF AtPlace, TypeOK
  <2>. QED
    BY <2>2, <2>3, <2>4, <2>5, <2>6, <2>7, OwnTyped
<1>7. CASE /\ WriteRest(u, l, linked) /\ Goto(u, "new")
           /\ local' = [local EXCEPT ![u].half = FALSE]
  <2>1. mem \in [Address -> Word] /\ l # l + 1
    BY <1>2 DEF TypeOK
  <2>2. /\ mem' \in [Address -> Word] /\ mem'[l] = <<TagOf(l), level(u)>>
        /\ \A a \in Address \ {l} : mem'[a] = mem[a]
    <3>1. CASE half(u)
      <4>1. mem' = [mem EXCEPT ![l + 1] = mem[l + 1]]
        BY <1>4, <1>7, <3>1 DEF WriteRest
      <4>2. mem[l] = <<TagOf(l), level(u)>>
        BY <1>1, <1>2, <3>1, WordParts DEF TagOf, Successor
      <4>. QED
        BY <1>2, <2>1, <4>1, <4>2
    <3>2. CASE ~half(u)
      <4>1. mem' = [mem EXCEPT ![l] = <<TagOf(l), level(u)>>, ![l + 1] = mem[l + 1]]
        BY <1>4, <1>7, <3>2 DEF WriteRest
      <4>. QED
        BY <1>2, <1>4, <2>1, <4>1
    <3>. QED
      BY <3>1, <3>2
  <2>3. /\ Own(u) /\ at'[u] = "new" /\ step'[u] = step[u] /\ half(u)' = FALSE /\ level(u)' = level(u)
        /\ local'[u] \in CallType /\ local'[u].lastNext = l /\ local'[u].item = i
    BY <1>5, <1>7, Owned, HalfSet DEF Own
  <2>4. List(D)'
    BY <1>5, <2>2, <2>3, LinkedKeeps
  <2>5. /\ restarts' \in 0 .. MaxRestarts /\ deletes' \in 0 .. MaxDeletes
        /\ areas' \subseteq [tag : Tag, start : Half, length : 0 .. MaxCapacity]
    BY <1>5 DEF TypeOK
  <2>6. spoilt' \in BOOLEAN
    BY Zenon DEF Link
  <2>7. /\ at'[u] \in AtPlace /\ step'[u] \in 1 .. Len(Script[u]) + 1 /\ step'[u] <= Len(Script[u])
    BY <1>1, <2>3, UserTypes DEF AtPlace, TypeOK
  <2>. QED
    BY <2>2, <2>3, <2>4, <2>5, <2>6, <2>7, OwnTyped
<1>. QED
  BY <1>5, <1>6, <1>7

-----------------------------------------------------------------------------
(* The new descriptor *)

\* The descriptor that is linked but not written lies behind all others, and nobody
\* has climbed further.
LEMMA NewIsBehind ==
  ASSUME TypeOK, NEW D, List(D), NEW u \in User, at[u] = "new"
  PROVE  /\ 0 \in D /\ local[u].lastNext \in D
         /\ level(u) \notin D /\ level(u) \in Nat /\ level(u) \in Address /\ level(u) + 1 \in Address
         /\ request(u).tag \in Tag /\ request(u).len \in 1 .. MaxCapacity
         /\ level(u) + MMU_ITEMSIZE + request(u).len < MaxCapacity
         /\ Successor(local[u].lastNext) = level(u) /\ End(local[u].lastNext) = level(u)
         /\ \A d \in D : /\ d \in Address /\ d \in Nat /\ d + 1 < level(u)
                         /\ End(d) <= level(u)
                         /\ Successor(d) # 0 /\ End(d) \in D \cup {level(u)}
         /\ \A v \in User : ~Starting(v)
         /\ \A v \in User \ {u} : ~Pending(v)
         /\ \A v \in User : at[v] \in {"climb", "link"} => level(v) <= level(u)
<1> DEFINE p == local[u].lastNext
<1>1. Chain(D) /\ Caller(u, D)
  BY DEF List
<1>2. /\ p \in D /\ Successor(p) = level(u) /\ End(p) = level(u) /\ level(u) \notin D
      /\ level(u) + MMU_ITEMSIZE + request(u).len < MaxCapacity
  BY <1>1 DEF Caller, Pending
<1>3. \A d \in D : d \in Nat /\ d \in Address /\ End(d) \in Nat /\ d + 2 <= End(d)
  BY <1>1, InRam, Constants
<1>4. level(u) \in Nat /\ request(u).tag \in Tag /\ request(u).len \in 1 .. MaxCapacity
  BY RequestIs, UserTypes
<1>5. level(u) \in Address /\ level(u) + 1 \in Address
  BY <1>2, <1>4, Constants DEF Address
<1>6. \A d \in D : d # p => d + 1 < p /\ End(d) <= p /\ End(d) \in D /\ Successor(d) # 0
  BY <1>1, <1>2, LastIs
<1>7. 0 \in D
  BY <1>1, <1>2 DEF Chain
<1>8. ASSUME NEW d \in D
      PROVE  d + 1 < level(u) /\ End(d) <= level(u) /\ Successor(d) # 0 /\ End(d) \in D \cup {level(u)}
  <2>1. p \in Nat /\ p + 2 <= level(u) /\ d \in Nat /\ End(d) \in Nat
    BY <1>2, <1>3
  <2>2. CASE d = p
    <3>. HIDE DEF p
    <3>. QED
      BY <1>2, <1>4, <2>1, <2>2
  <2>3. CASE d # p
    <3>1. d + 1 < p /\ End(d) <= p /\ End(d) \in D /\ Successor(d) # 0
      BY <1>6, <2>3
    <3>. HIDE DEF p
    <3>. QED
      BY <1>4, <2>1, <3>1
  <2>. QED
    BY <2>2, <2>3
<1>9. \A v \in User : ~Starting(v)
  BY <1>7 DEF List, Caller
<1>10. \A v \in User \ {u} : ~Pending(v)
  BY DEF List, Pending
<1>11. ASSUME NEW v \in User, at[v] \in {"climb", "link"} PROVE level(v) <= level(u)
  <2>1. CASE level(v) \in D
    BY <1>3, <1>4, <1>8, <2>1
  <2>2. CASE at[v] = "climb" /\ level(v) \notin D
    <3>1. Torn(v, level(v))
      BY <2>2 DEF List, Caller
    <3>2. PICK w \in User \ {v} : Unfinished(w, level(v))
      BY <3>1 DEF Torn
    <3>3. level(v) = level(u)
      BY <1>9, <1>10, <3>2, UnfinishedIs
    <3>. QED
      BY <1>4, <3>3
  <2>3. CASE at[v] = "link"
    <3>1. local[v].lastNext \in D /\ level(v) = End(local[v].lastNext)
      BY <2>3 DEF List, Caller
    <3>. QED
      BY <1>8, <3>1
  <2>. QED
    BY <1>11, <2>1, <2>2, <2>3
<1>. QED
  BY <1>2, <1>3, <1>4, <1>5, <1>7, <1>8, <1>9, <1>10, <1>11

LEMMA NewParts ==
  ASSUME NEW u \in User
  PROVE  /\ NewItem(u)[1] = <<request(u).tag, 0>>
         /\ NewItem(u)[2] = <<level(u) + MMU_ITEMSIZE, request(u).len>>
         /\ Granted(u, NewItem(u)) = [tag |-> request(u).tag, start |-> level(u) + MMU_ITEMSIZE,
                                      length |-> request(u).len]
<1>1. NewItem(u) = << <<request(u).tag, 0>>, <<level(u) + MMU_ITEMSIZE, request(u).len>> >>
  BY DEF NewItem, Item
<1>. QED
  BY <1>1 DEF Granted, iStart, length

LEMMA NewFirstKeeps ==
  ASSUME TypeOK, NEW D, List(D), NEW u \in User, at[u] = "new", WriteFirst(u, level(u), NewItem(u)),
         UNCHANGED <<step, areas, spoilt, restarts, deletes>>
  PROVE  TypeOK' /\ List(D)'
<1> PICK L : L = level(u)
  OBVIOUS
<1>1. /\ 0 \in D /\ local[u].lastNext \in D
      /\ L \notin D /\ L \in Nat /\ L \in Address /\ L + 1 \in Address
      /\ request(u).tag \in Tag
      /\ \A d \in D : d \in Address /\ d \in Nat /\ d + 1 < L
      /\ \A v \in User : ~Starting(v)
      /\ \A v \in User \ {u} : ~Pending(v)
  BY NewIsBehind
<1>2. Chain(D) /\ Caller(u, D)
  BY DEF List
<1>3. /\ u = Lm32 /\ mem' = [mem EXCEPT ![L] = <<request(u).tag, 0>>] /\ at' = at
      /\ local' = [local EXCEPT ![u].half = TRUE]
  BY NewParts DEF WriteFirst
<1>4. /\ Own(u) /\ at'[u] = "new" /\ step'[u] = step[u] /\ half(u)' = TRUE /\ level(u)' = L
      /\ local'[u] \in CallType /\ local'[u].lastNext = local[u].lastNext
  BY <1>3, Owned, HalfSet DEF Own
<1>5. /\ mem' \in [Address -> Word] /\ mem'[L] = <<request(u).tag, 0>>
      /\ \A a \in Address \ {L} : mem'[a] = mem[a]
  <2>1. <<request(u).tag, 0>> \in Word
    BY <1>1, Constants DEF Word
  <2>. QED
    BY <1>1, <1>3, <2>1 DEF TypeOK
<1>6. \A d \in D : mem'[d] = mem[d] /\ mem'[d + 1] = mem[d + 1]
  <2>. SUFFICES ASSUME NEW d \in D PROVE mem'[d] = mem[d] /\ mem'[d + 1] = mem[d + 1]
    OBVIOUS
  <2>1. d + 1 \in Address /\ d \in Address /\ d # L /\ d + 1 # L
    BY <1>1, <1>2, InRam
  <2>. QED
    BY <1>5, <2>1
<1>7. \A d \in D : /\ TagOf(d)' = TagOf(d) /\ Successor(d)' = Successor(d) /\ End(d)' = End(d)
                   /\ AreaOf(d)' = AreaOf(d)
  BY <1>6 DEF TagOf, Successor, End, AreaOf
<1>8. ~Starting(u)' /\ Pending(u)' /\ Pending(u)
  BY <1>4 DEF Starting, Pending, WriteFirst
<1>9. \A v \in User : (Starting(v)' <=> Starting(v)) /\ (Pending(v)' <=> Pending(v))
  BY <1>1, <1>4, <1>8, OthersKept
<1>10. Chain(D)'
  <2>1. \A d \in D : (\E v \in User : Pending(v) /\ local[v].lastNext = d)
           => \E v \in User : Pending(v)' /\ local'[v].lastNext = d
    BY <1>1, <1>4, <1>8
  <2>2. mmuIsPresent' <=> mmuIsPresent
    BY <1>1, <1>6 DEF mmuIsPresent
  <2>3. \A d \in D : /\ d + 1 \in Address /\ End(d)' <= MaxCapacity
                     /\ Successor(d)' \in {0, End(d)'}
                     /\ Successor(d)' # 0 =>
                           End(d)' \in D \/ \E v \in User : Pending(v)' /\ local'[v].lastNext = d
                     /\ d # 0 => TagOf(d)' \in Tag /\ mem'[d + 1][1] = d + MMU_ITEMSIZE
    BY <1>2, <1>6, <1>7, <2>1 DEF Chain
  <2>4. /\ \A c, d \in D : c < d => Successor(c)' # 0 /\ End(c)' \in D /\ End(c)' <= d
        /\ \A c, d \in D \ {0} : TagOf(c)' = TagOf(d)' => c = d
    BY <1>2, <1>7 DEF Chain
  <2>5. D \subseteq Address /\ mmuIsPresent
    BY <1>1, <1>2 DEF Chain
  <2>. QED
    BY <1>1, <2>2, <2>3, <2>4, <2>5 DEF Chain
<1>11. Listed(D)'
  BY <1>7 DEF List, Listed
<1>12. Caller(u, D)'
  <2>1. request(u)' = request(u)
    BY <1>4 DEF request
  <2>2. /\ level(u) = End(local[u].lastNext) /\ level(u) + MMU_ITEMSIZE + request(u).len < MaxCapacity
        /\ Successor(local[u].lastNext) = level(u)
        /\ \A d \in D \ {0} : d < level(u) => TagOf(d) # request(u).tag
    BY <1>2, <1>8, <1>4 DEF Caller, WriteFirst, Pending
  <2>3. /\ End(local[u].lastNext)' = level(u) /\ Successor(local[u].lastNext)' = level(u)
    BY <1>1, <1>4, <1>6, <2>2 DEF End, Successor
  <2>4. \A d \in D \ {0} : d < level(u)' => TagOf(d)' # request(u)'.tag
    BY <1>4, <1>7, <2>1, <2>2
  <2>5. mem'[level(u)'] = NewItem(u)'[1]
    <3>1. NewItem(u)' = NewItem(u)
      BY <1>4, <2>1 DEF NewItem
    <3>. QED
      BY <1>4, <1>5, <3>1, NewParts
  <2>6. /\ local'[u].lastNext \in D /\ level(u)' = End(local[u].lastNext)'
        /\ level(u)' + MMU_ITEMSIZE + request(u)'.len < MaxCapacity
        /\ Successor(local[u].lastNext)' = level(u)' /\ level(u)' \notin D
    BY <1>1, <1>4, <2>1, <2>2, <2>3
  <2>. QED
    BY <1>3, <1>4, <1>8, <2>4, <2>5, <2>6 DEF Caller
<1>13. ASSUME NEW v \in User \ {u} PROVE Caller(v, D)'
  <2>1. Caller(v, D) /\ ~Starting(v) /\ ~Pending(v) /\ at[v] # "new"
    BY <1>1 DEF List, Pending
  <2>2. ASSUME Torn(v, level(v)) PROVE Torn(v, level(v))'
    <3>1. PICK w \in User \ {v} : Unfinished(w, level(v))
      BY <2>2 DEF Torn
    <3>2. w = u /\ level(v) = L
      BY <1>1, <3>1, UnfinishedIs
    <3>3. level(v)' = level(u)'
      BY <1>4, <3>2, OthersKept
    <3>4. Unfinished(u, level(v))'
      BY <1>4, <3>3 DEF Unfinished
    <3>. QED
      BY <3>4 DEF Torn
  <2>. QED
    BY <1>4, <1>6, <1>7, <2>1, <2>2, CallerKept
<1>14. \A v \in User : Caller(v, D)'
  BY <1>12, <1>13
<1>15. \A v, w \in User : Pending(v)' /\ Pending(w)' => v = w
  BY <1>1, <1>9
<1>16. List(D)'
  BY <1>10, <1>11, <1>14, <1>15 DEF List
<1>17. /\ restarts' \in 0 .. MaxRestarts /\ deletes' \in 0 .. MaxDeletes
       /\ areas' \subseteq [tag : Tag, start : Half, length : 0 .. MaxCapacity]
  BY DEF TypeOK
<1>18. spoilt' \in BOOLEAN
  BY DEF TypeOK
<1>19. /\ at'[u] \in AtPlace /\ step'[u] \in 1 .. Len(Script[u]) + 1 /\ step'[u] <= Len(Script[u])
  BY <1>4, UserTypes DEF AtPlace, TypeOK
<1>. QED
  BY <1>4, <1>5, <1>16, <1>17, <1>18, <1>19, OwnTyped

LEMMA NewRestKeeps ==
  ASSUME TypeOK, NEW D, List(D), NEW u \in User, at[u] = "new", WriteRest(u, level(u), NewItem(u)),
         Return(u), areas' = areas \cup {Granted(u, NewItem(u))},
         UNCHANGED <<spoilt, restarts, deletes>>
  PROVE  TypeOK' /\ \E E : List(E)'
<1> PICK L : L = level(u)
  OBVIOUS
<1> PICK tag : tag = request(u).tag
  OBVIOUS
<1> PICK len : len = request(u).len
  OBVIOUS
<1> PICK E : E = D \cup {L}
  OBVIOUS
<1> DEFINE p == local[u].lastNext
<1>1. /\ 0 \in D /\ p \in D
      /\ L \notin D /\ L \in Nat /\ L \in Address /\ L + 1 \in Address
      /\ tag \in Tag /\ len \in 1 .. MaxCapacity /\ L + MMU_ITEMSIZE + len < MaxCapacity
      /\ \A d \in D : /\ d \in Address /\ d \in Nat /\ d + 1 < L
                      /\ End(d) <= L /\ Successor(d) # 0 /\ End(d) \in E
      /\ \A v \in User : ~Starting(v)
      /\ \A v \in User \ {u} : ~Pending(v)
      /\ \A v \in User : at[v] \in {"climb", "link"} => level(v) <= L
  BY NewIsBehind
<1>2. Chain(D) /\ Caller(u, D)
  BY DEF List
<1>3. /\ Own(u) /\ at'[u] = "idle" /\ local'[u] = NewCall /\ step'[u] = step[u] + 1
  BY Owned DEF Return, Own
<1>4. /\ <<tag, 0>> \in Word /\ <<L + MMU_ITEMSIZE, len>> \in Word
      /\ L + MMU_ITEMSIZE \in Half
  <2>1. 0 \in 0 .. MaxCapacity /\ L + MMU_ITEMSIZE \in 0 .. MaxCapacity /\ len \in 0 .. MaxCapacity
    BY <1>1, Constants
  <2>. QED
    BY <1>1, <2>1 DEF Word, Half
<1>5. /\ mem' \in [Address -> Word] /\ mem'[L] = <<tag, 0>> /\ mem'[L + 1] = <<L + MMU_ITEMSIZE, len>>
      /\ \A a \in Address \ {L, L + 1} : mem'[a] = mem[a]
  <2>1. mem \in [Address -> Word] /\ L # L + 1
    BY <1>1 DEF TypeOK
  <2>2. CASE half(u)
    <3>1. mem' = [mem EXCEPT ![L + 1] = <<L + MMU_ITEMSIZE, len>>]
      BY <2>2, NewParts DEF WriteRest
    <3>2. mem[L] = <<tag, 0>>
      BY <1>2, <2>2, NewParts DEF Caller
    <3>. QED
      BY <1>1, <1>4, <2>1, <3>1, <3>2
  <2>3. CASE ~half(u)
    <3>1. mem' = [mem EXCEPT ![L] = <<tag, 0>>, ![L + 1] = <<L + MMU_ITEMSIZE, len>>]
      BY <2>3, NewParts DEF WriteRest
    <3>. QED
      BY <1>1, <1>4, <2>1, <3>1
  <2>. QED
    BY <2>2, <2>3
<1>6. \A d \in D : mem'[d] = mem[d] /\ mem'[d + 1] = mem[d + 1]
  <2>. SUFFICES ASSUME NEW d \in D PROVE mem'[d] = mem[d] /\ mem'[d + 1] = mem[d + 1]
    OBVIOUS
  <2>1. d + 1 \in Address /\ d \in Address /\ d \notin {L, L + 1} /\ d + 1 \notin {L, L + 1}
    BY <1>1, <1>2, InRam
  <2>. QED
    BY <1>5, <2>1
<1>7. \A d \in D : /\ TagOf(d)' = TagOf(d) /\ Successor(d)' = Successor(d) /\ End(d)' = End(d)
                   /\ AreaOf(d)' = AreaOf(d)
  BY <1>6 DEF TagOf, Successor, End, AreaOf
<1>8. /\ TagOf(L)' = tag /\ Successor(L)' = 0 /\ End(L)' = L + MMU_ITEMSIZE + len
      /\ AreaOf(L)' = [tag |-> tag, start |-> L + MMU_ITEMSIZE, length |-> len]
  BY <1>5 DEF TagOf, Successor, End, AreaOf
<1>9. ~Starting(u)' /\ ~Pending(u)' /\ half(u)' = FALSE
  BY <1>3, Numbers DEF Starting, Pending, half
<1>10. \A v \in User : ~Starting(v)' /\ ~Pending(v)'
  BY <1>1, <1>3, <1>9, OthersKept
<1>11. Chain(E)'
  <2>1. mmuIsPresent' /\ 0 \in E /\ E \subseteq Address
    <3>1. mmuIsPresent
      BY <1>1, <1>2 DEF Chain
    <3>. QED
      BY <1>1, <1>6, <3>1 DEF mmuIsPresent
  <2>2. \A d \in E : /\ d + 1 \in Address /\ End(d)' <= MaxCapacity
                     /\ Successor(d)' \in {0, End(d)'}
                     /\ Successor(d)' # 0 => End(d)' \in E
                     /\ d # 0 => TagOf(d)' \in Tag /\ mem'[d + 1][1] = d + MMU_ITEMSIZE
    <3>1. ASSUME NEW d \in D
          PROVE  /\ d + 1 \in Address /\ End(d)' <= MaxCapacity
                 /\ Successor(d)' \in {0, End(d)'}
                 /\ Successor(d)' # 0 => End(d)' \in E
                 /\ d # 0 => TagOf(d)' \in Tag /\ mem'[d + 1][1] = d + MMU_ITEMSIZE
      <4>. QED
        BY <1>1, <1>2, <1>6, <1>7 DEF Chain
    <3>2. /\ L + 1 \in Address /\ End(L)' <= MaxCapacity /\ Successor(L)' = 0
          /\ TagOf(L)' \in Tag /\ mem'[L + 1][1] = L + MMU_ITEMSIZE
      BY <1>1, <1>5, <1>8, Constants
    <3>. QED
      BY <3>1, <3>2
  <2>3. ASSUME NEW c \in E, NEW d \in E, c < d
        PROVE  Successor(c)' # 0 /\ End(c)' \in E /\ End(c)' <= d
    <3>1. c \in D
      <4>. SUFFICES ASSUME c = L PROVE FALSE
        OBVIOUS
      <4>1. \A e \in D : e \in Nat /\ e + 1 < L
        BY <1>1
      <4>2. d \in D \/ d = L
        OBVIOUS
      <4>. QED
        BY <1>1, <2>3, <4>1, <4>2
    <3>2. Successor(c)' # 0 /\ End(c)' \in E
      <4>. QED
        BY <1>1, <1>7, <3>1
    <3>3. CASE d \in D
      BY <1>2, <1>7, <2>3, <3>1, <3>3 DEF Chain
    <3>4. CASE d = L
      BY <1>1, <1>7, <3>1, <3>4
    <3>. QED
      BY <3>2, <3>3, <3>4
  <2>4. ASSUME NEW c \in E \ {0}, NEW d \in E \ {0}, TagOf(c)' = TagOf(d)'
        PROVE  c = d
    <3>1. \A e \in D \ {0} : TagOf(e)' # tag
      <4>1. \A e \in D \ {0} : e < level(u) => TagOf(e) # request(u).tag
        BY <1>2 DEF Caller
      <4>2. \A e \in D : e < L
        BY <1>1
      <4>. QED
        BY <1>7, <4>1, <4>2
    <3>2. CASE c \in D /\ d \in D
      BY <1>2, <1>7, <2>4, <3>2 DEF Chain
    <3>3. CASE c = L \/ d = L
      BY <1>8, <2>4, <3>1, <3>3
    <3>. QED
      BY <3>2, <3>3
  <2>. QED
    BY <2>1, <2>2, <2>3, <2>4 DEF Chain
<1>12. Listed(E)'
  <2>1. areas \subseteq {AreaOf(d) : d \in D \ {0}}
    BY DEF List, Listed
  <2>2. \A a \in areas : \E d \in E \ {0} : a = AreaOf(d)'
    BY <1>7, <2>1
  <2>3. Granted(u, NewItem(u)) = AreaOf(L)' /\ L \in E \ {0}
    BY <1>1, <1>8, NewParts
  <2>4. \A a \in areas' : \E d \in E \ {0} : a = AreaOf(d)'
    <3>. QED
      BY <2>2, <2>3
  <2>. QED
    BY <2>4 DEF Listed
<1>13. Caller(u, E)'
  BY <1>3, <1>9 DEF Caller
<1>14. ASSUME NEW v \in User \ {u} PROVE Caller(v, E)'
  <2>1. Caller(v, D) /\ ~Starting(v) /\ ~Pending(v) /\ at[v] # "new"
    BY <1>1 DEF List, Pending
  <2>2. ASSUME at[v] = "climb", level(v) \in D \/ Torn(v, level(v)) PROVE level(v) \in E
    <3>1. CASE Torn(v, level(v))
      <4>1. PICK w \in User \ {v} : Unfinished(w, level(v))
        BY <3>1 DEF Torn
      <4>. QED
        BY <1>1, <4>1, UnfinishedIs
    <3>. QED
      BY <2>2, <3>1
  <2>3. ASSUME at[v] \in {"climb", "link", "new"} PROVE \A d \in E \ D : ~(d < level(v))
    <3>1. level(v) <= L /\ level(v) \in Nat
      BY <1>1, <2>1, <2>3, UserTypes
    <3>. QED
      BY <1>1, <3>1
  <2>4. D \subseteq E
    OBVIOUS
  <2>. QED
    BY <1>3, <1>6, <1>7, <2>1, <2>2, <2>3, <2>4, CallerKept
<1>15. \A v \in User : Caller(v, E)'
  BY <1>13, <1>14
<1>16. List(E)'
  BY <1>10, <1>11, <1>12, <1>15 DEF List
<1>17. \E F : List(F)'
  BY <1>16
<1>18. /\ restarts' \in 0 .. MaxRestarts /\ deletes' \in 0 .. MaxDeletes
       /\ areas' \subseteq [tag : Tag, start : Half, length : 0 .. MaxCapacity]
  <2>1. Granted(u, NewItem(u)) \in [tag : Tag, start : Half, length : 0 .. MaxCapacity]
    BY <1>1, <1>4, NewParts
  <2>. QED
    BY <2>1 DEF TypeOK
<1>19. spoilt' \in BOOLEAN
  BY DEF TypeOK
<1>20. /\ at'[u] \in AtPlace /\ local'[u] \in CallType /\ step'[u] \in 1 .. Len(Script[u]) + 1
  <2>1. step[u] \in 1 .. Len(Script[u]) + 1 /\ Len(Script[u]) \in Nat /\ step[u] <= Len(Script[u])
    BY UserTypes DEF TypeOK
  <2>. QED
    BY <1>3, <2>1, Numbers DEF AtPlace
<1>. QED
  BY <1>3, <1>5, <1>17, <1>18, <1>19, <1>20, OwnTyped

-----------------------------------------------------------------------------
(* The invariant *)

LEMMA WriteNewKeeps ==
  ASSUME TypeOK, NEW D, List(D), NEW u \in User, WriteNew(u), UNCHANGED <<restarts, deletes>>
  PROVE  TypeOK' /\ \E E : List(E)'
<1>1. /\ at[u] = "new" /\ UNCHANGED spoilt
      /\ \/ WriteFirst(u, level(u), NewItem(u)) /\ UNCHANGED <<step, areas>>
         \/ /\ WriteRest(u, level(u), NewItem(u)) /\ Return(u)
            /\ areas' = areas \cup {Granted(u, NewItem(u))}
  BY DEF WriteNew
<1>2. CASE WriteFirst(u, level(u), NewItem(u)) /\ UNCHANGED <<step, areas>>
  BY <1>1, <1>2, NewFirstKeeps
<1>3. CASE /\ WriteRest(u, level(u), NewItem(u)) /\ Return(u)
           /\ areas' = areas \cup {Granted(u, NewItem(u))}
  BY <1>1, <1>3, NewRestKeeps
<1>. QED
  BY <1>1, <1>2, <1>3

\* mem-mon deletes the list when no call is on its way: there is none any more.
LEMMA DeleteKeeps ==
  ASSUME TypeOK, NEW D, List(D), mmuDelete, ~spoilt'
  PROVE  TypeOK' /\ List({})'
<1>1. /\ mem' = [mem EXCEPT ![0] = Blank] /\ areas' = {} /\ deletes' = deletes + 1 /\ deletes < MaxDeletes
      /\ UNCHANGED <<at, local, step, restarts>>
  BY DEF mmuDelete
<1>2. \A u \in User : at[u] = "idle"
  BY Zenon DEF mmuDelete
<1>3. mem' \in [Address -> Word] /\ mem'[0] = Blank
  BY <1>1, Numbers, Constants DEF TypeOK
<1>4. ~mmuIsPresent'
  BY <1>3, Constants DEF mmuIsPresent, Blank
<1>5. \A u \in User : ~Starting(u)' /\ ~Pending(u)'
  BY <1>1, <1>2 DEF Starting, Pending
<1>6. Chain({})'
  BY <1>4, <1>5 DEF Chain
<1>7. \A u \in User : Caller(u, {})'
  <2>. SUFFICES ASSUME NEW u \in User PROVE Caller(u, {})'
    OBVIOUS
  <2>1. local'[u] = NewCall /\ at'[u] = "idle"
    BY <1>1, <1>2 DEF List, Caller
  <2>2. half(u)' = FALSE
    BY <2>1, Numbers DEF half
  <2>. QED
    BY <1>5, <2>1, <2>2 DEF Caller
<1>8. List({})'
  BY <1>1, <1>5, <1>6, <1>7 DEF List, Listed
<1>9. deletes' \in 0 .. MaxDeletes
  BY <1>1, MmuAssumption DEF TypeOK
<1>10. spoilt' \in BOOLEAN
  BY Zenon DEF mmuDelete
<1>11. TypeOK'
  BY <1>1, <1>3, <1>9, <1>10 DEF TypeOK
<1>. QED
  BY <1>8, <1>11

\* As long as the list is whole it is a chain of descriptors.
IInv == ~spoilt => TypeOK /\ \E D : List(D)

LEMMA InitWhole == Init => IInv
<1>. SUFFICES ASSUME Init PROVE TypeOK /\ List({})
  BY DEF IInv
<1>1. TypeOK
  <2>1. mem \in [Address -> Word]
    BY Numbers DEF Init
  <2>2. at \in [User -> AtPlace] /\ local \in [User -> CallType] /\ step \in [User -> Nat]
    BY Numbers DEF Init, AtPlace
  <2>3. \A u \in User : step[u] \in 1 .. Len(Script[u]) + 1 /\ at[u] = "idle"
    <3>. SUFFICES ASSUME NEW u \in User
                  PROVE  step[u] \in 1 .. Len(Script[u]) + 1 /\ at[u] = "idle"
      OBVIOUS
    <3>1. Len(Script[u]) \in Nat
      BY MmuAssumption
    <3>. QED
      BY <3>1 DEF Init
  <2>4. /\ restarts \in 0 .. MaxRestarts /\ deletes \in 0 .. MaxDeletes /\ spoilt \in BOOLEAN
        /\ areas \subseteq [tag : Tag, start : Half, length : 0 .. MaxCapacity]
    <3>1. 0 \in 0 .. MaxRestarts /\ 0 \in 0 .. MaxDeletes
      BY MmuAssumption
    <3>. QED
      BY <3>1 DEF Init
  <2>. QED
    BY <2>1, <2>2, <2>3, <2>4 DEF TypeOK, CallType
<1>2. \A u \in User : /\ at[u] = "idle" /\ local[u] = NewCall /\ half(u) = FALSE
                      /\ ~Starting(u) /\ ~Pending(u)
  BY Numbers DEF Init, half, Starting, Pending
<1>3. Chain({})
  BY <1>2, Constants DEF Init, Chain, mmuIsPresent, Blank
<1>4. \A u \in User : Caller(u, {})
  BY <1>2 DEF Caller
<1>. QED
  BY <1>1, <1>2, <1>3, <1>4 DEF Init, List, Listed

\* What is spoilt stays so.
LEMMA SpoiltStays ==
  ASSUME [Next]_vars, ~spoilt' PROVE ~spoilt
<1>1. CASE UNCHANGED vars
  BY <1>1 DEF vars
<1>2. ASSUME NEW u \in User, mmuAlloc(u) PROVE ~spoilt
  <2>1. CASE Call(u)
    BY <2>1 DEF Call
  <2>2. CASE Probe(u)
    BY <2>2 DEF Probe
  <2>3. CASE WriteStart(u)
    BY <2>3, Zenon DEF WriteStart
  <2>4. CASE ReadFirst(u)
    BY <2>4, Zenon DEF ReadFirst
  <2>5. CASE ReadRest(u)
    BY <2>5, Zenon DEF ReadRest
  <2>6. CASE Link(u)
    BY <2>6, Zenon DEF Link
  <2>7. CASE WriteNew(u)
    BY <2>7 DEF WriteNew
  <2>. QED
    BY <1>2, <2>1, <2>2, <2>3, <2>4, <2>5, <2>6, <2>7 DEF mmuAlloc
<1>3. ASSUME NEW u \in User, Restart(u) PROVE ~spoilt
  BY <1>3, Zenon DEF Restart
<1>4. CASE mmuDelete
  BY <1>4, Zenon DEF mmuDelete
<1>. QED
  BY <1>1, <1>2, <1>3, <1>4 DEF Next

LEMMA Inductive ==
  ASSUME IInv, [Next]_vars PROVE IInv'
<1>. SUFFICES ASSUME ~spoilt' PROVE TypeOK' /\ \E E : List(E)'
  BY DEF IInv
<1>1. ~spoilt
  BY SpoiltStays
<1>2. TypeOK /\ \E D : List(D)
  BY <1>1 DEF IInv
<1>3. PICK D : List(D)
  BY <1>2
<1>4. CASE UNCHANGED vars
  <2>1. TypeOK'
    BY <1>2, <1>4 DEF vars, TypeOK
  <2>2. List(D)'
    BY <1>3, <1>4 DEF vars, List, Chain, Listed, Caller, Pending, Starting, Torn, Unfinished,
         Place, End, Successor, TagOf, AreaOf, half, level, request, mmuIsPresent, NewItem
  <2>. QED
    BY <2>1, <2>2
<1>5. ASSUME NEW u \in User, mmuAlloc(u) PROVE TypeOK' /\ \E E : List(E)'
  <2>1. UNCHANGED <<restarts, deletes>>
    BY <1>5 DEF mmuAlloc
  <2>2. CASE Call(u)
    BY <1>2, <1>3, <2>1, <2>2, CallKeeps
  <2>3. CASE Probe(u)
    BY <1>2, <1>3, <2>1, <2>3, ProbeKeeps
  <2>4. CASE WriteStart(u)
    BY <1>2, <1>3, <2>1, <2>4, WriteStartKeeps
  <2>5. CASE ReadFirst(u)
    BY <1>2, <1>3, <2>1, <2>5, ReadFirstKeeps
  <2>6. CASE ReadRest(u)
    BY <1>2, <1>3, <2>1, <2>6, ReadRestKeeps
  <2>7. CASE Link(u)
    BY <1>2, <1>3, <2>1, <2>7, LinkKeeps
  <2>8. CASE WriteNew(u)
    BY <1>2, <1>3, <2>1, <2>8, WriteNewKeeps
  <2>. QED
    BY <1>5, <2>2, <2>3, <2>4, <2>5, <2>6, <2>7, <2>8 DEF mmuAlloc
<1>6. ASSUME NEW u \in User, Restart(u) PROVE TypeOK' /\ \E E : List(E)'
  BY <1>2, <1>3, <1>6, RestartKeeps
<1>7. CASE mmuDelete
  BY <1>2, <1>3, <1>7, DeleteKeeps
<1>. QED
  BY <1>4, <1>5, <1>6, <1>7 DEF Next

\* Every step of every call, restart and deletion leaves the list whole or spoils it.
LEMMA Whole == Spec => []IInv
  BY InitWhole, Inductive, PTL DEF Spec

-----------------------------------------------------------------------------

\* The areas of a list lie behind one another.
LEMMA ChainSeparates ==
  ASSUME TypeOK, NEW D, Chain(D), Listed(D)
  PROVE  /\ \A a \in areas : Extent(a) \subseteq MMU_ITEMSIZE .. MaxCapacity - 1
         /\ \A a, b \in areas : a.tag # b.tag => Extent(a) \cap Extent(b) = {}
<1>1. \A d \in D : d \in Nat /\ End(d) \in Nat /\ End(d) <= MaxCapacity
  BY InRam
<1>2. ASSUME NEW d \in D PROVE Extent(AreaOf(d)) = d .. End(d) - 1
  <2>1. d \in Nat /\ mem[d + 1][2] \in Nat
    BY InRam
  <2>2. AreaOf(d).start = d + 2 /\ AreaOf(d).length = mem[d + 1][2] /\ End(d) = d + 2 + mem[d + 1][2]
    BY Constants DEF AreaOf, End
  <2>3. Extent(AreaOf(d)) = AreaOf(d).start - 2 .. AreaOf(d).start + AreaOf(d).length - 1
    BY Constants DEF Extent
  <2>4. AreaOf(d).start - 2 = d /\ AreaOf(d).start + AreaOf(d).length - 1 = End(d) - 1
    BY <2>1, <2>2
  <2>. QED
    BY <2>3, <2>4
<1>3. ASSUME NEW d \in D \ {0} PROVE d >= 2
  <2>1. 0 \in D
    BY DEF Chain
  <2>2. 0 + 2 <= End(0) /\ End(0) \in Nat
    BY <2>1, InRam, Constants
  <2>3. End(0) <= d
    BY <1>1, <2>1 DEF Chain
  <2>. QED
    BY <1>1, <2>2, <2>3
<1>4. ASSUME NEW a \in areas PROVE Extent(a) \subseteq MMU_ITEMSIZE .. MaxCapacity - 1
  <2>1. PICK d \in D \ {0} : a = AreaOf(d)
    BY DEF Listed
  <2>2. Extent(a) = d .. End(d) - 1
    BY <1>2, <2>1
  <2>. QED
    BY <1>1, <1>3, <2>2, Constants
<1>5. ASSUME NEW a \in areas, NEW b \in areas, a.tag # b.tag PROVE Extent(a) \cap Extent(b) = {}
  <2>1. PICK c \in D \ {0} : a = AreaOf(c)
    BY DEF Listed
  <2>2. PICK d \in D \ {0} : b = AreaOf(d)
    BY DEF Listed
  <2>3. Extent(a) = c .. End(c) - 1 /\ Extent(b) = d .. End(d) - 1
    BY <1>2, <2>1, <2>2
  <2>4. c # d
    BY <1>5, <2>1, <2>2
  <2>5. End(c) <= d \/ End(d) <= c
    BY <1>1, <2>4 DEF Chain
  <2>. QED
    BY <1>1, <2>3, <2>5
<1>. QED
  BY <1>4, <1>5

\* mmuAlloc(): the words of the RAM, the place that a call has read last, its level and its
\* step stay in their ranges as long as the list is whole, and so do the granted areas.
THEOREM TypeCorrect == Spec => [](Unspoilt => TypeOK)
<1>1. IInv => (Unspoilt => TypeOK)
  BY DEF IInv, Unspoilt
<1>. QED
  BY <1>1, Whole, PTL

\* mmuAlloc(): two programs that allocate in any order, with restarts and a deletion in
\* between, do not get each other's memory, and no area covers a descriptor of the list.
THEOREM AreasSeparate == Spec => []Separate
<1>1. IInv => Separate
  <2>. SUFFICES ASSUME IInv, ~spoilt
                PROVE  /\ \A a \in areas : Extent(a) \subseteq MMU_ITEMSIZE .. MaxCapacity - 1
                       /\ \A a, b \in areas : a.tag # b.tag => Extent(a) \cap Extent(b) = {}
    BY DEF Separate
  <2>1. TypeOK /\ \E D : Chain(D) /\ Listed(D)
    BY DEF IInv, List
  <2>. QED
    BY <2>1, ChainSeparates
<1>. QED
  BY <1>1, Whole, PTL

\* mmuAlloc(), ALREADY_PRESENT: whoever asks for a tag gets the area that the first one
\* has got, whatever length it asks for: two descriptors never have the same tag.
THEOREM TagHasOneArea == Spec => []SameArea
<1>1. IInv => SameArea
  <2>. SUFFICES ASSUME IInv, ~spoilt, NEW a \in areas, NEW b \in areas, a.tag = b.tag
                PROVE  a = b
    BY DEF SameArea
  <2>1. PICK D : Chain(D) /\ Listed(D)
    BY DEF IInv, List
  <2>2. PICK c \in D \ {0} : a = AreaOf(c)
    BY <2>1 DEF Listed
  <2>3. PICK d \in D \ {0} : b = AreaOf(d)
    BY <2>1 DEF Listed
  <2>4. TagOf(c) = TagOf(d)
    BY <2>2, <2>3 DEF AreaOf
  <2>5. c = d
    BY <2>1, <2>4 DEF Chain
  <2>. QED
    BY <2>2, <2>3, <2>5
<1>. QED
  BY <1>1, Whole, PTL
=================================================================================
