---------------------------- MODULE MilTask_proofs ----------------------------
(***************************************************************************)
(* The MIL task does not sleep over its work, for any number of state      *)
(* machines and channels and any sizes of its queues.                      *)
(***************************************************************************)
EXTENDS MilTask, TLAPS

\* A fetch whose time is over has a channel to skip.
SkipsAChannel == \A i \in Fsm : TimedOut(i) => lastChannel[i] \in Channel

\* Messages for which there is no notification any more wait for the rest of this turn
\* of the loop, in which each state machine that is still to come takes one.
TakenInThisTurn ==
  \/ queue = 0
  \/ task \in {"event", "synchronize"} /\ queue <= NFsm /\ milAllInWaitState
  \/ /\ task = "execute" /\ queue <= NFsm - current + 1
     /\ \A i \in current .. NFsm : state[i] = "ST_WAIT"

Awake ==
  /\ task = "sleep" => milAllInWaitState
  /\ ~notified /\ ~burst.queue => TakenInThisTurn
  /\ ~notified /\ ~burst.event => event = 0 \/ (task = "event" /\ event = 1)

IInv == TypeOK /\ SkipsAChannel /\ Awake

State == {"ST_WAIT", "ST_POST_IRQ_WAITING", "ST_FETCH_STATUS", "ST_FETCH_DATA"}

FsmTypes ==
  /\ state \in [Fsm -> State]
  /\ lastChannel \in [Fsm -> 1 .. NChannel + 1]
  /\ timeoutCounter \in [Fsm -> 0 .. Timeout + 1]
  /\ irqFlags \in [Fsm -> SUBSET Channel]

LEMMA InitIInv == Init => IInv
<1>. SUFFICES ASSUME Init PROVE IInv
  OBVIOUS
<1>1. TypeOK
  <2>1. queue \in 0 .. QueueCapacity /\ event \in 0 .. EventCapacity /\ current \in Fsm
    BY MilTaskAssumption DEF Init, Fsm
  <2>2. lastChannel \in [Fsm -> 1 .. NChannel + 1] /\ timeoutCounter \in [Fsm -> 0 .. Timeout + 1]
    BY MilTaskAssumption DEF Init
  <2>3. /\ state \in [Fsm -> {"ST_WAIT", "ST_POST_IRQ_WAITING", "ST_FETCH_STATUS", "ST_FETCH_DATA"}]
        /\ irqFlags \in [Fsm -> SUBSET Channel]
        /\ task \in {"check", "sleep", "event", "synchronize", "execute"}
    BY DEF Init
  <2>4. /\ notified \in BOOLEAN /\ wasRead \in BOOLEAN
        /\ burst \in [queue : BOOLEAN, event : BOOLEAN]
    BY DEF Init
  <2>. QED
    BY <2>1, <2>2, <2>3, <2>4 DEF TypeOK
<1>2. SkipsAChannel
  BY MilTaskAssumption DEF Init, SkipsAChannel, TimedOut
<1>3. Awake
  BY DEF Init, Awake, TakenInThisTurn
<1>. QED
  BY <1>1, <1>2, <1>3 DEF IInv
-----------------------------------------------------------------------------
(* What one call of milTask() does *)

\* Where a fetch goes on is a channel, or behind the last one, and its time is not over.
LEMMA ResumesInRange ==
  ASSUME FsmTypes, SkipsAChannel, NEW i \in Fsm
  PROVE  First(i) \in 1 .. NChannel + 1 /\ Counter(i) \in 0 .. Timeout
BY MilTaskAssumption DEF FsmTypes, SkipsAChannel, First, Counter, TimedOut, Channel

LEMMA AskedChannels ==
  ASSUME FsmTypes, SkipsAChannel, NEW i \in Fsm, NEW c \in 1 .. NChannel + 1,
         NEW flags \in Asked(i, c)
  PROVE  flags \in SUBSET Channel
<1>1. irqFlags[i] \in SUBSET Channel /\ First(i) \in 1 .. NChannel + 1
  BY ResumesInRange DEF FsmTypes
<1>2. PICK new \in SUBSET (First(i) .. c - 1) :
        flags = (irqFlags[i] \cap (1 .. First(i) - 1))
                  \cup (irqFlags[i] \cap (c + 1 .. NChannel)) \cup new
  BY DEF Asked
<1>3. First(i) .. c - 1 \subseteq Channel
  BY <1>1, MilTaskAssumption DEF Channel
<1>. QED
  BY <1>1, <1>2, <1>3

\* The three ways to change a record.
LEMMA EnterKeeps ==
  ASSUME FsmTypes, SkipsAChannel, NEW i \in Fsm, NEW st \in State,
         NEW flags \in SUBSET Channel, Enter(i, st, flags)
  PROVE  FsmTypes' /\ SkipsAChannel' /\ \A j \in Fsm \ {i} : state'[j] = state[j]
<1>1. /\ state' \in [Fsm -> State] /\ irqFlags' \in [Fsm -> SUBSET Channel]
      /\ \A j \in Fsm \ {i} : state'[j] = state[j]
  BY DEF FsmTypes, Enter
<1>2. lastChannel' \in [Fsm -> 1 .. NChannel + 1] /\ timeoutCounter' \in [Fsm -> 0 .. Timeout + 1]
  BY MilTaskAssumption DEF FsmTypes, Enter
<1>3. SkipsAChannel'
  BY MilTaskAssumption DEF FsmTypes, SkipsAChannel, TimedOut, Enter
<1>. QED
  BY <1>1, <1>2, <1>3 DEF FsmTypes

LEMMA GotoKeeps ==
  ASSUME FsmTypes, SkipsAChannel, NEW i \in Fsm, NEW st \in State,
         NEW flags \in SUBSET Channel, Goto(i, st, flags)
  PROVE  FsmTypes' /\ SkipsAChannel' /\ \A j \in Fsm \ {i} : state'[j] = state[j]
BY DEF FsmTypes, SkipsAChannel, TimedOut, Goto

LEMMA BusyKeeps ==
  ASSUME FsmTypes, SkipsAChannel, NEW i \in Fsm, NEW c \in Channel, NEW count \in 0 .. Timeout,
         NEW st \in State, NEW flags \in SUBSET Channel, Busy(i, c, count, st, flags)
  PROVE  FsmTypes' /\ SkipsAChannel' /\ \A j \in Fsm \ {i} : state'[j] = state[j]
<1>1. /\ state' \in [Fsm -> State] /\ irqFlags' \in [Fsm -> SUBSET Channel]
      /\ \A j \in Fsm \ {i} : state'[j] = state[j]
  BY DEF FsmTypes, Busy
<1>2. lastChannel' \in [Fsm -> 1 .. NChannel + 1] /\ timeoutCounter' \in [Fsm -> 0 .. Timeout + 1]
  BY MilTaskAssumption DEF FsmTypes, Busy, Channel
<1>3. SkipsAChannel'
  BY MilTaskAssumption DEF FsmTypes, SkipsAChannel, TimedOut, Busy
<1>. QED
  BY <1>1, <1>2, <1>3 DEF FsmTypes

\* The end of a fetch: the first channel of the next one is the one that comes after.
LEMMA DoneKeeps ==
  ASSUME FsmTypes, SkipsAChannel, NEW i \in Fsm, NEW flags \in SUBSET Channel,
         state' = [state EXCEPT ![i] = "ST_WAIT"],
         irqFlags' = [irqFlags EXCEPT ![i] = flags],
         lastChannel' = [lastChannel EXCEPT ![i] = First(i)],
         timeoutCounter' = [timeoutCounter EXCEPT ![i] = Counter(i)]
  PROVE  FsmTypes' /\ SkipsAChannel' /\ \A j \in Fsm \ {i} : state'[j] = state[j]
<1>1. First(i) \in 1 .. NChannel + 1 /\ Counter(i) \in 0 .. Timeout
  BY ResumesInRange
<1>2. /\ state' \in [Fsm -> State] /\ irqFlags' \in [Fsm -> SUBSET Channel]
      /\ \A j \in Fsm \ {i} : state'[j] = state[j]
  BY DEF FsmTypes, State
<1>3. lastChannel' \in [Fsm -> 1 .. NChannel + 1] /\ timeoutCounter' \in [Fsm -> 0 .. Timeout + 1]
  BY <1>1, MilTaskAssumption DEF FsmTypes
<1>4. SkipsAChannel'
  BY <1>1, MilTaskAssumption DEF FsmTypes, SkipsAChannel, TimedOut
<1>. QED
  BY <1>2, <1>3, <1>4 DEF FsmTypes

\* Each state of milTask() in turn.
LEMMA CallKeeps ==
  ASSUME FsmTypes, SkipsAChannel, NEW i \in Fsm, milTask(i)
  PROVE  FsmTypes' /\ SkipsAChannel' /\ \A j \in Fsm \ {i} : state'[j] = state[j]
<1>. DEFINE Kept == FsmTypes' /\ SkipsAChannel' /\ \A j \in Fsm \ {i} : state'[j] = state[j]
<1>0. /\ irqFlags[i] \in SUBSET Channel /\ {} \in SUBSET Channel
      /\ First(i) \in 1 .. NChannel + 1 /\ Counter(i) \in 0 .. Timeout
      /\ NChannel + 1 \in 1 .. NChannel + 1 /\ 0 \in 0 .. Timeout
  BY ResumesInRange, MilTaskAssumption DEF FsmTypes
<1>1. CASE NoMessage(i) \/ PostIrqWaiting(i)
  BY <1>1 DEF NoMessage, PostIrqWaiting, fsmVars, FsmTypes, SkipsAChannel, TimedOut
<1>2. CASE Message(i)
  BY <1>0, <1>2, GotoKeeps, EnterKeeps DEF Message, State
<1>3. CASE PostIrqWaitingExpired(i)
  BY <1>0, <1>3, EnterKeeps DEF PostIrqWaitingExpired, State
<1>4. CASE StatusBusy(i)
  <2>1. PICK c \in First(i) .. NChannel :
          \E flags \in Asked(i, c) : Busy(i, c, Counter(i), "ST_FETCH_STATUS", flags)
    BY <1>4 DEF StatusBusy
  <2>2. PICK flags \in Asked(i, c) : Busy(i, c, Counter(i), "ST_FETCH_STATUS", flags)
    BY <2>1
  <2>3. c \in Channel /\ c \in 1 .. NChannel + 1
    BY <1>0, MilTaskAssumption DEF Channel
  <2>4. flags \in SUBSET Channel
    BY <2>3, AskedChannels
  <2>. QED
    BY <1>0, <2>2, <2>3, <2>4, BusyKeeps DEF State
<1>5. CASE StatusDone(i)
  <2>1. PICK flags \in Asked(i, NChannel + 1) :
          \/ /\ flags = {}
             /\ state' = [state EXCEPT ![i] = "ST_WAIT"]
             /\ irqFlags' = [irqFlags EXCEPT ![i] = {}]
             /\ lastChannel' = [lastChannel EXCEPT ![i] = First(i)]
             /\ timeoutCounter' = [timeoutCounter EXCEPT ![i] = Counter(i)]
          \/ flags # {} /\ Enter(i, "ST_WAIT", flags)
          \/ \E c \in flags : Busy(i, c, 0, "ST_FETCH_DATA", flags)
    BY <1>5 DEF StatusDone
  <2>2. flags \in SUBSET Channel
    BY <1>0, AskedChannels
  <2>3. CASE Enter(i, "ST_WAIT", flags)
    BY <2>2, <2>3, EnterKeeps DEF State
  <2>4. CASE \E c \in flags : Busy(i, c, 0, "ST_FETCH_DATA", flags)
    BY <1>0, <2>2, <2>4, BusyKeeps DEF State
  <2>. QED
    BY <1>0, <2>1, <2>3, <2>4, DoneKeeps
<1>6. CASE DataBusy(i)
  <2>1. PICK c \in irqFlags[i] : Busy(i, c, Counter(i), "ST_FETCH_DATA", irqFlags[i])
    BY <1>6 DEF DataBusy
  <2>. QED
    BY <1>0, <2>1, BusyKeeps DEF State
<1>7. CASE DataDone(i)
  <2>1. irqFlags' = [irqFlags EXCEPT ![i] = irqFlags[i]]
    BY <1>7 DEF DataDone, FsmTypes
  <2>. QED
    BY <1>0, <1>7, <2>1, DoneKeeps DEF DataDone
<1>. QED
  BY <1>1, <1>2, <1>3, <1>4, <1>5, <1>6, <1>7 DEF milTask

\* A state machine that waits takes a message if there is one.
LEMMA CallTakes ==
  ASSUME NEW i \in Fsm, milTask(i), queue \in Nat
  PROVE  /\ queue' \in {queue, queue - 1} /\ queue' \in 0 .. queue
         /\ state[i] = "ST_WAIT" /\ queue > 0 => queue' = queue - 1
BY DEF milTask, NoMessage, Message, PostIrqWaiting, PostIrqWaitingExpired, StatusBusy,
       StatusDone, DataBusy, DataDone
-----------------------------------------------------------------------------
(* The steps of the task and its environment *)

LEMMA ExecuteKeeps ==
  ASSUME IInv, Execute
  PROVE  IInv'
<1>. DEFINE i == current
<1>0. /\ i \in Fsm /\ milTask(i) /\ queue \in 0 .. QueueCapacity /\ FsmTypes /\ SkipsAChannel
      /\ task = "execute" /\ UNCHANGED <<event, notified, wasRead, burst>>
  BY DEF Execute, IInv, TypeOK, FsmTypes, State
<1>1. FsmTypes' /\ SkipsAChannel' /\ \A j \in Fsm \ {i} : state'[j] = state[j]
  BY <1>0, CallKeeps
<1>2. /\ queue' \in {queue, queue - 1} /\ queue' \in 0 .. queue
      /\ state[i] = "ST_WAIT" /\ queue > 0 => queue' = queue - 1
  BY <1>0, CallTakes, MilTaskAssumption
<1>3. \/ current = NFsm /\ current' = 1 /\ task' = "check"
      \/ current < NFsm /\ current' = current + 1 /\ task' = "execute"
  BY <1>0, MilTaskAssumption DEF Execute, Fsm
<1>4. TypeOK'
  <2>1. current' \in Fsm /\ task' \in {"check", "execute"} /\ queue' \in 0 .. QueueCapacity
    BY <1>0, <1>2, <1>3, MilTaskAssumption DEF Fsm
  <2>. QED
    BY <1>0, <1>1, <2>1 DEF IInv, TypeOK, FsmTypes, State
<1>5. ASSUME TakenInThisTurn PROVE TakenInThisTurn'
  <2>1. CASE queue = 0
    BY <1>2, <2>1 DEF TakenInThisTurn
  <2>2. CASE queue > 0
    <3>1. queue <= NFsm - i + 1 /\ \A j \in i .. NFsm : state[j] = "ST_WAIT"
      BY <1>0, <1>5, <2>2 DEF TakenInThisTurn
    <3>2. queue' = queue - 1 /\ queue' <= NFsm - i
      BY <1>0, <1>2, <2>2, <3>1, MilTaskAssumption DEF Fsm
    <3>3. CASE current = NFsm
      BY <1>0, <1>2, <3>2, <3>3, MilTaskAssumption DEF TakenInThisTurn
    <3>4. CASE current' = current + 1 /\ task' = "execute" /\ current < NFsm
      <4>1. queue' <= NFsm - current' + 1
        BY <1>0, <1>2, <3>2, <3>4, MilTaskAssumption DEF Fsm
      <4>2. \A j \in current' .. NFsm : j \in i .. NFsm /\ j \in Fsm \ {i}
        BY <1>0, <3>4, MilTaskAssumption DEF Fsm
      <4>. QED
        BY <1>1, <3>1, <3>4, <4>1, <4>2 DEF TakenInThisTurn
    <3>. QED
      BY <1>3, <3>3, <3>4
  <2>. QED
    BY <1>0, <2>1, <2>2
<1>6. Awake'
  BY <1>0, <1>3, <1>5 DEF IInv, Awake
<1>. QED
  BY <1>1, <1>4, <1>6 DEF IInv

\* The other steps change no state machine.
LEMMA OthersKeepTypes ==
  ASSUME IInv,
         MilInterrupt \/ EcaInterrupt \/ ClientHasRead \/ Check \/ WakeUp \/ HandleEvent \/ Synchronize
  PROVE  TypeOK' /\ SkipsAChannel'
<1>1. UNCHANGED fsmVars
  BY DEF MilInterrupt, EcaInterrupt, ClientHasRead, Check, WakeUp, HandleEvent, Synchronize
<1>2. queue' \in 0 .. QueueCapacity /\ event' \in 0 .. EventCapacity /\ current' \in Fsm
  <2>0. queue \in 0 .. QueueCapacity /\ event \in 0 .. EventCapacity /\ current \in Fsm /\ 1 \in Fsm
    BY MilTaskAssumption DEF IInv, TypeOK, Fsm
  <2>1. CASE MilInterrupt
    BY <2>0, <2>1, MilTaskAssumption DEF MilInterrupt
  <2>2. CASE EcaInterrupt
    BY <2>0, <2>2, MilTaskAssumption DEF EcaInterrupt
  <2>3. CASE ClientHasRead \/ Check \/ WakeUp
    BY <2>0, <2>3 DEF ClientHasRead, Check, WakeUp
  <2>4. CASE HandleEvent \/ Synchronize
    BY <2>0, <2>4, MilTaskAssumption DEF HandleEvent, Synchronize
  <2>. QED
    BY <2>1, <2>2, <2>3, <2>4
<1>3. task' \in {"check", "sleep", "event", "synchronize", "execute"}
  BY DEF MilInterrupt, EcaInterrupt, ClientHasRead, Check, WakeUp, HandleEvent, Synchronize,
       IInv, TypeOK
<1>4. notified' \in BOOLEAN /\ wasRead' \in BOOLEAN
  BY Zenon DEF MilInterrupt, EcaInterrupt, ClientHasRead, Check, WakeUp, HandleEvent, Synchronize,
       IInv, TypeOK
<1>5. burst' \in [queue : BOOLEAN, event : BOOLEAN]
  <2>1. CASE WakeUp
    <3>1. (queue > NFsm) \in BOOLEAN /\ (event > 1) \in BOOLEAN
      OBVIOUS
    <3>. QED
      BY <2>1, <3>1, Zenon DEF WakeUp
  <2>2. CASE burst' = burst
    BY <2>2 DEF IInv, TypeOK
  <2>. QED
    BY <2>1, <2>2 DEF MilInterrupt, EcaInterrupt, ClientHasRead, Check, HandleEvent, Synchronize
<1>6. TypeOK'
  BY <1>1, <1>2, <1>3, <1>4, <1>5 DEF IInv, TypeOK, fsmVars
<1>7. SkipsAChannel'
  BY <1>1 DEF IInv, SkipsAChannel, TimedOut, fsmVars
<1>. QED
  BY <1>6, <1>7

LEMMA OthersKeepAwake ==
  ASSUME IInv,
         MilInterrupt \/ EcaInterrupt \/ ClientHasRead \/ Check \/ WakeUp \/ HandleEvent \/ Synchronize
  PROVE  Awake'
<1>0. queue \in Nat /\ event \in Nat
  BY DEF IInv, TypeOK
<1>1. CASE MilInterrupt
  BY <1>1 DEF MilInterrupt, IInv, Awake, milAllInWaitState, fsmVars
<1>2. CASE EcaInterrupt
  BY <1>2 DEF EcaInterrupt, IInv, Awake, milAllInWaitState, fsmVars
<1>3. CASE ClientHasRead
  BY <1>3 DEF ClientHasRead, IInv, Awake, TakenInThisTurn, milAllInWaitState, fsmVars
<1>4. CASE Check
  BY <1>4 DEF Check, IInv, Awake, TakenInThisTurn, milAllInWaitState, fsmVars
<1>5. CASE WakeUp
  <2>1. milAllInWaitState /\ task' = "event" /\ UNCHANGED <<queue, event, state>>
    BY <1>5 DEF WakeUp, IInv, Awake, fsmVars
  <2>2. milAllInWaitState'
    BY <2>1 DEF milAllInWaitState
  <2>3. burst'.queue = (queue > NFsm) /\ burst'.event = (event > 1)
    BY <1>5, Zenon DEF WakeUp
  <2>4. ~burst'.queue => TakenInThisTurn'
    <3>1. ~burst'.queue => ~(queue > NFsm)
      BY <2>3, Zenon
    <3>2. ~(queue > NFsm) => queue <= NFsm
      BY <1>0, MilTaskAssumption
    <3>3. queue <= NFsm => TakenInThisTurn'
      BY <2>1, <2>2 DEF TakenInThisTurn
    <3>. QED
      BY <3>1, <3>2, <3>3, Zenon
  <2>5. ~burst'.event => event' = 0 \/ event' = 1
    <3>1. ~burst'.event => ~(event > 1)
      BY <2>3, Zenon
    <3>2. ~(event > 1) => event' = 0 \/ event' = 1
      BY <1>0, <2>1
    <3>. QED
      BY <3>1, <3>2, Zenon
  <2>. QED
    BY <2>1, <2>4, <2>5 DEF Awake
<1>6. CASE HandleEvent
  BY <1>0, <1>6 DEF HandleEvent, IInv, Awake, TakenInThisTurn, milAllInWaitState, fsmVars
<1>7. CASE Synchronize
  BY <1>0, <1>7, MilTaskAssumption DEF Synchronize, IInv, Awake, TakenInThisTurn,
       milAllInWaitState, fsmVars, Fsm
<1>. QED
  BY <1>1, <1>2, <1>3, <1>4, <1>5, <1>6, <1>7

LEMMA NextIInv == IInv /\ [Next]_vars => IInv'
<1>. SUFFICES ASSUME IInv, [Next]_vars PROVE IInv'
  OBVIOUS
<1>1. CASE Execute
  BY <1>1, ExecuteKeeps
<1>2. CASE \/ MilInterrupt \/ EcaInterrupt \/ ClientHasRead
           \/ Check \/ WakeUp \/ HandleEvent \/ Synchronize
  BY <1>2, OthersKeepTypes, OthersKeepAwake DEF IInv
<1>3. CASE UNCHANGED vars
  BY <1>3 DEF vars, fsmVars, IInv, TypeOK, SkipsAChannel, TimedOut, Awake, TakenInThisTurn,
       milAllInWaitState
<1>. QED
  BY <1>1, <1>2, <1>3 DEF Next, Task

LEMMA Inductive == Spec => []IInv
  BY InitIInv, NextIInv, PTL DEF Spec
-----------------------------------------------------------------------------

\* The state machines keep their types; the channel at which a fetch goes on is one,
\* or behind the last one, although channels that time out are skipped.
THEOREM TypeCorrect == Spec => []TypeOK
<1>1. IInv => TypeOK
  BY DEF IInv
<1>. QED
  BY <1>1, Inductive, PTL

\* taskMil() does not fall asleep over a message or an event.
THEOREM NeverSleepsOverWork == Spec => []SleepsWithoutWork
<1>1. IInv => SleepsWithoutWork
  BY DEF IInv, Awake, TakenInThisTurn, SleepsWithoutWork
<1>. QED
  BY <1>1, Inductive, PTL
=============================================================================
