------------------------------- MODULE MilTask -------------------------------
(***************************************************************************)
(* The RTOS task of the MIL function generators (lm32-rtos_exe/            *)
(* scu_task_mil.c) and the finite state machines it runs                   *)
(* (fg/scu_mil_fg_handler.c).                                              *)
(*                                                                         *)
(* The interrupt routine puts a message into g_queueMilFg, or an event     *)
(* into g_ecaEvent, and notifies the task.  The task sleeps while all      *)
(* state machines are in ST_WAIT; awake, it takes one ECA event per loop,  *)
(* synchronizes the read index of the DAQ ring with the Linux client, and  *)
(* gives each state machine one call of milTask().                         *)
(*                                                                         *)
(* A call of milTask() is one step: it shares with others only the queue,  *)
(* of which it takes at most one message in a critical section.  What a    *)
(* MIL device answers, and when POST_IRQ_WAITING_TIME is over, is open.    *)
(***************************************************************************)
EXTENDS Naturals

CONSTANTS NFsm,          \* elements of mg_aMilTaskData (5)
          NChannel,      \* function generators found by the scan
          Timeout,       \* MIL_FSM_TIMEOUT (10000)
          QueueCapacity, \* of g_queueMilFg (MAX_FG_CHANNELS)
          EventCapacity  \* of g_ecaEvent (MAX_FG_CHANNELS)

ASSUME MilTaskAssumption ==
  /\ NFsm \in Nat \ {0} /\ NChannel \in Nat /\ Timeout \in Nat
  /\ QueueCapacity \in Nat \ {0} /\ EventCapacity \in Nat \ {0}

VARIABLES
  queue,          \* messages in g_queueMilFg
  event,          \* g_ecaEvent.counter
  notified,       \* a notification of the task is pending
  wasRead,        \* the client has set memAdmin.wasRead, not yet synchronized
  task,           \* where taskMil() is
  current,        \* the state machine milExecuteTasks() calls next
  state,          \* mg_aMilTaskData[].state
  lastChannel,    \* mg_aMilTaskData[].lastChannel, counted from 1
  timeoutCounter, \* mg_aMilTaskData[].timeoutCounter
  irqFlags,       \* the channels with a pending interrupt, of each state machine
  burst           \* history: it last woke up to more than one turn of its loop takes

fsmVars == <<state, lastChannel, timeoutCounter, irqFlags>>
vars == <<queue, event, notified, wasRead, task, current, fsmVars, burst>>

Fsm     == 1 .. NFsm
Channel == 1 .. NChannel

TypeOK ==
  /\ queue \in 0 .. QueueCapacity /\ event \in 0 .. EventCapacity
  /\ notified \in BOOLEAN /\ wasRead \in BOOLEAN
  /\ task \in {"check", "sleep", "event", "synchronize", "execute"}
  /\ current \in Fsm
  /\ state \in [Fsm -> {"ST_WAIT", "ST_POST_IRQ_WAITING", "ST_FETCH_STATUS", "ST_FETCH_DATA"}]
  /\ lastChannel \in [Fsm -> 1 .. NChannel + 1]
  /\ timeoutCounter \in [Fsm -> 0 .. Timeout + 1]
  /\ irqFlags \in [Fsm -> SUBSET Channel]
  /\ burst \in [queue : BOOLEAN, event : BOOLEAN]

\* taskMil() has emptied the queues and enters its loop.
Init ==
  /\ queue = 0 /\ event = 0 /\ notified = FALSE /\ wasRead = FALSE
  /\ task = "check" /\ current = 1
  /\ state = [i \in Fsm |-> "ST_WAIT"]
  /\ lastChannel = [i \in Fsm |-> 1]
  /\ timeoutCounter = [i \in Fsm |-> 0]
  /\ irqFlags = [i \in Fsm |-> {}]
  /\ burst = [queue |-> FALSE, event |-> FALSE]
-----------------------------------------------------------------------------
(* The interrupt routine onScuMSInterrupt() and the Linux client *)

\* A full queue loses its oldest message (queueForcePush()), and the task is notified.
MilInterrupt ==
  /\ queue' = IF queue = QueueCapacity THEN queue ELSE queue + 1
  /\ notified' = TRUE
  /\ UNCHANGED <<event, wasRead, task, current, fsmVars, burst>>

EcaInterrupt ==
  /\ event' = IF event = EventCapacity THEN event ELSE event + 1
  /\ notified' = TRUE
  /\ UNCHANGED <<queue, wasRead, task, current, fsmVars, burst>>

\* sendWasRead() of the client: nothing notifies the task.
ClientHasRead ==
  /\ wasRead' = TRUE
  /\ UNCHANGED <<queue, event, notified, task, current, fsmVars, burst>>
-----------------------------------------------------------------------------
(* The loop of taskMil() *)

milAllInWaitState == \A i \in Fsm : state[i] = "ST_WAIT"

CheckForgets ==
  /\ task = "check"
  /\ task' = IF milAllInWaitState THEN "sleep" ELSE "event"
  /\ notified' = FALSE
  /\ UNCHANGED <<queue, event, wasRead, current, fsmVars, burst>>

Check ==
  /\ task = "check"
  /\ task' = IF milAllInWaitState THEN "sleep" ELSE "event"
  /\ UNCHANGED <<queue, event, notified, wasRead, current, fsmVars, burst>>

\* xTaskNotifyWait( pdFALSE, 0, NULL, portMAX_DELAY ): a notification that came
\* after the check is still pending and ends the wait at once.
WakeUp ==
  /\ task = "sleep" /\ notified
  /\ notified' = FALSE
  /\ burst' = [queue |-> queue > NFsm, event |-> event > 1]
  /\ task' = "event"
  /\ UNCHANGED <<queue, event, wasRead, current, fsmVars>>

\* evPopSafe() and ecaHandler(): one event in each turn of the loop.
HandleEvent ==
  /\ task = "event"
  /\ event' = IF event = 0 THEN 0 ELSE event - 1
  /\ task' = "synchronize"
  /\ UNCHANGED <<queue, notified, wasRead, current, fsmVars, burst>>

SynchronizeWhenIdle ==
  /\ task = "synchronize"
  /\ wasRead' = (wasRead /\ ~milAllInWaitState)
  /\ current' = 1
  /\ task' = "execute"
  /\ UNCHANGED <<queue, event, notified, fsmVars, burst>>

\* milExecuteTasks() begins with ramRingSharedSynchonizeReadIndex().
Synchronize ==
  /\ task = "synchronize"
  /\ wasRead' = FALSE
  /\ current' = 1
  /\ task' = "execute"
  /\ UNCHANGED <<queue, event, notified, fsmVars, burst>>
-----------------------------------------------------------------------------
(* milTask(): what one call does with the state machine i *)

\* A state with the entry activity that starts again from the first channel.
Enter(i, st, flags) ==
  /\ state' = [state EXCEPT ![i] = st]
  /\ lastChannel' = [lastChannel EXCEPT ![i] = 1]
  /\ timeoutCounter' = [timeoutCounter EXCEPT ![i] = 0]
  /\ irqFlags' = [irqFlags EXCEPT ![i] = flags]

\* The other states keep the rest of the record.
Goto(i, st, flags) ==
  /\ state' = [state EXCEPT ![i] = st]
  /\ irqFlags' = [irqFlags EXCEPT ![i] = flags]
  /\ UNCHANGED <<lastChannel, timeoutCounter>>

\* The channel from which a fetch goes on, after a faulty one has been skipped,
\* and the timeout counter that is then valid.
TimedOutLate(i) == timeoutCounter[i] > Timeout + 1
TimedOut(i) == timeoutCounter[i] > Timeout
FirstWithoutSkip(i) == lastChannel[i]
First(i) == IF TimedOut(i) THEN lastChannel[i] + 1 ELSE lastChannel[i]

Counter(i) == IF TimedOut(i) THEN 0 ELSE timeoutCounter[i]

\* RCV_TASK_BSY: the next call goes on with the channel c.
Busy(i, c, count, st, flags) ==
  /\ state' = [state EXCEPT ![i] = st]
  /\ lastChannel' = [lastChannel EXCEPT ![i] = c]
  /\ timeoutCounter' = [timeoutCounter EXCEPT ![i] = count + 1]
  /\ irqFlags' = [irqFlags EXCEPT ![i] = flags]

NoMessage(i) ==
  /\ state[i] = "ST_WAIT" /\ queue = 0
  /\ UNCHANGED <<queue, fsmVars>>

\* The waiting time counts from the time stamp of the message: it can be over.
Message(i) ==
  /\ state[i] = "ST_WAIT" /\ queue > 0
  /\ queue' = queue - 1
  /\ \/ Goto(i, "ST_POST_IRQ_WAITING", irqFlags[i])
     \/ Enter(i, "ST_FETCH_STATUS", irqFlags[i])

PostIrqWaiting(i) ==
  /\ state[i] = "ST_POST_IRQ_WAITING"
  /\ UNCHANGED <<queue, fsmVars>>

PostIrqWaitingExpired(i) ==
  /\ state[i] = "ST_POST_IRQ_WAITING"
  /\ Enter(i, "ST_FETCH_STATUS", irqFlags[i])
  /\ UNCHANGED queue

\* The flags after the channels from First(i) to the one before c were asked;
\* those of c have been reset as well.
Asked(i, c) ==
  {(irqFlags[i] \cap (1 .. First(i) - 1)) \cup (irqFlags[i] \cap (c + 1 .. NChannel)) \cup new :
     new \in SUBSET (First(i) .. c - 1)}

StatusBusy(i) ==
  /\ state[i] = "ST_FETCH_STATUS"
  /\ \E c \in First(i) .. NChannel : \E flags \in Asked(i, c) :
        Busy(i, c, Counter(i), "ST_FETCH_STATUS", flags)
  /\ UNCHANGED queue

\* All channels asked.  ST_HANDLE_IRQS follows in the same call, and with a
\* pending interrupt also the first turn of ST_FETCH_DATA.
StatusDone(i) ==
  /\ state[i] = "ST_FETCH_STATUS"
  /\ \E flags \in Asked(i, NChannel + 1) :
        \/ /\ flags = {}
           /\ state' = [state EXCEPT ![i] = "ST_WAIT"]
           /\ irqFlags' = [irqFlags EXCEPT ![i] = {}]
           /\ lastChannel' = [lastChannel EXCEPT ![i] = First(i)]
           /\ timeoutCounter' = [timeoutCounter EXCEPT ![i] = Counter(i)]
        \/ flags # {} /\ Enter(i, "ST_WAIT", flags)
        \/ \E c \in flags : Busy(i, c, 0, "ST_FETCH_DATA", flags)
  /\ UNCHANGED queue

DataBusy(i) ==
  /\ state[i] = "ST_FETCH_DATA"
  /\ \E c \in irqFlags[i] :
        c >= First(i) /\ Busy(i, c, Counter(i), "ST_FETCH_DATA", irqFlags[i])
  /\ UNCHANGED queue

DataDone(i) ==
  /\ state[i] = "ST_FETCH_DATA"
  /\ state' = [state EXCEPT ![i] = "ST_WAIT"]
  /\ lastChannel' = [lastChannel EXCEPT ![i] = First(i)]
  /\ timeoutCounter' = [timeoutCounter EXCEPT ![i] = Counter(i)]
  /\ UNCHANGED <<queue, irqFlags>>

milTask(i) ==
  \/ NoMessage(i) \/ Message(i) \/ PostIrqWaiting(i) \/ PostIrqWaitingExpired(i)
  \/ StatusBusy(i) \/ StatusDone(i) \/ DataBusy(i) \/ DataDone(i)

Execute ==
  /\ task = "execute"
  /\ milTask(current)
  /\ IF current = NFsm THEN current' = 1 /\ task' = "check"
                       ELSE current' = current + 1 /\ task' = "execute"
  /\ UNCHANGED <<event, notified, wasRead, burst>>

Task == Check \/ WakeUp \/ HandleEvent \/ Synchronize \/ Execute

Next == MilInterrupt \/ EcaInterrupt \/ ClientHasRead \/ Task

\* The scheduler gives the task its time, and the waiting time of 200 us passes.
\* No interrupt need ever come, and a device may stay busy for ever.
Fairness ==
  /\ WF_vars(Task)
  /\ \A i \in Fsm : SF_vars(Execute /\ current = i /\ PostIrqWaitingExpired(i))

Spec     == Init /\ [][Next]_vars
FairSpec == Spec /\ Fairness
-----------------------------------------------------------------------------
\* The task does not sleep over work: with nothing pending to wake it up the queue
\* is empty, unless more messages came at once than there are state machines, and
\* no ECA event is left, unless more than one came at once (the loop of taskMil()
\* looks at its state machines, not at its queues, before it sleeps).
SleepsWithoutWork ==
  task = "sleep" /\ ~notified =>
    /\ queue = 0 \/ burst.queue
    /\ event = 0 \/ burst.event

\* No device can hold a state machine for ever: a channel that stays busy is
\* skipped after MIL_FSM_TIMEOUT calls.
FsmReturns == \A i \in Fsm : state[i] # "ST_WAIT" ~> state[i] = "ST_WAIT"

\* A client that has acknowledged its data is answered as long as the task is awake,
\* whatever the devices do.  (While all state machines wait it sleeps without a time
\* limit and does not answer; the comment in milExecuteTasks(), scu_mil_fg_handler.c:1895,
\* wants the synchronisation "in any cases here independently whether one or more MIL FG
\* are active or not".)
ClientIsSynchronized == wasRead ~> (~wasRead \/ (task = "sleep" /\ ~notified))
=============================================================================
