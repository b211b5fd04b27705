----------------------------- MODULE QueueWatcher -----------------------------
(***************************************************************************)
(* The overflow watchdog of the message queues (prj/scu-control/           *)
(* queue_watcher.{h,c}).                                                   *)
(*                                                                         *)
(* The interrupt routine pushes messages into the queues of the tasks and  *)
(* counts ECA events.  When an object was full it also pushes the address  *)
(* of the object into g_queueAlarm.  The main task takes one alarm in each *)
(* turn of its loop, logs it, and erases the queue it names.  Between the  *)
(* pop of the alarm and the erasure interrupts and other tasks go on.      *)
(*                                                                         *)
(* What a message says is left out: a queue is the number of its messages. *)
(* Module SwQueue shows that its cells behave that way.                    *)
(***************************************************************************)
EXTENDS Naturals, Sequences, FiniteSets

CONSTANTS Queue,          \* the watched software queues
          Event,          \* the watched EVENT_T objects: g_ecaEvent
          Capacity,       \* messages or events that one of them holds
          AlarmCapacity,  \* of g_queueAlarm (MAX_FG_CHANNELS)
          MaxLost         \* bound: losses of each queue

ASSUME QueueWatcherAssumption ==
  /\ Queue \cap Event = {}
  /\ Capacity \in Nat \ {0} /\ AlarmCapacity \in Nat \ {0} /\ MaxLost \in Nat

Watched == Queue \cup Event

VARIABLES
  count,     \* messages in each queue, EVENT_T.counter
  alarm,     \* g_queueAlarm
  main,      \* what the main task is about to do
  overflowed,\* pOverflowedQueue
  \* history
  lost,      \* messages and events lost by overflow
  erased,    \* erasures of each queue
  unlogged,  \* there was a loss since the last log message of this queue
  refused    \* whose alarms found g_queueAlarm full since they were logged last

vars == <<count, alarm, main, overflowed, lost, erased, unlogged, refused>>

TypeOK ==
  /\ count \in [Watched -> 0 .. Capacity]
  /\ alarm \in Seq(Watched) /\ Len(alarm) <= AlarmCapacity
  /\ main \in {"poll", "log", "erase"} /\ overflowed \in Watched
  /\ lost \in [Watched -> 0 .. MaxLost] /\ erased \in [Watched -> 0 .. MaxLost]
  /\ unlogged \in [Watched -> BOOLEAN] /\ refused \subseteq Watched

\* initInterrupt() and the tasks have erased their queues.
Init ==
  /\ count = [w \in Watched |-> 0]
  /\ alarm = << >> /\ main = "poll" /\ overflowed \in Watched
  /\ lost = [w \in Watched |-> 0] /\ erased = [w \in Watched |-> 0]
  /\ unlogged = [w \in Watched |-> FALSE] /\ refused = {}
-----------------------------------------------------------------------------
(* The interrupt routine: queuePushWatched() and evPushWatched() *)

\* There is place, and no alarm.
Push(w) ==
  /\ count[w] < Capacity
  /\ count' = [count EXCEPT ![w] = @ + 1]
  /\ UNCHANGED <<alarm, main, overflowed, lost, erased, unlogged, refused>>

\* queuePush( &g_queueAlarm, &pThis ): its result is not looked at.
NoAlarm(w) == UNCHANGED <<alarm, refused>>
TwoAlarms(w) == alarm' = alarm \o <<w, w>> /\ UNCHANGED refused
Alarm(w) ==
  IF Len(alarm) < AlarmCapacity
    THEN alarm' = Append(alarm, w) /\ UNCHANGED refused
    ELSE refused' = refused \cup {w} /\ UNCHANGED alarm

\* queueForcePush() has put the new message in place of the oldest one;
\* evPush() has refused the new event.
PushFull(w) ==
  /\ count[w] = Capacity /\ lost[w] < MaxLost
  /\ lost' = [lost EXCEPT ![w] = @ + 1]
  /\ unlogged' = [unlogged EXCEPT ![w] = TRUE]
  /\ Alarm(w)
  /\ UNCHANGED <<count, main, overflowed, erased>>

\* A task takes a message: queuePopSafe(), evPopSafe().
Take(w) ==
  /\ count[w] > 0
  /\ count' = [count EXCEPT ![w] = @ - 1]
  /\ UNCHANGED <<alarm, main, overflowed, lost, erased, unlogged, refused>>
-----------------------------------------------------------------------------
(* The main task: queuePollAlarm() *)

PollAlarm ==
  /\ main = "poll" /\ alarm # << >>
  /\ overflowed' = Head(alarm)
  /\ alarm' = Tail(alarm)
  /\ main' = "log"
  /\ UNCHANGED <<count, lost, erased, unlogged, refused>>

\* An EVENT_T is not erased.
Log ==
  /\ main = "log"
  /\ unlogged' = [unlogged EXCEPT ![overflowed] = FALSE]
  /\ refused' = refused \ {overflowed}
  /\ main' = IF overflowed \in Event THEN "poll" ELSE "erase"
  /\ UNCHANGED <<count, alarm, overflowed, lost, erased>>

\* queueResetSafe(): whatever is in the queue now.
EraseAgain ==
  /\ main = "erase"
  /\ count' = [count EXCEPT ![overflowed] = 0]
  /\ erased' = [erased EXCEPT ![overflowed] = @ + 1]
  /\ UNCHANGED <<alarm, main, overflowed, lost, unlogged, refused>>

Erase ==
  /\ main = "erase"
  /\ count' = [count EXCEPT ![overflowed] = 0]
  /\ erased' = [erased EXCEPT ![overflowed] = @ + 1]
  /\ main' = "poll"
  /\ UNCHANGED <<alarm, overflowed, lost, unlogged, refused>>

MainTask == PollAlarm \/ Log \/ Erase

Next == MainTask \/ \E w \in Watched : Push(w) \/ PushFull(w) \/ Take(w)

Spec == Init /\ [][Next]_vars

\* The main loop never blocks; the scheduler gives it its time.
FairSpec == Spec /\ WF_vars(MainTask)
-----------------------------------------------------------------------------
PlacesOf(w, s) == {i \in 1 .. Len(s) : s[i] = w}

\* The alarms of w in the queue, and the one that the main task is working on.
PendingAlarms(w) ==
  Cardinality(PlacesOf(w, alarm)) + IF main # "poll" /\ overflowed = w THEN 1 ELSE 0

\* A queue is erased at most once for each message it has lost, and each alarm has
\* a loss of its own: queuePollAlarm() does not go on erasing a queue whose
\* overflow is over, however its steps mix with pushes and other alarms.
ErasedForALoss ==
  \A w \in Watched :
    erased[w] + PendingAlarms(w) <= lost[w]

\* Every loss is logged in the end, except one whose alarm found g_queueAlarm full: the
\* alarms of the other queues may fill it, and queuePushWatched() does not look at the
\* result (queue_watcher.h:64).  A queue whose own alarm was accepted is not concerned,
\* and the next alarm of a queue that was makes up for it.
LossIsLogged == \A w \in Watched : unlogged[w] ~> (~unlogged[w] \/ w \in refused)
=============================================================================
