------------------------------- MODULE RosMutex -------------------------------
(***************************************************************************)
(* The recursive mutex of the firmware (srclib/lm32/sys/ros_mutex.c),      *)
(* which serializes the log messages of the RTOS tasks (lm32_syslog.c).    *)
(*                                                                         *)
(* The mutex has no queue of waiters: a task that finds it locked yields   *)
(* inside its critical section, whose nesting counter belongs to the task, *)
(* and looks again when it is scheduled.  From there to the end of the     *)
(* call nothing interrupts it, so a look that finds the mutex free and the *)
(* store of lockedTask are one step.  osMutexTryLock() looks outside of    *)
(* any critical section: its look and its osMutexLock() are two steps, and *)
(* a task may come to wait in it ("try_wait").                             *)
(***************************************************************************)
EXTENDS Naturals

CONSTANTS Task,        \* the RTOS tasks
          NoTask,      \* NULL
          MaxNesting   \* bound: nested locks of a task

ASSUME RosMutexAssumption == NoTask \notin Task /\ MaxNesting \in Nat \ {0}

VARIABLES
  lockedTask,    \* pThis->lockedTask
  nestingCount,  \* pThis->nestingCount
  pc,            \* "run", or in which call the task is
  held           \* history: locks without their unlock, of each task

vars == <<lockedTask, nestingCount, pc, held>>

TypeOK ==
  /\ lockedTask \in Task \cup {NoTask}
  /\ nestingCount \in 0 .. MaxNesting
  /\ pc \in [Task -> {"run", "wait", "try", "try_wait"}]
  /\ held \in [Task -> 0 .. MaxNesting]

\* osMutexInit()
Init ==
  /\ lockedTask = NoTask /\ nestingCount = 0
  /\ pc = [t \in Task |-> "run"] /\ held = [t \in Task |-> 0]

osMutexIsLocked == lockedTask # NoTask

\* The end of osMutexLock().
Take(t) ==
  /\ lockedTask' = t
  /\ nestingCount' = nestingCount + 1
  /\ held' = [held EXCEPT ![t] = @ + 1]
  /\ pc' = [pc EXCEPT ![t] = "run"]

\* osMutexLock() called at the given place; a locked mutex leads to the wait.
osMutexLock(t, from, wait) ==
  /\ pc[t] = from /\ held[t] < MaxNesting
  /\ \/ lockedTask = t /\ Take(t)
     \/ ~osMutexIsLocked /\ Take(t)
     \/ /\ osMutexIsLocked /\ lockedTask # t
        /\ pc' = [pc EXCEPT ![t] = wait]
        /\ UNCHANGED <<lockedTask, nestingCount, held>>

Lock(t) == osMutexLock(t, "run", "wait")

\* The loop around portYIELD(): nothing happens until the mutex is seen free.
EndWaitEarly(t) == pc[t] \in {"wait", "try_wait"} /\ Take(t)
EndWait(t) ==
  /\ pc[t] \in {"wait", "try_wait"}
  /\ ~osMutexIsLocked
  /\ Take(t)

\* osMutexTryLock(): the look that does not return false.
TryLook(t) ==
  /\ pc[t] = "run" /\ held[t] < MaxNesting
  /\ ~osMutexIsLocked \/ lockedTask = t
  /\ pc' = [pc EXCEPT ![t] = "try"]
  /\ UNCHANGED <<lockedTask, nestingCount, held>>

TryLock(t) == osMutexLock(t, "try", "try_wait")

\* osMutexUnlock() of a task that may hold the mutex or not.
UnlockOfAny(t) ==
  /\ pc[t] = "run"
  /\ LET n == IF nestingCount # 0 THEN nestingCount - 1 ELSE nestingCount
     IN  /\ nestingCount' = n
         /\ lockedTask' = IF n = 0 THEN NoTask ELSE lockedTask
  /\ held' = [held EXCEPT ![t] = IF @ = 0 THEN 0 ELSE @ - 1]
  /\ UNCHANGED pc

osMutexUnlock(t) ==
  /\ pc[t] = "run"
  /\ LET n == IF nestingCount # 0 /\ lockedTask = t THEN nestingCount - 1 ELSE nestingCount
     IN  /\ nestingCount' = n
         /\ lockedTask' = IF n = 0 THEN NoTask ELSE lockedTask
  /\ held' = [held EXCEPT ![t] = IF @ = 0 THEN 0 ELSE @ - 1]
  /\ UNCHANGED pc

Next == \E t \in Task :
  Lock(t) \/ EndWait(t) \/ TryLook(t) \/ TryLock(t) \/ osMutexUnlock(t)

Spec == Init /\ [][Next]_vars
-----------------------------------------------------------------------------
\* Two tasks never hold the mutex at the same time, whatever the order in which
\* waiting tasks are scheduled and whoever calls osMutexUnlock().
MutualExclusion == \A t, u \in Task : held[t] > 0 /\ held[u] > 0 => t = u

\* The mutex is released by exactly the unlock that belongs to the first lock:
\* nestingCount counts the locks of its owner and of nobody else.
CountsItsOwner ==
  /\ lockedTask = NoTask <=> nestingCount = 0
  /\ \A t \in Task : held[t] = IF lockedTask = t THEN nestingCount ELSE 0
=============================================================================
