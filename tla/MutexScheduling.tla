--------------------------- MODULE MutexScheduling ---------------------------
(***************************************************************************)
(* The mutex of the system log under the scheduler of the firmware.        *)
(*                                                                         *)
(* FreeRTOS gives the CPU to an awake task of the highest priority         *)
(* (configUSE_PREEMPTION; tasks of one priority share their time).         *)
(* taskMain and taskDaq have TASK_PRIO_STD, taskMil one more and taskFg    *)
(* two more.  The last two sleep in xTaskNotifyWait() until an interrupt   *)
(* wakes them, and then run at once (CONFIG_ADDAC_FG_TASK_SHOULD_RUN_      *)
(* IMMEDIATELY); all of them log with lm32Log(), which takes the mutex.    *)
(* portYIELD() is vPortYieldLm32(): it calls the same scheduler, so that a *)
(* task that waits in osMutexLock() stays awake.                           *)
(***************************************************************************)
EXTENDS RosMutex

CONSTANTS Priority,  \* the priority of each task (scu_control_osConfig.h)
          Sleeper    \* the tasks that sleep until they are notified

VARIABLE asleep      \* the tasks in xTaskNotifyWait()

schedVars == <<vars, asleep>>

SchedInit == Init /\ asleep = Sleeper

\* vTaskSwitchContext(): the tasks that the scheduler may choose.
Chosen(t) ==
  /\ t \notin asleep
  /\ \A u \in Task \ asleep : Priority[u] <= Priority[t]

\* An interrupt wakes a task, which is then chosen if its priority is higher.
Notify(t) ==
  /\ t \in asleep
  /\ asleep' = asleep \ {t}
  /\ UNCHANGED vars

\* A task without work goes back to sleep.
Sleep(t) ==
  /\ Chosen(t) /\ t \in Sleeper /\ pc[t] = "run" /\ held[t] = 0
  /\ asleep' = asleep \cup {t}
  /\ UNCHANGED vars

\* syslogPushItem(): osMutexLock() and osMutexUnlock() around the work.
Log(t) == Chosen(t) /\ held[t] = 0 /\ Lock(t) /\ UNCHANGED asleep
Wait(t) == Chosen(t) /\ EndWait(t) /\ UNCHANGED asleep
Release(t) == Chosen(t) /\ held[t] > 0 /\ osMutexUnlock(t) /\ UNCHANGED asleep

SchedNext == \E t \in Task : Notify(t) \/ Sleep(t) \/ Log(t) \/ Wait(t) \/ Release(t)

\* A chosen task goes on: it leaves the mutex, ends its wait or falls asleep.
SchedFairness ==
  \A t \in Task : WF_schedVars(Wait(t)) /\ WF_schedVars(Release(t)) /\ WF_schedVars(Sleep(t))

SchedSpec == SchedInit /\ [][SchedNext]_schedVars /\ SchedFairness
-----------------------------------------------------------------------------
\* What the comment in osMutexLock() says (ros_mutex.c:61): "While the mutex is
\* still locked, so the work of other tasks will do" -- of the owner, too, so that
\* a task that waits for the mutex gets it in the end.
LockReturns == \A t \in Task : pc[t] = "wait" ~> pc[t] = "run"
=============================================================================
