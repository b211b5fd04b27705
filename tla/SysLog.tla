-------------------------------- MODULE SysLog --------------------------------
(***************************************************************************)
(* The log of the firmware: lm32Log() puts a message into a ring in the    *)
(* DDR3-RAM, and the Linux daemon lm32-logd prints it.                     *)
(*                                                                         *)
(* Unlike the rings of the data acquisitions this one has its indexes in   *)
(* the DDR3-RAM too.  A task that logs reads them, with the daemon's       *)
(* answer wasRead behind them, changes the copy, and writes all back, one  *)
(* 64-bit word after the other: start and end are one word, wasRead is the *)
(* next.  The mutex of module RosMutex keeps the other tasks out, but not  *)
(* the daemon: an answer that it gives meanwhile is erased.                *)
(*                                                                         *)
(* The tasks here have the same priority and get the CPU in turn (main,    *)
(* DAQ and temperature; for others see MutexScheduling).  The command      *)
(* FG_OP_RESCAN of the main task deletes another task wherever it is and   *)
(* creates it anew; the LM32 may be reset, and the daemon started again.   *)
(***************************************************************************)
EXTENDS CircularIndex, Sequences, FiniteSets

CONSTANTS Task,        \* the tasks that log
          Main,        \* the one of them that executes commands
          NoTask,      \* NULL
          DeletedTask, \* the address of a task that does not exist any more
          Capacity,    \* words in the ring
          ItemLen,     \* SYSLOG_FIFO_ITEM_SIZE
          MaxItems,    \* getMaxItems(): most messages the daemon takes at once
          MaxMessages, \* bound: messages
          MaxFaults    \* bound: deletions, resets and restarts together

ASSUME SysLogAssumption ==
  /\ Main \in Task /\ {NoTask, DeletedTask} \cap Task = {} /\ NoTask # DeletedTask
  /\ ItemLen \in Nat \ {0} /\ Capacity \in Nat \ {0} /\ Capacity % ItemLen = 0
  /\ MaxItems \in Nat \ {0} /\ MaxMessages \in Nat /\ MaxFaults \in Nat

VARIABLES
  \* the mutex mg_syslogMutex
  lockedTask, nestingCount, pc, held,
  \* the DDR3-RAM
  indexes, wasRead, ram,
  \* the tasks
  at,         \* where each is in syslogPushItem()
  copy,       \* the indexes in the copy admin
  toAdd,      \* the wasRead in the copy
  written,    \* words written of the current message
  messages,   \* the number of the last message
  calls,      \* of lm32Log()
  \* the daemon
  daemon,     \* where it is
  copyOfDaemon, \* m_fiFoAdmin
  toRead, got,
  printed,    \* what it has printed, 0 for a message of mixed words
  faults,
  \* history
  erased,     \* how many of its answers a task has overwritten
  lossy,      \* a message has been removed, or lost by a fault
  spoilt      \* a fault has met an answer that was under way

mutexVars  == <<lockedTask, nestingCount, pc, held>>
shared     == <<indexes, wasRead, ram>>
taskVars   == <<at, copy, toAdd, written, messages, calls>>
daemonVars == <<daemon, copyOfDaemon, toRead, got, printed>>
vars == <<mutexVars, shared, taskVars, daemonVars, faults, erased, lossy, spoilt>>

Mutex == INSTANCE RosMutex WITH MaxNesting <- 2

Word   == [message : 0 .. MaxMessages, part : 0 .. ItemLen]
NoWord == [message |-> 0, part |-> 0]
Ring   == RAM_RING_INDEXES_T(0, Capacity)
EmptyRing == [offset |-> 0, capacity |-> Capacity, start |-> 0, end |-> 0]

TaskAt == {"idle", "read_indexes", "read_was", "write", "write_indexes", "write_was",
           "unlock", "boot_indexes", "boot_was"}

TypeOK ==
  /\ lockedTask \in Task \cup {NoTask, DeletedTask}
  /\ nestingCount \in 0 .. MaxFaults + 1 /\ held \in [Task -> 0 .. 1]
  /\ pc \in [Task -> {"run", "wait"}]
  /\ indexes \in Ring /\ copy \in Ring /\ copyOfDaemon \in Ring
  /\ wasRead \in 0 .. Capacity /\ toAdd \in 0 .. Capacity
  /\ ram \in [0 .. Capacity - 1 -> Word]
  /\ at \in [Task -> TaskAt] /\ written \in 0 .. ItemLen /\ messages \in 0 .. calls
  /\ calls \in 0 .. MaxMessages
  /\ daemon \in {"poll", "read", "answer", "print"}
  /\ toRead \in 0 .. Capacity /\ got \in Seq(Word) /\ Len(got) <= toRead
  /\ printed \in Seq(0 .. MaxMessages)
  /\ faults \in 0 .. MaxFaults /\ erased \in Nat
  /\ lossy \in BOOLEAN /\ spoilt \in BOOLEAN

\* lm32LogInit() has been called, and a daemon is connected.
Init ==
  /\ Mutex!Init
  /\ indexes = EmptyRing /\ wasRead = 0 /\ ram = [c \in 0 .. Capacity - 1 |-> NoWord]
  /\ at = [t \in Task |-> "idle"] /\ copy = EmptyRing /\ toAdd = 0 /\ written = 0
  /\ messages = 0 /\ calls = 0
  /\ daemon = "poll" /\ copyOfDaemon = EmptyRing /\ toRead = 0 /\ got = << >>
  /\ printed = << >> /\ faults = 0 /\ erased = 0 /\ lossy = FALSE /\ spoilt = FALSE
-----------------------------------------------------------------------------
(* A task: syslogPushItem() *)

\* Nobody is in the middle of the initialisation.
Running == at[Main] \notin {"boot_indexes", "boot_was"}

\* The task goes from one place to the next one.
Goto(t, from, to) ==
  /\ pc[t] = "run" /\ at[t] = from
  /\ at' = [at EXCEPT ![t] = to]

\* syslogLock(): with the mutex, or without it waiting for it.
Lock(t) ==
  /\ Running /\ calls < MaxMessages
  /\ calls' = calls + 1
  /\ Goto(t, "idle", "read_indexes")
  /\ Mutex!Lock(t)
  /\ UNCHANGED <<shared, copy, toAdd, written, messages, erased, lossy, spoilt>>

EndWaitEarly(t) ==
  /\ Mutex!EndWaitEarly(t)
  /\ UNCHANGED <<shared, taskVars, erased, lossy, spoilt>>

EndWait(t) ==
  /\ Mutex!EndWait(t)
  /\ UNCHANGED <<shared, taskVars, erased, lossy, spoilt>>

\* syslogReadFifoAdmin(), the word of the indexes ...
ReadIndexes(t) ==
  /\ Goto(t, "read_indexes", "read_was")
  /\ copy' = indexes
  /\ messages' = messages + 1
  /\ UNCHANGED <<shared, mutexVars, toAdd, written, calls, erased, lossy, spoilt>>

RemoveOneWord(r) == ramRingAddToReadIndex(r, 1)
RemoveOldest(r) == ramRingAddToReadIndex(r, ItemLen)

NoRoom(r) == ramRingGetRemainingCapacity(r) \div ItemLen = 0

\* ... and the one of wasRead.  In the copy the read index is synchronized, and the
\* oldest message removed when there is no room.
ReadWas(t) ==
  /\ Goto(t, "read_was", "write")
  /\ toAdd' = wasRead
  /\ LET r == IF wasRead = 0 THEN copy ELSE ramRingAddToReadIndex(copy, wasRead)
     IN  /\ copy' = IF NoRoom(r) THEN RemoveOldest(r) ELSE r
         /\ lossy' = (lossy \/ NoRoom(r))
  /\ written' = 0
  /\ UNCHANGED <<shared, mutexVars, messages, calls, erased, spoilt>>

WriteWord(t) ==
  /\ pc[t] = "run" /\ at[t] = "write"
  /\ ram' = [ram EXCEPT ![ramRingGetWriteIndex(copy)] =
                           [message |-> messages, part |-> written + 1]]
  /\ copy' = ramRingIncWriteIndex(copy)
  /\ written' = written + 1
  /\ at' = [at EXCEPT ![t] = IF written + 1 = ItemLen THEN "write_indexes" ELSE "write"]
  /\ UNCHANGED <<indexes, wasRead, mutexVars, toAdd, messages, calls, erased, lossy, spoilt>>

\* syslogWriteFifoAdmin(), the word of the indexes ...
WriteIndexes(t) ==
  /\ Goto(t, "write_indexes", "write_was")
  /\ indexes' = copy
  /\ UNCHANGED <<wasRead, ram, mutexVars, copy, toAdd, written, messages, calls, erased, lossy, spoilt>>

WriteWasForgotten(t) ==
  /\ Goto(t, "write_was", "unlock")
  /\ UNCHANGED <<shared, mutexVars, copy, toAdd, written, messages, calls, erased, lossy, spoilt>>

\* ... and the one of wasRead, whatever the daemon has written there meanwhile.
WriteWas(t) ==
  /\ Goto(t, "write_was", "unlock")
  /\ wasRead' = 0
  /\ erased' = IF wasRead # toAdd THEN erased + 1 ELSE erased
  /\ toAdd' = 0
  /\ UNCHANGED <<indexes, ram, mutexVars, copy, written, messages, calls, lossy, spoilt>>

UnlockForgotten(t) ==
  /\ Goto(t, "unlock", "idle")
  /\ UNCHANGED <<mutexVars, shared, copy, toAdd, written, messages, calls, erased, lossy, spoilt>>

Unlock(t) ==
  /\ Goto(t, "unlock", "idle")
  /\ Mutex!osMutexUnlock(t)
  /\ UNCHANGED <<shared, copy, toAdd, written, messages, calls, erased, lossy, spoilt>>

TaskStep(t) ==
  /\ \/ Lock(t) \/ EndWait(t) \/ ReadIndexes(t) \/ ReadWas(t) \/ WriteWord(t)
     \/ WriteIndexes(t) \/ WriteWas(t) \/ Unlock(t)
  /\ UNCHANGED <<daemonVars, faults>>
-----------------------------------------------------------------------------
(* The daemon: readItems() *)

PollUnanswered ==
  /\ daemon = "poll" /\ ramRingGetSize(indexes) # 0
  /\ toRead' = ItemLen /\ copyOfDaemon' = indexes
  /\ daemon' = "read" /\ got' = << >>
  /\ UNCHANGED <<shared, printed>>

\* The messages it can see are whole and not yet answered.
Poll ==
  /\ daemon = "poll"
  /\ LET size == ramRingGetSize(indexes)
         most == MaxItems * ItemLen
     IN  /\ wasRead = 0 /\ size # 0 /\ size % ItemLen = 0
         /\ toRead' = IF size < most THEN size ELSE most
  /\ copyOfDaemon' = indexes
  /\ daemon' = "read" /\ got' = << >>
  /\ UNCHANGED <<shared, printed>>

\* readItems( pData, len ): one cycle, or two across the end of the memory.
Read ==
  /\ daemon = "read"
  /\ LET left  == toRead - Len(got)
         upper == ramRingGetUpperReadSize(copyOfDaemon)
         n     == IF upper < left THEN upper ELSE left
         first == ramRingGetReadIndex(copyOfDaemon)
     IN  /\ got' = got \o [i \in 1 .. n |-> ram[first + i - 1]]
         /\ copyOfDaemon' = ramRingAddToReadIndex(copyOfDaemon, n)
         /\ daemon' = IF n = left THEN "answer" ELSE "read"
  /\ UNCHANGED <<shared, toRead, printed>>

\* setResponse( readTotalLen )
Answer ==
  /\ daemon = "answer"
  /\ wasRead' = toRead
  /\ daemon' = "print"
  /\ UNCHANGED <<indexes, ram, copyOfDaemon, toRead, got, printed>>

ItemAt(i) ==
  LET word(k) == got[(i - 1) * ItemLen + k]
  IN  IF \A k \in 1 .. ItemLen : word(k) = [message |-> word(1).message, part |-> k]
        THEN word(1).message ELSE 0

\* evaluateItem() for each
Output ==
  /\ daemon = "print"
  /\ printed' = printed \o [i \in 1 .. toRead \div ItemLen |-> ItemAt(i)]
  /\ daemon' = "poll" /\ got' = << >> /\ toRead' = 0
  /\ UNCHANGED <<shared, copyOfDaemon>>

DaemonStep ==
  /\ Poll \/ Read \/ Answer \/ Output
  /\ UNCHANGED <<mutexVars, taskVars, faults, erased, lossy, spoilt>>
-----------------------------------------------------------------------------
(* Faults *)

\* The daemon has read messages and not yet answered.
Reading == daemon \in {"read", "answer"}

Fault == faults < MaxFaults /\ faults' = faults + 1

\* taskDeleteIfRunning() and the creation of the task, whose control block may get
\* the address of the old one.  Nobody unlocks for the deleted task.
DeleteTask(t) ==
  /\ Fault /\ t # Main /\ pc[Main] = "run" /\ at[Main] = "idle"
  /\ lockedTask' \in IF lockedTask = t THEN {t, DeletedTask} ELSE {lockedTask}
  /\ pc' = [pc EXCEPT ![t] = "run"] /\ held' = [held EXCEPT ![t] = 0]
  /\ at' = [at EXCEPT ![t] = "idle"]
  /\ lossy' = (lossy \/ lockedTask = t)
  /\ spoilt' = (spoilt \/ (lockedTask = t /\ lockedTask' = t))
  /\ UNCHANGED <<nestingCount, shared, copy, toAdd, written, messages, calls, daemonVars, erased>>

\* The LM32 starts again: lm32LogInit() makes the mutex and the ring new.
ResetLm32 ==
  /\ Fault
  /\ lockedTask' = NoTask /\ nestingCount' = 0
  /\ pc' = [t \in Task |-> "run"] /\ held' = [t \in Task |-> 0]
  /\ at' = [t \in Task |-> IF t = Main THEN "boot_indexes" ELSE "idle"]
  /\ lossy' = TRUE
  /\ UNCHANGED <<shared, copy, toAdd, written, messages, calls, daemonVars, erased, spoilt>>

BootIndexes ==
  /\ Goto(Main, "boot_indexes", "boot_was")
  /\ indexes' = EmptyRing
  /\ spoilt' = (spoilt \/ Reading)
  /\ UNCHANGED <<wasRead, ram, mutexVars, copy, toAdd, written, messages, calls, daemonVars,
                 faults, erased, lossy>>

BootWas ==
  /\ Goto(Main, "boot_was", "idle")
  /\ wasRead' = 0
  /\ UNCHANGED <<indexes, ram, mutexVars, copy, toAdd, written, messages, calls, daemonVars,
                 faults, erased, lossy, spoilt>>

\* The daemon ends anywhere and is started again.  What it has answered and not yet
\* printed is lost.
RestartDaemon ==
  /\ Fault
  /\ daemon' = "poll" /\ toRead' = 0 /\ got' = << >>
  /\ lossy' = (lossy \/ daemon = "print")
  /\ UNCHANGED <<mutexVars, shared, taskVars, copyOfDaemon, printed, erased, spoilt>>

\* It is started with the option -r: resetFiFo() writes all in one cycle.
RestartDaemonAndReset ==
  /\ Fault
  /\ daemon' = "poll" /\ toRead' = 0 /\ got' = << >>
  /\ indexes' = EmptyRing /\ wasRead' = 0
  /\ lossy' = TRUE
  /\ UNCHANGED <<mutexVars, ram, taskVars, copyOfDaemon, printed, erased, spoilt>>

FaultStep ==
  \/ \E t \in Task : DeleteTask(t)
  \/ ResetLm32 \/ RestartDaemon \/ RestartDaemonAndReset

BootStep == BootIndexes \/ BootWas

Next == (\E t \in Task : TaskStep(t)) \/ DaemonStep \/ BootStep \/ FaultStep

Spec == Init /\ [][Next]_vars

\* A task that logs or waits for the log gets the CPU, the daemon polls.
Fairness ==
  /\ \A t \in Task : WF_vars(TaskStep(t) /\ (at[t] # "idle"))
  /\ WF_vars(DaemonStep)
  /\ WF_vars(BootStep)

FairSpec == Spec /\ Fairness
-----------------------------------------------------------------------------
\* RAM_ASSERT( ramRingGetSize( pThis ) >= toAdd ) of circular_index.c:144: the daemon
\* never says that it has read more than there is, although the oldest messages are
\* removed behind its back and its answers are erased.
AnswersWithinSize ==
  ~spoilt => \A t \in Task : at[t] = "read_was" /\ pc[t] = "run" =>
                                wasRead <= ramRingGetSize(copy)

\* Each message is printed whole, at least once, and in the order of logging, for as
\* long as no message is removed.
NoGap ==
  ~lossy => \A k \in 1 .. Len(printed) :
              printed[k] \in 1 .. (IF k = 1 THEN 1 ELSE printed[k - 1] + 1)

\* Messages are printed a second time only when an answer has been erased, once for
\* each.
RepeatedForAnErasure ==
  ~lossy =>
    Cardinality({k \in 2 .. Len(printed) : printed[k] <= printed[k - 1]}) <= erased

\* A message that is in the ring in the end waits for the next one to be logged: the
\* daemon does not read on before its answer has been taken.
Unanswered == daemon = "poll" /\ wasRead = 0 /\ ramRingGetSize(indexes) # 0
AllReadOrAnswered == <>[](~Unanswered \/ spoilt)

\* lm32Log() returns, also when another task has been deleted in the middle of it,
\* unless it was the owner of the mutex.
OwnerGone == lockedTask = DeletedTask \/ \E t \in Task : lockedTask = t /\ held[t] # nestingCount
LogReturns == \A t \in Task : at[t] # "idle" ~> (at[t] = "idle" \/ OwnerGone)
=============================================================================
