----------------------------- MODULE SysLog_proofs -----------------------------
(***************************************************************************)
(* The proofs for module SysLog, in three parts, each upon the one before. *)
(*                                                                         *)
(* The types (Base).  A task that is inside of its critical section has    *)
(* the mutex and has locked it once; the mutex nests deeper only by the    *)
(* owners that have been deleted with it.                                  *)
(*                                                                         *)
(* The answers (AInv).  The owner of the mutex goes through the stages of  *)
(* syslogPushItem().  As many words as the daemon is reading stay in the   *)
(* ring until it has answered, for a message is removed only for another   *)
(* one of the same length; and the answer is not yet taken, or the copy    *)
(* already lacks what it says, or the ring has been reset meanwhile and    *)
(* there is nothing to answer.                                             *)
(*                                                                         *)
(* The order of the messages (SInv), as long as none is removed.  The g-th *)
(* word that has been logged is WordOf(g), and the ring holds the words    *)
(* from Oldest on.  All before the word Answered have been read, none      *)
(* beyond Seen.  An erased answer sets Answered back behind Seen; the      *)
(* daemon then reads from there again, which is the one step back that is  *)
(* paid for by the erasure: Debt says which of them is still to come.      *)
(***************************************************************************)
EXTENDS SysLog, Integers, SequenceTheorems, FiniteSetTheorems, TLAPS

\* The places where a task has the mutex, unless it waits for it.
Inside == {"read_indexes", "read_was", "write", "write_indexes", "write_was", "unlock"}
In(t)  == pc[t] = "run" /\ at[t] \in Inside

\* The tasks that have been called and have not yet numbered their message.
Called == {t \in Task : at[t] = "read_indexes"}

Counted == IsFiniteSet(Called) /\ messages + Cardinality(Called) <= calls

\* What holds of each task.
Tenure(t) ==
  /\ In(t) => lockedTask = t /\ held[t] = 1
  /\ ~In(t) => held[t] = 0
  /\ pc[t] = "wait" => at[t] = "read_indexes"
  /\ at[t] \in {"boot_indexes", "boot_was"} => t = Main
  /\ lockedTask = t => nestingCount <= held[t] + faults
  /\ ~spoilt /\ lockedTask = t => In(t) /\ nestingCount = 1

Owners ==
  /\ \A t \in Task : Tenure(t)
  /\ lockedTask = NoTask <=> nestingCount = 0
  /\ lockedTask = DeletedTask => nestingCount <= faults
  /\ ~Running => lockedTask = NoTask /\ \A t \in Task \ {Main} : at[t] = "idle"

MutexTypes ==
  /\ lockedTask \in Task \cup {NoTask, DeletedTask}
  /\ nestingCount \in 0 .. MaxFaults + 1 /\ held \in [Task -> 0 .. 1]
  /\ pc \in [Task -> {"run", "wait"}] /\ at \in [Task -> TaskAt]
  /\ faults \in 0 .. MaxFaults

RingTypes ==
  /\ indexes \in Ring /\ copy \in Ring /\ copyOfDaemon \in Ring
  /\ wasRead \in 0 .. Capacity /\ toAdd \in 0 .. Capacity
  /\ ram \in [0 .. Capacity - 1 -> Word]

MessageTypes ==
  /\ written \in 0 .. ItemLen /\ messages \in 0 .. calls /\ calls \in 0 .. MaxMessages

DaemonTypes ==
  /\ daemon \in {"poll", "read", "answer", "print"}
  /\ toRead \in 0 .. Capacity /\ got \in Seq(Word) /\ Len(got) <= toRead
  /\ printed \in Seq(0 .. MaxMessages)

HistoryTypes == erased \in Nat /\ lossy \in BOOLEAN /\ spoilt \in BOOLEAN

\* How far the task that writes, and the daemon, have got.
Progress ==
  /\ \A t \in Task : at[t] = "write" => written < ItemLen
  /\ daemon = "poll" => toRead = 0
  /\ daemon # "poll" => toRead > 0
  /\ daemon = "read" => Len(got) < toRead
  /\ daemon \in {"answer", "print"} => Len(got) = toRead

LEMMA TypeParts ==
  TypeOK <=> MutexTypes /\ RingTypes /\ MessageTypes /\ DaemonTypes /\ HistoryTypes
  BY Zenon DEF TypeOK, MutexTypes, RingTypes, MessageTypes, DaemonTypes, HistoryTypes

LEMMA TypePartsNext ==
  TypeOK' <=> MutexTypes' /\ RingTypes' /\ MessageTypes' /\ DaemonTypes' /\ HistoryTypes'
  BY Zenon DEF TypeOK, MutexTypes, RingTypes, MessageTypes, DaemonTypes, HistoryTypes
-----------------------------------------------------------------------------
(* Who has the mutex *)

LEMMA InitOwners == Init => MutexTypes /\ Owners /\ Counted
<1>. SUFFICES ASSUME Init PROVE MutexTypes /\ Owners /\ Counted
  OBVIOUS
<1>1. /\ lockedTask = NoTask /\ nestingCount = 0 /\ faults = 0
      /\ pc = [t \in Task |-> "run"] /\ held = [t \in Task |-> 0] /\ at = [t \in Task |-> "idle"]
      /\ messages = 0 /\ calls = 0
  BY DEF Init, Mutex!Init
<1>2. MutexTypes
  BY <1>1, SysLogAssumption DEF MutexTypes, TaskAt
<1>3. Owners
  BY <1>1, SysLogAssumption DEF Owners, Tenure, In, Inside, Running
<1>4. Called = {}
  BY <1>1 DEF Called
<1>. QED
  BY <1>1, <1>2, <1>3, <1>4, FS_EmptySet DEF Counted

\* A task goes on inside of its critical section.
LEMMA MoveInside ==
  ASSUME MutexTypes, Owners, NEW t \in Task, In(t), NEW to \in Inside,
         at' = [at EXCEPT ![t] = to], UNCHANGED <<mutexVars, faults, spoilt>>
  PROVE  MutexTypes' /\ Owners'
<1>1. MutexTypes'
  BY DEF MutexTypes, mutexVars, Inside, TaskAt
<1>2. \A u \in Task : In(u)' <=> In(u)
  BY DEF MutexTypes, mutexVars, In
<1>3. lockedTask = t /\ lockedTask # NoTask /\ Running
  BY SysLogAssumption DEF Owners, Tenure
<1>4. Running'
  BY <1>3, SysLogAssumption DEF MutexTypes, Running, Inside
<1>5. \A u \in Task : pc'[u] = "wait" => at'[u] = "read_indexes"
  BY DEF MutexTypes, Owners, Tenure, mutexVars, In
<1>6. \A u \in Task : at'[u] \in {"boot_indexes", "boot_was"} => u = Main
  BY DEF MutexTypes, Owners, Tenure, mutexVars, Inside
<1>. QED
  BY <1>1, <1>2, <1>3, <1>4, <1>5, <1>6 DEF Owners, Tenure, mutexVars

\* The mutex is taken by a task that has none, and that the mutex does not keep out.
LEMMA TakeKeepsOwners ==
  ASSUME MutexTypes, Owners, NEW t \in Task, ~In(t), lockedTask \in {NoTask, t}, Running,
         Mutex!Take(t), at' = [at EXCEPT ![t] = "read_indexes"], UNCHANGED <<faults, spoilt>>
  PROVE  MutexTypes' /\ Owners'
<1>1. held[t] = 0 /\ nestingCount \in 0 .. faults
  BY SysLogAssumption DEF Owners, Tenure, MutexTypes
<1>2. /\ lockedTask' = t /\ nestingCount' = nestingCount + 1
      /\ held' = [held EXCEPT ![t] = 1] /\ pc' = [pc EXCEPT ![t] = "run"]
  BY <1>1 DEF Mutex!Take, MutexTypes
<1>3. MutexTypes'
  BY <1>1, <1>2, SysLogAssumption DEF MutexTypes, TaskAt
<1>4. \A u \in Task : In(u)' <=> In(u) \/ u = t
  BY <1>2 DEF MutexTypes, In, Inside
<1>5. \A u \in Task : In(u) => u = t
  BY SysLogAssumption DEF Owners, Tenure
<1>6. Running' /\ t \notin {NoTask, DeletedTask} /\ lockedTask' # NoTask
  BY <1>2, SysLogAssumption DEF MutexTypes, Running
<1>7. ~spoilt => nestingCount = 0
  BY SysLogAssumption DEF Owners, Tenure
<1>. QED
  BY <1>1, <1>2, <1>3, <1>4, <1>5, <1>6, <1>7 DEF Owners, Tenure, MutexTypes

\* It is given back by the last unlock of its owner.
LEMMA UnlockKeepsOwners ==
  ASSUME MutexTypes, Owners, NEW t \in Task, Unlock(t), UNCHANGED faults
  PROVE  MutexTypes' /\ Owners'
<1>1. In(t) /\ lockedTask = t /\ held[t] = 1 /\ nestingCount \in 1 .. faults + 1
  BY SysLogAssumption DEF Unlock, Goto, In, Inside, Owners, Tenure, MutexTypes
<1>2. /\ at' = [at EXCEPT ![t] = "idle"] /\ held' = [held EXCEPT ![t] = 0] /\ pc' = pc
      /\ nestingCount' = nestingCount - 1
      /\ lockedTask' = IF nestingCount' = 0 THEN NoTask ELSE t
      /\ UNCHANGED <<faults, spoilt>>
  BY <1>1 DEF Unlock, Goto, Mutex!osMutexUnlock, MutexTypes
<1>3. MutexTypes'
  BY <1>1, <1>2, SysLogAssumption DEF MutexTypes, TaskAt
<1>4. \A u \in Task : In(u)' <=> In(u) /\ u # t
  BY <1>2 DEF MutexTypes, In, Inside
<1>5. \A u \in Task : In(u) => u = t
  BY <1>1 DEF Owners, Tenure
<1>6. Running /\ Running'
  <2>1. Running
    BY <1>1, SysLogAssumption DEF Owners, Tenure
  <2>. QED
    BY <1>2, <2>1, SysLogAssumption DEF MutexTypes, Running
<1>7. \A u \in Task : /\ pc'[u] = "wait" => at'[u] = "read_indexes"
                      /\ at'[u] \in {"boot_indexes", "boot_was"} => u = Main
  BY <1>1, <1>2 DEF MutexTypes, Owners, Tenure, In
<1>8. ~spoilt => nestingCount = 1
  BY <1>1 DEF Owners, Tenure
<1>9. \A u \in Task : ~In(u)' => held'[u] = 0
  BY <1>2, <1>4 DEF Owners, Tenure, MutexTypes
<1>10. t \notin {NoTask, DeletedTask} /\ NoTask # DeletedTask
  BY SysLogAssumption
<1>11. ASSUME NEW u \in Task PROVE Tenure(u)'
  <2>1. held'[t] = 0 /\ nestingCount' \in 0 .. faults /\ faults \in Nat
    BY <1>1, <1>2 DEF MutexTypes
  <2>2. lockedTask' = u => u = t
    BY <1>2, SysLogAssumption
  <2>3. ~In(u)'
    BY <1>4, <1>5
  <2>4. ~spoilt' => lockedTask' # u
    BY <1>2, <1>8, SysLogAssumption
  <2>. QED
    BY <1>2, <1>7, <1>9, <2>1, <2>2, <2>3, <2>4 DEF Tenure, MutexTypes
<1>12. /\ lockedTask' = NoTask <=> nestingCount' = 0
       /\ lockedTask' = DeletedTask => nestingCount' <= faults'
  BY <1>2, <1>10
<1>. QED
  BY <1>3, <1>6, <1>11, <1>12 DEF Owners

\* A task calls lm32Log().
LEMMA LockKeepsOwners ==
  ASSUME MutexTypes, Owners, NEW t \in Task, Lock(t), UNCHANGED faults
  PROVE  MutexTypes' /\ Owners'
<1>1. /\ Running /\ at[t] = "idle" /\ pc[t] = "run" /\ ~In(t)
      /\ at' = [at EXCEPT ![t] = "read_indexes"] /\ UNCHANGED <<faults, spoilt>>
  BY DEF Lock, Goto, In, Inside
<1>2. CASE lockedTask \in {NoTask, t} /\ Mutex!Take(t)
  BY <1>1, <1>2, TakeKeepsOwners
<1>3. CASE /\ lockedTask # NoTask /\ lockedTask # t
           /\ pc' = [pc EXCEPT ![t] = "wait"] /\ UNCHANGED <<lockedTask, nestingCount, held>>
  <2>1. MutexTypes'
    BY <1>1, <1>3 DEF MutexTypes, TaskAt
  <2>2. \A u \in Task : In(u)' <=> In(u)
    BY <1>1, <1>3 DEF MutexTypes, In, Inside
  <2>3. Running'
    BY <1>1, SysLogAssumption DEF MutexTypes, Running
  <2>4. \A u \in Task : /\ pc'[u] = "wait" => at'[u] = "read_indexes"
                        /\ at'[u] \in {"boot_indexes", "boot_was"} => u = Main
    BY <1>1, <1>3 DEF MutexTypes, Owners, Tenure
  <2>5. \A u \in Task : /\ In(u)' => lockedTask' = u /\ held'[u] = 1
                        /\ ~In(u)' => held'[u] = 0
                        /\ lockedTask' = u => nestingCount' <= held'[u] + faults'
                        /\ ~spoilt' /\ lockedTask' = u => In(u)' /\ nestingCount' = 1
    BY <1>1, <1>3, <2>2 DEF Owners, Tenure
  <2>6. /\ lockedTask' = NoTask <=> nestingCount' = 0
        /\ lockedTask' = DeletedTask => nestingCount' <= faults'
    BY <1>1, <1>3 DEF Owners, Tenure
  <2>7. \A u \in Task : Tenure(u)'
    BY <2>1, <2>4, <2>5 DEF Tenure, MutexTypes
  <2>. QED
    BY <2>1, <2>3, <2>6, <2>7 DEF Owners
<1>. QED
  BY <1>2, <1>3 DEF Lock, Mutex!Lock, Mutex!osMutexLock, Mutex!osMutexIsLocked

\* A task that waits sees the mutex free.
LEMMA EndWaitKeepsOwners ==
  ASSUME MutexTypes, Owners, NEW t \in Task, EndWait(t), UNCHANGED faults
  PROVE  MutexTypes' /\ Owners'
<1>1. pc[t] = "wait" /\ lockedTask = NoTask /\ Mutex!Take(t) /\ UNCHANGED <<at, faults, spoilt>>
  BY DEF EndWait, Mutex!EndWait, Mutex!osMutexIsLocked, MutexTypes, taskVars
<1>2. at[t] = "read_indexes" /\ ~In(t)
  BY <1>1 DEF Owners, Tenure, In
<1>3. at' = [at EXCEPT ![t] = "read_indexes"]
  BY <1>1, <1>2 DEF MutexTypes
<1>4. Running
  <2>1. at[Main] \in {"boot_indexes", "boot_was"} => t # Main
    BY <1>2
  <2>. QED
    BY <1>2, <2>1 DEF Owners, Tenure, Running
<1>. QED
  BY <1>1, <1>2, <1>3, <1>4, TakeKeepsOwners

\* Nothing about the mutex has changed.
LEMMA StillOwned ==
  ASSUME MutexTypes, Owners, UNCHANGED <<mutexVars, at>>, spoilt => spoilt',
         faults' \in 0 .. MaxFaults, faults <= faults'
  PROVE  MutexTypes' /\ Owners'
<1>1. MutexTypes'
  BY DEF MutexTypes, mutexVars
<1>2. \A u \in Task : In(u)' <=> In(u)
  BY DEF In, mutexVars
<1>3. Running' <=> Running
  BY DEF Running
<1>4. /\ \A u \in Task : held[u] \in Nat
      /\ faults \in Nat /\ faults' \in Nat /\ nestingCount \in Nat
  BY <1>1 DEF MutexTypes
<1>. QED
  BY <1>1, <1>2, <1>3, <1>4 DEF Owners, Tenure, mutexVars

\* A task is deleted: when it was the owner, nobody unlocks for it.
LEMMA DeleteKeepsOwners ==
  ASSUME MutexTypes, Owners, NEW t \in Task, DeleteTask(t)
  PROVE  MutexTypes' /\ Owners'
<1>1. /\ t # Main /\ at[Main] = "idle" /\ pc[Main] = "run"
      /\ lockedTask' \in IF lockedTask = t THEN {t, DeletedTask} ELSE {lockedTask}
      /\ pc' = [pc EXCEPT ![t] = "run"] /\ held' = [held EXCEPT ![t] = 0]
      /\ at' = [at EXCEPT ![t] = "idle"] /\ nestingCount' = nestingCount
      /\ faults < MaxFaults /\ faults' = faults + 1
      /\ spoilt' <=> spoilt \/ (lockedTask = t /\ lockedTask' = t)
  BY DEF DeleteTask, Fault
<1>2. MutexTypes'
  BY <1>1, SysLogAssumption DEF MutexTypes, TaskAt
<1>3. \A u \in Task : In(u)' <=> In(u) /\ u # t
  BY <1>1 DEF MutexTypes, In, Inside
<1>4. Running'
  BY <1>1, SysLogAssumption DEF MutexTypes, Running
<1>5. t \notin {NoTask, DeletedTask} /\ NoTask # DeletedTask
  BY SysLogAssumption
<1>6. lockedTask = t => nestingCount # 0 /\ nestingCount <= faults + 1
  BY <1>5 DEF Owners, Tenure, MutexTypes
<1>7. \A u \in Task : /\ In(u)' => lockedTask' = u /\ held'[u] = 1
                      /\ ~In(u)' => held'[u] = 0
                      /\ pc'[u] = "wait" => at'[u] = "read_indexes"
                      /\ at'[u] \in {"boot_indexes", "boot_was"} => u = Main
  BY <1>1, <1>3 DEF MutexTypes, Owners, Tenure
<1>8. lockedTask' = NoTask <=> nestingCount' = 0
  BY <1>1, <1>5, <1>6 DEF Owners, Tenure
<1>9. /\ \A u \in Task : lockedTask' = u => nestingCount' <= held'[u] + faults'
      /\ lockedTask' = DeletedTask => nestingCount' <= faults'
  <2>1. \A u \in Task : lockedTask' = u => lockedTask = u
    BY <1>1, SysLogAssumption
  <2>2. \A u \in Task : held[u] \in 0 .. 1
    BY DEF MutexTypes
  <2>3. \A u \in Task : u # t => held'[u] = held[u]
    BY <1>1 DEF MutexTypes
  <2>4. held'[t] = 0
    BY <1>1 DEF MutexTypes
  <2>5. faults \in Nat /\ nestingCount \in Nat
    BY DEF MutexTypes
  <2>6. ASSUME NEW u \in Task, lockedTask' = u PROVE nestingCount' <= held'[u] + faults'
    <3>1. nestingCount <= held[u] + faults
      BY <2>1, <2>6 DEF Owners, Tenure
    <3>2. CASE u = t
      BY <1>1, <2>2, <2>4, <2>5, <3>1, <3>2
    <3>3. CASE u # t
      BY <1>1, <2>2, <2>3, <2>5, <3>1, <3>3
    <3>. QED
      BY <3>2, <3>3
  <2>7. ASSUME lockedTask' = DeletedTask PROVE nestingCount' <= faults'
    BY <1>1, <1>6, <2>5, <2>7 DEF Owners, Tenure
  <2>. QED
    BY <2>6, <2>7
<1>10. \A u \in Task : ~spoilt' /\ lockedTask' = u => In(u)' /\ nestingCount' = 1
  BY <1>1, <1>3, <1>5, SysLogAssumption DEF Owners, Tenure
<1>11. \A u \in Task : Tenure(u)'
  <2>. SUFFICES ASSUME NEW u \in Task PROVE Tenure(u)'
    OBVIOUS
  <2>1. In(u)' => lockedTask' = u /\ held'[u] = 1
    BY <1>7
  <2>2. ~In(u)' => held'[u] = 0
    BY <1>7
  <2>3. pc'[u] = "wait" => at'[u] = "read_indexes"
    BY <1>7
  <2>4. at'[u] \in {"boot_indexes", "boot_was"} => u = Main
    BY <1>7
  <2>5. lockedTask' = u => nestingCount' <= held'[u] + faults'
    BY <1>9
  <2>6. ~spoilt' /\ lockedTask' = u => In(u)' /\ nestingCount' = 1
    BY <1>10
  <2>. QED
    BY <2>1, <2>2, <2>3, <2>4, <2>5, <2>6, Zenon DEF Tenure
<1>. QED
  BY <1>2, <1>4, <1>8, <1>9, <1>11 DEF Owners

\* The LM32 starts again.
LEMMA ResetKeepsOwners ==
  ASSUME MutexTypes, Owners, ResetLm32
  PROVE  MutexTypes' /\ Owners'
<1>1. /\ lockedTask' = NoTask /\ nestingCount' = 0
      /\ pc' = [t \in Task |-> "run"] /\ held' = [t \in Task |-> 0]
      /\ at' = [t \in Task |-> IF t = Main THEN "boot_indexes" ELSE "idle"]
      /\ faults < MaxFaults /\ faults' = faults + 1
  BY DEF ResetLm32, Fault
<1>2. MutexTypes'
  BY <1>1, SysLogAssumption DEF MutexTypes, TaskAt
<1>3. \A u \in Task : ~In(u)'
  BY <1>1 DEF In, Inside
<1>. QED
  BY <1>1, <1>2, <1>3, SysLogAssumption DEF Owners, Tenure, MutexTypes

LEMMA BootKeepsOwners ==
  ASSUME MutexTypes, Owners, BootStep
  PROVE  MutexTypes' /\ Owners'
<1>1. PICK from \in {"boot_indexes", "boot_was"}, to \in {"boot_was", "idle"} :
         /\ at[Main] = from /\ at' = [at EXCEPT ![Main] = to] /\ pc[Main] = "run"
         /\ UNCHANGED <<mutexVars, faults>> /\ (spoilt => spoilt')
  <2>1. CASE BootIndexes
    BY <2>1 DEF BootIndexes, Goto
  <2>2. CASE BootWas
    BY <2>2 DEF BootWas, Goto
  <2>. QED
    BY <2>1, <2>2 DEF BootStep
<1>2. MutexTypes'
  BY <1>1 DEF MutexTypes, TaskAt, mutexVars
<1>3. lockedTask = NoTask /\ \A t \in Task \ {Main} : at[t] = "idle"
  BY <1>1 DEF Owners, Tenure, Running
<1>4. \A u \in Task : ~In(u) /\ ~In(u)' /\ pc[u] = "run"
  BY <1>1, <1>3 DEF MutexTypes, In, Inside, mutexVars, Owners, Tenure
<1>5. \A u \in Task : u # Main => at'[u] = "idle"
  BY <1>1, <1>3 DEF MutexTypes
<1>. QED
  BY <1>1, <1>2, <1>3, <1>4, <1>5, SysLogAssumption DEF Owners, Tenure, mutexVars

LEMMA NextOwners ==
  ASSUME MutexTypes, Owners, [Next]_vars
  PROVE  MutexTypes' /\ Owners'
<1>1. ASSUME NEW t \in Task, TaskStep(t) PROVE MutexTypes' /\ Owners'
  <2>1. UNCHANGED faults
    BY <1>1 DEF TaskStep
  <2>2. CASE Lock(t) \/ EndWait(t) \/ Unlock(t)
    BY <2>1, <2>2, LockKeepsOwners, EndWaitKeepsOwners, UnlockKeepsOwners
  <2>3. ASSUME NEW from \in Inside, NEW to \in Inside, Goto(t, from, to),
               UNCHANGED <<mutexVars, spoilt>>
        PROVE  MutexTypes' /\ Owners'
    BY <2>1, <2>3, MoveInside DEF Goto, In
  <2>4. CASE WriteWord(t)
    BY <2>1, <2>4, MoveInside DEF WriteWord, In, Inside
  <2>5. CASE ReadIndexes(t) \/ ReadWas(t) \/ WriteIndexes(t) \/ WriteWas(t)
    BY <2>3, <2>5 DEF ReadIndexes, ReadWas, WriteIndexes, WriteWas, Inside
  <2>. QED
    BY <1>1, <2>2, <2>4, <2>5 DEF TaskStep
<1>2. ASSUME NEW t \in Task, DeleteTask(t) PROVE MutexTypes' /\ Owners'
  BY <1>2, DeleteKeepsOwners
<1>3. CASE ResetLm32
  BY <1>3, ResetKeepsOwners
<1>4. CASE BootStep
  BY <1>4, BootKeepsOwners
<1>5. CASE DaemonStep \/ RestartDaemon \/ RestartDaemonAndReset \/ UNCHANGED vars
  <2>1. /\ UNCHANGED <<mutexVars, at, spoilt>>
        /\ faults' \in 0 .. MaxFaults /\ faults <= faults'
    BY <1>5, SysLogAssumption
       DEF DaemonStep, RestartDaemon, RestartDaemonAndReset, vars, Fault, MutexTypes, taskVars
  <2>. QED
    BY <2>1, StillOwned
<1>. QED
  BY <1>1, <1>2, <1>3, <1>4, <1>5 DEF Next, FaultStep

\* No message is numbered without a call.
LEMMA NextCounted ==
  ASSUME MutexTypes, Counted, messages \in Nat, calls \in Nat, [Next]_vars
  PROVE  Counted'
<1>1. Cardinality(Called) \in Nat
  BY FS_CardinalityType DEF Counted
<1>2. ASSUME Called' \subseteq Called, UNCHANGED <<messages, calls>>
      PROVE  Counted'
  <2>1. /\ IsFiniteSet(Called') /\ Cardinality(Called') \in Nat
        /\ Cardinality(Called') <= Cardinality(Called)
    BY <1>2, FS_Subset, FS_CardinalityType DEF Counted
  <2>. QED
    BY <1>1, <1>2, <2>1 DEF Counted
<1>3. ASSUME NEW t \in Task, NEW from, NEW to, to # "read_indexes", Goto(t, from, to),
             UNCHANGED <<messages, calls>>
      PROVE  Counted'
  <2>1. Called' \subseteq Called
    BY <1>3 DEF Called, Goto, MutexTypes
  <2>. QED
    BY <1>2, <1>3, <2>1
<1>4. ASSUME NEW t \in Task, Lock(t) PROVE Counted'
  <2>1. /\ Called' = Called \cup {t} /\ calls' = calls + 1 /\ messages' = messages
    BY <1>4 DEF Lock, Goto, Called, MutexTypes
  <2>2. /\ IsFiniteSet(Called') /\ Cardinality(Called') \in Nat
        /\ Cardinality(Called') <= Cardinality(Called) + 1
    <3>1. /\ IsFiniteSet(Called \cup {t})
          /\ Cardinality(Called \cup {t}) = IF t \in Called THEN Cardinality(Called)
                                            ELSE Cardinality(Called) + 1
      BY FS_AddElement DEF Counted
    <3>. QED
      BY <1>1, <2>1, <3>1
  <2>. QED
    BY <1>1, <2>1, <2>2 DEF Counted
<1>5. ASSUME NEW t \in Task, ReadIndexes(t) PROVE Counted'
  <2>1. /\ t \in Called /\ Called' = Called \ {t} /\ calls' = calls /\ messages' = messages + 1
    BY <1>5 DEF ReadIndexes, Goto, Called, MutexTypes
  <2>2. /\ IsFiniteSet(Called') /\ Cardinality(Called') = Cardinality(Called) - 1
    BY <1>1, <2>1, FS_RemoveElement DEF Counted
  <2>. QED
    BY <1>1, <2>1, <2>2 DEF Counted
<1>6. ASSUME NEW t \in Task, WriteWord(t) PROVE Counted'
  <2>1. Called' \subseteq Called /\ UNCHANGED <<messages, calls>>
    BY <1>6 DEF WriteWord, Called, MutexTypes
  <2>. QED
    BY <1>2, <2>1
<1>7. ASSUME NEW t \in Task, ReadWas(t) \/ WriteIndexes(t) \/ WriteWas(t) \/ Unlock(t)
      PROVE  Counted'
  BY <1>3, <1>7 DEF ReadWas, WriteIndexes, WriteWas, Unlock
<1>8. ASSUME NEW t \in Task, EndWait(t) PROVE Counted'
  BY <1>2, <1>8 DEF EndWait, taskVars, Called
<1>9. ASSUME NEW t \in Task, DeleteTask(t) PROVE Counted'
  <2>1. Called' \subseteq Called /\ UNCHANGED <<messages, calls>>
    BY <1>9 DEF DeleteTask, Called, MutexTypes
  <2>. QED
    BY <1>2, <2>1
<1>10. CASE ResetLm32
  <2>1. Called' \subseteq Called /\ UNCHANGED <<messages, calls>>
    BY <1>10 DEF ResetLm32, Called, MutexTypes
  <2>. QED
    BY <1>2, <2>1
<1>11. CASE BootStep
  <2>1. CASE BootIndexes
    BY <1>3, <2>1, SysLogAssumption DEF BootIndexes
  <2>2. CASE BootWas
    BY <1>3, <2>2, SysLogAssumption DEF BootWas
  <2>. QED
    BY <1>11, <2>1, <2>2 DEF BootStep
<1>12. CASE DaemonStep \/ RestartDaemon \/ RestartDaemonAndReset \/ UNCHANGED vars
  BY <1>2, <1>12 DEF DaemonStep, RestartDaemon, RestartDaemonAndReset, vars, taskVars, Called
<1>13. ASSUME NEW t \in Task, TaskStep(t) PROVE Counted'
  BY <1>4, <1>5, <1>6, <1>7, <1>8, <1>13 DEF TaskStep
<1>. QED
  BY <1>9, <1>10, <1>11, <1>12, <1>13 DEF Next, FaultStep
-----------------------------------------------------------------------------
(* The rings *)

LEMMA Lengths ==
  /\ Capacity \in Nat \ {0} /\ ItemLen \in Nat \ {0} /\ ItemLen <= Capacity
  /\ MaxItems \in Nat \ {0} /\ MaxMessages \in Nat /\ MaxFaults \in Nat
  BY SysLogAssumption

LEMMA RingFields ==
  ASSUME NEW r \in Ring
  PROVE  /\ r.capacity = Capacity /\ r.offset = 0
         /\ r.start \in 0 .. Capacity - 1 /\ r.end \in 0 .. Capacity
         /\ ramRingGetSize(r) \in 0 .. Capacity
         /\ ramRingGetRemainingCapacity(r) = Capacity - ramRingGetSize(r)
         /\ ramRingIsEmpty(r) <=> ramRingGetSize(r) = 0
         /\ ramRingIsFull(r) <=> ramRingGetSize(r) = Capacity
         /\ ramRingGetReadIndex(r) = r.start
         /\ ramRingGetUpperReadSize(r) = Capacity - r.start
  BY Lengths
     DEF Ring, RAM_RING_INDEXES_T, ramRingGetSize, ramRingIsEmpty, ramRingIsFull,
         ramRingGetRemainingCapacity, ramRingGetReadIndex, ramRingGetUpperReadSize

\* The place n words behind the place i.
Advanced(i, n) == (i + n) % Capacity

\* `%' only ever sees sums below twice the capacity: one subtraction.
LEMMA AdvancedIs ==
  ASSUME NEW i \in 0 .. Capacity - 1, NEW n \in 0 .. Capacity
  PROVE  /\ Advanced(i, n) = IF i + n < Capacity THEN i + n ELSE i + n - Capacity
         /\ Advanced(i, n) \in 0 .. Capacity - 1
<1>1. CASE i + n < Capacity
  BY <1>1, Lengths, SMT DEF Advanced
<1>2. CASE i + n >= Capacity
  BY <1>2, Lengths, SMT DEF Advanced
<1>. QED
  BY <1>1, <1>2, Lengths

LEMMA EmptyIsRing == EmptyRing \in Ring /\ ramRingGetSize(EmptyRing) = 0
  BY Lengths DEF EmptyRing, Ring, RAM_RING_INDEXES_T, ramRingGetSize, ramRingIsFull

\* Whatever is added to an index, the ring remains one; when no more is taken from it
\* than there is, its size says so.
LEMMA AddToReadIndex ==
  ASSUME NEW r \in Ring, NEW n \in 0 .. Capacity
  PROVE  /\ ramRingAddToReadIndex(r, n) \in Ring
         /\ ramRingAddToReadIndex(r, n).start = Advanced(r.start, n)
         /\ n <= ramRingGetSize(r) =>
              ramRingGetSize(ramRingAddToReadIndex(r, n)) = ramRingGetSize(r) - n
<1> DEFINE s == Advanced(r.start, n)
           e == IF ramRingIsFull(r) THEN r.start ELSE r.end
           q == ramRingAddToReadIndex(r, n)
<1>1. /\ r.capacity = Capacity /\ r.start \in 0 .. Capacity - 1 /\ r.end \in 0 .. Capacity
      /\ n \in Nat /\ Capacity \in Nat \ {0} /\ ramRingGetSize(r) \in 0 .. Capacity
  BY Lengths, RingFields
<1>2. CASE n = 0
  <2>1. 0 \in 0 .. Capacity
    BY <1>1
  <2>2. Advanced(r.start, 0) = IF r.start + 0 < Capacity THEN r.start + 0
                              ELSE r.start + 0 - Capacity
    BY <1>1, <2>1, AdvancedIs
  <2>3. Advanced(r.start, 0) = r.start
    BY <1>1, <2>2
  <2>. QED
    BY <1>1, <1>2, <2>3 DEF ramRingAddToReadIndex
<1>3. CASE n # 0
  <2>1. q = [r EXCEPT !.end = e, !.start = s]
    BY <1>1, <1>3 DEF ramRingAddToReadIndex, Advanced
  <2>2. /\ s = IF r.start + n < Capacity THEN r.start + n ELSE r.start + n - Capacity
        /\ s \in 0 .. Capacity - 1
    BY <1>1, AdvancedIs
  <2>3. e \in 0 .. Capacity
    BY <1>1
  <2>. HIDE DEF s, e, q
  <2>4. q \in Ring /\ q.capacity = Capacity /\ q.start = s /\ q.end = e
    BY <2>1, <2>2, <2>3 DEF Ring, RAM_RING_INDEXES_T
  <2>5. ASSUME n <= ramRingGetSize(r) PROVE ramRingGetSize(q) = ramRingGetSize(r) - n
    <3>1. n \in 1 .. ramRingGetSize(r)
      BY <1>1, <1>3, <2>5
    <3>. QED
      BY <1>1, <2>2, <2>3, <2>4, <3>1 DEF ramRingGetSize, ramRingIsFull, e
  <2>. QED
    BY <2>4, <2>5 DEF q, s
<1>. QED
  BY <1>2, <1>3

\* A word is written: into the place behind the others, also when it fills the ring.
LEMMA IncWriteIndex ==
  ASSUME NEW r \in Ring
  PROVE  /\ ramRingIncWriteIndex(r) \in Ring
         /\ ramRingGetWriteIndex(r) \in 0 .. Capacity - 1
         /\ ramRingGetSize(r) < Capacity =>
              /\ ramRingGetSize(ramRingIncWriteIndex(r)) = ramRingGetSize(r) + 1
              /\ ramRingIncWriteIndex(r).start = r.start
              /\ ramRingGetWriteIndex(r) = Advanced(r.start, ramRingGetSize(r))
<1>1. /\ r.capacity = Capacity /\ r.offset = 0
      /\ r.start \in 0 .. Capacity - 1 /\ r.end \in 0 .. Capacity
      /\ Capacity \in Nat \ {0} /\ 1 \in 0 .. Capacity
  BY RingFields, Lengths
<1>2. (r.end + 1) % Capacity \in 0 .. Capacity - 1
  BY <1>1
<1>3. ramRingGetWriteIndex(r) \in 0 .. Capacity - 1
  BY <1>1 DEF ramRingGetWriteIndex, ramRingGetReadIndex, ramRingIsFull
<1> DEFINE f == IF (r.end + 1) % Capacity = r.start THEN Capacity ELSE (r.end + 1) % Capacity
<1>4. ramRingIncWriteIndex(r) = [r EXCEPT !.end = f]
  BY <1>1 DEF ramRingIncWriteIndex, ramRingAddToWriteIndex
<1>5. f \in 0 .. Capacity
  BY <1>1, <1>2
<1>. HIDE DEF f
<1>6. /\ ramRingIncWriteIndex(r) \in Ring /\ ramRingIncWriteIndex(r).capacity = Capacity
      /\ ramRingIncWriteIndex(r).start = r.start /\ ramRingIncWriteIndex(r).end = f
  BY <1>4, <1>5 DEF Ring, RAM_RING_INDEXES_T
<1>7. ASSUME ramRingGetSize(r) < Capacity
      PROVE  /\ ramRingGetSize(ramRingIncWriteIndex(r)) = ramRingGetSize(r) + 1
             /\ ramRingGetWriteIndex(r) = Advanced(r.start, ramRingGetSize(r))
  <2>1. r.end \in 0 .. Capacity - 1 /\ r.end # Capacity
    BY <1>1, <1>7, RingFields DEF ramRingIsFull
  <2>2. Advanced(r.end, 1) = IF r.end + 1 < Capacity THEN r.end + 1 ELSE r.end + 1 - Capacity
    BY <1>1, <2>1, AdvancedIs
  <2>3. (r.end + 1) % Capacity = IF r.end + 1 < Capacity THEN r.end + 1 ELSE 0
    BY <1>1, <2>1, <2>2 DEF Advanced
  <2>4. f = IF (IF r.end + 1 < Capacity THEN r.end + 1 ELSE 0) = r.start THEN Capacity
            ELSE IF r.end + 1 < Capacity THEN r.end + 1 ELSE 0
    BY <2>3 DEF f
  <2>5. ramRingGetSize(ramRingIncWriteIndex(r)) = ramRingGetSize(r) + 1
    BY <1>1, <1>6, <2>1, <2>4 DEF ramRingGetSize, ramRingIsFull
  <2>6. ramRingGetSize(r) = IF r.end >= r.start THEN r.end - r.start
                            ELSE (Capacity - r.start) + r.end
    BY <1>1, <2>1 DEF ramRingGetSize, ramRingIsFull
  <2>7. ramRingGetSize(r) \in 0 .. Capacity
    BY RingFields
  <2>8. Advanced(r.start, ramRingGetSize(r)) =
          IF r.start + ramRingGetSize(r) < Capacity THEN r.start + ramRingGetSize(r)
          ELSE r.start + ramRingGetSize(r) - Capacity
    BY <1>1, <2>7, AdvancedIs
  <2>9. ramRingGetWriteIndex(r) = r.end
    BY <1>1, <2>1 DEF ramRingGetWriteIndex, ramRingIsFull
  <2>10. Advanced(r.start, ramRingGetSize(r)) = r.end
    BY <1>1, <2>1, <2>6, <2>8
  <2>. QED
    BY <2>5, <2>9, <2>10
<1>. QED
  BY <1>3, <1>6, <1>7

LEMMA NextRings ==
  ASSUME MutexTypes, RingTypes, MessageTypes, DaemonTypes, Progress, [Next]_vars
  PROVE  RingTypes'
<1>. indexes \in Ring /\ copy \in Ring /\ copyOfDaemon \in Ring
  BY DEF RingTypes
<1>1. ASSUME NEW t \in Task, TaskStep(t), ReadWas(t) PROVE RingTypes'
  <2> DEFINE r == IF wasRead = 0 THEN copy ELSE ramRingAddToReadIndex(copy, wasRead)
  <2>1. r \in Ring
    BY AddToReadIndex DEF RingTypes
  <2>2. ItemLen \in 0 .. Capacity
    BY Lengths
  <2>. HIDE DEF r
  <2>3. RemoveOldest(r) \in Ring
    BY <2>1, <2>2, AddToReadIndex DEF RemoveOldest
  <2>4. copy' \in Ring /\ toAdd' = wasRead /\ UNCHANGED <<shared, copyOfDaemon>>
    BY <1>1, <2>1, <2>3 DEF ReadWas, TaskStep, daemonVars, r
  <2>. QED
    BY <2>4 DEF RingTypes, shared
<1>2. ASSUME NEW t \in Task, TaskStep(t), WriteWord(t) PROVE RingTypes'
  <2>1. [message |-> messages, part |-> written + 1] \in Word
    <3>1. written < ItemLen
      BY <1>2 DEF WriteWord, Progress
    <3>. QED
      BY <3>1, Lengths DEF MessageTypes, Word
  <2>2. copy' \in Ring /\ ramRingGetWriteIndex(copy) \in 0 .. Capacity - 1
    BY <1>2, IncWriteIndex DEF WriteWord
  <2>3. ram' = [ram EXCEPT ![ramRingGetWriteIndex(copy)] =
                             [message |-> messages, part |-> written + 1]]
    BY <1>2 DEF WriteWord
  <2>4. ram' \in [0 .. Capacity - 1 -> Word]
    BY <2>1, <2>2, <2>3 DEF RingTypes
  <2>. QED
    BY <1>2, <2>2, <2>4 DEF WriteWord, RingTypes, TaskStep, daemonVars
<1>3. ASSUME NEW t \in Task, TaskStep(t) PROVE RingTypes'
  <2>1. copyOfDaemon' = copyOfDaemon
    BY <1>3 DEF TaskStep, daemonVars
  <2>2. CASE Lock(t) \/ EndWait(t) \/ ReadIndexes(t) \/ WriteIndexes(t) \/ WriteWas(t) \/ Unlock(t)
    BY <2>1, <2>2, Lengths
       DEF Lock, EndWait, ReadIndexes, WriteIndexes, WriteWas, Unlock, RingTypes, shared, taskVars
  <2>. QED
    BY <1>1, <1>2, <1>3, <2>2 DEF TaskStep
<1>4. CASE DaemonStep
  <2>1. UNCHANGED <<indexes, ram, copy, toAdd>>
    BY <1>4 DEF DaemonStep, Poll, Read, Answer, Output, shared, taskVars
  <2>2. wasRead' \in 0 .. Capacity
    BY <1>4 DEF DaemonStep, Poll, Read, Answer, Output, shared, RingTypes, DaemonTypes
  <2>3. copyOfDaemon' \in Ring
    <3>1. CASE Read
      <4> DEFINE left  == toRead - Len(got)
                 upper == ramRingGetUpperReadSize(copyOfDaemon)
                 n     == IF upper < left THEN upper ELSE left
      <4>1. copyOfDaemon' = ramRingAddToReadIndex(copyOfDaemon, n)
        BY <3>1 DEF Read
      <4>2. n \in 0 .. Capacity
        BY RingFields, Lengths, LenProperties DEF DaemonTypes
      <4>. QED
        BY <4>1, <4>2, AddToReadIndex
    <3>2. CASE Poll \/ Answer \/ Output
      BY <3>2 DEF Poll, Answer, Output
    <3>. QED
      BY <1>4, <3>1, <3>2 DEF DaemonStep
  <2>. QED
    BY <2>1, <2>2, <2>3 DEF RingTypes
<1>5. CASE BootStep \/ FaultStep \/ UNCHANGED vars
  BY <1>5, EmptyIsRing, Lengths
     DEF BootStep, BootIndexes, BootWas, FaultStep, DeleteTask, ResetLm32, RestartDaemon,
         RestartDaemonAndReset, vars, shared, taskVars, daemonVars, RingTypes
<1>. QED
  BY <1>3, <1>4, <1>5 DEF Next

LEMMA NextMessages ==
  ASSUME MutexTypes, MessageTypes, Counted, Progress, [Next]_vars
  PROVE  MessageTypes'
<1>0. CASE DaemonStep \/ BootStep \/ FaultStep \/ UNCHANGED vars
  BY <1>0 DEF MessageTypes, DaemonStep, BootStep, BootIndexes, BootWas, FaultStep, DeleteTask,
              ResetLm32, RestartDaemon, RestartDaemonAndReset, vars, taskVars
<1>. SUFFICES ASSUME NEW t \in Task, TaskStep(t) PROVE MessageTypes'
  BY <1>0 DEF Next
<1>1. calls' \in 0 .. MaxMessages
  <2>1. calls' = calls \/ (calls < MaxMessages /\ calls' = calls + 1)
    <3>1. CASE Lock(t)
      BY <3>1 DEF Lock
    <3>2. CASE EndWait(t)
      BY <3>2 DEF EndWait, taskVars
    <3>3. CASE ReadIndexes(t) \/ ReadWas(t) \/ WriteWord(t)
      BY <3>3 DEF ReadIndexes, ReadWas, WriteWord
    <3>4. CASE WriteIndexes(t) \/ WriteWas(t) \/ Unlock(t)
      BY <3>4 DEF WriteIndexes, WriteWas, Unlock
    <3>. QED
      BY <3>1, <3>2, <3>3, <3>4 DEF TaskStep
  <2>. QED
    BY <2>1, Lengths DEF MessageTypes
<1>2. messages' \in Nat
  <2>1. messages' = messages \/ messages' = messages + 1
    BY DEF TaskStep, Lock, EndWait, ReadIndexes, ReadWas, WriteWord, WriteIndexes, WriteWas,
           Unlock, taskVars
  <2>. QED
    BY <2>1 DEF MessageTypes
<1>3. messages' <= calls'
  <2>1. Counted'
    BY NextCounted DEF MessageTypes
  <2>2. Cardinality(Called') \in Nat
    BY <2>1, FS_CardinalityType DEF Counted
  <2>. QED
    BY <1>1, <1>2, <2>1, <2>2, Lengths DEF Counted
<1>4. written' \in 0 .. ItemLen
  <2>1. ASSUME WriteWord(t) PROVE written' \in 0 .. ItemLen
    BY <2>1, Lengths DEF WriteWord, Progress, MessageTypes
  <2>2. written' \in {written, 0} \/ WriteWord(t)
    BY DEF TaskStep, Lock, EndWait, ReadIndexes, ReadWas, WriteIndexes, WriteWas, Unlock, taskVars
  <2>. QED
    BY <2>1, <2>2, Lengths DEF MessageTypes
<1>. QED
  BY <1>1, <1>2, <1>3, <1>4, Lengths DEF MessageTypes

LEMMA NextHistory == HistoryTypes /\ [Next]_vars => HistoryTypes'
<1>. SUFFICES ASSUME HistoryTypes, [Next]_vars PROVE HistoryTypes'
  OBVIOUS
<1>1. erased' \in Nat
  BY DEF HistoryTypes, Next, TaskStep, Lock, EndWait, ReadIndexes, ReadWas, WriteWord, WriteIndexes, WriteWas,
           Unlock, DaemonStep, BootStep, BootIndexes, BootWas, FaultStep, DeleteTask, ResetLm32,
           RestartDaemon, RestartDaemonAndReset, vars
<1>2. lossy' \in BOOLEAN /\ spoilt' \in BOOLEAN
  BY Zenon DEF HistoryTypes, Next, TaskStep, Lock, EndWait, ReadIndexes, ReadWas, WriteWord, WriteIndexes, WriteWas,
           Unlock, DaemonStep, BootStep, BootIndexes, BootWas, FaultStep, DeleteTask, ResetLm32,
           RestartDaemon, RestartDaemonAndReset, vars
<1>. QED
  BY <1>1, <1>2 DEF HistoryTypes

\* Where the k-th word of the i-th message stands in the buffer of the daemon.
LEMMA PlaceInBuffer ==
  ASSUME NEW n \in Nat, NEW i \in 1 .. n \div ItemLen, NEW k \in 1 .. ItemLen
  PROVE  (i - 1) * ItemLen + k \in 1 .. n
<1>1. /\ i \in Nat \ {0} /\ i - 1 \in Nat /\ ItemLen \in Nat \ {0} /\ n \div ItemLen \in Nat
      /\ i <= n \div ItemLen
  BY Lengths
<1>2. i * ItemLen <= n
  <2>1. (n \div ItemLen) * ItemLen <= n
    BY <1>1
  <2>2. i * ItemLen <= (n \div ItemLen) * ItemLen
    BY <1>1
  <2>3. i * ItemLen \in Nat /\ (n \div ItemLen) * ItemLen \in Nat
    BY <1>1
  <2>. QED
    BY <2>1, <2>2, <2>3
<1>3. (i - 1) * ItemLen \in Nat /\ (i - 1) * ItemLen + ItemLen = i * ItemLen
  BY <1>1
<1>. QED
  BY <1>1, <1>2, <1>3

LEMMA FunctionIsSeq ==
  ASSUME NEW S, NEW n \in Nat, NEW f \in [1 .. n -> S]
  PROVE  f \in Seq(S) /\ Len(f) = n
  OBVIOUS

\* Read() takes the next words, as far as to the end of the memory.
LEMMA ReadWords ==
  ASSUME RingTypes, DaemonTypes, Progress, Read
  PROVE  \E n \in 1 .. toRead - Len(got) :
           /\ copyOfDaemon' = ramRingAddToReadIndex(copyOfDaemon, n)
           /\ n <= Capacity - copyOfDaemon.start
           /\ got' \in Seq(Word) /\ Len(got') = Len(got) + n
           /\ \A i \in 1 .. Len(got') : got'[i] = IF i <= Len(got) THEN got[i]
                                                 ELSE ram[copyOfDaemon.start + (i - Len(got)) - 1]
           /\ daemon' = IF n = toRead - Len(got) THEN "answer" ELSE "read"
<1> DEFINE left  == toRead - Len(got)
           upper == ramRingGetUpperReadSize(copyOfDaemon)
           n     == IF upper < left THEN upper ELSE left
           first == ramRingGetReadIndex(copyOfDaemon)
           words == [i \in 1 .. n |-> ram[first + i - 1]]
<1>1. /\ got' = got \o words /\ copyOfDaemon' = ramRingAddToReadIndex(copyOfDaemon, n)
      /\ daemon' = IF n = left THEN "answer" ELSE "read"
      /\ daemon = "read"
  BY Zenon DEF Read
<1>2. /\ copyOfDaemon \in Ring /\ first = copyOfDaemon.start /\ upper = Capacity - first
      /\ first \in 0 .. Capacity - 1 /\ Capacity \in Nat
      /\ got \in Seq(Word) /\ Len(got) \in Nat /\ left \in Nat /\ left > 0
  BY <1>1, RingFields, Lengths, LenProperties DEF RingTypes, DaemonTypes, Progress
<1>3. n \in 1 .. left /\ n <= Capacity - first
  BY <1>2
<1>4. words \in Seq(Word) /\ Len(words) = n
  <2>1. \A i \in 1 .. n : ram[first + i - 1] \in Word
    BY <1>2, <1>3 DEF RingTypes
  <2>2. words \in [1 .. n -> Word]
    BY <2>1
  <2>3. n \in Nat
    BY <1>2, <1>3
  <2>. HIDE DEF words, n
  <2>. QED
    BY <2>2, <2>3
<1>5. /\ got' \in Seq(Word) /\ Len(got') = Len(got) + n
      /\ \A i \in 1 .. Len(got') : got'[i] = IF i <= Len(got) THEN got[i] ELSE words[i - Len(got)]
  <2>. HIDE DEF words, n
  <2>. QED
    BY <1>1, <1>2, <1>3, <1>4, ConcatProperties
<1>6. ASSUME NEW i \in 1 .. Len(got'), ~(i <= Len(got))
      PROVE  words[i - Len(got)] = ram[copyOfDaemon.start + (i - Len(got)) - 1]
  <2>1. i - Len(got) \in 1 .. n
    BY <1>2, <1>3, <1>5, <1>6
  <2>. QED
    BY <1>2, <2>1
<1>. HIDE DEF words, n, first, upper
<1>. QED
  BY <1>1, <1>2, <1>3, <1>5, <1>6

\* Messages that the daemon prints.
LEMMA PrintedMessages ==
  ASSUME DaemonTypes, Progress, Output
  PROVE  /\ toRead \div ItemLen \in Nat /\ Len(printed) \in Nat
         /\ \A i \in 1 .. toRead \div ItemLen : ItemAt(i) \in 0 .. MaxMessages
         /\ printed' \in Seq(0 .. MaxMessages)
         /\ Len(printed') = Len(printed) + (toRead \div ItemLen)
         /\ \A k \in 1 .. Len(printed') :
              printed'[k] = IF k <= Len(printed) THEN printed[k] ELSE ItemAt(k - Len(printed))
<1> DEFINE n == toRead \div ItemLen
           new == [i \in 1 .. n |-> ItemAt(i)]
<1>1. /\ printed' = printed \o new /\ daemon = "print"
      /\ toRead \in Nat /\ n \in Nat /\ Len(got) = toRead
      /\ got \in Seq(Word) /\ printed \in Seq(0 .. MaxMessages) /\ Len(printed) \in Nat
  <2>1. printed' = printed \o new /\ daemon = "print"
    BY DEF Output
  <2>2. /\ toRead \in Nat /\ Len(got) = toRead
        /\ got \in Seq(Word) /\ printed \in Seq(0 .. MaxMessages)
    BY <2>1 DEF DaemonTypes, Progress
  <2>3. n \in Nat
    BY <2>2, Lengths
  <2>4. Len(printed) \in Nat
    BY <2>2, LenProperties
  <2>. QED
    BY <2>1, <2>2, <2>3, <2>4
<1>2. ASSUME NEW i \in 1 .. n PROVE ItemAt(i) \in 0 .. MaxMessages
  <2>1. 1 \in 1 .. ItemLen
    BY Lengths
  <2>2. (i - 1) * ItemLen + 1 \in 1 .. Len(got)
    BY <1>1, <2>1, PlaceInBuffer
  <2>3. got[(i - 1) * ItemLen + 1] \in Word
    BY <1>1, <2>2, ElementOfSeq
  <2>4. got[(i - 1) * ItemLen + 1].message \in 0 .. MaxMessages
    BY <2>3 DEF Word
  <2>5. ItemAt(i) = got[(i - 1) * ItemLen + 1].message \/ ItemAt(i) = 0
    BY Zenon DEF ItemAt
  <2>6. 0 \in 0 .. MaxMessages
    BY Lengths
  <2>. QED
    BY <2>4, <2>5, <2>6
<1>3. new \in Seq(0 .. MaxMessages) /\ Len(new) = n
  <2>1. new \in [1 .. n -> 0 .. MaxMessages]
    BY <1>2
  <2>2. n \in Nat
    BY <1>1
  <2>. HIDE DEF new, n
  <2>. QED
    BY <2>1, <2>2, FunctionIsSeq
<1>4. /\ printed' \in Seq(0 .. MaxMessages) /\ Len(printed') = Len(printed) + n
      /\ \A k \in 1 .. Len(printed') : printed'[k] = IF k <= Len(printed) THEN printed[k]
                                                     ELSE new[k - Len(printed)]
  <2>. HIDE DEF new, n
  <2>. QED
    BY <1>1, <1>3, ConcatProperties
<1>5. ASSUME NEW k \in 1 .. Len(printed'), ~(k <= Len(printed))
      PROVE  new[k - Len(printed)] = ItemAt(k - Len(printed))
  <2>1. k - Len(printed) \in 1 .. n
    BY <1>1, <1>4, <1>5
  <2>. QED
    BY <2>1
<1>. HIDE DEF new, n
<1>6. toRead \div ItemLen \in Nat
  BY <1>1 DEF n
<1>7. \A i \in 1 .. toRead \div ItemLen : ItemAt(i) \in 0 .. MaxMessages
  BY <1>2 DEF n
<1>8. Len(printed') = Len(printed) + (toRead \div ItemLen)
  BY <1>4 DEF n
<1>. QED
  BY <1>1, <1>4, <1>5, <1>6, <1>7, <1>8

LEMMA NextDaemon ==
  ASSUME MutexTypes, Owners, RingTypes, MessageTypes, DaemonTypes, Progress, [Next]_vars
  PROVE  DaemonTypes' /\ Progress'
<1> DEFINE Stand ==
      /\ daemon = "poll" => toRead = 0
      /\ daemon # "poll" => toRead > 0
      /\ daemon = "read" => Len(got) < toRead
      /\ daemon \in {"answer", "print"} => Len(got) = toRead
<1>1. ASSUME ~DaemonStep PROVE DaemonTypes' /\ Stand'
  <2>1. \/ UNCHANGED <<daemon, toRead, got, printed>>
        \/ (daemon' = "poll" /\ toRead' = 0 /\ got' = << >> /\ printed' = printed)
    BY <1>1 DEF Next, TaskStep, BootStep, BootIndexes, BootWas, FaultStep, DeleteTask, ResetLm32,
                RestartDaemon, RestartDaemonAndReset, vars, daemonVars
  <2>2. << >> \in Seq(Word) /\ Len(<< >>) = 0
    OBVIOUS
  <2>3. CASE UNCHANGED <<daemon, toRead, got, printed>>
    BY <2>3 DEF DaemonTypes, Progress
  <2>4. CASE daemon' = "poll" /\ toRead' = 0 /\ got' = << >> /\ printed' = printed
    <3>1. toRead' \in 0 .. Capacity /\ Len(got') <= toRead' /\ got' \in Seq(Word)
      BY <2>2, <2>4, Lengths
    <3>. QED
      BY <2>4, <3>1 DEF DaemonTypes
  <2>. QED
    BY <2>1, <2>3, <2>4
<1>2. ASSUME Poll PROVE DaemonTypes' /\ Stand'
  <2>1. /\ daemon' = "read" /\ got' = << >> /\ printed' = printed
        /\ ramRingGetSize(indexes) # 0
        /\ toRead' = IF ramRingGetSize(indexes) < MaxItems * ItemLen THEN ramRingGetSize(indexes)
                     ELSE MaxItems * ItemLen
    BY <1>2 DEF Poll
  <2>2. MaxItems * ItemLen \in Nat \ {0}
    BY Lengths
  <2>3. ramRingGetSize(indexes) \in 1 .. Capacity
    BY <2>1, RingFields DEF RingTypes
  <2>4. toRead' \in 1 .. Capacity
    BY <2>1, <2>2, <2>3, Lengths
  <2>5. << >> \in Seq(Word) /\ Len(<< >>) = 0
    OBVIOUS
  <2>6. /\ toRead' \in 0 .. Capacity /\ toRead' > 0
        /\ Len(got') = 0 /\ got' \in Seq(Word) /\ Len(got') < toRead' /\ Len(got') <= toRead'
    BY <2>1, <2>4, <2>5, Lengths
  <2>. QED
    BY <2>1, <2>6 DEF DaemonTypes
<1>3. ASSUME Read PROVE DaemonTypes' /\ Stand'
  <2>1. UNCHANGED <<toRead, printed>> /\ daemon = "read"
    BY <1>3 DEF Read
  <2>2. PICK n \in 1 .. toRead - Len(got) :
           /\ got' \in Seq(Word) /\ Len(got') = Len(got) + n
           /\ daemon' = IF n = toRead - Len(got) THEN "answer" ELSE "read"
    BY <1>3, ReadWords
  <2>3. Len(got) \in Nat /\ toRead \in 0 .. Capacity /\ toRead > 0
    BY <2>1, LenProperties DEF DaemonTypes, Progress
  <2>4. daemon' \in {"read", "answer"} /\ Len(got') <= toRead
    BY <2>2, <2>3
  <2>5. /\ daemon' = "read" => Len(got') < toRead
        /\ daemon' = "answer" => Len(got') = toRead
    BY <2>2, <2>3
  <2>. QED
    BY <2>1, <2>2, <2>3, <2>4, <2>5 DEF DaemonTypes
<1>4. ASSUME Answer PROVE DaemonTypes' /\ Stand'
  <2>1. UNCHANGED <<toRead, got, printed>> /\ daemon = "answer" /\ daemon' = "print"
    BY <1>4 DEF Answer
  <2>. QED
    BY <2>1 DEF DaemonTypes, Progress
<1>5. ASSUME Output PROVE DaemonTypes' /\ Stand'
  <2>1. daemon' = "poll" /\ got' = << >> /\ toRead' = 0
    BY <1>5 DEF Output
  <2>2. << >> \in Seq(Word) /\ Len(<< >>) = 0
    OBVIOUS
  <2>3. toRead' \in 0 .. Capacity /\ Len(got') <= toRead' /\ got' \in Seq(Word)
    BY <2>1, <2>2, Lengths
  <2>4. printed' \in Seq(0 .. MaxMessages)
    BY <1>5, PrintedMessages
  <2>. QED
    BY <2>1, <2>3, <2>4 DEF DaemonTypes
<1>6. ASSUME NEW t \in Task, at'[t] = "write" PROVE written' < ItemLen
  <2>1. CASE \E u \in Task : TaskStep(u)
    <3>1. PICK u \in Task : TaskStep(u)
      BY <2>1
    <3>2. CASE ReadWas(u)
      BY <3>2, Lengths DEF ReadWas
    <3>3. CASE WriteWord(u)
      <4>1. In(u) /\ written < ItemLen /\ written' = written + 1
        BY <3>3 DEF WriteWord, In, Inside, Progress
      <4>2. CASE t = u
        BY <1>6, <3>3, <4>1, <4>2, Lengths DEF WriteWord, MutexTypes, MessageTypes
      <4>3. CASE t # u
        <5>1. at[t] = "write" /\ pc[t] = "run"
          BY <1>6, <3>3, <4>3 DEF WriteWord, MutexTypes, Owners, Tenure
        <5>2. In(t)
          BY <5>1 DEF In, Inside
        <5>. QED
          BY <4>1, <4>3, <5>2 DEF Owners, Tenure
      <4>. QED
        BY <4>2, <4>3
    <3>4. CASE \/ Lock(u) \/ EndWait(u) \/ ReadIndexes(u) \/ WriteIndexes(u) \/ WriteWas(u)
               \/ Unlock(u)
      <4>1. at[t] = "write" /\ written' = written
        BY <1>6, <3>4 DEF Lock, EndWait, ReadIndexes, WriteIndexes, WriteWas, Unlock, Goto,
                          MutexTypes, taskVars
      <4>. QED
        BY <4>1 DEF Progress
    <3>. QED
      BY <3>1, <3>2, <3>3, <3>4 DEF TaskStep
  <2>2. CASE DaemonStep \/ BootStep \/ FaultStep \/ UNCHANGED vars
    <3>1. at[t] = "write" /\ written' = written
      BY <1>6, <2>2 DEF DaemonStep, BootStep, BootIndexes, BootWas, Goto, FaultStep, DeleteTask,
             ResetLm32, RestartDaemon, RestartDaemonAndReset, vars, taskVars, MutexTypes
    <3>. QED
      BY <3>1 DEF Progress
  <2>. QED
    BY <2>1, <2>2 DEF Next
<1>7. DaemonTypes' /\ Stand'
  BY <1>1, <1>2, <1>3, <1>4, <1>5 DEF DaemonStep
<1>. QED
  BY <1>6, <1>7 DEF Progress
-----------------------------------------------------------------------------
(* The types *)

Base ==
  /\ MutexTypes /\ RingTypes /\ MessageTypes /\ DaemonTypes /\ HistoryTypes
  /\ Owners /\ Counted /\ Progress

LEMMA InitBase == Init => Base
<1>. SUFFICES ASSUME Init PROVE Base
  OBVIOUS
<1>1. MutexTypes /\ Owners /\ Counted
  BY InitOwners
<1>2. RingTypes
  <2>1. NoWord \in Word
    BY Lengths DEF NoWord, Word
  <2>. QED
    BY <2>1, EmptyIsRing, Lengths DEF Init, RingTypes
<1>3. MessageTypes
  BY Lengths DEF Init, MessageTypes
<1>4. DaemonTypes
  <2>1. << >> \in Seq(Word) /\ Len(<< >>) = 0 /\ << >> \in Seq(0 .. MaxMessages)
    OBVIOUS
  <2>2. got \in Seq(Word) /\ Len(got) <= toRead /\ toRead \in 0 .. Capacity
    BY <2>1, Lengths DEF Init
  <2>. QED
    BY <2>1, <2>2 DEF Init, DaemonTypes
<1>5. HistoryTypes
  <2>1. erased \in Nat
    BY DEF Init
  <2>2. lossy \in BOOLEAN /\ spoilt \in BOOLEAN
    BY Zenon DEF Init
  <2>. QED
    BY <2>1, <2>2, Zenon DEF HistoryTypes
<1>6. Progress
  BY DEF Init, Progress
<1>. QED
  BY <1>1, <1>2, <1>3, <1>4, <1>5, <1>6, Zenon DEF Base

LEMMA NextBase == Base /\ [Next]_vars => Base'
<1>. SUFFICES ASSUME Base, [Next]_vars PROVE Base'
  OBVIOUS
<1>1. /\ MutexTypes /\ RingTypes /\ MessageTypes /\ DaemonTypes /\ HistoryTypes
      /\ Owners /\ Counted /\ Progress
  BY Zenon DEF Base
<1>2. MutexTypes' /\ Owners'
  BY <1>1, NextOwners
<1>3. messages \in Nat /\ calls \in Nat
  BY <1>1 DEF MessageTypes
<1>4. Counted'
  BY <1>1, <1>3, NextCounted
<1>5. RingTypes' /\ MessageTypes'
  BY <1>1, NextRings, NextMessages
<1>6. DaemonTypes' /\ Progress'
  BY <1>1, NextDaemon
<1>7. HistoryTypes'
  BY <1>1, NextHistory
<1>. QED
  BY <1>2, <1>4, <1>5, <1>6, <1>7, Zenon DEF Base

LEMMA BaseCorrect == Spec => []Base
  BY InitBase, NextBase, PTL DEF Spec

\* TypeOK: every variable keeps to its type, whatever task is deleted and whichever side
\* starts again; the nesting of the mutex grows only with each owner that is deleted.
THEOREM TypeCorrect == Spec => []TypeOK
<1>1. Base => TypeOK
  BY TypeParts, Zenon DEF Base
<1>. QED
  BY <1>1, BaseCorrect, PTL
-----------------------------------------------------------------------------
(* Whole messages: an index is Aligned when it is where a message begins *)

Aligned(n) == n % ItemLen = 0

LEMMA Quotient ==
  ASSUME NEW n \in Nat
  PROVE  Aligned(n) <=> \E q \in Nat : n = q * ItemLen
<1>1. ItemLen \in Nat \ {0}
  BY Lengths
<1>2. n \div ItemLen \in Nat /\ n = (n \div ItemLen) * ItemLen + (n % ItemLen)
  BY <1>1
<1>3. ASSUME NEW q \in Nat, n = q * ItemLen PROVE Aligned(n)
  BY <1>1, <1>3 DEF Aligned
<1>4. ASSUME Aligned(n) PROVE n = (n \div ItemLen) * ItemLen
  BY <1>1, <1>2, <1>4 DEF Aligned
<1>. QED
  BY <1>2, <1>3, <1>4

LEMMA Multiples ==
  ASSUME NEW m \in Nat, NEW n \in Nat, m <= n
  PROVE  m * ItemLen \in Nat /\ n * ItemLen \in Nat /\ m * ItemLen <= n * ItemLen
  BY Lengths

LEMMA AlignedSum ==
  ASSUME NEW m \in Nat, NEW n \in Nat, Aligned(m), Aligned(n)
  PROVE  Aligned(m + n) /\ (n <= m => Aligned(m - n))
<1>1. PICK p \in Nat, q \in Nat : m = p * ItemLen /\ n = q * ItemLen
  BY Quotient
<1>2. m + n = (p + q) * ItemLen /\ p + q \in Nat
  BY <1>1, Lengths
<1>3. ASSUME n <= m PROVE m - n = (p - q) * ItemLen /\ p - q \in Nat
  <2>1. m - n = (p - q) * ItemLen
    BY <1>1, Lengths
  <2>2. ASSUME p < q PROVE FALSE
    <3>1. (p + 1) * ItemLen <= q * ItemLen
      BY <2>2, Lengths
    <3>. QED
      BY <1>1, <1>3, <3>1, Lengths
  <2>. QED
    BY <2>1, <2>2
<1>. QED
  BY <1>2, <1>3, Quotient

LEMMA AlignedLengths ==
  Aligned(0) /\ Aligned(ItemLen) /\ Aligned(Capacity) /\ Aligned(MaxItems * ItemLen)
<1>1. 0 = 0 * ItemLen /\ ItemLen = 1 * ItemLen /\ MaxItems * ItemLen \in Nat
  BY Lengths
<1>. QED
  BY <1>1, Quotient, Lengths, SysLogAssumption DEF Aligned

\* Where a message begins and another one does not fit any more, there is no room at all.
LEMMA NoRoomIsFull ==
  ASSUME NEW n \in 0 .. Capacity, Aligned(n)
  PROVE  IF (Capacity - n) \div ItemLen = 0 THEN n = Capacity ELSE n + ItemLen <= Capacity
<1>1. n \in Nat /\ Capacity \in Nat /\ n <= Capacity /\ Capacity - n \in Nat /\ ItemLen \in Nat \ {0}
  BY Lengths
<1>2. Aligned(Capacity - n)
  BY <1>1, AlignedLengths, AlignedSum
<1>3. PICK q \in Nat : Capacity - n = q * ItemLen
  BY <1>1, <1>2, Quotient
<1>4. (q * ItemLen) \div ItemLen = q
  BY <1>1
<1>5. q # 0 => ItemLen <= q * ItemLen
  <2>1. ASSUME q # 0 PROVE 1 * ItemLen <= q * ItemLen
    BY <2>1, Multiples
  <2>. QED
    BY <1>1, <2>1
<1>. QED
  BY <1>1, <1>3, <1>4, <1>5
-----------------------------------------------------------------------------
(* The answers of the daemon *)

Size(r) == ramRingGetSize(r)

\* Where the owner of the mutex is.
Stage   == IF lockedTask \in Task THEN at[lockedTask] ELSE "idle"
Writing == Stage \in {"write", "write_indexes"}

\* Nobody has been deleted with the mutex and the LM32 is not starting.
Alive == ~spoilt /\ lockedTask # DeletedTask /\ Running

\* The size that the ring will have with the message that is being written.
Final == Size(copy) + (ItemLen - written)

\* What the daemon is reading is there until it has answered.
ReadIsThere == Reading => wasRead = 0 /\ toRead <= Size(indexes)

\* An answer is not yet taken, or the copy already lacks what it says, or it will be
\* erased.
AnswerInTime ==
  /\ Stage \in {"idle", "read_indexes", "unlock"} => wasRead <= Size(indexes)
  /\ Stage = "read_was" =>
       wasRead <= Size(copy) /\ Size(indexes) <= Size(copy) /\ Aligned(Size(copy))
  /\ Writing => \/ (toAdd = 0 /\ Size(indexes) <= Final)
                \/ (toAdd # 0 /\ wasRead = toAdd)
                \/ (wasRead = 0 /\ Size(indexes) = 0)

\* The message that is being written fits.
Fitting ==
  /\ Writing => Final <= Capacity /\ Aligned(Final) /\ ItemLen <= Final
  /\ Stage = "write_indexes" => written = ItemLen

Answers == Aligned(Size(indexes)) /\ ReadIsThere /\ AnswerInTime /\ Fitting

\* While the LM32 starts.
Booting == ~spoilt /\ at[Main] = "boot_was" => indexes = EmptyRing /\ ~Reading

AInv == Base /\ Booting /\ Aligned(toRead) /\ Aligned(wasRead) /\ (Alive => Answers)

LEMMA Typed ==
  ASSUME Base
  PROVE  /\ MutexTypes /\ RingTypes /\ MessageTypes /\ DaemonTypes /\ Owners /\ Progress
         /\ Size(indexes) \in 0 .. Capacity /\ Size(copy) \in 0 .. Capacity
         /\ wasRead \in 0 .. Capacity /\ toAdd \in 0 .. Capacity /\ toRead \in 0 .. Capacity
         /\ written \in 0 .. ItemLen
         /\ indexes \in Ring /\ copy \in Ring /\ copyOfDaemon \in Ring
<1>1. MutexTypes /\ RingTypes /\ MessageTypes /\ DaemonTypes /\ Owners /\ Progress
  BY Zenon DEF Base
<1>. QED
  BY <1>1, RingFields DEF RingTypes, MessageTypes, DaemonTypes, Size

LEMMA TheOwner ==
  ASSUME Base, ~spoilt, NEW t \in Task, In(t)
  PROVE  Alive /\ lockedTask = t /\ Stage = at[t]
<1>1. lockedTask = t /\ t \notin {NoTask, DeletedTask}
  BY SysLogAssumption DEF Base, Owners, Tenure
<1>. QED
  BY <1>1 DEF Base, Owners, Alive, Stage

LEMMA Elsewhere ==
  ASSUME lockedTask' = lockedTask, lockedTask \in Task => at'[lockedTask] = at[lockedTask]
  PROVE  Stage' = Stage
  BY DEF Stage

\* What has been spoilt remains so.
LEMMA SpoiltRemains == [Next]_vars /\ spoilt => spoilt'
  BY Zenon DEF Next, TaskStep, Lock, EndWait, ReadIndexes, ReadWas, WriteWord, WriteIndexes, WriteWas,
         Unlock, DaemonStep, BootStep, BootIndexes, BootWas, FaultStep, DeleteTask, ResetLm32,
         RestartDaemon, RestartDaemonAndReset, vars

\* Only the initialisation brings the log to life again.
LEMMA StillAlive ==
  ASSUME Base, [Next]_vars, Alive', ~BootStep
  PROVE  Alive
<1>. MutexTypes /\ Owners
  BY Typed
<1>1. ~spoilt /\ ~spoilt' /\ lockedTask' # DeletedTask /\ Running'
  BY SpoiltRemains DEF Alive
<1>2. ASSUME NEW t \in Task, TaskStep(t) PROVE Alive
  <2>1. CASE Lock(t)
    <3>1. Running /\ (lockedTask' = lockedTask \/ lockedTask \in {NoTask, t})
      BY <2>1 DEF Lock, Mutex!Lock, Mutex!osMutexLock, Mutex!osMutexIsLocked
    <3>. QED
      BY <1>1, <3>1, SysLogAssumption DEF Alive
  <2>2. CASE EndWait(t)
    <3>1. lockedTask = NoTask /\ at' = at
      BY <2>2 DEF EndWait, Mutex!EndWait, Mutex!osMutexIsLocked, taskVars
    <3>. QED
      BY <1>1, <3>1, SysLogAssumption DEF Alive, Running
  <2>3. CASE ReadIndexes(t) \/ ReadWas(t) \/ WriteWord(t) \/ WriteIndexes(t) \/ WriteWas(t) \/ Unlock(t)
    <3>1. In(t)
      BY <2>3 DEF ReadIndexes, ReadWas, WriteWord, WriteIndexes, WriteWas, Unlock, Goto, In, Inside
    <3>. QED
      BY <1>1, <3>1, TheOwner
  <2>. QED
    BY <1>2, <2>1, <2>2, <2>3 DEF TaskStep
<1>3. ASSUME NEW t \in Task, DeleteTask(t) PROVE Alive
  <2>1. at[Main] = "idle" /\ (lockedTask' = lockedTask \/ lockedTask = t)
    BY <1>3 DEF DeleteTask
  <2>. QED
    BY <1>1, <2>1, SysLogAssumption DEF Alive, Running
<1>4. CASE ResetLm32
  BY <1>1, <1>4, SysLogAssumption DEF ResetLm32, Running
<1>5. CASE DaemonStep \/ RestartDaemon \/ RestartDaemonAndReset \/ UNCHANGED vars
  <2>1. lockedTask' = lockedTask /\ at' = at
    BY <1>5 DEF DaemonStep, RestartDaemon, RestartDaemonAndReset, vars, mutexVars, taskVars
  <2>. QED
    BY <1>1, <2>1 DEF Alive, Running
<1>. QED
  BY <1>2, <1>3, <1>4, <1>5 DEF Next, FaultStep

\* A task gets the mutex, or waits for it.
LEMMA TakeKeepsStage ==
  ASSUME Base, Alive, NEW t \in Task, Lock(t) \/ EndWait(t)
  PROVE  Stage' = Stage \/ (Stage = "idle" /\ Stage' = "read_indexes")
<1>. MutexTypes /\ Owners
  BY Typed
<1>1. CASE Lock(t) /\ Mutex!Take(t)
  <2>1. at[t] = "idle" /\ lockedTask \in {NoTask, t} /\ lockedTask' = t
    BY <1>1 DEF Lock, Goto, Mutex!Lock, Mutex!osMutexLock, Mutex!osMutexIsLocked, Mutex!Take
  <2>2. lockedTask = t => at[t] \in Inside
    BY DEF Alive, Owners, Tenure, In
  <2>3. Stage = "idle" /\ at'[t] = "read_indexes"
    BY <1>1, <2>1, <2>2, SysLogAssumption DEF Stage, Inside, Lock, Goto, MutexTypes
  <2>. QED
    BY <2>1, <2>3 DEF Stage
<1>2. CASE Lock(t) /\ ~Mutex!Take(t)
  <2>1. lockedTask' = lockedTask /\ lockedTask # t /\ at' = [at EXCEPT ![t] = "read_indexes"]
    BY <1>2 DEF Lock, Goto, Mutex!Lock, Mutex!osMutexLock
  <2>. QED
    BY <2>1, Elsewhere DEF MutexTypes
<1>3. CASE EndWait(t)
  <2>1. lockedTask = NoTask /\ lockedTask' = t /\ at' = at /\ pc[t] = "wait"
    BY <1>3 DEF EndWait, Mutex!EndWait, Mutex!osMutexIsLocked, Mutex!Take, taskVars, MutexTypes
  <2>2. at[t] = "read_indexes"
    BY <2>1 DEF Owners, Tenure
  <2>. QED
    BY <2>1, <2>2, SysLogAssumption DEF Stage
<1>. QED
  BY <1>1, <1>2, <1>3

\* The owner of the mutex goes on.
LEMMA OwnerGoesOn ==
  ASSUME Base, Alive, NEW t \in Task, NEW from \in Inside, NEW to \in TaskAt, Goto(t, from, to),
         lockedTask' = lockedTask
  PROVE  Stage = from /\ Stage' = to
<1>1. In(t) /\ at[t] = from /\ at' = [at EXCEPT ![t] = to]
  BY DEF Goto, In
<1>2. lockedTask = t /\ Stage = from
  BY <1>1, TheOwner DEF Alive
<1>. QED
  BY <1>1, <1>2, Typed DEF Stage, MutexTypes

\* ... or gives it back.
LEMMA OwnerEnds ==
  ASSUME Base, Alive, NEW t \in Task, Unlock(t)
  PROVE  Stage = "unlock" /\ Stage' = "idle"
<1>1. In(t) /\ at[t] = "unlock"
  BY DEF Unlock, Goto, In, Inside
<1>2. lockedTask = t /\ Stage = "unlock" /\ nestingCount = 1
  BY <1>1, TheOwner, Typed DEF Alive, Owners, Tenure
<1>3. lockedTask' = NoTask
  BY <1>2 DEF Unlock, Mutex!osMutexUnlock
<1>. QED
  BY <1>2, <1>3, SysLogAssumption DEF Stage

LEMMA TakeKeepsAnswers ==
  ASSUME Base, Alive, Answers, NEW t \in Task, Lock(t) \/ EndWait(t), UNCHANGED daemonVars
  PROVE  Answers'
<1>1. UNCHANGED <<indexes, wasRead, copy, toAdd, written, daemon, toRead>>
  BY DEF Lock, EndWait, shared, taskVars, daemonVars
<1>2. Stage' = Stage \/ (Stage = "idle" /\ Stage' = "read_indexes")
  BY TakeKeepsStage
<1>. QED
  BY <1>1, <1>2 DEF Answers, ReadIsThere, Reading, AnswerInTime, Fitting, Final, Writing

\* The owner reads the indexes, and then the answer.
LEMMA ReadIndexesKeepsAnswers ==
  ASSUME Base, Answers, Stage = "read_indexes", Stage' = "read_was", copy' = indexes,
         UNCHANGED <<indexes, wasRead, daemon, toRead>>
  PROVE  Answers'
<1>1. wasRead <= Size(indexes) /\ Size(indexes) \in Nat /\ Aligned(Size(indexes))
  BY Typed DEF Answers, AnswerInTime
<1>. QED
  BY <1>1 DEF Answers, ReadIsThere, Reading, AnswerInTime, Fitting, Writing

\* The copy without what the daemon has read, and without the oldest message when there is
\* no room for the new one.
LEMMA Synchronized ==
  ASSUME Base, Alive, Answers, Aligned(wasRead), Stage = "read_was", NEW t \in Task, ReadWas(t)
  PROVE  \E r \in Ring :
           /\ Size(r) = Size(copy) - wasRead /\ r.start = Advanced(copy.start, wasRead)
           /\ Aligned(Size(r))
           /\ lossy' = (lossy \/ NoRoom(r))
           /\ IF NoRoom(r) THEN /\ Size(r) = Capacity /\ copy' = RemoveOldest(r)
                                /\ Size(copy') = Capacity - ItemLen
              ELSE copy' = r /\ Size(r) + ItemLen <= Capacity
<1>. /\ copy \in Ring /\ Size(copy) \in 0 .. Capacity /\ wasRead \in 0 .. Capacity
     /\ wasRead <= Size(copy) /\ Aligned(Size(copy))
  BY Typed DEF Answers, AnswerInTime
<1> DEFINE r == IF wasRead = 0 THEN copy ELSE ramRingAddToReadIndex(copy, wasRead)
<1>1. /\ copy' = IF NoRoom(r) THEN RemoveOldest(r) ELSE r
      /\ lossy' = (lossy \/ NoRoom(r))
  BY Zenon DEF ReadWas
<1>2. r = ramRingAddToReadIndex(copy, wasRead)
  BY DEF ramRingAddToReadIndex
<1>. HIDE DEF r
<1>3. r \in Ring /\ Size(r) = Size(copy) - wasRead /\ r.start = Advanced(copy.start, wasRead)
  BY <1>2, AddToReadIndex DEF Size
<1>4. Aligned(Size(r)) /\ Size(r) \in 0 .. Capacity
  BY <1>3, AlignedSum, RingFields DEF Size
<1>5. NoRoom(r) <=> (Capacity - Size(r)) \div ItemLen = 0
  BY <1>3, RingFields DEF NoRoom, Size
<1>6. IF NoRoom(r) THEN Size(r) = Capacity ELSE Size(r) + ItemLen <= Capacity
  BY <1>4, <1>5, NoRoomIsFull
<1>7. ASSUME NoRoom(r) PROVE Size(RemoveOldest(r)) = Capacity - ItemLen
  <2>1. ItemLen \in 0 .. Capacity /\ ItemLen <= ramRingGetSize(r) /\ ramRingGetSize(r) = Capacity
    BY <1>6, <1>7, Lengths DEF Size
  <2>. QED
    BY <1>3, <2>1, AddToReadIndex DEF RemoveOldest, Size
<1>. QED
  BY <1>1, <1>3, <1>4, <1>6, <1>7

LEMMA ReadWasKeepsAnswers ==
  ASSUME Base, Alive, Answers, Aligned(wasRead), Stage = "read_was", Stage' = "write",
         NEW t \in Task, ReadWas(t), UNCHANGED <<daemon, toRead>>
  PROVE  Answers'
<1>1. UNCHANGED <<indexes, wasRead>> /\ toAdd' = wasRead /\ written' = 0
  BY DEF ReadWas, shared
<1>2. /\ wasRead \in Nat /\ wasRead <= Size(copy) /\ Size(indexes) <= Size(copy)
      /\ Size(indexes) \in 0 .. Capacity /\ Size(copy) \in Nat
      /\ Capacity \in Nat /\ ItemLen \in Nat \ {0} /\ ItemLen <= Capacity
  BY Typed, Lengths DEF Answers, AnswerInTime
<1>3. PICK r \in Ring :
         /\ Size(r) = Size(copy) - wasRead /\ Aligned(Size(r))
         /\ \/ Size(r) = Capacity /\ Size(copy') = Capacity - ItemLen
            \/ copy' = r /\ Size(r) + ItemLen <= Capacity
  BY Synchronized
<1>4. Size(r) \in Nat
  BY <1>2, <1>3
<1>5. Final' <= Capacity /\ ItemLen <= Final' /\ Aligned(Final')
  <2>1. CASE Size(r) = Capacity /\ Size(copy') = Capacity - ItemLen
    <3>1. Final' = Capacity
      BY <1>1, <1>2, <2>1 DEF Final, Size
    <3>. QED
      BY <1>2, <3>1, AlignedLengths
  <2>2. CASE copy' = r /\ Size(r) + ItemLen <= Capacity
    <3>1. Final' = Size(r) + ItemLen
      BY <1>1, <1>2, <1>4, <2>2 DEF Final, Size
    <3>2. Aligned(Size(r) + ItemLen)
      BY <1>2, <1>3, <1>4, AlignedLengths, AlignedSum
    <3>. QED
      BY <1>2, <1>4, <2>2, <3>1, <3>2
  <2>. QED
    BY <1>3, <2>1, <2>2
<1>6. wasRead = 0 => Size(indexes) <= Final'
  <2>1. CASE Size(r) = Capacity /\ Size(copy') = Capacity - ItemLen
    BY <1>1, <1>2, <2>1 DEF Final, Size
  <2>2. CASE copy' = r /\ Size(r) + ItemLen <= Capacity
    BY <1>1, <1>2, <1>3, <1>4, <2>2 DEF Final, Size
  <2>. QED
    BY <1>3, <2>1, <2>2
<1>7. Size(indexes)' = Size(indexes)
  BY <1>1 DEF Size
<1>. QED
  BY <1>1, <1>5, <1>6, <1>7 DEF Answers, ReadIsThere, Reading, AnswerInTime, Fitting, Writing

\* A word is written: the ring has room for the message.
LEMMA WordFits ==
  ASSUME Base, Answers, Stage = "write", written < ItemLen
  PROVE  Size(copy) < Capacity /\ Size(copy) + 1 \in Nat /\ written + 1 \in Nat
<1>1. Size(copy) + (ItemLen - written) <= Capacity
  BY DEF Answers, Fitting, Final, Writing
<1>. QED
  BY <1>1, Typed, Lengths

LEMMA WriteWordKeepsAnswers ==
  ASSUME Base, Answers, Stage = "write", NEW t \in Task, WriteWord(t), at[t] = "write",
         Stage' = at'[t], UNCHANGED <<daemon, toRead>>
  PROVE  Answers'
<1>1. /\ UNCHANGED <<indexes, wasRead, toAdd>>
      /\ copy' = ramRingIncWriteIndex(copy) /\ written' = written + 1
      /\ at' = [at EXCEPT ![t] = IF written + 1 = ItemLen THEN "write_indexes" ELSE "write"]
  BY DEF WriteWord
<1>2. Stage' = IF written + 1 = ItemLen THEN "write_indexes" ELSE "write"
  BY <1>1, Typed DEF MutexTypes
<1>3. written < ItemLen
  BY Typed DEF Progress
<1>4. Size(copy') = Size(copy) + 1
  BY <1>1, <1>3, WordFits, IncWriteIndex, Typed DEF Size
<1>5. Final' = Final
  <2>1. Final' = Size(copy') + (ItemLen - written')
    BY DEF Final, Size
  <2>. QED
    BY <1>1, <1>4, <2>1, Typed, Lengths DEF Final
<1>6. Size(indexes)' = Size(indexes)
  BY <1>1 DEF Size
<1>. QED
  BY <1>1, <1>2, <1>5, <1>6 DEF Answers, ReadIsThere, Reading, AnswerInTime, Fitting, Writing

\* The daemon sees the new indexes: what it is reading is still in the ring.
LEMMA WriteIndexesKeepsAnswers ==
  ASSUME Base, Answers, Stage = "write_indexes", Stage' = "write_was", indexes' = copy,
         UNCHANGED <<wasRead, daemon, toRead>>
  PROVE  Answers'
<1>1. /\ Final = Size(copy) /\ Size(copy) \in Nat /\ Size(indexes) \in Nat /\ toRead \in Nat
  BY Typed, Lengths DEF Answers, Fitting, Final
<1>2. Size(indexes') = Size(copy) /\ Aligned(Size(copy))
  BY <1>1 DEF Answers, Fitting, Writing
<1>3. ASSUME Reading PROVE wasRead = 0 /\ toRead <= Size(copy)
  <2>1. wasRead = 0 /\ toRead <= Size(indexes) /\ toRead > 0
    BY <1>3, Typed DEF Answers, ReadIsThere, Reading, Progress
  <2>2. Size(indexes) <= Final
    BY <1>1, <2>1 DEF Answers, AnswerInTime, Writing
  <2>. QED
    BY <1>1, <2>1, <2>2
<1>4. Size(indexes)' = Size(indexes')
  BY DEF Size
<1>. QED
  BY <1>2, <1>3, <1>4 DEF Answers, ReadIsThere, Reading, AnswerInTime, Fitting, Writing

\* The daemon answers: what it has read is still there.
LEMMA AnswerKeepsAnswers ==
  ASSUME Base, Answers, Answer, UNCHANGED <<copy, toAdd, written>>, Stage' = Stage
  PROVE  Answers'
<1>1. /\ daemon = "answer" /\ daemon' = "print" /\ wasRead' = toRead
      /\ indexes' = indexes
  BY DEF Answer
<1>2. /\ wasRead = 0 /\ toRead <= Size(indexes) /\ toRead > 0
      /\ toRead \in Nat /\ Size(indexes) \in Nat /\ Size(copy) \in Nat
  BY <1>1, Typed DEF Answers, ReadIsThere, Reading, Progress
<1>3. ~Reading'
  BY <1>1 DEF Reading
<1>4. Writing => toAdd = 0 /\ Size(indexes) <= Final
  BY <1>2 DEF Answers, AnswerInTime
<1>5. Stage = "read_was" => wasRead' <= Size(copy)
  BY <1>1, <1>2 DEF Answers, AnswerInTime
<1>6. Size(indexes)' = Size(indexes) /\ Size(copy)' = Size(copy) /\ Final' = Final
  BY <1>1 DEF Size, Final
<1>7. AnswerInTime'
  BY <1>1, <1>2, <1>4, <1>5, <1>6 DEF Answers, AnswerInTime, Writing
<1>. QED
  BY <1>1, <1>3, <1>6, <1>7 DEF Answers, ReadIsThere, Fitting, Writing

LEMMA InitAInv == Init => AInv
<1>. SUFFICES ASSUME Init PROVE AInv
  OBVIOUS
<1>1. Base
  BY InitBase
<1>2. /\ indexes = EmptyRing /\ wasRead = 0 /\ toRead = 0 /\ daemon = "poll"
      /\ lockedTask = NoTask /\ at[Main] = "idle"
  BY SysLogAssumption DEF Init, Mutex!Init
<1>3. Stage = "idle"
  BY <1>2, SysLogAssumption DEF Stage
<1>4. Answers
  BY <1>2, <1>3, EmptyIsRing, AlignedLengths
     DEF Answers, ReadIsThere, Reading, AnswerInTime, Fitting, Writing, Size
<1>. QED
  BY <1>1, <1>2, <1>4, AlignedLengths DEF AInv, Booting

LEMMA NextAligned ==
  ASSUME Base, Aligned(toRead), Aligned(wasRead), [Next]_vars
  PROVE  Aligned(toRead') /\ Aligned(wasRead')
<1>1. ASSUME Poll PROVE Aligned(toRead') /\ wasRead' = wasRead
  <2>1. /\ ramRingGetSize(indexes) % ItemLen = 0
        /\ toRead' \in {ramRingGetSize(indexes), MaxItems * ItemLen} /\ wasRead' = wasRead
    BY <1>1 DEF Poll, shared
  <2>. QED
    BY <2>1, AlignedLengths DEF Aligned
<1>2. \/ toRead' \in {toRead, 0} /\ wasRead' \in {wasRead, 0, toRead}
      \/ Poll
  <2>1. ASSUME NEW t \in Task, TaskStep(t) PROVE toRead' = toRead /\ wasRead' \in {wasRead, 0}
    <3>1. toRead' = toRead
      BY <2>1 DEF TaskStep, daemonVars
    <3>2. wasRead' \in {wasRead, 0}
      BY <2>1 DEF TaskStep, Lock, EndWait, ReadIndexes, ReadWas, WriteWord, WriteIndexes, WriteWas, Unlock,
                shared
    <3>. QED
      BY <3>1, <3>2
  <2>2. CASE DaemonStep
    BY <2>2 DEF DaemonStep, Read, Answer, Output, shared
  <2>3. CASE BootStep \/ FaultStep \/ UNCHANGED vars
    BY <2>3 DEF BootStep, BootIndexes, BootWas, FaultStep, DeleteTask, ResetLm32, RestartDaemon,
                RestartDaemonAndReset, vars, shared, daemonVars
  <2>. QED
    BY <2>1, <2>2, <2>3 DEF Next
<1>. QED
  BY <1>1, <1>2, AlignedLengths

LEMMA NextBooting ==
  ASSUME Base, Booting, [Next]_vars
  PROVE  Booting'
<1>. SUFFICES ASSUME ~spoilt', at'[Main] = "boot_was"
              PROVE  indexes' = EmptyRing /\ ~Reading'
  BY DEF Booting
<1>. MutexTypes /\ Owners /\ Main \in Task
  BY Typed, SysLogAssumption
<1>1. ~spoilt
  BY SpoiltRemains
<1>2. ASSUME at[Main] = "boot_was" PROVE \A t \in Task : ~In(t)
  BY <1>2 DEF Owners, Running, In, Inside
<1>3. ASSUME NEW t \in Task, TaskStep(t)
      PROVE  at[Main] = "boot_was" /\ UNCHANGED <<indexes, daemon>>
  <2>1. daemon' = daemon
    BY <1>3 DEF TaskStep, daemonVars
  <2>2. CASE Lock(t) \/ EndWait(t)
    BY <2>1, <2>2 DEF Lock, EndWait, Goto, shared, taskVars, MutexTypes
  <2>3. CASE ReadIndexes(t) \/ ReadWas(t) \/ WriteWord(t) \/ WriteIndexes(t) \/ WriteWas(t) \/ Unlock(t)
    <3>1. In(t) /\ at[Main] = "boot_was"
      BY <2>3 DEF ReadIndexes, ReadWas, WriteWord, WriteIndexes, WriteWas, Unlock, Goto, In, Inside,
                  MutexTypes
    <3>. QED
      BY <1>2, <3>1
  <2>. QED
    BY <1>3, <2>2, <2>3 DEF TaskStep
<1>4. CASE DaemonStep
  <2>1. at[Main] = "boot_was" /\ indexes' = indexes
    BY <1>4 DEF DaemonStep, Poll, Read, Answer, Output, shared, taskVars
  <2>2. ~Poll /\ ~Reading /\ indexes = EmptyRing
    BY <1>1, <2>1, EmptyIsRing DEF Booting, Poll
  <2>. QED
    BY <1>4, <2>1, <2>2 DEF DaemonStep, Read, Answer, Output, Reading
<1>5. CASE BootIndexes
  BY <1>5 DEF BootIndexes, daemonVars, Reading
<1>6. CASE BootWas \/ ResetLm32
  BY <1>6 DEF BootWas, ResetLm32, Goto, MutexTypes
<1>7. ASSUME NEW t \in Task, DeleteTask(t) PROVE FALSE
  BY <1>7 DEF DeleteTask, MutexTypes
<1>8. CASE RestartDaemon \/ RestartDaemonAndReset
  BY <1>1, <1>8 DEF RestartDaemon, RestartDaemonAndReset, Reading, Booting, taskVars, shared
<1>9. CASE UNCHANGED vars
  BY <1>1, <1>9 DEF vars, taskVars, daemonVars, shared, Reading, Booting
<1>. QED
  BY <1>1, <1>3, <1>4, <1>5, <1>6, <1>7, <1>8, <1>9 DEF Next, FaultStep, BootStep, Booting, Reading

LEMMA TaskKeepsAnswers ==
  ASSUME Base, Alive, Answers, Aligned(wasRead), NEW t \in Task, TaskStep(t)
  PROVE  Answers'
<1>. MutexTypes /\ Owners
  BY Typed
<1>0. UNCHANGED daemonVars /\ daemon' = daemon /\ toRead' = toRead
  BY DEF TaskStep, daemonVars
<1>1. CASE Lock(t) \/ EndWait(t)
  BY <1>0, <1>1, TakeKeepsAnswers
<1>2. CASE ReadIndexes(t)
  <2>1. /\ Goto(t, "read_indexes", "read_was") /\ lockedTask' = lockedTask
        /\ copy' = indexes /\ UNCHANGED <<indexes, wasRead>>
    BY <1>2 DEF ReadIndexes, mutexVars, shared
  <2>2. Stage = "read_indexes" /\ Stage' = "read_was"
    BY <2>1, OwnerGoesOn DEF Inside, TaskAt
  <2>. QED
    BY <1>0, <2>1, <2>2, ReadIndexesKeepsAnswers
<1>3. CASE ReadWas(t)
  <2>1. Goto(t, "read_was", "write") /\ lockedTask' = lockedTask
    BY <1>3 DEF ReadWas, mutexVars
  <2>2. Stage = "read_was" /\ Stage' = "write"
    BY <2>1, OwnerGoesOn DEF Inside, TaskAt
  <2>. QED
    BY <1>0, <1>3, <2>2, ReadWasKeepsAnswers
<1>4. CASE WriteWord(t)
  <2>1. In(t) /\ at[t] = "write" /\ lockedTask' = lockedTask
    BY <1>4 DEF WriteWord, In, Inside, mutexVars
  <2>2. lockedTask = t /\ Stage = "write"
    BY <2>1, TheOwner DEF Alive
  <2>3. Stage' = at'[t]
    BY <2>1, <2>2 DEF Stage
  <2>. QED
    BY <1>0, <1>4, <2>1, <2>2, <2>3, WriteWordKeepsAnswers
<1>5. CASE WriteIndexes(t)
  <2>1. /\ Goto(t, "write_indexes", "write_was") /\ lockedTask' = lockedTask
        /\ indexes' = copy /\ wasRead' = wasRead
    BY <1>5 DEF WriteIndexes, mutexVars
  <2>2. Stage = "write_indexes" /\ Stage' = "write_was"
    BY <2>1, OwnerGoesOn DEF Inside, TaskAt
  <2>. QED
    BY <1>0, <2>1, <2>2, WriteIndexesKeepsAnswers
<1>6. CASE WriteWas(t)
  <2>1. /\ Goto(t, "write_was", "unlock") /\ lockedTask' = lockedTask
        /\ wasRead' = 0 /\ indexes' = indexes
    BY <1>6 DEF WriteWas, mutexVars
  <2>2. Stage' = "unlock"
    BY <2>1, OwnerGoesOn DEF Inside, TaskAt
  <2>3. Size(indexes)' = Size(indexes) /\ Size(indexes) \in Nat
    BY <2>1, Typed DEF Size
  <2>. QED
    BY <1>0, <2>1, <2>2, <2>3 DEF Answers, ReadIsThere, Reading, AnswerInTime, Fitting, Writing
<1>7. CASE Unlock(t)
  <2>1. UNCHANGED <<indexes, wasRead>>
    BY <1>7 DEF Unlock, shared
  <2>2. Stage = "unlock" /\ Stage' = "idle"
    BY <1>7, OwnerEnds
  <2>3. Size(indexes)' = Size(indexes)
    BY <2>1 DEF Size
  <2>. QED
    BY <1>0, <2>1, <2>2, <2>3
       DEF Answers, ReadIsThere, Reading, AnswerInTime, Fitting, Writing
<1>. QED
  BY <1>1, <1>2, <1>3, <1>4, <1>5, <1>6, <1>7 DEF TaskStep

\* The same, for the steps that leave the task that writes alone.
LEMMA OthersKeepAnswers ==
  ASSUME Base, Alive, Answers, UNCHANGED <<copy, toAdd, written>>, Stage' = Stage,
         DaemonStep \/ (UNCHANGED <<indexes, wasRead>> /\ (daemon' = "poll" \/ UNCHANGED <<daemon, toRead>>))
         \/ (indexes' = EmptyRing /\ wasRead' = 0 /\ daemon' = "poll")
  PROVE  Answers'
<1>0. /\ Size(copy)' = Size(copy) /\ Final' = Final
      /\ Size(copy) \in Nat /\ Size(indexes) \in Nat
  BY Typed DEF Size, Final
<1>1. CASE Answer
  BY <1>1, AnswerKeepsAnswers
<1>2. ASSUME UNCHANGED <<indexes, wasRead>>, ReadIsThere' PROVE Answers'
  <2>1. Size(indexes)' = Size(indexes)
    BY <1>2 DEF Size
  <2>. QED
    BY <1>0, <1>2, <2>1 DEF Answers, AnswerInTime, Fitting, Writing
<1>3. CASE Poll
  <2>1. /\ UNCHANGED <<indexes, wasRead>> /\ wasRead = 0
        /\ toRead' = IF Size(indexes) < MaxItems * ItemLen THEN Size(indexes) ELSE MaxItems * ItemLen
    BY <1>3 DEF Poll, shared, Size
  <2>2. MaxItems * ItemLen \in Nat
    BY Lengths
  <2>3. toRead' <= Size(indexes')
    BY <1>0, <2>1, <2>2
  <2>. QED
    BY <1>2, <2>1, <2>3 DEF ReadIsThere, Size
<1>4. CASE Read \/ Output
  <2>1. UNCHANGED <<indexes, wasRead>> /\ (daemon' = "poll" \/ (Reading /\ toRead' = toRead))
    BY <1>4 DEF Read, Output, shared, Reading
  <2>. QED
    BY <1>2, <2>1 DEF Answers, ReadIsThere, Reading, Size
<1>5. CASE UNCHANGED <<indexes, wasRead>> /\ (daemon' = "poll" \/ UNCHANGED <<daemon, toRead>>)
  BY <1>2, <1>5 DEF Answers, ReadIsThere, Reading, Size
<1>6. CASE indexes' = EmptyRing /\ wasRead' = 0 /\ daemon' = "poll"
  <2>1. Size(indexes)' = 0
    BY <1>6, EmptyIsRing DEF Size
  <2>. QED
    BY <1>0, <1>6, <2>1, AlignedLengths
       DEF Answers, ReadIsThere, Reading, AnswerInTime, Fitting, Writing
<1>. QED
  BY <1>1, <1>3, <1>4, <1>5, <1>6 DEF DaemonStep

LEMMA NextAnswers ==
  ASSUME AInv, [Next]_vars, Alive'
  PROVE  Answers'
<1>. Base /\ Booting /\ Aligned(wasRead) /\ (Alive => Answers) /\ MutexTypes /\ Owners
  BY Typed DEF AInv
<1>1. CASE BootStep
  <2>1. BootWas /\ ~spoilt
    BY <1>1, SpoiltRemains, SysLogAssumption DEF Alive, Running, BootStep, BootIndexes, Goto, MutexTypes
  <2>2. /\ at[Main] = "boot_was" /\ wasRead' = 0 /\ UNCHANGED <<indexes, daemon>>
        /\ lockedTask' = lockedTask
    BY <2>1 DEF BootWas, Goto, daemonVars, mutexVars
  <2>3. indexes' = EmptyRing /\ ~Reading' /\ lockedTask' = NoTask
    BY <2>1, <2>2 DEF Booting, Reading, Owners, Running
  <2>4. Stage' = "idle" /\ Size(indexes)' = 0
    BY <2>3, EmptyIsRing, SysLogAssumption DEF Stage, Size
  <2>. QED
    BY <2>2, <2>3, <2>4, AlignedLengths
       DEF Answers, ReadIsThere, AnswerInTime, Fitting, Writing
<1>2. CASE ~BootStep
  <2>1. Alive /\ Answers
    BY <1>2, StillAlive
  <2>2. ASSUME NEW t \in Task, TaskStep(t) PROVE Answers'
    BY <2>1, <2>2, TaskKeepsAnswers
  <2>3. CASE DaemonStep
    <3>1. UNCHANGED <<copy, toAdd, written, at, lockedTask>>
      BY <2>3 DEF DaemonStep, mutexVars, taskVars
    <3>2. Stage' = Stage
      BY <3>1, Elsewhere
    <3>. QED
      BY <2>1, <2>3, <3>1, <3>2, OthersKeepAnswers
  <2>4. ASSUME NEW t \in Task, DeleteTask(t) PROVE Answers'
    <3>1. lockedTask # t /\ lockedTask' = lockedTask /\ at' = [at EXCEPT ![t] = "idle"]
      BY <2>4 DEF DeleteTask, Alive
    <3>2. Stage' = Stage
      BY <3>1, Elsewhere DEF MutexTypes
    <3>3. UNCHANGED <<copy, toAdd, written, indexes, wasRead, daemon, toRead>>
      BY <2>4 DEF DeleteTask, shared, daemonVars
    <3>. QED
      BY <2>1, <3>2, <3>3, OthersKeepAnswers
  <2>5. CASE ResetLm32
    BY <2>5, SysLogAssumption DEF ResetLm32, Alive, Running
  <2>6. CASE RestartDaemon \/ RestartDaemonAndReset \/ UNCHANGED vars
    <3>1. UNCHANGED <<copy, toAdd, written, at, lockedTask>>
      BY <2>6 DEF RestartDaemon, RestartDaemonAndReset, vars, mutexVars, taskVars
    <3>2. Stage' = Stage
      BY <3>1, Elsewhere
    <3>3. \/ UNCHANGED <<indexes, wasRead>> /\ (daemon' = "poll" \/ UNCHANGED <<daemon, toRead>>)
          \/ indexes' = EmptyRing /\ wasRead' = 0 /\ daemon' = "poll"
      BY <2>6 DEF RestartDaemon, RestartDaemonAndReset, vars, shared, daemonVars
    <3>. QED
      BY <2>1, <3>1, <3>2, <3>3, OthersKeepAnswers
  <2>. QED
    BY <1>2, <2>2, <2>3, <2>4, <2>5, <2>6 DEF Next, FaultStep
<1>. QED
  BY <1>1, <1>2

LEMMA NextAInv == AInv /\ [Next]_vars => AInv'
<1>. SUFFICES ASSUME AInv, [Next]_vars PROVE AInv'
  OBVIOUS
<1>1. Base' /\ Booting' /\ Aligned(toRead') /\ Aligned(wasRead')
  BY NextBase, NextBooting, NextAligned DEF AInv
<1>. QED
  BY <1>1, NextAnswers DEF AInv, Aligned

LEMMA AInvCorrect == Spec => []AInv
  BY InitAInv, NextAInv, PTL DEF Spec

\* AnswersWithinSize: for any number of tasks and every capacity, length of a message and
\* most messages at once, an answer that a task applies to its copy of the indexes never
\* says more than the copy has, also when the answer comes between the two words that the
\* task reads and when the oldest messages have been removed behind the daemon's back;
\* unless a fault has met an answer that was under way.
THEOREM AnswersAreWithinSize == Spec => []AnswersWithinSize
<1>1. AInv => AnswersWithinSize
  <2>. SUFFICES ASSUME AInv, ~spoilt, NEW t \in Task, at[t] = "read_was", pc[t] = "run"
                PROVE  wasRead <= ramRingGetSize(copy)
    BY DEF AnswersWithinSize
  <2>1. Alive /\ Stage = "read_was"
    BY TheOwner DEF AInv, In, Inside
  <2>. QED
    BY <2>1 DEF AInv, Answers, AnswerInTime, Size
<1>. QED
  BY <1>1, AInvCorrect, PTL
-----------------------------------------------------------------------------
(* What the ring holds, as long as no message is lost: the g-th word that has been     *)
(* logged is WordOf( g ).                                                              *)

WordOf(g) == [message |-> (g \div ItemLen) + 1, part |-> (g % ItemLen) + 1]

\* The ring as the task that writes sees it, how many words have been logged up to it,
\* and which of them is its oldest.
View == IF Writing THEN copy ELSE indexes
Total ==
  IF Writing THEN (messages - 1) * ItemLen + written
  ELSE IF Stage = "read_was" THEN (messages - 1) * ItemLen ELSE messages * ItemLen
Oldest == Total - Size(View)

\* The ring r in the memory m holds the words from the o-th on.
Stores(m, r, o) == \A j \in 0 .. Size(r) - 1 : m[Advanced(r.start, j)] = WordOf(o + j)

\* The task that writes has a number for its message, and in the copy the answer that it has
\* read is applied.
Applied ==
  /\ Stage \in {"read_was", "write", "write_indexes"} => messages > 0
  /\ toAdd # 0 => Stage \in {"write", "write_indexes", "write_was"} /\ wasRead = toAdd
  /\ Stage = "read_was" => copy = indexes
  /\ Writing /\ toAdd = 0 => copy.start = indexes.start /\ Size(copy) = Size(indexes) + written

Kept == Size(View) <= Total /\ Aligned(Oldest) /\ Stores(ram, View, Oldest)

Contents == Alive /\ Applied /\ Kept

LEMMA WordOfMessage ==
  ASSUME NEW q \in Nat, NEW k \in 0 .. ItemLen - 1
  PROVE  q * ItemLen + k \in Nat /\ WordOf(q * ItemLen + k) = [message |-> q + 1, part |-> k + 1]
<1>1. ItemLen \in Nat \ {0} /\ k \in Nat /\ k < ItemLen
  BY Lengths
<1>2. q * ItemLen \in Nat
  BY <1>1
<1>3. (q * ItemLen + k) \div ItemLen = q
  BY <1>1, <1>2
<1>4. (q * ItemLen + k) % ItemLen = k
  BY <1>1, <1>2, <1>3
<1>. QED
  BY <1>1, <1>2, <1>3, <1>4 DEF WordOf

LEMMA AdvancedTwice ==
  ASSUME NEW i \in 0 .. Capacity - 1, NEW m \in 0 .. Capacity, NEW n \in 0 .. Capacity,
         m + n <= Capacity
  PROVE  Advanced(Advanced(i, m), n) = Advanced(i, m + n)
<1>1. m + n \in 0 .. Capacity /\ Advanced(i, m) \in 0 .. Capacity - 1
  BY AdvancedIs, Lengths
<1>2. Advanced(i, m) = IF i + m < Capacity THEN i + m ELSE i + m - Capacity
  BY AdvancedIs
<1>3. Advanced(i, m + n) = IF i + (m + n) < Capacity THEN i + (m + n) ELSE i + (m + n) - Capacity
  BY <1>1, AdvancedIs
<1>4. Advanced(Advanced(i, m), n) = IF Advanced(i, m) + n < Capacity THEN Advanced(i, m) + n
                                    ELSE Advanced(i, m) + n - Capacity
  BY <1>1, AdvancedIs
<1>. QED
  BY <1>2, <1>3, <1>4, Lengths

\* Places of a ring differ.
LEMMA PlacesDiffer ==
  ASSUME NEW i \in 0 .. Capacity - 1, NEW m \in 0 .. Capacity - 1, NEW n \in 0 .. Capacity - 1,
         m # n
  PROVE  Advanced(i, m) # Advanced(i, n)
<1>1. m \in 0 .. Capacity /\ n \in 0 .. Capacity
  BY Lengths
<1>2. Advanced(i, m) = IF i + m < Capacity THEN i + m ELSE i + m - Capacity
  BY <1>1, AdvancedIs
<1>3. Advanced(i, n) = IF i + n < Capacity THEN i + n ELSE i + n - Capacity
  BY <1>1, AdvancedIs
<1>. QED
  BY <1>2, <1>3, Lengths

LEMMA AdvancedByNone ==
  ASSUME NEW i \in 0 .. Capacity - 1
  PROVE  Advanced(i, 0) = i
<1>1. 0 \in 0 .. Capacity
  BY Lengths
<1>2. Advanced(i, 0) = IF i + 0 < Capacity THEN i + 0 ELSE i + 0 - Capacity
  BY <1>1, AdvancedIs
<1>. QED
  BY <1>2, Lengths

LEMMA Numbers ==
  ASSUME Base, Contents
  PROVE  /\ View \in Ring /\ View.start \in 0 .. Capacity - 1 /\ Size(View) \in 0 .. Capacity
         /\ messages \in Nat /\ Total \in Nat /\ Oldest \in Nat /\ Total = Oldest + Size(View)
         /\ ItemLen \in Nat \ {0}
<1>1. messages \in Nat /\ written \in Nat /\ ItemLen \in Nat \ {0}
  BY Typed, Lengths DEF MessageTypes
<1>2. View \in Ring
  BY Typed DEF View
<1>3. View.start \in 0 .. Capacity - 1 /\ Size(View) \in 0 .. Capacity
  BY <1>2, RingFields DEF Size
<1>4. Total \in Nat
  <2>1. messages * ItemLen \in Nat
    BY <1>1
  <2>2. messages > 0 => (messages - 1) * ItemLen \in Nat
    BY <1>1
  <2>. QED
    BY <1>1, <2>1, <2>2 DEF Total, Contents, Applied, Writing
<1>5. Size(View) <= Total
  BY DEF Contents, Kept
<1>. QED
  BY <1>1, <1>2, <1>3, <1>4, <1>5 DEF Oldest

\* A step that leaves the ring and the task that writes alone.
LEMMA ContentsRemain ==
  ASSUME Contents, Alive', UNCHANGED <<indexes, ram, copy, toAdd, written, messages>>,
         Stage' = Stage \/ {Stage, Stage'} \subseteq {"idle", "read_indexes", "unlock"},
         toAdd # 0 => wasRead' = wasRead
  PROVE  Contents' /\ Oldest' = Oldest /\ View' = View
<1>1. /\ Writing' <=> Writing
      /\ Stage' = "read_was" <=> Stage = "read_was"
      /\ \/ Stage' = Stage
         \/ {Stage, Stage'} \cap {"read_was", "write", "write_indexes", "write_was"} = {}
  BY DEF Writing
<1>2. View' = View /\ Total' = Total
  BY <1>1 DEF View, Total
<1>3. Size(View)' = Size(View) /\ Oldest' = Oldest
  BY <1>2 DEF Size, Oldest
<1>4. Kept'
  <2>1. Stores(ram, View, Oldest)' <=> Stores(ram, View, Oldest)
    BY <1>2, <1>3 DEF Stores
  <2>. QED
    BY <1>2, <1>3, <2>1 DEF Contents, Kept, Aligned
<1>5. Applied'
  BY <1>1 DEF Contents, Applied, Size
<1>. QED
  BY <1>2, <1>3, <1>4, <1>5 DEF Contents

\* A message gets its number, and the task reads the indexes.
LEMMA ReadIndexesKeepsContents ==
  ASSUME Base, Contents, Alive', Stage = "read_indexes", Stage' = "read_was",
         copy' = indexes, messages' = messages + 1,
         UNCHANGED <<indexes, wasRead, ram, toAdd, written>>
  PROVE  Contents' /\ Oldest' = Oldest /\ View' = indexes /\ View = indexes
<1>1. messages \in Nat /\ toAdd = 0
  BY Numbers DEF Contents, Applied
<1>2. View' = indexes /\ View = indexes /\ Total' = Total
  BY <1>1 DEF View, Total, Writing
<1>3. Oldest' = Oldest /\ Size(View)' = Size(View)
  BY <1>2 DEF Oldest, Size
<1>4. Kept'
  <2>1. Stores(ram, View, Oldest)' <=> Stores(ram, View, Oldest)
    BY <1>2, <1>3 DEF Stores
  <2>. QED
    BY <1>2, <1>3, <2>1 DEF Contents, Kept, Aligned
<1>5. Applied'
  BY <1>1 DEF Applied, Writing
<1>. QED
  BY <1>2, <1>3, <1>4, <1>5 DEF Contents

\* The task applies the answer of the daemon.
LEMMA ReadWasKeepsContents ==
  ASSUME Base, Contents, Answers, Aligned(wasRead), Alive', Stage = "read_was", Stage' = "write",
         NEW t \in Task, ReadWas(t), ~lossy'
  PROVE  /\ Contents' /\ Oldest' = Oldest + wasRead
         /\ View'.start = Advanced(View.start, wasRead)
<1>1. /\ UNCHANGED <<indexes, wasRead, ram, messages>> /\ toAdd' = wasRead /\ written' = 0
  BY DEF ReadWas, shared
<1>2. PICK r \in Ring :
         /\ Size(r) = Size(copy) - wasRead /\ r.start = Advanced(copy.start, wasRead)
         /\ copy' = r
  <2>1. PICK r \in Ring :
           /\ Size(r) = Size(copy) - wasRead /\ r.start = Advanced(copy.start, wasRead)
           /\ lossy' = (lossy \/ NoRoom(r))
           /\ IF NoRoom(r) THEN TRUE ELSE copy' = r
    BY Synchronized DEF Contents
  <2>. QED
    BY <2>1
<1>3. copy = indexes /\ View = copy /\ messages > 0 /\ Total = (messages - 1) * ItemLen
  BY DEF Contents, Applied, View, Total, Writing
<1>4. /\ wasRead \in 0 .. Capacity /\ wasRead <= Size(copy) /\ Size(copy) \in 0 .. Capacity
      /\ Size(r) \in Nat /\ copy.start \in 0 .. Capacity - 1
  BY <1>2, Typed, RingFields, Lengths DEF Answers, AnswerInTime, Size
<1>5. View' = r /\ Total' = Total
  <2>1. Total' = (messages - 1) * ItemLen + 0
    BY <1>1 DEF Total, Writing
  <2>. QED
    BY <1>2, <1>3, <2>1, Numbers DEF View, Writing
<1>6. Oldest' = Oldest + wasRead /\ Size(View)' = Size(r)
  <2>1. Size(View)' = Size(r)
    BY <1>5 DEF Size
  <2>2. Oldest' = Total' - Size(View)'
    BY DEF Oldest
  <2>3. Oldest = Total - Size(copy) /\ Total \in Nat /\ Size(copy) \in Nat /\ wasRead \in Nat
    BY <1>3, <1>4, Numbers DEF Oldest
  <2>. QED
    BY <1>2, <1>5, <2>1, <2>2, <2>3
<1>7. Stores(ram', r, Oldest')
  <2>. SUFFICES ASSUME NEW j \in 0 .. Size(r) - 1
                PROVE  ram[Advanced(r.start, j)] = WordOf(Oldest + wasRead + j)
    BY <1>1, <1>6 DEF Stores
  <2>1. /\ j \in 0 .. Capacity /\ wasRead + j <= Capacity /\ wasRead + j \in 0 .. Size(copy) - 1
        /\ j \in Nat /\ wasRead \in Nat
    BY <1>2, <1>4, Lengths
  <2>2. Advanced(r.start, j) = Advanced(copy.start, wasRead + j)
    BY <1>2, <1>4, <2>1, AdvancedTwice
  <2>3. ram[Advanced(copy.start, wasRead + j)] = WordOf(Oldest + (wasRead + j))
    BY <1>3, <2>1 DEF Contents, Kept, Stores
  <2>4. Oldest + (wasRead + j) = Oldest + wasRead + j
    BY <2>1, Numbers
  <2>. QED
    BY <2>2, <2>3, <2>4
<1>8. Kept'
  <2>1. Aligned(Oldest')
    BY <1>4, <1>6, AlignedSum, Numbers DEF Contents, Kept
  <2>2. Size(View)' <= Total'
    BY <1>2, <1>3, <1>4, <1>5, <1>6, Numbers DEF Contents, Kept
  <2>3. Stores(ram, View, Oldest)'
    BY <1>5, <1>7 DEF Stores, Size
  <2>. QED
    BY <2>1, <2>2, <2>3 DEF Kept, Aligned
<1>9. Applied'
  <2>1. ASSUME wasRead = 0 PROVE copy'.start = indexes.start /\ Size(copy') = Size(indexes) + 0
    <3>1. r.start = copy.start
      BY <1>2, <1>4, <2>1, AdvancedByNone
    <3>. QED
      BY <1>2, <1>3, <1>4, <2>1, <3>1
  <2>2. messages' > 0 /\ (toAdd' # 0 => wasRead' = toAdd')
    BY <1>1, <1>3
  <2>3. toAdd' = 0 => copy'.start = indexes'.start /\ Size(copy') = Size(indexes') + written'
    BY <1>1, <2>1
  <2>4. Size(copy)' = Size(copy') /\ Size(indexes)' = Size(indexes')
    BY DEF Size
  <2>. QED
    BY <2>2, <2>3, <2>4 DEF Applied
<1>. QED
  BY <1>2, <1>3, <1>5, <1>6, <1>8, <1>9 DEF Contents

\* A word is written behind the others.
LEMMA WriteWordKeepsContents ==
  ASSUME Base, Contents, Answers, Alive', Stage = "write", Stage' \in {"write", "write_indexes"},
         written < ItemLen, NEW t \in Task, WriteWord(t)
  PROVE  Contents' /\ Oldest' = Oldest /\ View'.start = View.start
<1>1. /\ UNCHANGED <<indexes, wasRead, toAdd, messages>>
      /\ ram' = [ram EXCEPT ![ramRingGetWriteIndex(copy)] =
                              [message |-> messages, part |-> written + 1]]
      /\ copy' = ramRingIncWriteIndex(copy) /\ written' = written + 1
  BY DEF WriteWord
<1>2. Writing /\ Writing' /\ View = copy /\ View' = copy' /\ messages > 0
  BY DEF Writing, View, Contents, Applied
<1>3. /\ Size(copy) < Capacity /\ copy \in Ring /\ copy.start \in 0 .. Capacity - 1
      /\ Size(copy) \in Nat /\ written \in 0 .. ItemLen - 1 /\ messages - 1 \in Nat
      /\ (messages - 1) * ItemLen \in Nat /\ ram \in [0 .. Capacity - 1 -> Word]
      /\ Capacity \in Nat
  <2>1. messages \in Nat /\ ItemLen \in Nat \ {0} /\ written \in Nat /\ Capacity \in Nat
    BY Typed, Lengths DEF MessageTypes
  <2>2. messages - 1 \in Nat
    BY <1>2, <2>1
  <2>3. (messages - 1) * ItemLen \in Nat
    BY <2>1, <2>2
  <2>. QED
    BY <2>1, <2>2, <2>3, WordFits, Typed, RingFields DEF RingTypes
<1>4. /\ Size(copy') = Size(copy) + 1 /\ copy'.start = copy.start
      /\ ramRingGetWriteIndex(copy) = Advanced(copy.start, Size(copy))
      /\ ramRingGetWriteIndex(copy) \in 0 .. Capacity - 1
  BY <1>1, <1>3, IncWriteIndex DEF Size
<1>5. /\ Total = (messages - 1) * ItemLen + written
      /\ Total' = (messages - 1) * ItemLen + (written + 1)
  BY <1>1, <1>2 DEF Total
<1>6. Total' = Total + 1 /\ Oldest' = Oldest /\ Size(View)' = Size(View) + 1
  <2>1. Size(View)' = Size(copy') /\ Size(View) = Size(copy)
    BY <1>2 DEF Size
  <2>2. Oldest' = Total' - Size(View)' /\ Oldest = Total - Size(View)
    BY DEF Oldest
  <2>3. Total' = Total + 1 /\ Total \in Nat
    BY <1>3, <1>5
  <2>. QED
    BY <1>3, <1>4, <2>1, <2>2, <2>3
<1>7. Stores(ram', copy', Oldest)
  <2>. SUFFICES ASSUME NEW j \in 0 .. Size(copy') - 1
                PROVE  ram'[Advanced(copy.start, j)] = WordOf(Oldest + j)
    BY <1>4 DEF Stores
  <2>1. CASE j = Size(copy)
    <3>1. ram'[Advanced(copy.start, j)] = [message |-> messages, part |-> written + 1]
      BY <1>1, <1>3, <1>4, <2>1
    <3>2. WordOf(Total) = [message |-> (messages - 1) + 1, part |-> written + 1]
      BY <1>3, <1>5, WordOfMessage
    <3>3. Oldest + j = Total /\ (messages - 1) + 1 = messages
      BY <1>2, <1>3, <2>1, Numbers
    <3>. QED
      BY <3>1, <3>2, <3>3
  <2>2. CASE j # Size(copy)
    <3>1. j \in 0 .. Size(copy) - 1 /\ j \in 0 .. Capacity - 1 /\ Size(copy) \in 0 .. Capacity - 1
      BY <1>3, <1>4, <2>2
    <3>2. Advanced(copy.start, j) # Advanced(copy.start, Size(copy))
      BY <1>3, <2>2, <3>1, PlacesDiffer
    <3>3. j \in 0 .. Capacity
      BY <1>3, <3>1
    <3>4. Advanced(copy.start, j) \in 0 .. Capacity - 1
      BY <1>3, <3>3, AdvancedIs
    <3>5. ram'[Advanced(copy.start, j)] = ram[Advanced(copy.start, j)]
      BY <1>1, <1>3, <1>4, <3>2, <3>4
    <3>6. ram[Advanced(copy.start, j)] = WordOf(Oldest + j)
      BY <1>2, <3>1 DEF Contents, Kept, Stores
    <3>. QED
      BY <3>5, <3>6
  <2>. QED
    BY <2>1, <2>2
<1>8. Kept'
  <2>1. Aligned(Oldest) /\ Size(View) <= Total /\ Size(View) \in Nat /\ Total \in Nat
    BY Numbers DEF Contents, Kept
  <2>2. Size(View)' <= Total'
    BY <1>6, <2>1
  <2>3. Stores(ram, View, Oldest)'
    BY <1>2, <1>6, <1>7 DEF Stores, Size
  <2>. QED
    BY <1>6, <2>1, <2>2, <2>3 DEF Kept, Aligned
<1>9. Applied'
  <2>1. ASSUME toAdd = 0 PROVE copy'.start = indexes.start /\ Size(copy') = Size(indexes) + written'
    <3>1. copy.start = indexes.start /\ Size(copy) = Size(indexes) + written
      BY <1>2, <2>1 DEF Contents, Applied
    <3>. QED
      BY <1>1, <1>3, <1>4, <3>1, Typed
  <2>2. messages' > 0 /\ (toAdd' # 0 => wasRead' = toAdd') /\ Stage' # "read_was"
    BY <1>1, <1>2 DEF Contents, Applied
  <2>3. Size(copy)' = Size(copy') /\ Size(indexes)' = Size(indexes)
    BY <1>1 DEF Size
  <2>. QED
    BY <1>1, <2>1, <2>2, <2>3 DEF Applied
<1>. QED
  BY <1>2, <1>4, <1>6, <1>8, <1>9 DEF Contents

\* The indexes show the message.
LEMMA WriteIndexesKeepsContents ==
  ASSUME Base, Contents, Answers, Alive', Stage = "write_indexes", Stage' = "write_was",
         indexes' = copy, UNCHANGED <<wasRead, ram, copy, toAdd, written, messages>>
  PROVE  Contents' /\ Oldest' = Oldest /\ View' = View /\ View = copy
<1>1. written = ItemLen /\ messages > 0 /\ messages \in Nat /\ ItemLen \in Nat \ {0}
  BY Numbers DEF Answers, Fitting, Contents, Applied
<1>2. View = copy /\ View' = copy
  BY DEF View, Writing
<1>3. Total = (messages - 1) * ItemLen + ItemLen /\ Total' = messages * ItemLen
  BY <1>1 DEF Total, Writing
<1>4. Total' = Total
  <2>1. (messages - 1) * ItemLen + ItemLen = messages * ItemLen
    BY <1>1
  <2>. QED
    BY <1>3, <2>1
<1>5. Oldest' = Oldest /\ Size(View)' = Size(View)
  BY <1>2, <1>4 DEF Oldest, Size
<1>6. Kept'
  <2>1. Stores(ram, View, Oldest)' <=> Stores(ram, View, Oldest)
    BY <1>2, <1>5 DEF Stores
  <2>. QED
    BY <1>2, <1>4, <1>5, <2>1 DEF Contents, Kept, Aligned
<1>7. Applied'
  BY DEF Contents, Applied, Writing
<1>. QED
  BY <1>2, <1>5, <1>6, <1>7 DEF Contents

\* The answer that has been applied is taken back, or another one erased.
LEMMA WriteWasKeepsContents ==
  ASSUME Base, Contents, Alive', Stage = "write_was", Stage' = "unlock", toAdd' = 0,
         UNCHANGED <<indexes, ram, copy, written, messages>>
  PROVE  Contents' /\ Oldest' = Oldest /\ View' = View
<1>1. View' = View /\ Total' = Total
  BY DEF View, Total, Writing
<1>2. Oldest' = Oldest /\ Size(View)' = Size(View)
  BY <1>1 DEF Oldest, Size
<1>3. Kept'
  <2>1. Stores(ram, View, Oldest)' <=> Stores(ram, View, Oldest)
    BY <1>1, <1>2 DEF Stores
  <2>. QED
    BY <1>1, <1>2, <2>1 DEF Contents, Kept, Aligned
<1>4. Applied'
  BY DEF Applied, Writing
<1>. QED
  BY <1>1, <1>2, <1>3, <1>4 DEF Contents
-----------------------------------------------------------------------------
(* What the daemon has printed *)

\* The number of the last message printed, and of the one before those that are waiting to
\* be printed.
Last  == IF Len(printed) = 0 THEN 0 ELSE printed[Len(printed)]
First == got[1].message - 1

\* Where the printed messages step back.
Back == {k \in 2 .. Len(printed) : printed[k] <= printed[k - 1]}

\* How many words have been answered, and how many have been read.
Answered == Oldest + (wasRead - toAdd)
Seen     == IF daemon = "print" THEN First * ItemLen + toRead ELSE Last * ItemLen

\* The steps back that are still to come: one when an answer has been erased and the messages
\* have not been read again, one when they have been and wait to be printed again.
Debt ==
  (IF Answered < Seen THEN 1 ELSE 0) + (IF daemon = "print" /\ First < Last THEN 1 ELSE 0)

InOrder == \A k \in 1 .. Len(printed) :
             printed[k] \in 1 .. (IF k = 1 THEN 1 ELSE printed[k - 1] + 1)

\* The words from the b-th on have been read.
Got(b) == \A i \in 1 .. Len(got) : got[i] = WordOf(b + i - 1)

Copied ==
  Reading => Got(Oldest) /\ copyOfDaemon.start = Advanced(indexes.start, Len(got))
Waiting == daemon = "print" => First \in 0 .. Last /\ Got(First * ItemLen)
Counts  == Answered <= Seen /\ Cardinality(Back) + Debt <= erased

Output1 == Copied /\ Waiting /\ Counts /\ InOrder

LEMMA Places ==
  ASSUME Base, Contents, Output1
  PROVE  /\ Last \in Nat /\ Seen \in Nat /\ Answered \in Int /\ erased \in Nat
         /\ IsFiniteSet(Back) /\ Cardinality(Back) \in Nat
         /\ toRead \in 0 .. Capacity /\ Len(printed) \in Nat /\ ItemLen \in Nat \ {0}
         /\ printed \in Seq(0 .. MaxMessages)
         /\ wasRead \in Nat /\ toAdd \in Nat /\ Oldest \in Nat
<1>1. /\ printed \in Seq(0 .. MaxMessages) /\ Len(printed) \in Nat
      /\ ItemLen \in Nat \ {0} /\ toRead \in 0 .. Capacity /\ MaxMessages \in Nat
      /\ Capacity \in Nat
  BY Typed, Lengths, LenProperties DEF DaemonTypes
<1>2. Last \in Nat
  <2>1. CASE Len(printed) = 0
    BY <2>1 DEF Last
  <2>2. CASE Len(printed) # 0
    <3>1. printed[Len(printed)] \in 0 .. MaxMessages
      BY <1>1, <2>2, ElementOfSeq
    <3>. QED
      BY <1>1, <2>2, <3>1 DEF Last
  <2>. QED
    BY <2>1, <2>2
<1>3. Seen \in Nat
  <2>1. Last * ItemLen \in Nat
    BY <1>1, <1>2
  <2>2. ASSUME daemon = "print" PROVE First * ItemLen + toRead \in Nat
    <3>1. First \in Nat
      BY <1>2, <2>2 DEF Output1, Waiting
    <3>2. First * ItemLen \in Nat
      BY <1>1, <3>1
    <3>. QED
      BY <1>1, <3>2
  <2>. QED
    BY <2>1, <2>2 DEF Seen
<1>4. IsFiniteSet(Back) /\ Cardinality(Back) \in Nat
  <2>1. IsFiniteSet(2 .. Len(printed)) /\ Back \subseteq 2 .. Len(printed)
    BY <1>1, FS_Interval DEF Back
  <2>. QED
    BY <2>1, FS_Subset, FS_CardinalityType
<1>5. wasRead \in Nat /\ toAdd \in Nat /\ Oldest \in Nat /\ Answered \in Int
  BY Typed, Numbers DEF Answered
<1>6. erased \in Nat
  BY DEF Base, HistoryTypes
<1>. QED
  BY <1>1, <1>2, <1>3, <1>4, <1>5, <1>6

\* A step that leaves the daemon alone and does not change what has been answered.
LEMMA OutputRemains ==
  ASSUME Output1, UNCHANGED <<daemon, toRead, got, printed, copyOfDaemon, erased>>,
         Answered' = Answered, Reading => Oldest' = Oldest /\ indexes'.start = indexes.start
  PROVE  Output1'
<1>1. Last' = Last /\ First' = First /\ Back' = Back /\ (Reading' <=> Reading)
  BY DEF Last, First, Back, Reading
<1>2. Seen' = Seen
  BY <1>1 DEF Seen
<1>3. Debt' = Debt
  BY <1>1, <1>2 DEF Debt
<1>4. Copied'
  BY <1>1 DEF Output1, Copied, Got
<1>5. Waiting'
  BY <1>1 DEF Output1, Waiting, Got
<1>6. Counts'
  BY <1>1, <1>2, <1>3 DEF Output1, Counts
<1>7. InOrder'
  BY DEF Output1, InOrder
<1>. QED
  BY <1>4, <1>5, <1>6, <1>7 DEF Output1

\* An answer is taken back, and the copy with it, or one that the copy does not know is
\* erased.
LEMMA WriteWasKeepsOutput ==
  ASSUME Base, Contents, Output1, UNCHANGED <<daemon, toRead, got, printed, copyOfDaemon, indexes>>,
         Oldest' = Oldest, wasRead' = 0, toAdd' = 0,
         erased' = IF wasRead # toAdd THEN erased + 1 ELSE erased
  PROVE  Output1'
<1>1. Last' = Last /\ First' = First /\ Back' = Back /\ (Reading' <=> Reading)
  BY DEF Last, First, Back, Reading
<1>2. Seen' = Seen
  BY <1>1 DEF Seen
<1>3. Answered' = Oldest /\ Answered = Oldest + (wasRead - toAdd)
  <2>1. Answered' = Oldest' + (wasRead' - toAdd')
    BY DEF Answered
  <2>. QED
    BY <2>1, Places DEF Answered
<1>4. wasRead # toAdd => toAdd = 0
  BY DEF Contents, Applied
<1>5. Answered' <= Answered /\ Answered' <= Seen'
  BY <1>2, <1>3, <1>4, Places DEF Output1, Counts
<1>6. Debt \in 0 .. 2 /\ Debt' \in 0 .. 2 /\ Debt' <= Debt + 1 /\ (wasRead = toAdd => Debt' = Debt)
  <2>1. Debt' = (IF Answered' < Seen THEN 1 ELSE 0) + (IF daemon = "print" /\ First < Last THEN 1 ELSE 0)
    BY <1>1, <1>2 DEF Debt
  <2>2. wasRead = toAdd => Answered' = Answered
    BY <1>3, Places
  <2>. QED
    BY <2>1, <2>2 DEF Debt
<1>7. Counts'
  <2>1. Cardinality(Back') = Cardinality(Back)
    BY <1>1
  <2>2. Cardinality(Back) + Debt <= erased /\ Cardinality(Back) \in Nat /\ erased \in Nat
    BY Places DEF Output1, Counts
  <2>3. Cardinality(Back) + Debt' <= erased'
    BY <1>6, <2>2
  <2>. QED
    BY <1>1, <1>5, <2>3 DEF Counts
<1>8. Copied' /\ Waiting' /\ InOrder'
  BY <1>1 DEF Output1, Copied, Waiting, InOrder, Got
<1>. QED
  BY <1>7, <1>8 DEF Output1

\* The daemon reads from the beginning of the ring, and what it reads is in it.
LEMMA ReadFromOldest ==
  ASSUME Base, Contents, Answers, Reading
  PROVE  /\ wasRead = 0 /\ toAdd = 0 /\ View.start = indexes.start /\ toRead <= Size(View)
         /\ indexes.start \in 0 .. Capacity - 1
<1>1. wasRead = 0 /\ toRead <= Size(indexes)
  BY DEF Answers, ReadIsThere
<1>2. toAdd = 0
  BY <1>1 DEF Contents, Applied
<1>3. Size(indexes) \in Nat /\ toRead \in Nat /\ written \in Nat /\ Size(copy) \in Nat
  BY Typed
<1>4. indexes.start \in 0 .. Capacity - 1
  BY Typed, RingFields
<1>5. CASE Writing
  <2>1. View = copy /\ copy.start = indexes.start /\ Size(copy) = Size(indexes) + written
    BY <1>2, <1>5 DEF View, Contents, Applied
  <2>. QED
    BY <1>1, <1>2, <1>3, <1>4, <2>1
<1>6. CASE ~Writing
  BY <1>1, <1>2, <1>4, <1>6 DEF View
<1>. QED
  BY <1>5, <1>6

LEMMA PollKeepsOutput ==
  ASSUME Base, Contents, Output1, Poll, Oldest' = Oldest, UNCHANGED <<toAdd, erased>>
  PROVE  Output1'
<1>1. /\ daemon = "poll" /\ daemon' = "read" /\ got' = << >> /\ copyOfDaemon' = indexes
      /\ UNCHANGED <<printed, wasRead, indexes>>
  BY DEF Poll, shared
<1>2. Last' = Last /\ Back' = Back
  BY <1>1 DEF Last, Back
<1>3. Seen' = Seen /\ Answered' = Answered
  BY <1>1, <1>2 DEF Seen, Answered
<1>4. Debt' = Debt
  BY <1>1, <1>3 DEF Debt
<1>5. Copied'
  <2>1. Len(got') = 0 /\ indexes.start \in 0 .. Capacity - 1
    BY <1>1, Typed, RingFields
  <2>2. Got(Oldest)'
    BY <2>1 DEF Got
  <2>3. copyOfDaemon'.start = Advanced(indexes'.start, Len(got'))
    BY <1>1, <2>1, AdvancedByNone
  <2>. QED
    BY <2>2, <2>3 DEF Copied
<1>6. Waiting' /\ InOrder'
  BY <1>1 DEF Output1, Waiting, InOrder
<1>7. Counts'
  BY <1>1, <1>2, <1>3, <1>4 DEF Output1, Counts
<1>. QED
  BY <1>5, <1>6, <1>7 DEF Output1

LEMMA ReadKeepsOutput ==
  ASSUME Base, Contents, Answers, Output1, Read, Oldest' = Oldest, UNCHANGED <<toAdd, erased>>
  PROVE  Output1'
<1>1. Reading /\ UNCHANGED <<printed, toRead, wasRead, indexes, ram>> /\ daemon = "read"
  BY DEF Read, shared, Reading
<1>2. PICK n \in 1 .. toRead - Len(got) :
         /\ copyOfDaemon' = ramRingAddToReadIndex(copyOfDaemon, n)
         /\ n <= Capacity - copyOfDaemon.start
         /\ Len(got') = Len(got) + n
         /\ \A i \in 1 .. Len(got') : got'[i] = IF i <= Len(got) THEN got[i]
                                               ELSE ram[copyOfDaemon.start + (i - Len(got)) - 1]
         /\ daemon' = IF n = toRead - Len(got) THEN "answer" ELSE "read"
  BY Typed, ReadWords
<1>3. /\ Got(Oldest) /\ copyOfDaemon.start = Advanced(indexes.start, Len(got))
      /\ View.start = indexes.start /\ toRead <= Size(View) /\ Size(View) \in 0 .. Capacity
      /\ indexes.start \in 0 .. Capacity - 1 /\ copyOfDaemon.start \in 0 .. Capacity - 1
      /\ copyOfDaemon \in Ring /\ Oldest \in Nat /\ Capacity \in Nat
  BY <1>1, Typed, Numbers, RingFields, ReadFromOldest, Lengths DEF Output1, Copied
<1>4. Len(got) \in Nat /\ toRead \in Nat /\ n \in Nat /\ n > 0 /\ Len(got) + n <= toRead
  <2>1. Len(got) \in Nat /\ toRead \in Nat
    BY Typed, LenProperties, Lengths DEF DaemonTypes
  <2>. QED
    BY <2>1
<1>5. Got(Oldest)'
  <2>. SUFFICES ASSUME NEW i \in 1 .. Len(got') PROVE got'[i] = WordOf(Oldest + i - 1)
    BY DEF Got
  <2>1. i \in Nat /\ i >= 1 /\ i <= Len(got) + n
    BY <1>2, <1>4
  <2>2. CASE i <= Len(got)
    <3>1. got'[i] = got[i] /\ i \in 1 .. Len(got)
      BY <1>2, <1>4, <2>1, <2>2
    <3>. QED
      BY <1>3, <3>1 DEF Got
  <2>3. CASE ~(i <= Len(got))
    <3> DEFINE j == (i - Len(got)) - 1
    <3>1. /\ j \in 0 .. n - 1 /\ j \in 0 .. Capacity /\ Len(got) \in 0 .. Capacity
          /\ Len(got) + j = i - 1 /\ Len(got) + j <= Capacity /\ i - 1 \in 0 .. Size(View) - 1
          /\ copyOfDaemon.start + j < Capacity
      BY <1>2, <1>3, <1>4, <2>1, <2>3
    <3>2. got'[i] = ram[copyOfDaemon.start + (i - Len(got)) - 1]
      BY <1>2, <2>3
    <3>3. copyOfDaemon.start + (i - Len(got)) - 1 = copyOfDaemon.start + j
      BY <1>3, <1>4, <2>1
    <3>. HIDE DEF j
    <3>4. Advanced(copyOfDaemon.start, j) = copyOfDaemon.start + j
      BY <1>3, <3>1, AdvancedIs
    <3>5. Advanced(copyOfDaemon.start, j) = Advanced(indexes.start, Len(got) + j)
      <4>1. Advanced(Advanced(indexes.start, Len(got)), j) = Advanced(indexes.start, Len(got) + j)
        BY <1>3, <3>1, AdvancedTwice
      <4>. QED
        BY <1>3, <4>1
    <3>6. ram[Advanced(View.start, i - 1)] = WordOf(Oldest + (i - 1))
      BY <3>1 DEF Contents, Kept, Stores
    <3>7. Oldest + (i - 1) = Oldest + i - 1
      BY <1>3, <2>1
    <3>. QED
      BY <1>3, <3>1, <3>2, <3>3, <3>4, <3>5, <3>6, <3>7
  <2>. QED
    BY <2>2, <2>3
<1>6. copyOfDaemon'.start = Advanced(indexes'.start, Len(got'))
  <2>1. n \in 0 .. Capacity /\ Len(got) \in 0 .. Capacity /\ Len(got) + n <= Capacity
    BY <1>3, <1>4
  <2>2. copyOfDaemon'.start = Advanced(copyOfDaemon.start, n)
    BY <1>2, <1>3, <2>1, AddToReadIndex
  <2>. QED
    BY <1>1, <1>2, <1>3, <2>1, <2>2, AdvancedTwice
<1>7. daemon' \in {"read", "answer"}
  BY <1>2
<1>8. Last' = Last /\ Back' = Back
  BY <1>1 DEF Last, Back
<1>9. Seen' = Seen /\ Answered' = Answered
  BY <1>1, <1>7, <1>8 DEF Seen, Answered
<1>10. Debt' = Debt
  BY <1>1, <1>7, <1>9 DEF Debt
<1>11. Copied' /\ Waiting' /\ InOrder'
  BY <1>1, <1>5, <1>6, <1>7 DEF Copied, Output1, Waiting, InOrder
<1>12. Counts'
  BY <1>1, <1>8, <1>9, <1>10 DEF Output1, Counts
<1>. QED
  BY <1>11, <1>12 DEF Output1

\* What the daemon has read begins with a message that it has printed, or with the next one.
LEMMA AnswerKeepsOutput ==
  ASSUME Base, Contents, Answers, Output1, Answer, Oldest' = Oldest, UNCHANGED <<toAdd, erased>>
  PROVE  Output1'
<1>1. /\ Reading /\ daemon = "answer" /\ daemon' = "print" /\ wasRead' = toRead
      /\ UNCHANGED <<printed, got, toRead, indexes>>
  BY DEF Answer, Reading
<1>2. /\ wasRead = 0 /\ toAdd = 0 /\ Got(Oldest) /\ Len(got) = toRead /\ toRead > 0
      /\ toRead \in Nat /\ Aligned(Oldest)
  BY <1>1, ReadFromOldest, Typed, Places DEF Output1, Copied, Progress, Contents, Kept
<1>3. PICK q \in Nat : Oldest = q * ItemLen
  BY <1>2, Quotient, Places
<1>4. First' = q
  <2>1. got'[1] = WordOf(Oldest + 1 - 1) /\ 0 \in 0 .. ItemLen - 1
    BY <1>1, <1>2, Places DEF Got
  <2>2. Oldest + 1 - 1 = q * ItemLen + 0
    BY <1>3, Places
  <2>3. got'[1] = [message |-> q + 1, part |-> 0 + 1]
    BY <2>1, <2>2, WordOfMessage
  <2>4. got'[1].message - 1 = q
    BY <2>3
  <2>. QED
    BY <2>4 DEF First
<1>5. Last' = Last /\ Back' = Back
  BY <1>1 DEF Last, Back
<1>6. Seen = Last * ItemLen /\ Seen' = Oldest + toRead /\ Answered = Oldest /\ Answered' = Seen'
  <2>1. Seen' = q * ItemLen + toRead
    BY <1>1, <1>4 DEF Seen
  <2>2. Answered' = Oldest + (toRead - toAdd)
    BY <1>1 DEF Answered
  <2>. QED
    BY <1>1, <1>2, <1>3, <2>1, <2>2, Places DEF Seen, Answered
<1>7. q * ItemLen <= Last * ItemLen
  BY <1>3, <1>6 DEF Output1, Counts
<1>8. q <= Last
  <2>1. ASSUME Last < q PROVE FALSE
    <3>1. Last + 1 \in Nat /\ Last + 1 <= q
      BY <2>1, Places
    <3>2. (Last + 1) * ItemLen <= q * ItemLen
      BY <3>1, Multiples
    <3>3. (Last + 1) * ItemLen = Last * ItemLen + ItemLen /\ Last * ItemLen \in Nat
      BY Places
    <3>4. q * ItemLen \in Nat
      BY <1>3, Places
    <3>. QED
      BY <1>7, <3>2, <3>3, <3>4, Places
  <2>. QED
    BY <2>1, Places
<1>9. Debt' <= Debt /\ Debt' \in 0 .. 1 /\ Debt \in 0 .. 1
  <2>1. Debt' = IF q < Last THEN 1 ELSE 0
    <3>1. Debt' = (IF Answered' < Seen' THEN 1 ELSE 0) + (IF q < Last THEN 1 ELSE 0)
      BY <1>1, <1>4, <1>5 DEF Debt
    <3>2. ~(Answered' < Seen')
      BY <1>2, <1>6, Places
    <3>. QED
      BY <3>1, <3>2
  <2>2. Debt = IF Oldest < Last * ItemLen THEN 1 ELSE 0
    BY <1>1, <1>6 DEF Debt
  <2>3. q < Last => Oldest < Last * ItemLen
    <3>1. ASSUME q < Last PROVE (q + 1) * ItemLen <= Last * ItemLen
      BY <3>1, Multiples, Places
    <3>2. (q + 1) * ItemLen = q * ItemLen + ItemLen
      BY Places
    <3>. QED
      BY <1>3, <3>1, <3>2, Places
  <2>. QED
    BY <2>1, <2>2, <2>3
<1>10. Copied' /\ InOrder'
  BY <1>1 DEF Output1, Copied, Reading, InOrder
<1>11. Waiting'
  <2>1. First' \in 0 .. Last'
    BY <1>4, <1>5, <1>8, Places
  <2>2. Got(Oldest)'
    BY <1>1, <1>2 DEF Got
  <2>3. First' * ItemLen = Oldest'
    BY <1>3, <1>4
  <2>. QED
    BY <1>1, <2>1, <2>2, <2>3 DEF Waiting, Got
<1>12. Counts'
  <2>1. Answered' <= Seen'
    BY <1>2, <1>6, Places
  <2>2. Cardinality(Back') = Cardinality(Back)
    BY <1>5
  <2>3. Cardinality(Back) + Debt' <= erased
    BY <1>9, Places DEF Output1, Counts
  <2>. QED
    BY <2>1, <2>2, <2>3, <1>5 DEF Counts
<1>. QED
  BY <1>10, <1>11, <1>12 DEF Output1

\* A message whose words follow each other is printed whole.
LEMMA WholeMessage ==
  ASSUME NEW first \in Nat, NEW i \in 1 .. Len(got) \div ItemLen, Len(got) \in Nat,
         Got(first * ItemLen)
  PROVE  ItemAt(i) = first + i
<1>1. ItemLen \in Nat \ {0} /\ i \in Nat /\ i - 1 \in Nat /\ first + (i - 1) \in Nat
  BY Lengths
<1>2. ASSUME NEW k \in 1 .. ItemLen
      PROVE  got[(i - 1) * ItemLen + k] = [message |-> first + i, part |-> k]
  <2>1. (i - 1) * ItemLen + k \in 1 .. Len(got)
    BY PlaceInBuffer
  <2>2. got[(i - 1) * ItemLen + k] = WordOf(first * ItemLen + ((i - 1) * ItemLen + k) - 1)
    BY <2>1 DEF Got
  <2>3. k - 1 \in 0 .. ItemLen - 1 /\ k \in Nat
    BY <1>1
  <2>4. first * ItemLen + ((i - 1) * ItemLen + k) - 1 = (first + (i - 1)) * ItemLen + (k - 1)
    <3>1. (first + (i - 1)) * ItemLen = first * ItemLen + (i - 1) * ItemLen
      BY <1>1
    <3>2. first * ItemLen \in Nat /\ (i - 1) * ItemLen \in Nat
      BY <1>1
    <3>. QED
      BY <2>3, <3>1, <3>2
  <2>5. WordOf((first + (i - 1)) * ItemLen + (k - 1)) =
          [message |-> (first + (i - 1)) + 1, part |-> (k - 1) + 1]
    BY <1>1, <2>3, WordOfMessage
  <2>6. (first + (i - 1)) + 1 = first + i /\ (k - 1) + 1 = k
    BY <1>1, <2>3
  <2>. QED
    BY <2>2, <2>4, <2>5, <2>6
<1>3. 1 \in 1 .. ItemLen
  BY <1>1
<1>4. got[(i - 1) * ItemLen + 1] = [message |-> first + i, part |-> 1]
  BY <1>2, <1>3
<1>5. got[(i - 1) * ItemLen + 1].message = first + i
  BY <1>4
<1>. QED
  BY <1>2, <1>5 DEF ItemAt

LEMMA OutputKeepsOutput ==
  ASSUME Base, Contents, Output1, Output, Aligned(toRead), Oldest' = Oldest,
         UNCHANGED <<toAdd, erased>>
  PROVE  Output1'
<1> DEFINE n == toRead \div ItemLen
           l == Len(printed)
<1>1. /\ daemon = "print" /\ daemon' = "poll" /\ wasRead' = wasRead
  BY DEF Output, shared
<1>2. /\ Len(got) = toRead /\ toRead > 0 /\ toRead \in Nat /\ l \in Nat /\ ItemLen \in Nat \ {0}
      /\ First \in 0 .. Last /\ Got(First * ItemLen) /\ Last \in Nat /\ First \in Nat
  <2>1. First \in 0 .. Last /\ Got(First * ItemLen)
    BY <1>1 DEF Output1, Waiting
  <2>. QED
    BY <1>1, <2>1, Typed, Places DEF Progress
<1>3. n \in Nat /\ n > 0 /\ n * ItemLen = toRead
  <2>1. PICK q \in Nat : toRead = q * ItemLen
    BY <1>2, Quotient
  <2>2. (q * ItemLen) \div ItemLen = q /\ q # 0
    BY <1>2, <2>1
  <2>. QED
    BY <2>1, <2>2
<1>4. /\ Len(printed') = l + n
      /\ \A k \in 1 .. l + n : printed'[k] = IF k <= l THEN printed[k] ELSE ItemAt(k - l)
  BY Typed, PrintedMessages
<1>5. ASSUME NEW i \in 1 .. n PROVE ItemAt(i) = First + i
  BY <1>2, WholeMessage
<1>. HIDE DEF n, l
<1>6. \A k \in 1 .. l + n : printed'[k] = IF k <= l THEN printed[k] ELSE First + (k - l)
  <2>. SUFFICES ASSUME NEW k \in 1 .. l + n, ~(k <= l) PROVE ItemAt(k - l) = First + (k - l)
    BY <1>4
  <2>1. k - l \in 1 .. n
    BY <1>2, <1>3
  <2>. QED
    BY <1>5, <2>1
<1>7. Last' = First + n
  <2>1. l + n \in 1 .. l + n /\ ~(l + n <= l) /\ l + n # 0 /\ (l + n) - l = n
    BY <1>2, <1>3
  <2>2. printed'[l + n] = First + ((l + n) - l)
    BY <1>6, <2>1
  <2>. QED
    BY <1>4, <2>1, <2>2 DEF Last
<1>8. Last = IF l = 0 THEN 0 ELSE printed[l]
  BY DEF Last, l
<1>9. Seen' = Seen /\ Answered' = Answered
  <2>1. Seen' = (First + n) * ItemLen
    BY <1>1, <1>7 DEF Seen
  <2>2. (First + n) * ItemLen = First * ItemLen + n * ItemLen
    BY <1>2, <1>3
  <2>3. Seen = First * ItemLen + toRead
    BY <1>1 DEF Seen
  <2>. QED
    BY <1>1, <1>3, <2>1, <2>2, <2>3 DEF Answered
<1>10. InOrder'
  <2>. SUFFICES ASSUME NEW k \in 1 .. l + n
                PROVE  printed'[k] \in 1 .. (IF k = 1 THEN 1 ELSE printed'[k - 1] + 1)
    BY <1>4 DEF InOrder
  <2>0. k \in Nat /\ (k # 1 => k - 1 \in 1 .. l + n)
    BY <1>2, <1>3
  <2>1. CASE k <= l
    <3>1. k \in 1 .. l
      BY <1>2, <2>0, <2>1
    <3>2. printed[k] \in 1 .. (IF k = 1 THEN 1 ELSE printed[k - 1] + 1)
      BY <3>1 DEF Output1, InOrder, l
    <3>3. printed'[k] = printed[k] /\ (k # 1 => printed'[k - 1] = printed[k - 1])
      BY <1>2, <1>6, <2>0, <2>1
    <3>. QED
      BY <3>2, <3>3
  <2>2. CASE k = l + 1
    <3>1. printed'[k] = First + 1
      BY <1>2, <1>6, <2>2
    <3>2. k # 1 => printed'[k - 1] = Last
      BY <1>2, <1>6, <1>8, <2>0, <2>2
    <3>3. k = 1 => First = 0
      BY <1>2, <1>8, <2>2
    <3>. QED
      BY <1>2, <3>1, <3>2, <3>3
  <2>3. CASE k > l + 1
    <3>1. printed'[k] = First + (k - l) /\ printed'[k - 1] = First + ((k - 1) - l) /\ k # 1
      BY <1>2, <1>6, <2>0, <2>3
    <3>. QED
      BY <1>2, <2>0, <2>3, <3>1
  <2>. QED
    BY <1>2, <2>0, <2>1, <2>2, <2>3
<1> DEFINE step == IF First < Last THEN {l + 1} ELSE {}
<1>11. Back' \subseteq Back \cup step
  <2>. SUFFICES ASSUME NEW k \in 2 .. l + n, printed'[k] <= printed'[k - 1], k # l + 1 \/ ~(First < Last)
                PROVE  k \in Back
    BY <1>4 DEF Back
  <2>1. k \in Nat /\ k \in 1 .. l + n /\ k - 1 \in 1 .. l + n
    BY <1>2, <1>3
  <2>2. CASE k <= l
    <3>1. printed'[k] = printed[k] /\ printed'[k - 1] = printed[k - 1]
      BY <1>2, <1>6, <2>1, <2>2
    <3>. QED
      BY <1>2, <2>1, <2>2, <3>1 DEF Back, l
  <2>3. CASE k = l + 1
    <3>1. printed'[k] = First + 1 /\ printed'[k - 1] = printed[l] /\ l # 0
      BY <1>2, <1>6, <2>1, <2>3
    <3>. QED
      BY <1>2, <1>8, <2>3, <3>1
  <2>4. CASE k > l + 1
    <3>1. printed'[k] = First + (k - l) /\ printed'[k - 1] = First + ((k - 1) - l)
      BY <1>2, <1>6, <2>1, <2>4
    <3>. QED
      BY <1>2, <2>1, <2>4, <3>1
  <2>. QED
    BY <1>2, <2>1, <2>2, <2>3, <2>4
<1>12. /\ Cardinality(Back') \in Nat
       /\ Cardinality(Back') <= Cardinality(Back) + (IF First < Last THEN 1 ELSE 0)
  <2>1. IsFiniteSet(Back) /\ Cardinality(Back) \in Nat
    BY Places
  <2>2. /\ IsFiniteSet(Back \cup step)
        /\ Cardinality(Back \cup step) <= Cardinality(Back) + (IF First < Last THEN 1 ELSE 0)
    <3>1. CASE First < Last
      <4>1. /\ IsFiniteSet(Back \cup {l + 1})
            /\ Cardinality(Back \cup {l + 1}) = IF l + 1 \in Back THEN Cardinality(Back)
                                                ELSE Cardinality(Back) + 1
        BY <2>1, FS_AddElement
      <4>. QED
        BY <2>1, <3>1, <4>1
    <3>2. CASE ~(First < Last)
      <4>1. Back \cup step = Back
        BY <3>2
      <4>. QED
        BY <2>1, <3>2, <4>1
    <3>. QED
      BY <3>1, <3>2
  <2>. HIDE DEF step
  <2>3. /\ IsFiniteSet(Back') /\ Cardinality(Back') <= Cardinality(Back \cup step)
    BY <1>11, <2>2, FS_Subset
  <2>4. Cardinality(Back') \in Nat /\ Cardinality(Back \cup step) \in Nat
    BY <2>2, <2>3, FS_CardinalityType
  <2>. QED
    BY <2>1, <2>2, <2>3, <2>4
<1>13. Counts'
  <2>1. Debt' = IF Answered < Seen THEN 1 ELSE 0
    BY <1>1, <1>9 DEF Debt
  <2>2. Debt = (IF Answered < Seen THEN 1 ELSE 0) + (IF First < Last THEN 1 ELSE 0)
    BY <1>1 DEF Debt
  <2>3. Cardinality(Back') + Debt' <= erased
    BY <1>12, <2>1, <2>2, Places DEF Output1, Counts
  <2>. QED
    BY <1>9, <2>3 DEF Output1, Counts
<1>14. Copied' /\ Waiting'
  BY <1>1 DEF Copied, Reading, Waiting
<1>. QED
  BY <1>10, <1>13, <1>14 DEF Output1

\* The daemon is started again before it has answered.
LEMMA RestartKeepsOutput ==
  ASSUME Base, Contents, Output1, daemon # "print", daemon' = "poll", Oldest' = Oldest,
         UNCHANGED <<wasRead, toAdd, printed, erased>>
  PROVE  Output1'
<1>1. Last' = Last /\ Back' = Back
  BY DEF Last, Back
<1>2. Seen' = Seen /\ Answered' = Answered
  BY <1>1 DEF Seen, Answered
<1>3. Debt' = Debt
  BY <1>2 DEF Debt
<1>4. Counts'
  BY <1>1, <1>2, <1>3 DEF Output1, Counts
<1>. QED
  BY <1>4 DEF Output1, Copied, Reading, Waiting, InOrder
-----------------------------------------------------------------------------
(* The order of the printed messages *)

\* As long as no message has been removed, nor lost by a fault.
SInv == AInv /\ (~lossy => Contents /\ Output1)

LEMMA InitSInv == Init => SInv
<1>. SUFFICES ASSUME Init PROVE SInv
  OBVIOUS
<1>1. AInv /\ Base
  BY InitAInv DEF AInv
<1>2. /\ indexes = EmptyRing /\ wasRead = 0 /\ toAdd = 0 /\ daemon = "poll" /\ messages = 0
      /\ printed = << >> /\ erased = 0
      /\ lockedTask = NoTask /\ at[Main] = "idle" /\ ~spoilt
  BY SysLogAssumption DEF Init, Mutex!Init
<1>3. Stage = "idle" /\ Alive
  BY <1>2, SysLogAssumption DEF Stage, Alive, Running
<1>4. View = EmptyRing /\ Size(View) = 0 /\ Total = 0 /\ Oldest = 0
  <2>1. View = EmptyRing /\ Total = 0 * ItemLen
    BY <1>2, <1>3 DEF View, Writing, Total
  <2>2. Size(View) = 0
    BY <2>1, EmptyIsRing DEF Size
  <2>. QED
    BY <2>1, <2>2, Lengths DEF Oldest
<1>5. Contents
  BY <1>2, <1>3, <1>4, AlignedLengths DEF Contents, Applied, Kept, Stores, Writing
<1>6. Len(printed) = 0 /\ Last = 0 /\ Back = {} /\ Cardinality(Back) = 0
  <2>1. Len(printed) = 0
    BY <1>2
  <2>2. Last = 0 /\ Back = {}
    BY <2>1 DEF Last, Back
  <2>. QED
    BY <2>1, <2>2, FS_EmptySet
<1>7. Answered = 0 /\ Seen = 0 /\ Debt = 0
  BY <1>2, <1>4, <1>6, Lengths DEF Answered, Seen, Debt
<1>8. Output1
  BY <1>2, <1>6, <1>7 DEF Output1, Copied, Reading, Waiting, Counts, InOrder
<1>. QED
  BY <1>1, <1>5, <1>8 DEF SInv

\* What has been lost remains so.
LEMMA LossRemains == [Next]_vars /\ lossy => lossy'
  BY Zenon DEF Next, TaskStep, Lock, EndWait, ReadIndexes, ReadWas, WriteWord, WriteIndexes, WriteWas,
         Unlock, DaemonStep, BootStep, BootIndexes, BootWas, FaultStep, DeleteTask, ResetLm32,
         RestartDaemon, RestartDaemonAndReset, vars

\* Without a loss the log stays alive.
LEMMA AliveWithoutLoss ==
  ASSUME Base, Alive, [Next]_vars, ~lossy'
  PROVE  Alive' /\ ~BootStep /\ ~ResetLm32 /\ ~RestartDaemonAndReset
<1>. MutexTypes /\ Owners /\ ~spoilt /\ lockedTask # DeletedTask /\ Running
  BY Typed DEF Alive
<1>0. Main \in Task /\ DeletedTask \notin Task /\ DeletedTask # NoTask
  BY SysLogAssumption
<1>1. ~BootStep
  BY DEF BootStep, BootIndexes, BootWas, Goto, Running
<1>2. ~ResetLm32 /\ ~RestartDaemonAndReset
  BY DEF ResetLm32, RestartDaemonAndReset
<1>3. ASSUME lockedTask' \in Task \cup {lockedTask, NoTask}, spoilt' = spoilt,
             at'[Main] = at[Main] \/ at'[Main] \notin {"boot_indexes", "boot_was"}
      PROVE  Alive'
  BY <1>0, <1>3 DEF Alive, Running
<1>4. ASSUME NEW t \in Task, TaskStep(t) PROVE Alive'
  <2>1. CASE Lock(t)
    <3>1. lockedTask' \in {lockedTask, t} /\ spoilt' = spoilt /\ at' = [at EXCEPT ![t] = "read_indexes"]
      BY <2>1 DEF Lock, Goto, Mutex!Lock, Mutex!osMutexLock, Mutex!Take
    <3>. QED
      BY <1>0, <1>3, <3>1 DEF MutexTypes
  <2>2. CASE EndWait(t)
    <3>1. lockedTask' = t /\ spoilt' = spoilt /\ at' = at
      BY <2>2 DEF EndWait, Mutex!EndWait, Mutex!Take, taskVars
    <3>. QED
      BY <1>3, <3>1
  <2>3. CASE Unlock(t)
    <3>1. lockedTask' \in {lockedTask, NoTask} /\ spoilt' = spoilt /\ at' = [at EXCEPT ![t] = "idle"]
      BY <2>3 DEF Unlock, Goto, Mutex!osMutexUnlock
    <3>. QED
      BY <1>0, <1>3, <3>1 DEF MutexTypes
  <2>4. CASE ReadIndexes(t) \/ ReadWas(t) \/ WriteWord(t) \/ WriteIndexes(t) \/ WriteWas(t)
    <3>1. lockedTask' = lockedTask /\ spoilt' = spoilt
      BY <2>4 DEF ReadIndexes, ReadWas, WriteWord, WriteIndexes, WriteWas, mutexVars
    <3>2. \E to \in Inside : at' = [at EXCEPT ![t] = to]
      BY <2>4 DEF ReadIndexes, ReadWas, WriteWord, WriteIndexes, WriteWas, Goto, Inside
    <3>. QED
      BY <1>0, <1>3, <3>1, <3>2 DEF MutexTypes, Inside
  <2>. QED
    BY <1>4, <2>1, <2>2, <2>3, <2>4 DEF TaskStep
<1>5. ASSUME NEW t \in Task, DeleteTask(t) PROVE Alive'
  <2>1. lockedTask # t /\ lockedTask' = lockedTask /\ spoilt' = spoilt /\ t # Main
        /\ at' = [at EXCEPT ![t] = "idle"]
    BY <1>5 DEF DeleteTask, HistoryTypes, Base
  <2>. QED
    BY <1>0, <1>3, <2>1 DEF MutexTypes
<1>6. ASSUME DaemonStep \/ RestartDaemon \/ UNCHANGED vars PROVE Alive'
  <2>1. lockedTask' = lockedTask /\ at' = at /\ spoilt' = spoilt
    BY <1>6 DEF DaemonStep, RestartDaemon, vars, mutexVars, taskVars
  <2>. QED
    BY <1>3, <2>1
<1>. QED
  BY <1>1, <1>2, <1>4, <1>5, <1>6 DEF Next, FaultStep

LEMMA TaskKeepsOrder ==
  ASSUME Base, Contents, Answers, Output1, Aligned(wasRead), Alive', ~lossy',
         NEW t \in Task, TaskStep(t)
  PROVE  Contents' /\ Output1'
<1>0. Alive /\ UNCHANGED <<daemon, toRead, got, printed, copyOfDaemon>>
  BY DEF Contents, TaskStep, daemonVars
<1>1. ASSUME Oldest' = Oldest, UNCHANGED <<wasRead, toAdd, erased>>,
             Reading => indexes'.start = indexes.start
      PROVE  Output1'
  <2>1. Answered' = Answered
    BY <1>1 DEF Answered
  <2>. QED
    BY <1>0, <1>1, <2>1, OutputRemains
<1>2. CASE Lock(t) \/ EndWait(t) \/ Unlock(t)
  <2>1. UNCHANGED <<indexes, wasRead, ram, copy, toAdd, written, messages, erased>>
    BY <1>2 DEF Lock, EndWait, Unlock, shared, taskVars
  <2>2. Stage' = Stage \/ {Stage, Stage'} \subseteq {"idle", "read_indexes", "unlock"}
    BY <1>0, <1>2, TakeKeepsStage, OwnerEnds
  <2>3. Contents' /\ Oldest' = Oldest
    BY <2>1, <2>2, ContentsRemain
  <2>. QED
    BY <1>1, <2>1, <2>3
<1>3. CASE ReadIndexes(t)
  <2>1. /\ Goto(t, "read_indexes", "read_was") /\ lockedTask' = lockedTask
        /\ copy' = indexes /\ messages' = messages + 1
        /\ UNCHANGED <<indexes, wasRead, ram, toAdd, written, erased>>
    BY <1>3 DEF ReadIndexes, mutexVars, shared
  <2>2. Stage = "read_indexes" /\ Stage' = "read_was"
    BY <1>0, <2>1, OwnerGoesOn DEF Inside, TaskAt
  <2>3. Contents' /\ Oldest' = Oldest
    BY <2>1, <2>2, ReadIndexesKeepsContents
  <2>. QED
    BY <1>1, <2>1, <2>3
<1>4. CASE ReadWas(t)
  <2>1. /\ Goto(t, "read_was", "write") /\ lockedTask' = lockedTask
        /\ toAdd' = wasRead /\ UNCHANGED <<indexes, wasRead, erased>>
    BY <1>4 DEF ReadWas, mutexVars, shared
  <2>2. Stage = "read_was" /\ Stage' = "write"
    BY <1>0, <2>1, OwnerGoesOn DEF Inside, TaskAt
  <2>3. Contents' /\ Oldest' = Oldest + wasRead
    BY <1>4, <2>2, ReadWasKeepsContents
  <2>4. toAdd = 0 /\ Oldest \in Nat /\ wasRead \in Nat
    BY <2>2, Places DEF Contents, Applied
  <2>5. Answered' = Answered
    BY <2>1, <2>3, <2>4 DEF Answered
  <2>6. Reading => Oldest' = Oldest
    BY <2>3, <2>4, ReadFromOldest
  <2>. QED
    BY <1>0, <2>1, <2>3, <2>5, <2>6, OutputRemains
<1>5. CASE WriteWord(t)
  <2>1. In(t) /\ at[t] = "write" /\ UNCHANGED <<indexes, wasRead, toAdd, erased, lockedTask>>
    BY <1>5 DEF WriteWord, In, Inside, mutexVars
  <2>2. lockedTask = t /\ Stage = "write"
    BY <1>0, <2>1, TheOwner DEF Alive
  <2>3. Stage' \in {"write", "write_indexes"} /\ written < ItemLen
    BY <1>5, <2>1, <2>2, Typed DEF Stage, WriteWord, Progress, MutexTypes
  <2>4. Contents' /\ Oldest' = Oldest
    BY <1>5, <2>2, <2>3, WriteWordKeepsContents
  <2>. QED
    BY <1>1, <2>1, <2>4
<1>6. CASE WriteIndexes(t)
  <2>1. /\ Goto(t, "write_indexes", "write_was") /\ lockedTask' = lockedTask
        /\ indexes' = copy /\ UNCHANGED <<wasRead, ram, copy, toAdd, written, messages, erased>>
    BY <1>6 DEF WriteIndexes, mutexVars
  <2>2. Stage = "write_indexes" /\ Stage' = "write_was"
    BY <1>0, <2>1, OwnerGoesOn DEF Inside, TaskAt
  <2>3. Contents' /\ Oldest' = Oldest /\ View = copy
    BY <2>1, <2>2, WriteIndexesKeepsContents
  <2>4. Reading => indexes'.start = indexes.start
    BY <2>1, <2>3, ReadFromOldest
  <2>. QED
    BY <1>1, <2>1, <2>3, <2>4
<1>7. CASE WriteWas(t)
  <2>1. /\ Goto(t, "write_was", "unlock") /\ lockedTask' = lockedTask
        /\ wasRead' = 0 /\ toAdd' = 0 /\ UNCHANGED <<indexes, ram, copy, written, messages>>
        /\ erased' = IF wasRead # toAdd THEN erased + 1 ELSE erased
    BY <1>7 DEF WriteWas, mutexVars
  <2>2. Stage = "write_was" /\ Stage' = "unlock"
    BY <1>0, <2>1, OwnerGoesOn DEF Inside, TaskAt
  <2>3. Contents' /\ Oldest' = Oldest
    BY <2>1, <2>2, WriteWasKeepsContents
  <2>. QED
    BY <1>0, <2>1, <2>3, WriteWasKeepsOutput
<1>. QED
  BY <1>2, <1>3, <1>4, <1>5, <1>6, <1>7 DEF TaskStep

LEMMA DaemonKeepsOrder ==
  ASSUME Base, Contents, Answers, Output1, Aligned(toRead), Alive', DaemonStep
  PROVE  Contents' /\ Output1'
<1>1. UNCHANGED <<indexes, ram, copy, toAdd, written, messages, lockedTask, at, erased>>
  BY DEF DaemonStep, Poll, Read, Answer, Output, shared, taskVars, mutexVars
<1>2. Stage' = Stage
  BY <1>1, Elsewhere
<1>3. toAdd # 0 => wasRead' = wasRead
  <2>1. Answer => toAdd = 0
    BY ReadFromOldest DEF Answer, Reading
  <2>. QED
    BY <2>1 DEF DaemonStep, Poll, Read, Output, shared
<1>4. Contents' /\ Oldest' = Oldest
  BY <1>1, <1>2, <1>3, ContentsRemain
<1>5. Output1'
  BY <1>1, <1>4, PollKeepsOutput, ReadKeepsOutput, AnswerKeepsOutput, OutputKeepsOutput
     DEF DaemonStep
<1>. QED
  BY <1>4, <1>5

\* A task is deleted that has not the mutex, or the daemon is started again before it has
\* answered.
LEMMA FaultKeepsOrder ==
  ASSUME Base, Contents, Output1, Alive', ~lossy',
         (\E t \in Task : DeleteTask(t)) \/ RestartDaemon \/ UNCHANGED vars
  PROVE  Contents' /\ Output1'
<1>1. UNCHANGED <<indexes, wasRead, ram, copy, toAdd, written, messages, erased, printed>>
  BY DEF DeleteTask, RestartDaemon, vars, shared, taskVars, daemonVars
<1>2. Stage' = Stage
  <2>1. ASSUME NEW t \in Task, DeleteTask(t) PROVE Stage' = Stage
    <3>1. lockedTask # t /\ lockedTask' = lockedTask /\ at' = [at EXCEPT ![t] = "idle"]
      BY <2>1 DEF DeleteTask, Base, HistoryTypes
    <3>. QED
      BY <3>1, Elsewhere, Typed DEF MutexTypes
  <2>2. ASSUME RestartDaemon \/ UNCHANGED vars PROVE Stage' = Stage
    <3>1. lockedTask' = lockedTask /\ at' = at
      BY <2>2 DEF RestartDaemon, vars, mutexVars, taskVars
    <3>. QED
      BY <3>1, Elsewhere
  <2>. QED
    BY <2>1, <2>2
<1>3. Contents' /\ Oldest' = Oldest
  BY <1>1, <1>2, ContentsRemain
<1>4. CASE RestartDaemon
  <2>1. daemon # "print" /\ daemon' = "poll"
    BY <1>4 DEF RestartDaemon, Base, HistoryTypes
  <2>. QED
    BY <1>1, <1>3, <2>1, RestartKeepsOutput
<1>5. CASE (\E t \in Task : DeleteTask(t)) \/ UNCHANGED vars
  <2>1. UNCHANGED <<daemon, toRead, got, printed, copyOfDaemon>>
    BY <1>5 DEF DeleteTask, vars, daemonVars
  <2>2. Answered' = Answered
    BY <1>1, <1>3 DEF Answered
  <2>. QED
    BY <1>1, <1>3, <2>1, <2>2, OutputRemains
<1>. QED
  BY <1>4, <1>5

LEMMA NextSInv == SInv /\ [Next]_vars => SInv'
<1>. SUFFICES ASSUME SInv, [Next]_vars PROVE SInv'
  OBVIOUS
<1>1. AInv /\ AInv'
  BY NextAInv DEF SInv
<1>2. ASSUME ~lossy' PROVE Contents' /\ Output1'
  <2>1. Base /\ Aligned(toRead) /\ Aligned(wasRead) /\ Contents /\ Output1 /\ Alive /\ Answers
    BY <1>1, <1>2, LossRemains DEF SInv, AInv, Contents
  <2>2. Alive' /\ ~BootStep /\ ~ResetLm32 /\ ~RestartDaemonAndReset
    BY <1>2, <2>1, AliveWithoutLoss
  <2>3. \/ \E t \in Task : TaskStep(t)
        \/ DaemonStep
        \/ (\E t \in Task : DeleteTask(t)) \/ RestartDaemon \/ UNCHANGED vars
    BY <2>2 DEF Next, FaultStep
  <2>. QED
    BY <1>2, <2>1, <2>2, <2>3, TaskKeepsOrder, DaemonKeepsOrder, FaultKeepsOrder
<1>. QED
  BY <1>1, <1>2 DEF SInv

LEMMA SInvCorrect == Spec => []SInv
  BY InitSInv, NextSInv, PTL DEF Spec

\* NoGap: for any number of tasks, every ring and every length of a message, the daemon
\* prints the messages whole and leaves none out, whenever it reads between the words that
\* a task writes and whichever of its answers are erased, also when tasks that have not the
\* mutex are deleted and when the daemon is started again before it has answered; as long
\* as no message is removed for want of room.
THEOREM NoMessageIsLeftOut == Spec => []NoGap
<1>1. SInv => NoGap
  BY DEF SInv, Output1, InOrder, NoGap
<1>. QED
  BY <1>1, SInvCorrect, PTL

\* RepeatedForAnErasure: messages are printed again only when syslogWriteFifoAdmin() has
\* erased an answer of the daemon, and only once for each.
THEOREM OneRepetitionForAnErasure == Spec => []RepeatedForAnErasure
<1>1. SInv => RepeatedForAnErasure
  <2>. SUFFICES ASSUME SInv, ~lossy
                PROVE  Cardinality(Back) <= erased
    BY DEF RepeatedForAnErasure, Back
  <2>1. Base /\ Contents /\ Output1
    BY DEF SInv, AInv
  <2>2. Cardinality(Back) \in Nat /\ erased \in Nat
    BY <2>1, Places
  <2>3. Debt \in Nat /\ Cardinality(Back) + Debt <= erased
    BY <2>1 DEF Output1, Counts, Debt
  <2>. QED
    BY <2>2, <2>3
<1>. QED
  BY <1>1, SInvCorrect, PTL
=============================================================================
