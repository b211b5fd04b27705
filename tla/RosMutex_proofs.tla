---------------------------- MODULE RosMutex_proofs ----------------------------
(***************************************************************************)
(* The mutex excludes for any number of tasks and any depth of nesting.    *)
(***************************************************************************)
EXTENDS RosMutex, TLAPS

\* CountsItsOwner is inductive together with the type invariant: an unlock that
\* is not the owner's changes nothing because a mutex with an owner has a count.
IInv == TypeOK /\ CountsItsOwner

LEMMA InitIInv == Init => IInv
  BY RosMutexAssumption DEF Init, IInv, TypeOK, CountsItsOwner

\* A task takes a mutex that is free or its own.
LEMMA TakeKeepsIInv ==
  ASSUME IInv, NEW t \in Task, held[t] < MaxNesting,
         lockedTask = t \/ lockedTask = NoTask, Take(t)
  PROVE  IInv'
<1>1. nestingCount = held[t] /\ nestingCount' = held[t] + 1 /\ lockedTask' = t
  BY RosMutexAssumption DEF IInv, TypeOK, CountsItsOwner, Take
<1>2. TypeOK'
  BY <1>1, RosMutexAssumption DEF IInv, TypeOK, Take
<1>3. lockedTask' = NoTask <=> nestingCount' = 0
  BY <1>1, RosMutexAssumption DEF IInv, TypeOK
<1>4. ASSUME NEW u \in Task
      PROVE  held'[u] = IF lockedTask' = u THEN nestingCount' ELSE 0
  BY <1>1, RosMutexAssumption DEF IInv, TypeOK, CountsItsOwner, Take
<1>. QED
  BY <1>2, <1>3, <1>4 DEF IInv, CountsItsOwner

\* The two calls of osMutexLock(), from "run" and from "try".
LEMMA LockKeepsIInv ==
  ASSUME IInv, NEW t \in Task, NEW from, NEW wait \in {"wait", "try_wait"},
         osMutexLock(t, from, wait)
  PROVE  IInv'
<1>1. CASE (lockedTask = t \/ ~osMutexIsLocked) /\ Take(t)
  BY <1>1, TakeKeepsIInv DEF osMutexLock, osMutexIsLocked
<1>2. CASE /\ pc' = [pc EXCEPT ![t] = wait]
           /\ UNCHANGED <<lockedTask, nestingCount, held>>
  BY <1>2 DEF IInv, TypeOK, CountsItsOwner
<1>. QED
  BY <1>1, <1>2 DEF osMutexLock

\* A waiting task holds nothing: it has found another owner.
LEMMA UnlockKeepsIInv ==
  ASSUME IInv, NEW t \in Task, osMutexUnlock(t)
  PROVE  IInv'
<1>1. CASE lockedTask = t
  <2>1. /\ nestingCount' = nestingCount - 1 /\ held[t] = nestingCount
        /\ nestingCount \in 1 .. MaxNesting
        /\ lockedTask' = IF nestingCount' = 0 THEN NoTask ELSE t
    BY <1>1, RosMutexAssumption DEF IInv, TypeOK, CountsItsOwner, osMutexUnlock
  <2>2. held' = [held EXCEPT ![t] = nestingCount - 1] /\ pc' = pc
    BY <2>1 DEF osMutexUnlock
  <2>3. TypeOK'
    BY <2>1, <2>2, RosMutexAssumption DEF IInv, TypeOK
  <2>4. CountsItsOwner'
    BY <1>1, <2>1, <2>2, RosMutexAssumption DEF IInv, TypeOK, CountsItsOwner
  <2>. QED
    BY <2>3, <2>4 DEF IInv
<1>2. CASE lockedTask # t
  <2>1. held[t] = 0 /\ nestingCount' = nestingCount /\ lockedTask' = lockedTask
    BY <1>2 DEF IInv, TypeOK, CountsItsOwner, osMutexUnlock
  <2>2. held' = held /\ pc' = pc
    BY <2>1 DEF IInv, TypeOK, osMutexUnlock
  <2>. QED
    BY <2>1, <2>2 DEF IInv, TypeOK, CountsItsOwner
<1>. QED
  BY <1>1, <1>2

LEMMA NextIInv == IInv /\ [Next]_vars => IInv'
<1>1. SUFFICES ASSUME IInv, [Next]_vars PROVE IInv'
  OBVIOUS
<1>2. ASSUME NEW t \in Task, Lock(t) PROVE IInv'
  BY <1>1, <1>2, LockKeepsIInv DEF Lock
<1>3. ASSUME NEW t \in Task, TryLock(t) PROVE IInv'
  BY <1>1, <1>3, LockKeepsIInv DEF TryLock
<1>4. ASSUME NEW t \in Task, EndWait(t) PROVE IInv'
  <2>1. lockedTask = NoTask /\ held[t] = 0
    BY <1>1, <1>4, RosMutexAssumption DEF EndWait, osMutexIsLocked, IInv, CountsItsOwner
  <2>. QED
    BY <1>1, <1>4, <2>1, TakeKeepsIInv, RosMutexAssumption DEF EndWait
<1>5. ASSUME NEW t \in Task, TryLook(t) PROVE IInv'
  BY <1>1, <1>5 DEF TryLook, IInv, TypeOK, CountsItsOwner
<1>6. ASSUME NEW t \in Task, osMutexUnlock(t) PROVE IInv'
  BY <1>1, <1>6, UnlockKeepsIInv
<1>7. CASE UNCHANGED vars
  BY <1>1, <1>7 DEF vars, IInv, TypeOK, CountsItsOwner
<1>. QED
  BY <1>1, <1>2, <1>3, <1>4, <1>5, <1>6, <1>7 DEF Next

LEMMA Inductive == Spec => []IInv
  BY InitIInv, NextIInv, PTL DEF Spec

\* The variables of the mutex and of its tasks keep their types.
THEOREM TypeCorrect == Spec => []TypeOK
<1>1. IInv => TypeOK
  BY DEF IInv
<1>. QED
  BY <1>1, Inductive, PTL

\* nestingCount is the number of locks of the owner, who alone has any.
THEOREM OwnerIsCounted == Spec => []CountsItsOwner
<1>1. IInv => CountsItsOwner
  BY DEF IInv
<1>. QED
  BY <1>1, Inductive, PTL

\* osMutexLock() and osMutexTryLock() exclude, for any number of tasks.
THEOREM Excludes == Spec => []MutualExclusion
<1>1. IInv => MutualExclusion
  BY DEF IInv, TypeOK, CountsItsOwner, MutualExclusion
<1>. QED
  BY <1>1, Inductive, PTL
=============================================================================
