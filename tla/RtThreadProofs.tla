---------------------------- MODULE RtThreadProofs ----------------------------
(***************************************************************************)
(* Theorems about RtThread, for any set of objects in a process and any    *)
(* choice of those that lock its memory.                                   *)
(***************************************************************************)
EXTENDS RtThread, TLAPS

\* running_, thread, call and object keep their types.
THEOREM ThreadTypeCorrect == Spec => []TypeOK
<1>1. Init => TypeOK
  BY DEF Init, TypeOK
<1>2. TypeOK /\ [Next]_vars => TypeOK'
  <2> SUFFICES ASSUME TypeOK, [Next]_vars PROVE TypeOK'
    OBVIOUS
  <2> USE DEF TypeOK, Step, lockVars
  <2>1. ASSUME NEW o \in Objects, StartBegin(o) PROVE TypeOK'
    BY <2>1 DEF StartBegin
  <2>2. ASSUME NEW o \in Objects, StopBegin(o) PROVE TypeOK'
    BY <2>2 DEF StopBegin, ClearRunning
  <2>3. ASSUME NEW o \in Objects, DestroyBegin(o) PROVE TypeOK'
    BY <2>3 DEF DestroyBegin, ClearRunning
  <2>4. ASSUME NEW o \in Objects, LockAll(o) \/ Create(o) \/ CreateFails(o) PROVE TypeOK'
    BY <2>4 DEF LockAll, Create, CreateFails
  <2>5. ASSUME NEW o \in Objects, Join(o) \/ UnlockAll(o) PROVE TypeOK'
    BY <2>5 DEF Join, UnlockAll, Unlocks
  <2>6. ASSUME NEW o \in Objects, LoopEnds(o) \/ TaskReturns(o) PROVE TypeOK'
    BY <2>6 DEF LoopEnds, TaskReturns
  <2>7. CASE UNCHANGED vars
    BY <2>7 DEF vars
  <2> QED
    BY <2>1, <2>2, <2>3, <2>4, <2>5, <2>6, <2>7 DEF Next, ThreadNext, CallSteps
<1> QED BY <1>1, <1>2, PTL DEF Spec

-----------------------------------------------------------------------------
\* A thread that has not been joined is known: running_ is set, or its owner
\* is waiting for it.  While a call is under way running_ is clear, and an
\* object that is gone has neither.
Known ==
  /\ \A o \in Objects : thread[o] # "none" => running[o] \/ owner[o] = "join"
  /\ \A o \in Objects : owner[o] # "idle" => ~running[o]
  /\ \A o \in Objects : object[o] = "dead" => owner[o] = "idle" /\ ~running[o]

\* It is inductive.
LEMMA AlwaysKnown == Spec => []Known
<1>1. Init => Known
  BY DEF Init, Known
<1>2. TypeOK /\ Known /\ [Next]_vars => Known'
  <2> SUFFICES ASSUME TypeOK, Known, [Next]_vars PROVE Known'
    OBVIOUS
  <2> USE DEF TypeOK, Step, Known, lockVars
  <2>1. ASSUME NEW o \in Objects, StartBegin(o) PROVE Known'
    BY <2>1 DEF StartBegin, Refuses
  <2>2. ASSUME NEW o \in Objects, StopBegin(o) PROVE Known'
    BY <2>2 DEF StopBegin, ClearRunning
  <2>3. ASSUME NEW o \in Objects, DestroyBegin(o) PROVE Known'
    BY <2>3 DEF DestroyBegin, ClearRunning
  <2>4. ASSUME NEW o \in Objects, LockAll(o) \/ Create(o) \/ CreateFails(o) PROVE Known'
    BY <2>4 DEF LockAll, Create, CreateFails
  <2>5. ASSUME NEW o \in Objects, Join(o) \/ UnlockAll(o) PROVE Known'
    BY <2>5 DEF Join, UnlockAll
  <2>6. ASSUME NEW o \in Objects, LoopEnds(o) \/ TaskReturns(o) PROVE Known'
    BY <2>6 DEF LoopEnds, TaskReturns
  <2>7. CASE UNCHANGED vars
    BY <2>7 DEF vars
  <2> QED
    BY <2>1, <2>2, <2>3, <2>4, <2>5, <2>6, <2>7 DEF Next, ThreadNext, CallSteps
<1> QED BY <1>1, <1>2, ThreadTypeCorrect, PTL DEF Spec

\* An object has one thread at most, which does not outlive it, for any number
\* of RtThreads and in every order of start(), stop(), the destructor, failed
\* starts and tasks that end by themselves.
THEOREM OneThread == Spec => []OneThreadPerObject
<1>1. Known => OneThreadPerObject
  BY DEF Known, OneThreadPerObject
<1> QED BY <1>1, AlwaysKnown, PTL

-----------------------------------------------------------------------------
\* Why the memory is locked: for an object that is between mlockall and the end
\* of its stop(), or one whose pthread_create failed.
HeldFor(o) == running[o] \/ owner[o] \in {"create", "join", "munlock"} \/ o \in unreturned
Accounted == locked => \E o \in LockMemory : HeldFor(o)

\* Seen from one object that locks memory: from mlockall to the end of its
\* stop() the lock stays, unless another object has taken it.
LockedFor(o) ==
  running[o] \/ owner[o] \in {"create", "join", "munlock"} => locked \/ unlocker \ {o} # {}

OnlyLockersLock == \A o \in Objects : owner[o] = "mlock" => o \in LockMemory

\* For any number of RtThreads in a process and any choice of those that lock
\* its memory: the memory under a task of theirs is unlocked by nobody but the
\* stop() of another one, and is given back at the latest by the stop() of the
\* one it was locked for, a failed pthread_create apart.
THEOREM LockCorrect ==
  ASSUME LockMemory \subseteq Objects
  PROVE  Spec => []LockFollowsTasks
<1> DEFINE IInv == Accounted /\ OnlyLockersLock /\ \A o \in LockMemory : LockedFor(o)
<1>1. Init => IInv
  BY DEF Init, Accounted, OnlyLockersLock, HeldFor, LockedFor
<1>2. TypeOK /\ Known /\ IInv /\ [Next]_vars => IInv'
  <2> SUFFICES ASSUME TypeOK, Known, IInv, [Next]_vars PROVE IInv'
    OBVIOUS
  <2> USE DEF TypeOK, Step, OnlyLockersLock, Accounted, HeldFor, LockedFor, lockVars
  <2>1. ASSUME NEW o \in Objects, StartBegin(o) PROVE IInv'
    BY <2>1 DEF StartBegin, Refuses, Known
  <2>2. ASSUME NEW o \in Objects, LockAll(o) PROVE IInv'
    BY <2>2 DEF LockAll
  <2>3. ASSUME NEW o \in Objects, Create(o) PROVE IInv'
    BY <2>3 DEF Create
  <2>4. ASSUME NEW o \in Objects, CreateFails(o) PROVE IInv'
    BY <2>4 DEF CreateFails, Known
  <2>5. ASSUME NEW o \in Objects, StopBegin(o) PROVE IInv'
    BY <2>5 DEF StopBegin, ClearRunning
  <2>6. ASSUME NEW o \in Objects, DestroyBegin(o) PROVE IInv'
    BY <2>6 DEF DestroyBegin, ClearRunning
  <2>7. ASSUME NEW o \in Objects, Join(o) PROVE IInv'
    BY <2>7 DEF Join
  <2>8. ASSUME NEW o \in Objects, UnlockAll(o) PROVE IInv'
    BY <2>8 DEF UnlockAll, Unlocks, Known
  <2>9. ASSUME NEW o \in Objects, LoopEnds(o) \/ TaskReturns(o) PROVE IInv'
    BY <2>9 DEF LoopEnds, TaskReturns
  <2>10. CASE UNCHANGED vars
    BY <2>10 DEF vars
  <2> QED
    BY <2>1, <2>2, <2>3, <2>4, <2>5, <2>6, <2>7, <2>8, <2>9, <2>10
    DEF Next, ThreadNext, CallSteps
<1>3. Known /\ IInv => LockFollowsTasks
  BY DEF Known, Accounted, HeldFor, LockedFor, LockFollowsTasks, LockedOrTaken, LockIsReturned
<1> QED BY <1>1, <1>2, <1>3, ThreadTypeCorrect, AlwaysKnown, PTL DEF Spec
=============================================================================
