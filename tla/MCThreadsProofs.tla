---------------------------- MODULE MCThreadsProofs ----------------------------
(***************************************************************************)
(* Theorems about the memory pool, RtssThread, RtPeriodicTask and          *)
(* PlcDiscovery, and what they say, with those of RtThreadProofs, about    *)
(* MCThreads: for any number of threads, objects, starts and addresses,    *)
(* any PoolSize and any period.                                            *)
(***************************************************************************)
EXTENDS MCThreads, TLAPS

ThreadP == INSTANCE RtThreadProofs WITH Objects <- {"task"} \union Others

-----------------------------------------------------------------------------
(* RtssMemoryPool *)

\* The flags and the counter keep their types.
THEOREM PoolTypeCorrect == Spec => []TypeOK
<1>0. 0 \in Entries /\ \A x \in Entries : (x + 1) % PoolSize \in Entries
  BY PoolAssumption DEF PoolAssumption, Entries
<1>1. Init => TypeOK
  BY <1>0, PoolAssumption DEF PoolAssumption, Init, TypeOK, Idle
<1>2. TypeOK /\ [Next]_vars => TypeOK'
  <2> SUFFICES ASSUME TypeOK, [Next]_vars PROVE TypeOK'
    OBVIOUS
  <2> USE <1>0, PoolAssumption DEF PoolAssumption, TypeOK, Idle
  <2>1. ASSUME NEW t \in Threads, AllocateBegin(t) PROVE TypeOK'
    <3>1. {e \in Entries : ~in_use[e]} \in SUBSET Entries
      OBVIOUS
    <3>2. free' \in [Threads -> SUBSET Entries]
      BY <2>1, <3>1 DEF AllocateBegin
    <3>3. call' \in [Threads -> [pc : {"idle", "draw", "try"}, i : 0 .. PoolSize,
      idx : Entries]]
      <4>1. [Idle EXCEPT !.pc = "draw"] \in
              [pc : {"idle", "draw", "try"}, i : 0 .. PoolSize, idx : Entries]
        OBVIOUS
      <4> HIDE DEF Idle
      <4> QED BY <2>1, <4>1 DEF AllocateBegin
    <3> QED BY <2>1, <3>2, <3>3 DEF AllocateBegin
  <2>2. ASSUME NEW t \in Threads, Draw(t) PROVE TypeOK'
    <3>1. next_index' \in Entries
      BY <2>2 DEF Draw
    <3>2. call' \in [Threads -> [pc : {"idle", "draw", "try"}, i : 0 .. PoolSize,
      idx : Entries]]
      <4>1. [call[t] EXCEPT !.pc = "try", !.idx = next_index] \in
              [pc : {"idle", "draw", "try"}, i : 0 .. PoolSize, idx : Entries]
        OBVIOUS
      <4>2. call' = [call EXCEPT ![t] = [call[t] EXCEPT !.pc = "try", !.idx = next_index]]
        BY <2>2 DEF Draw
      <4> QED BY <4>1, <4>2
    <3> QED BY <2>2, <3>1, <3>2 DEF Draw
  <2>3. ASSUME NEW t \in Threads, Take(t) PROVE TypeOK'
    <3>1. call[t].idx \in Entries
      OBVIOUS
    <3>2. in_use' \in [Entries -> BOOLEAN] /\ held' \in [Threads -> SUBSET Entries]
      BY <2>3, <3>1 DEF Take
    <3>3. free' \in [Threads -> SUBSET Entries]
      BY <2>3 DEF Take
    <3> QED BY <2>3, <3>2, <3>3 DEF Take
  <2>4. ASSUME NEW t \in Threads, Miss(t) PROVE TypeOK'
    BY <2>4 DEF Miss
  <2>5. ASSUME NEW t \in Threads, Fail(t) PROVE TypeOK'
    BY <2>5 DEF Fail
  <2>6. ASSUME NEW t \in Threads, NEW e \in Entries, Deallocate(t, e) PROVE TypeOK'
    BY <2>6 DEF Deallocate
  <2>7. CASE UNCHANGED vars
    BY <2>7 DEF vars
  <2> QED BY <2>1, <2>2, <2>3, <2>4, <2>5, <2>6, <2>7 DEF Next
<1> QED BY <1>1, <1>2, PTL DEF Spec

\* Exclusive needs to know that the flag of a held entry is set, and FlagsExact
\* that a returned entry is nobody else's: together they are inductive.
THEOREM PoolSafe == Spec => [](Exclusive /\ FlagsExact)
<1> DEFINE IInv == TypeOK /\ Exclusive /\ FlagsExact
<1>1. Init => Exclusive /\ FlagsExact
  BY DEF Init, Exclusive, FlagsExact
<1>2. IInv /\ [Next]_vars => (Exclusive /\ FlagsExact)'
  <2> SUFFICES ASSUME IInv, [Next]_vars PROVE (Exclusive /\ FlagsExact)'
    OBVIOUS
  <2>1. CASE UNCHANGED <<in_use, held>>
    BY <2>1 DEF Exclusive, FlagsExact
  <2>2. ASSUME NEW t \in Threads, Take(t) PROVE (Exclusive /\ FlagsExact)'
    <3> DEFINE e == call[t].idx
    <3>1. e \in Entries /\ \A u \in Threads : e \notin held[u]
      BY <2>2 DEF Take, Takes, TypeOK, FlagsExact
    <3>2. \A u \in Threads : held'[u] = IF u = t THEN held[u] \union {e} ELSE held[u]
      BY <2>2 DEF Take, TypeOK
    <3>3. \A x \in Entries : in_use'[x] = IF x = e THEN TRUE ELSE in_use[x]
      BY <2>2, <3>1 DEF Take, TypeOK
    <3>4. Exclusive'
      <4> SUFFICES ASSUME NEW a \in Threads, NEW b \in Threads, a # b
                   PROVE  held'[a] \cap held'[b] = {}
        BY DEF Exclusive
      <4>1. held[a] \cap held[b] = {}
        BY DEF Exclusive
      <4> QED BY <3>1, <3>2, <4>1
    <3>5. FlagsExact'
      BY <3>1, <3>2, <3>3 DEF FlagsExact
    <3> QED BY <3>4, <3>5
  <2>3. ASSUME NEW t \in Threads, NEW e \in Entries, Deallocate(t, e)
        PROVE  (Exclusive /\ FlagsExact)'
    <3>1. \A u \in Threads : e \in held[u] => u = t
      BY <2>3 DEF Deallocate, Exclusive
    <3>2. \A u \in Threads : held'[u] = IF u = t THEN held[u] \ {e} ELSE held[u]
      BY <2>3 DEF Deallocate, TypeOK
    <3>3. \A x \in Entries : in_use'[x] = IF x = e THEN FALSE ELSE in_use[x]
      BY <2>3 DEF Deallocate, TypeOK
    <3>4. Exclusive'
      BY <3>2 DEF Exclusive
    <3>5. FlagsExact'
      <4> SUFFICES ASSUME NEW x \in Entries
                   PROVE  in_use'[x] <=> \E u \in Threads : x \in held'[u]
        BY DEF FlagsExact
      <4>1. CASE x = e
        BY <3>1, <3>2, <3>3, <4>1
      <4>2. CASE x # e
        BY <3>2, <3>3, <4>2 DEF FlagsExact
      <4> QED BY <4>1, <4>2
    <3> QED BY <3>4, <3>5
  <2> QED
    BY <2>1, <2>2, <2>3 DEF Next, AllocateBegin, Draw, Miss, Fail, vars
<1> QED BY <1>1, <1>2, PoolTypeCorrect, PTL DEF Spec

-----------------------------------------------------------------------------
(* RtssThread *)

\* What the object knows of its latest thread: at rest running_ is set exactly
\* while a handle is kept; start() has a suspended thread, stop() some thread,
\* before running_ is set and after it is cleared.
OwnThread ==
  /\ rtss_owner = "idle" => (rtss_running <=> handle # 0)
  /\ rtss_owner = "created" => handle \in Ids /\ ~rtss_running /\ rtss_object = "alive"
  /\ rtss_owner = "wait" => handle \in Ids /\ ~rtss_running /\ rtss_object # "dead"
  /\ rtss_object = "dead" => rtss_owner = "idle" /\ ~rtss_running

\* running_, the handle and the threads keep their types, given that the null
\* handle is no thread's.
THEOREM RtssTypeCorrect ==
  ASSUME 0 \notin Ids
  PROVE  Rtss!Spec => [](Rtss!TypeOK /\ OwnThread)
<1>1. Rtss!Init => Rtss!TypeOK /\ OwnThread
  BY DEF Rtss!Init, Rtss!TypeOK, OwnThread
<1>2. Rtss!TypeOK /\ OwnThread /\ [Rtss!Next]_Rtss!vars => (Rtss!TypeOK /\ OwnThread)'
  <2> SUFFICES ASSUME Rtss!TypeOK, OwnThread, [Rtss!Next]_Rtss!vars
               PROVE  (Rtss!TypeOK /\ OwnThread)'
    OBVIOUS
  <2> USE DEF Rtss!TypeOK, OwnThread, Rtss!Step
  <2>1. CASE Rtss!Start
    BY <2>1 DEF Rtss!Start, Rtss!Refuses, Rtss!Executing
  <2>2. CASE Rtss!Resume
    BY <2>2 DEF Rtss!Resume, Rtss!Tasks
  <2>3. CASE Rtss!StopBegin
    BY <2>3 DEF Rtss!StopBegin
  <2>4. CASE Rtss!DestroyBegin
    BY <2>4 DEF Rtss!DestroyBegin
  <2>5. CASE Rtss!Close
    BY <2>5 DEF Rtss!Close
  <2>6. ASSUME NEW i \in Ids, Rtss!LoopEnds(i) \/ Rtss!TaskReturns(i)
        PROVE  (Rtss!TypeOK /\ OwnThread)'
    BY <2>6 DEF Rtss!LoopEnds, Rtss!TaskReturns
  <2>7. CASE UNCHANGED Rtss!vars
    BY <2>7 DEF Rtss!vars
  <2> QED BY <2>1, <2>2, <2>3, <2>4, <2>5, <2>6, <2>7 DEF Rtss!Next
<1> QED BY <1>1, <1>2, PTL DEF Rtss!Spec

\* Whatever runs inside the object, or after it is gone, beside the thread that
\* thread_handle_ names is a thread that stop() waited a second for and gave up
\* on, for any number of starts, stops and tasks that never end.
THEOREM RtssOnlyAbandoned ==
  ASSUME 0 \notin Ids
  PROVE  Rtss!Spec => []Rtss!OthersAreAbandoned
<1>1. Rtss!Init => Rtss!OthersAreAbandoned
  BY DEF Rtss!Init, Rtss!OthersAreAbandoned, Rtss!Executing, Rtss!Tasks
<1>2. Rtss!TypeOK /\ OwnThread /\ Rtss!OthersAreAbandoned /\ [Rtss!Next]_Rtss!vars => Rtss!OthersAreAbandoned'
  <2> SUFFICES ASSUME Rtss!TypeOK, OwnThread, Rtss!OthersAreAbandoned, [Rtss!Next]_Rtss!vars
               PROVE  Rtss!OthersAreAbandoned'
    OBVIOUS
  <2> USE DEF Rtss!TypeOK, OwnThread, Rtss!OthersAreAbandoned, Rtss!Executing, Rtss!Tasks,
    Rtss!Step
  <2>1. CASE Rtss!Start
    <3>1. Rtss!Executing' = Rtss!Executing
      BY <2>1 DEF Rtss!Start
    <3>2. Rtss!Executing \subseteq abandoned
      BY <2>1 DEF Rtss!Start, Rtss!Refuses
    <3>3. replaced' \subseteq abandoned'
      BY <2>1, <3>2 DEF Rtss!Start
    <3> QED BY <2>1, <3>1, <3>2, <3>3 DEF Rtss!Start
  <2>2. CASE Rtss!Resume
    <3>1. Rtss!Executing' \subseteq Rtss!Executing \union {handle}
      BY <2>2 DEF Rtss!Resume
    <3> QED BY <2>2, <3>1 DEF Rtss!Resume
  <2>3. CASE Rtss!StopBegin
    BY <2>3 DEF Rtss!StopBegin
  <2>4. CASE Rtss!DestroyBegin
    BY <2>4 DEF Rtss!DestroyBegin
  <2>5. CASE Rtss!Close
    <3>1. Rtss!Executing \subseteq abandoned'
      BY <2>5 DEF Rtss!Close
    <3> QED BY <2>5, <3>1 DEF Rtss!Close
  <2>6. ASSUME NEW i \in Ids, Rtss!LoopEnds(i) \/ Rtss!TaskReturns(i)
        PROVE  Rtss!OthersAreAbandoned'
    <3>1. Rtss!Executing' \subseteq Rtss!Executing
      BY <2>6 DEF Rtss!LoopEnds, Rtss!TaskReturns
    <3> QED BY <2>6, <3>1 DEF Rtss!LoopEnds, Rtss!TaskReturns
  <2>7. CASE UNCHANGED Rtss!vars
    BY <2>7 DEF Rtss!vars
  <2> QED BY <2>1, <2>2, <2>3, <2>4, <2>5, <2>6, <2>7 DEF Rtss!Next
<1> QED BY <1>1, <1>2, RtssTypeCorrect, PTL DEF Rtss!Spec

-----------------------------------------------------------------------------
(* RtPeriodicTask *)

LEMMA PeriodicThreadInit == Periodic!Init => ThreadP!Init
BY DEF Periodic!Init, Periodic!Thread!Init, ThreadP!Init

\* RtPeriodicTask moves its RtThread only as RtThread itself does.
LEMMA SameThread ==
  \A o : /\ Periodic!Thread!ThreadNext(o) <=> ThreadP!ThreadNext(o)
         /\ Periodic!Thread!StartBegin(o) <=> ThreadP!StartBegin(o)
         /\ Periodic!Thread!StopBegin(o) <=> ThreadP!StopBegin(o)
         /\ Periodic!Thread!DestroyBegin(o) <=> ThreadP!DestroyBegin(o)
         /\ Periodic!Thread!LockAll(o) <=> ThreadP!LockAll(o)
         /\ Periodic!Thread!Create(o) <=> ThreadP!Create(o)
         /\ Periodic!Thread!CreateFails(o) <=> ThreadP!CreateFails(o)
         /\ Periodic!Thread!Join(o) <=> ThreadP!Join(o)
         /\ Periodic!Thread!UnlockAll(o) <=> ThreadP!UnlockAll(o)
         /\ Periodic!Thread!LoopEnds(o) <=> ThreadP!LoopEnds(o)
BY DEF ThreadP!ThreadNext, ThreadP!CallSteps, ThreadP!TaskReturns,
  ThreadP!StartBegin, ThreadP!StopBegin, ThreadP!DestroyBegin, ThreadP!LockAll,
  ThreadP!Create, ThreadP!CreateFails, ThreadP!Join, ThreadP!UnlockAll,
  ThreadP!LoopEnds, ThreadP!Step, ThreadP!Refuses, ThreadP!ClearRunning, ThreadP!Unlocks,
  Periodic!Thread!ThreadNext, Periodic!Thread!CallSteps, Periodic!Thread!TaskReturns,
  Periodic!Thread!StartBegin, Periodic!Thread!StopBegin, Periodic!Thread!DestroyBegin,
  Periodic!Thread!LockAll, Periodic!Thread!Create, Periodic!Thread!CreateFails,
  Periodic!Thread!Join, Periodic!Thread!UnlockAll, Periodic!Thread!LoopEnds,
  Periodic!Thread!Step, Periodic!Thread!Refuses, Periodic!Thread!ClearRunning,
  Periodic!Thread!Unlocks, ThreadP!lockVars, Periodic!Thread!lockVars

\* The periodic task and the RtThreads beside it implement RtThread.
THEOREM PeriodicImplementsThread == Periodic!Spec => ThreadP!Spec
<1>1. Periodic!Init => ThreadP!Init
  BY PeriodicThreadInit
<1>2. [Periodic!Next]_Periodic!vars => [ThreadP!Next]_ThreadP!vars
  <2> SUFFICES ASSUME [Periodic!Next]_Periodic!vars, ThreadP!vars' # ThreadP!vars
               PROVE  ThreadP!Next
    OBVIOUS
  <2> USE DEF Periodic!threadVars, ThreadP!vars, ThreadP!lockVars
  <2>1. \E o \in {"task"} \union Others : ThreadP!ThreadNext(o)
    <3>1. CASE Periodic!Start \/ Periodic!Stop \/ Periodic!Destroy
      BY <3>1, SameThread DEF Periodic!Start, Periodic!Stop, Periodic!Destroy,
        ThreadP!ThreadNext
    <3>2. CASE Periodic!Created \/ Periodic!InCall
      BY <3>2, SameThread
      DEF Periodic!Created, Periodic!InCall, ThreadP!ThreadNext, ThreadP!CallSteps
    <3>3. CASE Periodic!OtherThread
      BY <3>3, SameThread DEF Periodic!OtherThread
    <3>4. CASE Periodic!CheckStopped
      BY <3>4, SameThread DEF Periodic!CheckStopped, ThreadP!ThreadNext
    <3> QED
      BY <3>1, <3>2, <3>3, <3>4
      DEF Periodic!Next, Periodic!Loop, Periodic!Begin, Periodic!CheckRunning,
        Periodic!TaskReturns, Periodic!EndIteration, Periodic!WaitOver, Periodic!Tick,
        Periodic!vars
  <2> QED BY <2>1 DEF ThreadP!Next
<1> QED BY <1>1, <1>2, PTL DEF Periodic!Spec, ThreadP!Spec

\* At the end of an iteration the next wake-up is at most a period ahead.
DueInPeriod == lp \in {"check", "task", "end"} => due <= Period

\* The loop's step, the wake-up, the task and the tracker keep their types, for
\* any period and any lag: the tracker's unsigned latency among them.
THEOREM PeriodicTypeCorrect ==
  ASSUME Period \in Nat, MaxLate \in Nat, Wrap \in Nat \ {0}
  PROVE  Periodic!Spec => []Periodic!TypeOK
<1> DEFINE LoopTypeOK ==
             /\ lp \in {"none", "begin", "check", "task", "end", "wait"}
             /\ due \in 0 - MaxLate .. 2 * Period
             /\ task \in 0 .. 2 /\ executing \in 0 .. 2
             /\ tracker \in [min : 0 .. Wrap - 1, max : 0 .. Wrap - 1]
             /\ worst \in 0 .. MaxLate
             /\ DueInPeriod
<1>1. Periodic!Init => LoopTypeOK
  BY DEF Periodic!Init, Periodic!NoLatency, DueInPeriod
<1>2. LoopTypeOK /\ [Periodic!Next]_Periodic!vars => LoopTypeOK'
  <2> SUFFICES ASSUME LoopTypeOK, [Periodic!Next]_Periodic!vars PROVE LoopTypeOK'
    OBVIOUS
  <2> USE DEF DueInPeriod, Periodic!loopVars, Periodic!threadVars
  <2>1. CASE Periodic!Start \/ Periodic!Stop \/ Periodic!Destroy \/ Periodic!InCall
    BY <2>1 DEF Periodic!Start, Periodic!Stop, Periodic!Destroy, Periodic!InCall
  <2>2. CASE Periodic!Created \/ Periodic!CheckStopped \/ Periodic!OtherThread
    BY <2>2 DEF Periodic!Created, Periodic!CheckStopped, Periodic!OtherThread
  <2>3. CASE Periodic!Begin \/ Periodic!CheckRunning \/ Periodic!TaskReturns
    BY <2>3 DEF Periodic!Begin, Periodic!CheckRunning, Periodic!TaskReturns
  <2>4. CASE Periodic!WaitOver \/ Periodic!Tick
    BY <2>4 DEF Periodic!WaitOver, Periodic!Tick
  <2>5. CASE Periodic!EndIteration
    <3>1. Periodic!Latency \in 0 .. Wrap - 1
      BY DEF Periodic!Latency
    <3>2. tracker' \in [min : 0 .. Wrap - 1, max : 0 .. Wrap - 1]
      BY <2>5, <3>1
      DEF Periodic!EndIteration, Periodic!Recorded, Periodic!Smaller, Periodic!Greater
    <3>3. worst' \in 0 .. MaxLate
      BY <2>5 DEF Periodic!EndIteration, Periodic!Greater
    <3> QED BY <2>5, <3>2, <3>3 DEF Periodic!EndIteration
  <2>6. CASE UNCHANGED Periodic!vars
    BY <2>6 DEF Periodic!vars
  <2> QED
    BY <2>1, <2>2, <2>3, <2>4, <2>5, <2>6 DEF Periodic!Next, Periodic!Loop
<1>3. ThreadP!TypeOK => Periodic!Thread!TypeOK
  BY DEF ThreadP!TypeOK, Periodic!Thread!TypeOK
<1>4. LoopTypeOK /\ Periodic!Thread!TypeOK => Periodic!TypeOK
  BY DEF Periodic!TypeOK
<1>5. ThreadP!Spec => []ThreadP!TypeOK
  BY ThreadP!ThreadTypeCorrect
<1> QED
  BY <1>1, <1>2, <1>3, <1>4, <1>5, PeriodicImplementsThread, PTL DEF Periodic!Spec

\* The periodic loop lies within the thread of the task's RtThread; while there
\* is one, and from the moment a start() stored it on, task_ holds a function,
\* and it is the one that the loop is inside.
LoopIsThread == lp # "none" <=> thread["task"] = "task"
TaskIsStored == lp # "none" \/ owner["task"] \in {"mlock", "create"} => task # 0
TaskIsCalled == lp = "task" => executing = task

\* The function that the loop calls is neither replaced by a start() nor
\* destroyed with the object while it runs, for an owner who starts only what is
\* stopped and stops before it destroys.
THEOREM TaskLives ==
  ASSUME Careful = TRUE, "task" \notin Others
  PROVE  Periodic!Spec => []Periodic!CalledTaskLives
<1> DEFINE IInv == LoopIsThread /\ TaskIsStored /\ TaskIsCalled
           Threads_ok == ThreadP!TypeOK /\ ThreadP!Known
<1>1. Periodic!Init => IInv
  BY DEF Periodic!Init, Periodic!Thread!Init, LoopIsThread, TaskIsStored, TaskIsCalled
<1>2. Threads_ok /\ IInv /\ [Periodic!Next]_Periodic!vars => IInv'
  <2> SUFFICES ASSUME Threads_ok, IInv, [Periodic!Next]_Periodic!vars PROVE IInv'
    OBVIOUS
  <2> USE DEF LoopIsThread, TaskIsStored, TaskIsCalled, ThreadP!TypeOK,
              Periodic!loopVars, Periodic!threadVars, Periodic!Thread!Step
  <2>1. owner["task"] = "idle" /\ ~running["task"] => lp = "none"
    BY DEF ThreadP!Known
  <2>2. CASE Periodic!Start
    BY <2>1, <2>2 DEF Periodic!Start, Periodic!Thread!StartBegin
  <2>3. CASE Periodic!Created
    BY <2>3 DEF Periodic!Created, Periodic!Thread!Create
  <2>4. CASE Periodic!Stop
    BY <2>4 DEF Periodic!Stop, Periodic!Thread!StopBegin
  <2>5. CASE Periodic!Destroy
    BY <2>1, <2>5 DEF Periodic!Destroy, Periodic!Thread!DestroyBegin
  <2>6. CASE Periodic!InCall
    BY <2>6
    DEF Periodic!InCall, Periodic!Thread!LockAll, Periodic!Thread!CreateFails,
      Periodic!Thread!Join, Periodic!Thread!UnlockAll
  <2>7. CASE Periodic!OtherThread
    <3>1. thread'["task"] = thread["task"] /\ owner'["task"] = owner["task"]
      <4>1. PICK o \in Others : Periodic!Thread!ThreadNext(o)
        BY <2>7 DEF Periodic!OtherThread
      <4> QED
        BY <4>1
        DEF Periodic!Thread!ThreadNext, Periodic!Thread!CallSteps,
          Periodic!Thread!TaskReturns,
          Periodic!Thread!StartBegin, Periodic!Thread!StopBegin,
            Periodic!Thread!DestroyBegin,
          Periodic!Thread!LockAll, Periodic!Thread!Create, Periodic!Thread!CreateFails,
          Periodic!Thread!Join, Periodic!Thread!UnlockAll, Periodic!Thread!LoopEnds
    <3> QED BY <2>7, <3>1 DEF Periodic!OtherThread
  <2>8. CASE Periodic!CheckStopped
    BY <2>8 DEF Periodic!CheckStopped, Periodic!Thread!LoopEnds
  <2>9. CASE Periodic!Begin \/ Periodic!CheckRunning \/ Periodic!TaskReturns
    BY <2>9 DEF Periodic!Begin, Periodic!CheckRunning, Periodic!TaskReturns
  <2>10. CASE Periodic!EndIteration \/ Periodic!WaitOver \/ Periodic!Tick
    BY <2>10 DEF Periodic!EndIteration, Periodic!WaitOver, Periodic!Tick
  <2>11. CASE UNCHANGED Periodic!vars
    BY <2>11 DEF Periodic!vars
  <2> QED
    BY <2>2, <2>3, <2>4, <2>5, <2>6, <2>7, <2>8, <2>9, <2>10, <2>11
    DEF Periodic!Next, Periodic!Loop
<1>3. IInv => Periodic!CalledTaskLives
  BY DEF LoopIsThread, TaskIsStored, TaskIsCalled, Periodic!CalledTaskLives
<1>4. ThreadP!Spec => []Threads_ok
  <2>1. ThreadP!Spec => []ThreadP!TypeOK
    BY ThreadP!ThreadTypeCorrect
  <2>2. ThreadP!Spec => []ThreadP!Known
    BY ThreadP!AlwaysKnown
  <2> QED BY <2>1, <2>2, PTL
<1> QED
  BY <1>1, <1>2, <1>3, <1>4, PeriodicImplementsThread, PTL DEF Periodic!Spec

-----------------------------------------------------------------------------
(* PlcDiscovery, with one thread that starts, stops and destroys it. *)

\* The flag and the thread, seen by the only controller: a thread exists only
\* while the flag is set or a stop is about to join it; once the flag is
\* cleared, which happens before the join, no start is under way.
FlagCoversThread(c) ==
  /\ ctl[c] \in {"idle", "set", "spawn", "clear", "join"}
  /\ Discovery!Joinable => auto \/ ctl[c] = "join"
  /\ ctl[c] \in {"set", "spawn"} => ~Discovery!Joinable /\ discovery = "alive"
  /\ ctl[c] = "set" => ~auto
  /\ ctl[c] \in {"spawn", "clear"} => auto
  /\ ctl[c] = "join" => ~auto
  /\ discovery = "dead" => ~auto /\ ~Discovery!Joinable /\ ctl[c] = "idle"

Orderly(c) ==
  /\ ctl \in [Controllers -> {"idle", "set", "spawn", "clear", "join"}]
  /\ auto \in BOOLEAN
  /\ FlagCoversThread(c)
  /\ Discovery!NeverTerminates

\* It is inductive.
LEMMA OneControllerIsOrderly ==
  ASSUME NEW c, Controllers = {c}
  PROVE  Discovery!Spec => []Orderly(c)
<1> DEFINE IInv == Orderly(c)
<1>1. Discovery!Init => IInv
  BY DEF Discovery!Init, Orderly, FlagCoversThread, Discovery!Joinable,
    Discovery!NeverTerminates
<1>2. IInv /\ [Discovery!Next]_Discovery!vars => IInv'
  <2> SUFFICES ASSUME IInv, [Discovery!Next]_Discovery!vars PROVE IInv'
    OBVIOUS
  <2> USE DEF Orderly, FlagCoversThread, Discovery!Joinable, Discovery!NeverTerminates
  <2>0. ASSUME NEW d \in Controllers, NEW from,
               NEW to \in {"idle", "set", "spawn", "clear", "join"}, Discovery!Step(d,
                 from, to)
        PROVE  /\ ctl[c] = from /\ ctl'[c] = to
               /\ ctl' \in [Controllers -> {"idle", "set", "spawn", "clear", "join"}]
    BY <2>0 DEF Discovery!Step
  <2>1. ASSUME NEW d \in Controllers, Discovery!StartCheck(d) PROVE IInv'
    <3>1. Discovery!Step(d, "idle", "set")
      BY <2>1 DEF Discovery!StartCheck
    <3> QED BY <2>0, <2>1, <3>1 DEF Discovery!StartCheck, Discovery!AlreadyRunning,
      Discovery!loopVars
  <2>2. ASSUME NEW d \in Controllers, Discovery!StartSet(d) PROVE IInv'
    <3>1. Discovery!Step(d, "set", "spawn")
      BY <2>2 DEF Discovery!StartSet
    <3> QED BY <2>0, <2>2, <3>1 DEF Discovery!StartSet, Discovery!loopVars
  <2>3. ASSUME NEW d \in Controllers, Discovery!StartSpawn(d) PROVE IInv'
    <3>1. Discovery!Step(d, "spawn", "idle")
      BY <2>3 DEF Discovery!StartSpawn
    <3> QED BY <2>0, <2>3, <3>1 DEF Discovery!StartSpawn
  <2>4. ASSUME NEW d \in Controllers, Discovery!StartFails(d) PROVE IInv'
    <3>1. Discovery!Step(d, "spawn", "idle")
      BY <2>4 DEF Discovery!StartFails
    <3> QED BY <2>0, <2>4, <3>1 DEF Discovery!StartFails, Discovery!loopVars
  <2>5. ASSUME NEW d \in Controllers, Discovery!StopCheck(d) PROVE IInv'
    <3>1. Discovery!Step(d, "idle", "clear")
      BY <2>5 DEF Discovery!StopCheck
    <3> QED BY <2>0, <2>5, <3>1 DEF Discovery!StopCheck, Discovery!loopVars
  <2>6. ASSUME NEW d \in Controllers, Discovery!StopClear(d) PROVE IInv'
    <3>1. Discovery!Step(d, "clear", "join")
      BY <2>6 DEF Discovery!StopClear
    <3> QED BY <2>0, <2>6, <3>1 DEF Discovery!StopClear, Discovery!loopVars
  <2>7. ASSUME NEW d \in Controllers, Discovery!StopJoin(d) PROVE IInv'
    <3>1. Discovery!Step(d, "join", "idle")
      BY <2>7 DEF Discovery!StopJoin
    <3> QED BY <2>0, <2>7, <3>1 DEF Discovery!StopJoin
  <2>8. ASSUME NEW d \in Controllers, Discovery!DestroyBegin(d) PROVE IInv'
    <3>1. CASE auto
      <4>1. Discovery!Step(d, "idle", "clear")
        BY <2>8, <3>1 DEF Discovery!DestroyBegin
      <4> QED BY <2>0, <2>8, <3>1, <4>1 DEF Discovery!DestroyBegin, Discovery!loopVars
    <3>2. CASE ~auto
      BY <2>8, <3>2 DEF Discovery!DestroyBegin, Discovery!loopVars
    <3> QED BY <3>1, <3>2
  <2>9. ASSUME NEW u \in Users, Discovery!UserLock(u) \/ Discovery!UserUnlock(u) PROVE IInv'
    BY <2>9 DEF Discovery!UserLock, Discovery!UserUnlock, Discovery!loopVars
  <2>10. CASE Discovery!LoopNext
    BY <2>10 DEF Discovery!LoopNext, Discovery!LoopHead, Discovery!Ping,
      Discovery!ScanThrows, Discovery!ScanDone, Discovery!RouteLock, Discovery!RouteUnlock,
                Discovery!Sleep, Discovery!Loop, Discovery!loopLeaves
  <2>11. CASE UNCHANGED Discovery!vars
    BY <2>11 DEF Discovery!vars, Discovery!loopVars
  <2> QED
    BY <2>1, <2>2, <2>3, <2>4, <2>5, <2>6, <2>7, <2>8, <2>9, <2>10, <2>11
    DEF Discovery!Next, Discovery!CallBegins, Discovery!CallSteps
<1> QED BY <1>1, <1>2, PTL DEF Discovery!Spec

\* With one controller no order of starts, failed starts, stops and the
\* destructor meets a joinable thread where that terminates the program.
\* (With two it does: both pass the test of autoDiscoveryRunning_.)
THEOREM OneControllerIsSafe ==
  ASSUME NEW c, Controllers = {c}
  PROVE  Discovery!Spec => []Discovery!NeverTerminates
<1>1. Orderly(c) => Discovery!NeverTerminates
  BY DEF Orderly
<1> QED BY <1>1, OneControllerIsOrderly, PTL

-----------------------------------------------------------------------------
\* A scan that was begun after the flag was cleared is under way or was the
\* last: the flag stays cleared until the thread has ended.
LastScan ==
  /\ late \in {0, 1}
  /\ loop = "ping" => left \in Int
  /\ late = 1 /\ loop \notin {"none", "ended"} => ~auto
  /\ late = 1 /\ loop = "ping" => left < Plcs

\* After stopAutoDiscovery() cleared the flag the thread begins one scan at
\* most, for any number of addresses and any interval.
THEOREM OneMoreScan ==
  ASSUME NEW c, Controllers = {c}, Plcs \in Nat
  PROVE  Discovery!Spec => []Discovery!AtMostOneMoreScan
<1>1. Discovery!Init => LastScan
  BY DEF Discovery!Init, LastScan
<1>2. Orderly(c) /\ LastScan /\ [Discovery!Next]_Discovery!vars => LastScan'
  <2> SUFFICES ASSUME Orderly(c), LastScan, [Discovery!Next]_Discovery!vars PROVE LastScan'
    OBVIOUS
  <2> USE DEF LastScan
  <2>1. ASSUME NEW d \in Controllers, Discovery!CallBegins(d) PROVE LastScan'
    BY <2>1 DEF Discovery!CallBegins, Discovery!StartCheck, Discovery!StopCheck,
      Discovery!DestroyBegin, Discovery!loopVars
  <2>2. ASSUME NEW d \in Controllers, Discovery!StartSet(d) PROVE LastScan'
    BY <2>2 DEF Discovery!StartSet, Discovery!Step, Orderly, FlagCoversThread,
      Discovery!Joinable, Discovery!loopVars
  <2>3. ASSUME NEW d \in Controllers, Discovery!StartSpawn(d) PROVE LastScan'
    BY <2>3 DEF Discovery!StartSpawn, Discovery!Step, Orderly, FlagCoversThread,
      Discovery!Joinable
  <2>4. ASSUME NEW d \in Controllers, Discovery!StartFails(d) \/ Discovery!StopClear(d) \/ Discovery!StopJoin(d)
        PROVE  LastScan'
    BY <2>4 DEF Discovery!StartFails, Discovery!StopClear, Discovery!StopJoin,
      Discovery!loopVars
  <2>5. ASSUME NEW u \in Users, Discovery!UserLock(u) \/ Discovery!UserUnlock(u)
        PROVE  LastScan'
    BY <2>5 DEF Discovery!UserLock, Discovery!UserUnlock, Discovery!loopVars
  <2>6. CASE Discovery!LoopHead
    BY <2>6 DEF Discovery!LoopHead, Discovery!Scans, Discovery!Loop, Discovery!loopLeaves
  <2>7. CASE Discovery!Ping
    BY <2>7 DEF Discovery!Ping, Discovery!Loop, Discovery!loopLeaves
  <2>8. CASE Discovery!ScanThrows \/ Discovery!ScanDone \/ Discovery!RouteLock \/ Discovery!RouteUnlock \/ Discovery!Sleep
    BY <2>8 DEF Discovery!ScanThrows, Discovery!ScanDone, Discovery!RouteLock,
      Discovery!RouteUnlock, Discovery!Sleep, Discovery!Loop, Discovery!loopLeaves
  <2>9. CASE UNCHANGED Discovery!vars
    BY <2>9 DEF Discovery!vars, Discovery!loopVars
  <2> QED
    BY <2>1, <2>2, <2>3, <2>4, <2>5, <2>6, <2>7, <2>8, <2>9
    DEF Discovery!Next, Discovery!CallSteps, Discovery!LoopNext
<1>3. LastScan => Discovery!AtMostOneMoreScan
  BY DEF LastScan, Discovery!AtMostOneMoreScan
<1> QED BY <1>1, <1>2, <1>3, OneControllerIsOrderly, PTL DEF Discovery!Spec
-----------------------------------------------------------------------------
\* A scan has at most one answer per address it tried, and addRoute() runs for
\* a PLC that was found.
Counts ==
  /\ loop = "ping" => found + left <= Plcs
  /\ loop \in {"route", "locked"} => found >= 1

\* The flag, the loop's counters, the mutex and the calls keep their types, for
\* any number of controllers, users, addresses and seconds.
THEOREM DiscoveryTypeCorrect ==
  ASSUME Plcs \in Nat, Interval \in Nat
  PROVE  Discovery!Spec => []Discovery!TypeOK
<1>1. Discovery!Init => Discovery!TypeOK /\ Counts
  <2> SUFFICES ASSUME Discovery!Init PROVE Discovery!TypeOK /\ Counts
    OBVIOUS
  <2>1. 0 \in 0 .. Plcs /\ 0 \in 0 .. Plcs + Interval
    OBVIOUS
  <2>2. /\ ctl \in [Controllers -> {"idle", "set", "spawn", "clear", "join"}]
        /\ user \in [Users -> {"idle", "locked"}]
    BY DEF Discovery!Init
  <2>3. /\ auto \in BOOLEAN /\ crashed \in BOOLEAN
        /\ mutex \subseteq Controllers \union Users \union {"loop"}
    BY DEF Discovery!Init
  <2>4. Counts
    BY DEF Discovery!Init, Counts
  <2>5. /\ found \in 0 .. Plcs /\ left \in 0 .. Plcs + Interval
        /\ loop = "none" /\ discovery = "alive" /\ late = 0
    BY <2>1 DEF Discovery!Init
  <2> QED BY <2>2, <2>3, <2>4, <2>5 DEF Discovery!TypeOK
<1>2. Discovery!TypeOK /\ Counts /\ [Discovery!Next]_Discovery!vars => (Discovery!TypeOK /\ Counts)'
  <2> SUFFICES ASSUME Discovery!TypeOK, Counts, [Discovery!Next]_Discovery!vars
               PROVE  (Discovery!TypeOK /\ Counts)'
    OBVIOUS
  <2> USE DEF Discovery!TypeOK, Counts
  <2>1. ASSUME NEW c \in Controllers, Discovery!CallBegins(c)
        PROVE  (Discovery!TypeOK /\ Counts)'
    <3>1. CASE Discovery!StartCheck(c) \/ Discovery!StopCheck(c)
      BY <3>1 DEF Discovery!StartCheck, Discovery!StopCheck, Discovery!Step,
        Discovery!loopVars
    <3>2. CASE Discovery!DestroyBegin(c)
      <4>1. ctl' \in [Controllers -> {"idle", "set", "spawn", "clear", "join"}]
        BY <3>2 DEF Discovery!DestroyBegin, Discovery!Step
      <4>2. crashed' \in BOOLEAN
        BY <3>2, Zenon DEF Discovery!DestroyBegin, Discovery!Joinable
      <4>3. discovery' \in {"dying", "dead"}
        BY <3>2 DEF Discovery!DestroyBegin
      <4> QED BY <3>2, <4>1, <4>2, <4>3 DEF Discovery!DestroyBegin, Discovery!loopVars
    <3> QED BY <2>1, <3>1, <3>2 DEF Discovery!CallBegins
  <2>2. ASSUME NEW c \in Controllers, Discovery!StartSpawn(c)
        PROVE  (Discovery!TypeOK /\ Counts)'
    BY <2>2 DEF Discovery!StartSpawn, Discovery!Step
  <2>3. ASSUME NEW c \in Controllers, Discovery!StopJoin(c)
        PROVE  (Discovery!TypeOK /\ Counts)'
    BY <2>3 DEF Discovery!StopJoin, Discovery!Step
  <2>4. ASSUME NEW c \in Controllers, Discovery!StartSet(c) \/ Discovery!StartFails(c) \/ Discovery!StopClear(c)
        PROVE  (Discovery!TypeOK /\ Counts)'
    BY <2>4 DEF Discovery!StartSet, Discovery!StartFails, Discovery!StopClear,
      Discovery!Step, Discovery!loopVars
  <2>5. ASSUME NEW u \in Users, Discovery!UserLock(u) \/ Discovery!UserUnlock(u)
        PROVE  (Discovery!TypeOK /\ Counts)'
    BY <2>5 DEF Discovery!UserLock, Discovery!UserUnlock, Discovery!loopVars
  <2>6. CASE Discovery!LoopHead \/ Discovery!Ping
    BY <2>6 DEF Discovery!LoopHead, Discovery!Ping, Discovery!Scans, Discovery!Loop,
      Discovery!loopLeaves
  <2>7. CASE Discovery!ScanThrows \/ Discovery!ScanDone
    BY <2>7 DEF Discovery!ScanThrows, Discovery!ScanDone, Discovery!Loop,
      Discovery!loopLeaves
  <2>8. CASE Discovery!RouteLock \/ Discovery!RouteUnlock \/ Discovery!Sleep
    BY <2>8 DEF Discovery!RouteLock, Discovery!RouteUnlock, Discovery!Sleep,
      Discovery!Loop, Discovery!loopLeaves
  <2>9. CASE UNCHANGED Discovery!vars
    BY <2>9 DEF Discovery!vars, Discovery!loopVars
  <2> QED
    BY <2>1, <2>2, <2>3, <2>4, <2>5, <2>6, <2>7, <2>8, <2>9
    DEF Discovery!Next, Discovery!CallSteps, Discovery!LoopNext
<1> QED BY <1>1, <1>2, PTL DEF Discovery!Spec
-----------------------------------------------------------------------------
(* MCThreads *)

\* Whoever is the subject of a behaviour, each of the components behaves as its
\* own specification says.
THEOREM ComponentsBehave ==
  MCSpec => Spec /\ Periodic!Spec /\ Rtss!Spec /\ Discovery!Spec
<1>1. MCInit => Init /\ Periodic!Init /\ Rtss!Init /\ Discovery!Init
  BY DEF MCInit
<1>2. ASSUME [MCNext \/ Destroyed]_allVars
      PROVE  /\ [Next]_vars
             /\ [Periodic!Next]_Periodic!vars
             /\ [Rtss!Next]_Rtss!vars
             /\ [Discovery!Next]_Discovery!vars
  <2>1. \/ Next
        \/ UNCHANGED vars
    BY <1>2 DEF MCNext, Destroyed, PoolMoves, PeriodicMoves, RtssMoves, DiscoveryMoves,
      allVars
  <2>2. \/ Periodic!Next
        \/ UNCHANGED Periodic!vars
    <3>1. UNCHANGED periodicVars => UNCHANGED Periodic!vars
      BY DEF periodicVars, Periodic!vars, Periodic!threadVars, Periodic!loopVars
    <3> QED
      BY <1>2, <3>1 DEF MCNext, Destroyed, PoolMoves, PeriodicMoves, RtssMoves,
        DiscoveryMoves, allVars
  <2>3. \/ Rtss!Next
        \/ UNCHANGED Rtss!vars
    <3>1. UNCHANGED rtssVars => UNCHANGED Rtss!vars
      BY DEF rtssVars, Rtss!vars
    <3> QED
      BY <1>2, <3>1 DEF MCNext, Destroyed, PoolMoves, PeriodicMoves, RtssMoves,
        DiscoveryMoves, allVars
  <2>4. \/ Discovery!Next
        \/ UNCHANGED Discovery!vars
    <3>1. UNCHANGED discoveryVars => UNCHANGED Discovery!vars
      BY DEF discoveryVars, Discovery!vars, Discovery!loopVars
    <3> QED
      BY <1>2, <3>1
      DEF MCNext, Destroyed, PoolMoves, PeriodicMoves, RtssMoves, DiscoveryMoves, allVars
  <2> QED BY <2>1, <2>2, <2>3, <2>4
<1> QED
  BY <1>1, <1>2, PTL DEF MCSpec, Spec, Periodic!Spec, Rtss!Spec, Discovery!Spec

\* Every component keeps its types, for any values of the constants.
THEOREM MCTypeCorrect ==
  ASSUME 0 \notin Ids, Period \in Nat, MaxLate \in Nat, Wrap \in Nat \ {0},
         Plcs \in Nat, Interval \in Nat
  PROVE  MCSpec => []MCTypeOK
<1>1. Discovery!Spec => []Discovery!TypeOK
  BY DiscoveryTypeCorrect, PTL
<1>2. Rtss!Spec => []Rtss!TypeOK
  BY RtssTypeCorrect, PTL
<1>3. TypeOK /\ Periodic!TypeOK /\ Rtss!TypeOK /\ Discovery!TypeOK => MCTypeOK
  BY DEF MCTypeOK
<1> QED
  BY <1>1, <1>2, <1>3, ComponentsBehave, PoolTypeCorrect, PeriodicTypeCorrect, PTL

\* No entry of the pool is in the hands of two threads.
THEOREM MCExclusive == MCSpec => []Exclusive
BY ComponentsBehave, PoolSafe, PTL

\* None is lost, and none that is in use is given out.
THEOREM MCFlagsExact == MCSpec => []FlagsExact
BY ComponentsBehave, PoolSafe, PTL

\* No RtThread of the process, the periodic task's among them, has two threads
\* or one that outlives it.
THEOREM MCOneThread == MCSpec => []OneThreadPerObject
<1>1. ThreadP!Spec => []ThreadP!OneThreadPerObject
  BY ThreadP!OneThread
<1>2. ThreadP!OneThreadPerObject => OneThreadPerObject
  BY DEF ThreadP!OneThreadPerObject, Periodic!Thread!OneThreadPerObject, OneThreadPerObject
<1> QED BY <1>1, <1>2, ComponentsBehave, PeriodicImplementsThread, PTL

\* However many RtThreads of the process lock its memory, the periodic task's
\* among them: only the stop() of another one unlocks it under a task, and it
\* is not left locked, a failed pthread_create apart.
THEOREM MCLockCorrect ==
  ASSUME LockMemory \subseteq {"task"} \union Others
  PROVE  MCSpec => []LockFollowsTasks
<1>1. ThreadP!Spec => []ThreadP!LockFollowsTasks
  BY ThreadP!LockCorrect
<1>2. ThreadP!LockFollowsTasks => LockFollowsTasks
  BY DEF ThreadP!LockFollowsTasks, ThreadP!LockedOrTaken, ThreadP!LockIsReturned,
    Periodic!Thread!LockFollowsTasks, Periodic!Thread!LockedOrTaken,
    Periodic!Thread!LockIsReturned, LockFollowsTasks
<1> QED BY <1>1, <1>2, ComponentsBehave, PeriodicImplementsThread, PTL

\* The periodic loop is never inside a task that was replaced or destroyed.
THEOREM MCTaskLives ==
  ASSUME Careful = TRUE, "task" \notin Others
  PROVE  MCSpec => []CalledTaskLives
BY ComponentsBehave, TaskLives, PTL DEF CalledTaskLives

\* RtssThread knows of every thread inside it, but those that it gave up on.
THEOREM MCOnlyAbandoned ==
  ASSUME 0 \notin Ids
  PROVE  MCSpec => []OthersAreAbandoned
BY ComponentsBehave, RtssOnlyAbandoned, PTL DEF OthersAreAbandoned

\* With one thread that starts, stops and destroys it, PlcDiscovery does not
\* end the program.
THEOREM MCNeverTerminates ==
  ASSUME NEW c, Controllers = {c}
  PROVE  MCSpec => []NeverTerminates
BY OneControllerIsSafe, ComponentsBehave, PTL DEF NeverTerminates

\* After stopAutoDiscovery() cleared the flag one scan begins at most.
THEOREM MCOneMoreScan ==
  ASSUME NEW c, Controllers = {c}, Plcs \in Nat
  PROVE  MCSpec => []AtMostOneMoreScan
BY OneMoreScan, ComponentsBehave, PTL DEF AtMostOneMoreScan
=============================================================================
