------------------------------- MODULE RtThread -------------------------------
(***************************************************************************)
(* linux_rt::RtThread: objects that each run a task on a real-time thread. *)
(* Each object has one owner, who calls start(), stop() and the destructor.*)
(* mlockall and munlockall act on the whole process, so the objects meet   *)
(* there.                                                                  *)
(***************************************************************************)
EXTENDS Integers

CONSTANTS
  Objects,
  LockMemory    \* the objects whose configuration has lock_memory set

VARIABLES
  running,      \* for each object, running_
  thread,       \* its thread: none, task (in task_()), ended (not yet joined)
  owner,        \* the step its owner is at
  object,       \* alive, dying (in the destructor), dead
  locked,       \* is the memory of the process locked?
  unreturned,   \* history: objects that locked it and then got no thread
  unlocker      \* history: the object whose stop() unlocked it, since it was
                \* last locked

lockVars == <<locked, unreturned, unlocker>>
vars == <<running, thread, owner, object, lockVars>>

Init ==
  /\ running = [o \in Objects |-> FALSE]
  /\ thread = [o \in Objects |-> "none"]
  /\ owner = [o \in Objects |-> "idle"]
  /\ object = [o \in Objects |-> "alive"]
  /\ locked = FALSE
  /\ unreturned = {} /\ unlocker = {}

Step(o, from, to) == owner[o] = from /\ owner' = [owner EXCEPT ![o] = to]
-----------------------------------------------------------------------------
\* start() refuses while running_ is set.  Mutant: it does not look.
NeverRefuses(o) == FALSE                                                \* mutant
Refuses(o) == running[o]

StartBegin(o) ==
  /\ object[o] = "alive"
  /\ ~Refuses(o)
  /\ Step(o, "idle", IF o \in LockMemory THEN "mlock" ELSE "create")
  /\ UNCHANGED <<running, thread, object, lockVars>>

\* mlockall needs a capability the process may not have.
LockAll(o) ==
  /\ \/ Step(o, "mlock", "create") /\ locked' = TRUE /\ unlocker' = {}
     \/ Step(o, "mlock", "idle") /\ UNCHANGED <<locked, unlocker>>
  /\ UNCHANGED <<running, thread, object, unreturned>>

\* running_ is set before pthread_create, which may fail; then only running_ is
\* taken back.
Create(o) ==
  /\ Step(o, "create", "idle")
  /\ running' = [running EXCEPT ![o] = TRUE]
  /\ thread' = [thread EXCEPT ![o] = "task"]
  /\ UNCHANGED <<object, lockVars>>

CreateFails(o) ==
  /\ Step(o, "create", "idle")
  /\ running' = [running EXCEPT ![o] = FALSE]
  /\ unreturned' = unreturned \union ({o} \cap LockMemory)
  /\ UNCHANGED <<thread, object, locked, unlocker>>
-----------------------------------------------------------------------------
\* stop(), also as the destructor: nothing to do unless running_ is set.
LeaveRunning(o) == UNCHANGED running                                    \* mutant
ClearRunning(o) == running' = [running EXCEPT ![o] = FALSE]

StopBegin(o) ==
  /\ object[o] = "alive"
  /\ running[o]
  /\ ClearRunning(o)
  /\ Step(o, "idle", "join")
  /\ UNCHANGED <<thread, object, lockVars>>

DestroyBegin(o) ==
  /\ object[o] = "alive"
  /\ IF running[o]
       THEN ClearRunning(o) /\ Step(o, "idle", "join")
       ELSE owner[o] = "idle" /\ UNCHANGED <<running, owner>>
  /\ object' = [object EXCEPT ![o] = IF running[o] THEN "dying" ELSE "dead"]
  /\ UNCHANGED <<thread, lockVars>>

\* Mutant: the thread is not waited for.
Detach(o) ==
  /\ Step(o, "join", "munlock")
  /\ UNCHANGED <<running, thread, object, lockVars>>

Join(o) ==
  /\ thread[o] = "ended"
  /\ Step(o, "join", "munlock")
  /\ thread' = [thread EXCEPT ![o] = "none"]
  /\ UNCHANGED <<running, object, lockVars>>

NeverUnlocks(o) == FALSE                                                \* mutant
Unlocks(o) == o \in LockMemory

UnlockAll(o) ==
  /\ Step(o, "munlock", "idle")
  /\ locked' = (locked /\ ~Unlocks(o))
  /\ unreturned' = IF Unlocks(o) THEN {} ELSE unreturned
  /\ unlocker' = IF Unlocks(o) THEN {o} ELSE unlocker
  /\ object' = [object EXCEPT ![o] = IF @ = "dying" THEN "dead" ELSE @]
  /\ UNCHANGED <<running, thread>>
-----------------------------------------------------------------------------
\* thread_proc: a loop that polls is_running(), or a task that ends by itself,
\* after which running_ stays set.
LoopEnds(o) ==
  /\ thread[o] = "task" /\ ~running[o]
  /\ thread' = [thread EXCEPT ![o] = "ended"]
  /\ UNCHANGED <<running, owner, object, lockVars>>

TaskReturns(o) ==
  /\ thread[o] = "task" /\ running[o]
  /\ thread' = [thread EXCEPT ![o] = "ended"]
  /\ UNCHANGED <<running, owner, object, lockVars>>

CallSteps(o) == LockAll(o) \/ Create(o) \/ CreateFails(o) \/ Join(o) \/ UnlockAll(o)

ThreadNext(o) ==
  \/ StartBegin(o) \/ StopBegin(o) \/ DestroyBegin(o)
  \/ CallSteps(o)
  \/ LoopEnds(o) \/ TaskReturns(o)

Next == \E o \in Objects : ThreadNext(o)

Spec == Init /\ [][Next]_vars

\* Calls that were begun and loops that were told to end are scheduled.
ThreadFairness(o) == WF_vars(CallSteps(o)) /\ WF_vars(LoopEnds(o))
Fairness == \A o \in Objects : ThreadFairness(o)
FairSpec == Spec /\ Fairness
-----------------------------------------------------------------------------
TypeOK ==
  /\ running \in [Objects -> BOOLEAN]
  /\ thread \in [Objects -> {"none", "task", "ended"}]
  /\ owner \in [Objects -> {"idle", "mlock", "create", "join", "munlock"}]
  /\ object \in [Objects -> {"alive", "dying", "dead"}]
  /\ locked \in BOOLEAN
  /\ unreturned \subseteq LockMemory /\ unlocker \subseteq LockMemory

\* No order of start(), stop(), failed starts and tasks that end by themselves
\* gives an object a second thread, or a thread that outlives it: thread_proc
\* uses the object until it returns.
OneThreadPerObject ==
  /\ \A o \in Objects : owner[o] = "create" => thread[o] = "none"
  /\ \A o \in Objects : object[o] = "dead" => thread[o] = "none"

\* However many objects lock the memory of their process, and whichever of
\* their starts fail: the memory is locked under the task of each, unless the
\* stop() of another has unlocked it since (munlockall, line 96); and it stays
\* locked only on behalf of an object between its start() and the end of its
\* stop(), or because pthread_create failed after mlockall (line 81).
LockedOrTaken ==
  \A o \in LockMemory : thread[o] = "task" => locked \/ unlocker \ {o} # {}
LockIsReturned ==
  locked =>
    \E o \in LockMemory : running[o] \/ owner[o] # "idle" \/ o \in unreturned
LockFollowsTasks == LockedOrTaken /\ LockIsReturned

\* "mlockall fuer no page faults" (RtConfig, line 30): the task of an object
\* that locks memory runs with the memory locked.
TasksNeverFault == \A o \in LockMemory : thread[o] = "task" => locked

\* stop() waits for the thread without a limit, and returns.
StopReturns == \A o \in Objects : owner[o] = "join" ~> owner[o] = "idle"
=============================================================================
