------------------------------ MODULE RtssThread ------------------------------
(***************************************************************************)
(* rtss::RtssThread, the Windows fallback, with the loop of RtssAdsHandler *)
(* as its task.  stop() waits one second for the thread and then closes    *)
(* the handle, whether the thread has ended or not.  With HAS_RTSS_SDK     *)
(* start() always refuses.                                                 *)
(***************************************************************************)
EXTENDS Integers

CONSTANTS
  Ids           \* bound: the threads that are created

VARIABLES
  running,      \* running_
  handle,       \* thread_handle_: the thread it names, 0 for nullptr
  threads,      \* for each thread: unused, suspended, ended, or the task it is
                \* in: a loop that polls running_, or one that never looks at it
  call,         \* step of the owner: idle, created, wait, close
  object,       \* alive, dying, dead
  abandoned,    \* history: threads that were running when stop() gave up
  replaced      \* history: threads whose function was assigned to meanwhile

vars == <<running, handle, threads, call, object, abandoned, replaced>>

Init ==
  /\ running = FALSE
  /\ handle = 0
  /\ threads = [i \in Ids |-> "unused"]
  /\ call = "idle"
  /\ object = "alive"
  /\ abandoned = {} /\ replaced = {}

Tasks == {"loop", "task"}
Executing == {i \in Ids : threads[i] \in Tasks}

Step(from, to) == call = from /\ call' = to
-----------------------------------------------------------------------------
\* start() stores the task whoever may be executing the one before; then
\* CreateThread may fail.
NeverRefuses == FALSE                                                   \* mutant
Refuses == running

Start ==
  /\ object = "alive"
  /\ ~Refuses
  /\ replaced' = replaced \union Executing
  /\ \/ /\ Step("idle", "created")
        /\ \E i \in Ids :
             /\ threads[i] = "unused"
             /\ threads' = [threads EXCEPT ![i] = "suspended"]
             /\ handle' = i
     \/ /\ Step("idle", "idle")
        /\ handle' = 0
        /\ UNCHANGED threads
  /\ UNCHANGED <<running, object, abandoned>>

\* running_ is set while the thread is still suspended.
Resume ==
  /\ Step("created", "idle")
  /\ running' = TRUE
  /\ \E task \in Tasks : threads' = [threads EXCEPT ![handle] = task]
  /\ UNCHANGED <<handle, object, abandoned, replaced>>

\* stop(), also as the destructor.
StopBegin ==
  /\ object = "alive"
  /\ running
  /\ Step("idle", "wait")
  /\ running' = FALSE
  /\ UNCHANGED <<handle, threads, object, abandoned, replaced>>

DestroyBegin ==
  /\ object = "alive"
  /\ Step("idle", IF running THEN "wait" ELSE "idle")
  /\ object' = IF running THEN "dying" ELSE "dead"
  /\ running' = FALSE
  /\ UNCHANGED <<handle, threads, abandoned, replaced>>

\* Mutant: the wait has no limit.
WaitForEver == threads[handle] = "ended"
\* WaitForSingleObject(thread_handle_, 1000): the thread has ended or not.
WaitOver == threads[handle] \in Tasks \union {"ended"}

Close ==
  /\ Step("wait", "idle")
  /\ WaitOver
  /\ handle' = 0
  /\ abandoned' = abandoned \union ({handle} \ {i \in Ids : threads[i] = "ended"})
  /\ object' = IF object = "dying" THEN "dead" ELSE object
  /\ UNCHANGED <<running, threads, replaced>>
-----------------------------------------------------------------------------
\* rtss_processing_loop() polls running_ around calls that the compiler cannot
\* look into.  Once the object is gone it polls freed memory, and goes by
\* whatever it finds there.
Polled == IF object = "dead" THEN BOOLEAN ELSE {running}
StopSeen == FALSE \in Polled

\* Another task than the loop may end by itself.
LoopEnds(i) ==
  /\ threads[i] = "loop" /\ StopSeen
  /\ threads' = [threads EXCEPT ![i] = "ended"]
  /\ UNCHANGED <<running, handle, call, object, abandoned, replaced>>

TaskReturns(i) ==
  /\ threads[i] = "task"
  /\ threads' = [threads EXCEPT ![i] = "ended"]
  /\ UNCHANGED <<running, handle, call, object, abandoned, replaced>>

Next ==
  \/ Start \/ Resume \/ StopBegin \/ DestroyBegin \/ Close
  \/ \E i \in Ids : LoopEnds(i) \/ TaskReturns(i)

Spec == Init /\ [][Next]_vars

\* The owner's calls go on; nothing says when a task ends.
Fairness == WF_vars(Resume \/ Close)
FairSpec == Spec /\ Fairness
-----------------------------------------------------------------------------
TypeOK ==
  /\ running \in BOOLEAN
  /\ handle \in Ids \union {0}
  /\ threads \in [Ids -> {"unused", "suspended", "loop", "task", "ended"}]
  /\ call \in {"idle", "created", "wait"}
  /\ object \in {"alive", "dying", "dead"}
  /\ abandoned \subseteq Ids /\ replaced \subseteq Ids

\* A second thread inside one object, a thread inside an object that is gone,
\* and a thread whose function start() replaced under it, is always one that
\* stop() gave up on: the object knows of at most one.
OthersAreAbandoned ==
  /\ Executing \ abandoned \subseteq {handle}
  /\ object = "dead" => Executing \subseteq abandoned
  /\ replaced \subseteq abandoned

\* stop() returns, also when the task never looks at running_.
StopGivesUp == call = "wait" ~> call = "idle"
=============================================================================
