---------------------------- MODULE RtPeriodicTask ----------------------------
(***************************************************************************)
(* linux_rt::RtPeriodicTask: a task that an RtThread runs once per period, *)
(* with an RtLatencyTracker.  Time is kept relative to the wake-up that    *)
(* next_wake names, so that a task may run for ever.  The tracker's count  *)
(* and sum, which only serve its average, are left out.  Other RtThreads   *)
(* run in the same process.                                                *)
(***************************************************************************)
EXTENDS Integers

CONSTANTS
  Others,       \* RtThreads that are not part of the periodic task
  LockMemory,   \* see RtThread; "task" is the periodic task's
  Period,       \* period_ns_, in ticks of the clock
  MaxLate,      \* bound: how far the task may fall behind
  Wrap,         \* number of values of uint64_t, 2^64 in the code
  Careful       \* does the owner start only what is stopped, and stop before
                \* it destroys, as examples/linux_rt_example.cpp does?

VARIABLES
  running, thread, owner, object, locked, unreturned, unlocker,  \* RtThread
  lp,           \* step of periodic_loop()
  due,          \* next_wake minus now
  task,         \* which function task_ holds; 0 when it is destroyed or empty
  executing,    \* which one the loop is inside
  tracker,      \* min_ns_ and max_ns_
  worst         \* history: how late the latest iteration ended, at least 0

Thread == INSTANCE RtThread WITH Objects <- {"task"} \union Others

threadVars == <<running, thread, owner, object, locked, unreturned, unlocker>>
loopVars == <<lp, due, executing, tracker, worst>>
vars == <<threadVars, loopVars, task>>

NoLatency == [min |-> Wrap - 1, max |-> 0]

Init ==
  /\ Thread!Init
  /\ lp = "none" /\ due = 0
  /\ task = 0 /\ executing = 0
  /\ tracker = NoLatency /\ worst = 0

Greater(a, b) == IF a > b THEN a ELSE b
Smaller(a, b) == IF a < b THEN a ELSE b
-----------------------------------------------------------------------------
\* start() stores the task before RtThread::start() looks at running_, and
\* keeps it when that refuses.
Start ==
  /\ Careful => ~running["task"]
  /\ object["task"] = "alive" /\ owner["task"] = "idle"
  /\ task' \in {1, 2}
  /\ IF running["task"] THEN UNCHANGED threadVars ELSE Thread!StartBegin("task")
  /\ UNCHANGED loopVars

Created ==
  /\ Thread!Create("task")
  /\ lp' = "begin"
  /\ UNCHANGED <<due, task, executing, tracker, worst>>

Stop ==
  /\ Thread!StopBegin("task")
  /\ UNCHANGED <<loopVars, task>>

\* Members go in reverse order: task_ first, rt_thread_, which joins, last.
Destroy ==
  /\ Careful => ~running["task"]
  /\ Thread!DestroyBegin("task")
  /\ task' = 0
  /\ UNCHANGED loopVars

InCall ==
  /\ \/ Thread!LockAll("task") \/ Thread!CreateFails("task")
     \/ Thread!Join("task") \/ Thread!UnlockAll("task")
  /\ UNCHANGED <<loopVars, task>>

OtherThread ==
  /\ \E o \in Others : Thread!ThreadNext(o)
  /\ UNCHANGED <<loopVars, task>>
-----------------------------------------------------------------------------
\* periodic_loop().  The first next_wake is a period ahead.
Begin ==
  /\ lp = "begin"
  /\ lp' = "check"
  /\ due' = Period
  /\ UNCHANGED <<threadVars, task, executing, tracker, worst>>

CheckRunning ==
  /\ lp = "check"
  /\ running["task"]
  /\ lp' = "task" /\ executing' = task
  /\ UNCHANGED <<threadVars, due, task, tracker, worst>>

CheckStopped ==
  /\ lp = "check"
  /\ Thread!LoopEnds("task")
  /\ lp' = "none"
  /\ UNCHANGED <<due, task, executing, tracker, worst>>

TaskReturns ==
  /\ lp = "task"
  /\ lp' = "end" /\ executing' = 0
  /\ UNCHANGED <<threadVars, due, task, tracker, worst>>

\* latency = end - next_wake, unsigned.
Latency == (0 - due) % Wrap
Recorded(l) == [min |-> Smaller(l, tracker.min), max |-> Greater(l, tracker.max)]
EndIteration ==
  /\ lp = "end"
  /\ lp' = "wait"
  /\ tracker' = Recorded(Latency)
  /\ worst' = Greater(worst, 0 - due)
  /\ due' = due + Period
  /\ UNCHANGED <<threadVars, task, executing>>

\* wait_until_ns(next_wake): at once when that time has passed.
WaitOver ==
  /\ lp = "wait"
  /\ due <= 0
  /\ lp' = "check"
  /\ UNCHANGED <<threadVars, due, task, executing, tracker, worst>>

Loop == Begin \/ CheckRunning \/ CheckStopped \/ TaskReturns \/ EndIteration \/ WaitOver

\* Time passes, also while the loop is preempted.
Tick ==
  /\ lp \notin {"none", "begin"}
  /\ due > 0 - MaxLate
  /\ due' = due - 1
  /\ UNCHANGED <<threadVars, lp, task, executing, tracker, worst>>

Next ==
  \/ Start \/ Created \/ Stop \/ Destroy \/ InCall
  \/ Loop \/ Tick
  \/ OtherThread

Spec == Init /\ [][Next]_vars

\* The threads, calls that were begun and the clock go on.
Fairness ==
  /\ WF_vars(Loop) /\ WF_vars(Created \/ InCall) /\ WF_vars(Tick)
  /\ \A o \in Others : Thread!ThreadFairness(o)
FairSpec == Spec /\ Fairness
-----------------------------------------------------------------------------
TypeOK ==
  /\ Thread!TypeOK
  /\ lp \in {"none", "begin", "check", "task", "end", "wait"}
  /\ due \in 0 - MaxLate .. 2 * Period
  /\ task \in 0 .. 2 /\ executing \in 0 .. 2
  /\ tracker \in [min : 0 .. Wrap - 1, max : 0 .. Wrap - 1]
  /\ worst \in 0 .. MaxLate

\* The function the loop is inside is the one that task_ holds: it is neither
\* replaced by start() nor destroyed with the object while it runs.
CalledTaskLives == lp = "task" => executing = task /\ task # 0

\* stop() and the destructor return, although the loop sleeps and may be far
\* behind, and whatever the other threads of the process do.
StopReturns == Thread!StopReturns

\* "Latency Measurement" (RtLatencyTracker): what is reported is how late an
\* iteration ended.  (No run checks it: see README.md, "Where code and comments
\* disagree".)
LatencyIsLateness == tracker # NoLatency => tracker.max = worst
=============================================================================
