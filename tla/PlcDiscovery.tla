----------------------------- MODULE PlcDiscovery -----------------------------
(***************************************************************************)
(* ads::PlcDiscovery: the discovery thread, the calls that start and stop  *)
(* it, and the functions that take mutex_.  Most of those are stubs in the *)
(* source; what matters here is that they and the discovery thread exclude *)
(* each other, which stopAutoDiscovery() must not get in the way of.       *)
(***************************************************************************)
EXTENDS Integers

CONSTANTS
  Controllers,  \* threads that start and stop discovery
  Users,        \* threads that call the functions under mutex_
  Plcs,         \* number of addresses a scan tries
  Interval      \* intervalSeconds

VARIABLES
  auto,         \* autoDiscoveryRunning_, a plain bool
  loop,         \* step of the discovery thread; none: not joinable
  found,        \* scan: PLCs that answered and have still to be added
  left,         \* addresses to try, or seconds to sleep
  mutex,        \* who holds mutex_: at most one thread
  ctl,          \* for each controller, the step of its call
  user,         \* for each user, the step of its call
  crashed,      \* has std::terminate been called?
  discovery,    \* the object: alive, dying, dead
  late          \* history: scans that were begun after stopAutoDiscovery()
                \* cleared the flag

loopVars == <<loop, found, left>>
vars == <<auto, loopVars, mutex, ctl, user, crashed, discovery, late>>

Init ==
  /\ auto = FALSE
  /\ loop = "none" /\ found = 0 /\ left = 0
  /\ mutex = {}
  /\ ctl = [c \in Controllers |-> "idle"]
  /\ user = [u \in Users |-> "idle"]
  /\ crashed = FALSE
  /\ discovery = "alive"
  /\ late = 0

Joinable == loop # "none"
Step(c, from, to) == ctl[c] = from /\ ctl' = [ctl EXCEPT ![c] = to]
-----------------------------------------------------------------------------
\* startAutoDiscovery(): the flag is tested, and then set, without the mutex.
NeverRunning == FALSE                                                   \* mutant
AlreadyRunning == auto

StartCheck(c) ==
  /\ discovery = "alive"
  /\ ~AlreadyRunning
  /\ Step(c, "idle", "set")
  /\ UNCHANGED <<auto, loopVars, mutex, user, crashed, discovery, late>>

StartSet(c) ==
  /\ Step(c, "set", "spawn")
  /\ auto' = TRUE
  /\ UNCHANGED <<loopVars, mutex, user, crashed, discovery, late>>

\* Assigning to a thread that is joinable terminates the program.
StartSpawn(c) ==
  /\ Step(c, "spawn", "idle")
  /\ crashed' = (crashed \/ Joinable)
  /\ IF Joinable THEN UNCHANGED loop ELSE loop' = "head"
  /\ late' = 0
  /\ UNCHANGED <<auto, found, left, mutex, user, discovery>>

\* std::thread throws when there are no resources; the flag stays set.
StartFails(c) ==
  /\ Step(c, "spawn", "idle")
  /\ UNCHANGED <<auto, loopVars, mutex, user, crashed, discovery, late>>
-----------------------------------------------------------------------------
\* stopAutoDiscovery().
StopCheck(c) ==
  /\ discovery = "alive"
  /\ auto
  /\ Step(c, "idle", "clear")
  /\ UNCHANGED <<auto, loopVars, mutex, user, crashed, discovery, late>>

\* Mutant: the whole of stopAutoDiscovery() under the mutex.
StopClearLocked(c) ==
  /\ Step(c, "clear", "join")
  /\ mutex = {} /\ mutex' = {c}
  /\ auto' = FALSE
  /\ UNCHANGED <<loopVars, user, crashed, discovery, late>>

StopClear(c) ==
  /\ Step(c, "clear", "join")
  /\ auto' = FALSE
  /\ UNCHANGED <<loopVars, mutex, user, crashed, discovery, late>>

StopJoin(c) ==
  /\ loop \in {"none", "ended"}
  /\ Step(c, "join", "idle")
  /\ loop' = "none"
  /\ discovery' = IF discovery = "dying" THEN "dead" ELSE discovery
  /\ UNCHANGED <<auto, found, left, mutex, user, crashed, late>>

\* Destructor, when no other call is in progress: it stops discovery; members
\* that are left joinable terminate the program.
DestroyBegin(c) ==
  /\ discovery = "alive"
  /\ \A d \in Controllers : ctl[d] = "idle"
  /\ \A u \in Users : user[u] = "idle"
  /\ IF auto
       THEN Step(c, "idle", "clear") /\ discovery' = "dying" /\ UNCHANGED crashed
       ELSE discovery' = "dead" /\ crashed' = (crashed \/ Joinable) /\ UNCHANGED ctl
  /\ UNCHANGED <<auto, loopVars, mutex, user, late>>
-----------------------------------------------------------------------------
\* addRoute, removeRoute, connectToPlc and the others hold mutex_ throughout.
UserLock(u) ==
  /\ discovery = "alive"
  /\ user[u] = "idle"
  /\ mutex = {} /\ mutex' = {u}
  /\ user' = [user EXCEPT ![u] = "locked"]
  /\ UNCHANGED <<auto, loopVars, ctl, crashed, discovery, late>>

UserUnlock(u) ==
  /\ user[u] = "locked"
  /\ mutex' = {}
  /\ user' = [user EXCEPT ![u] = "idle"]
  /\ UNCHANGED <<auto, loopVars, ctl, crashed, discovery, late>>
-----------------------------------------------------------------------------
Loop(from, to) == loop = from /\ loop' = to
loopLeaves == <<auto, ctl, user, crashed, discovery>>

\* Mutant: the loop looks at the flag only while it sleeps.
ScansAlways == TRUE
Scans == auto

LoopHead ==
  /\ Loop("head", IF Scans THEN "ping" ELSE "ended")
  /\ left' = IF Scans THEN Plcs ELSE 0
  /\ found' = 0
  /\ UNCHANGED <<loopLeaves, mutex, late>>

\* scanNetwork(): an address answers within the socket's timeout or does not.
\* An exception ends the scan, and is caught.
Ping ==
  /\ left > 0
  /\ Loop("ping", "ping")
  /\ left' = left - 1
  /\ found' \in {found, found + 1}
  /\ late' = IF left = Plcs /\ ~auto THEN late + 1 ELSE late
  /\ UNCHANGED <<loopLeaves, mutex>>

ScanThrows ==
  /\ Loop("ping", "sleep")
  /\ left' = Interval /\ found' = 0
  /\ UNCHANGED <<loopLeaves, mutex, late>>

ScanDone ==
  /\ left = 0
  /\ Loop("ping", IF found > 0 THEN "route" ELSE "sleep")
  /\ left' = IF found > 0 THEN 0 ELSE Interval
  /\ UNCHANGED <<loopLeaves, found, mutex, late>>

\* addRoute() for each PLC that was found.
RouteLock ==
  /\ Loop("route", "locked")
  /\ mutex = {} /\ mutex' = {"loop"}
  /\ UNCHANGED <<loopLeaves, found, left, late>>

RouteUnlock ==
  /\ Loop("locked", IF found > 1 THEN "route" ELSE "sleep")
  /\ mutex' = {}
  /\ found' = found - 1
  /\ left' = IF found > 1 THEN 0 ELSE Interval
  /\ UNCHANGED <<loopLeaves, late>>

Sleep ==
  /\ Loop("sleep", IF left > 0 /\ auto THEN "sleep" ELSE "head")
  /\ left' = IF left > 0 /\ auto THEN left - 1 ELSE 0
  /\ UNCHANGED <<loopLeaves, found, mutex, late>>

LoopNext ==
  \/ LoopHead \/ Ping \/ ScanThrows \/ ScanDone
  \/ RouteLock \/ RouteUnlock \/ Sleep

CallBegins(c) == StartCheck(c) \/ StopCheck(c) \/ DestroyBegin(c)
CallSteps(c) == StartSet(c) \/ StartSpawn(c) \/ StartFails(c) \/ StopClear(c) \/ StopJoin(c)

Next ==
  \/ \E c \in Controllers : CallBegins(c) \/ CallSteps(c)
  \/ \E u \in Users : UserLock(u) \/ UserUnlock(u)
  \/ LoopNext

Spec == Init /\ [][Next]_vars

\* Every thread that is inside a call, and the discovery thread, is scheduled;
\* a thread that waits for a mutex that others keep taking gets it some time.
Fairness ==
  /\ \A c \in Controllers : WF_vars(CallSteps(c))
  /\ \A u \in Users : WF_vars(UserUnlock(u))
  /\ WF_vars(LoopNext) /\ SF_vars(RouteLock)
FairSpec == Spec /\ Fairness
-----------------------------------------------------------------------------
TypeOK ==
  /\ auto \in BOOLEAN
  /\ loop \in {"none", "head", "ping", "route", "locked", "sleep", "ended"}
  /\ found \in 0 .. Plcs /\ left \in 0 .. Plcs + Interval
  /\ mutex \subseteq Controllers \union Users \union {"loop"}
  /\ ctl \in [Controllers -> {"idle", "set", "spawn", "clear", "join"}]
  /\ user \in [Users -> {"idle", "locked"}]
  /\ crashed \in BOOLEAN
  /\ discovery \in {"alive", "dying", "dead"}
  /\ late \in Nat

\* No order of starts, stops, failed starts and destruction leaves a joinable
\* thread to be assigned to or destroyed, which would end the program.
NeverTerminates == ~crashed

\* The flag is polled between scans only: after it was cleared the thread may
\* still begin the scan it had already decided on, but never a second one.
AtMostOneMoreScan == late <= 1

\* stopAutoDiscovery() and the destructor wait for a thread that takes mutex_
\* in addRoute(), and that others keep from it for a while: they return.
DiscoveryStops == \A c \in Controllers : ctl[c] = "join" ~> ctl[c] = "idle"
=============================================================================
