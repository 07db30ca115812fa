-------------------------- MODULE AdsRealtimeEngine --------------------------
(***************************************************************************)
(* AdsRealtimeEngine: the threads of the program call connect, add_variable,*)
(* start, stop and the destructor, and the notification thread of the ADS  *)
(* router calls ads_notification_callback.  The router (TcAdsDll) is       *)
(* external and is modelled by what the engine relies on: a notification   *)
(* that was added and not deleted may call back at any time, with the user *)
(* value it was added with.                                                *)
(***************************************************************************)
EXTENDS Integers, Functions

CONSTANTS
  Callers,      \* threads that use the engine's public functions
  Addrs,        \* addresses a VariableHandle may be allocated at
  UserRange,    \* number of values hUser can hold, 2^32 in the code
  Notes,        \* notification handles the router gives out
  MaxPorts,     \* bound: ports opened in a run
  Reconnects,   \* may connect() be called while a port is open?
  DelMayFail,   \* may deleting a notification fail?
  DelDrains     \* does deleting one wait for its running callback?

ASSUME EngineAssumption ==
  /\ Addrs \subseteq Nat \ {0}
  /\ UserRange \in Nat \ {0}
  /\ MaxPorts \in Nat
  /\ {Reconnects, DelMayFail, DelDrains} \subseteq BOOLEAN

VARIABLES
  ads_port,     \* 0 when none is open
  running,      \* running_
  variables,    \* variables_: notification handle -> address
  mutex,        \* who holds variables_mutex_: at most one caller
  live,         \* the addresses that hold a VariableHandle
  call,         \* for each caller, the step it is at and its locals
  todo,         \* stop(): handles the loop has still to visit
  phase,        \* of the object: alive, dying (in its destructor), dead
  opened,       \* router: ports it has opened
  notes,        \* router: active notification -> its port and user value
  cb            \* notification thread: step, notification, hUser

engineState == <<ads_port, running, variables, mutex, live, call, todo, phase>>
router == <<opened, notes>>
vars == <<engineState, router, cb>>

Idle == [pc |-> "idle", addr |-> 0, note |-> 0]
NoCb == [pc |-> "idle", note |-> 0, user |-> 0]
Empty == [x \in {} |-> 0]
Without(f, S) == Restrict(f, DOMAIN f \ S)

Init ==
  /\ ads_port = 0 /\ running = FALSE
  /\ variables = Empty /\ mutex = {} /\ live = {}
  /\ call = [c \in Callers |-> Idle]
  /\ todo = {} /\ phase = "alive"
  /\ opened = 0 /\ notes = Empty
  /\ cb = NoCb

Begin(c) == phase = "alive" /\ call[c] = Idle
At(c, step) == call[c].pc = step
Goto(c, step) == call' = [call EXCEPT ![c].pc = step]
Return(c) == call' = [call EXCEPT ![c] = Idle]
-----------------------------------------------------------------------------
\* connect(): the port it had is forgotten, even when no new one is opened.
Connect(c) ==
  /\ Begin(c)
  /\ ads_port = 0 \/ Reconnects
  /\ \/ opened < MaxPorts /\ opened' = opened + 1 /\ ads_port' = opened'
     \/ ads_port' = 0 /\ UNCHANGED opened
  /\ UNCHANGED <<running, variables, mutex, live, call, todo, phase, notes, cb>>

\* add_variable(): the VariableHandle is allocated before the router is asked.
AddBegin(c) ==
  /\ Begin(c)
  /\ \E a \in Addrs \ live :
       /\ live' = live \union {a}
       /\ call' = [call EXCEPT ![c] = [Idle EXCEPT !.pc = "notify", !.addr = a]]
  /\ UNCHANGED <<ads_port, running, variables, mutex, todo, phase, router, cb>>

\* No symbol handle or no notification: the unique_ptr frees it again.
\* Mutant: a raw pointer, not freed on the error paths.
AddFailLeaks(c) ==
  /\ At(c, "notify")
  /\ Return(c)
  /\ UNCHANGED <<ads_port, running, variables, mutex, live, todo, phase, router, cb>>

AddFail(c) ==
  /\ At(c, "notify")
  /\ live' = live \ {call[c].addr}
  /\ Return(c)
  /\ UNCHANGED <<ads_port, running, variables, mutex, todo, phase, router, cb>>

NarrowUser(addr) == addr % 2                                            \* mutant
User(addr) == addr % UserRange

AnyPort == TRUE                                                         \* mutant
PortOpen == ads_port # 0

AddNotification(c) ==
  /\ At(c, "notify")
  /\ PortOpen
  /\ \E n \in Notes \ (DOMAIN notes \union {cb.note}) :
       /\ notes' = [x \in DOMAIN notes \union {n} |->
            IF x = n THEN [port |-> ads_port, user |-> User(call[c].addr)] ELSE notes[x]]
       /\ call' = [call EXCEPT ![c].pc = "insert", ![c].note = n]
  /\ UNCHANGED <<ads_port, running, variables, mutex, live, todo, phase, opened, cb>>

MutexFree == mutex = {}

AddInsert(c) ==
  /\ At(c, "insert")
  /\ MutexFree
  /\ variables' = [x \in DOMAIN variables \union {call[c].note} |->
                     IF x = call[c].note THEN call[c].addr ELSE variables[x]]
  /\ live' = live \ ({variables[x] : x \in {call[c].note} \cap DOMAIN variables})
  /\ Return(c)
  /\ UNCHANGED <<ads_port, running, mutex, todo, phase, router, cb>>

Start(c) ==
  /\ Begin(c)
  /\ running' = TRUE
  /\ UNCHANGED <<ads_port, variables, mutex, live, call, todo, phase, router, cb>>
-----------------------------------------------------------------------------
\* stop(): only the caller that clears running_ goes on.  The destructor calls
\* it first; nobody else may be inside the engine then.
StopBegin(c) ==
  /\ Begin(c)
  /\ running' = FALSE
  /\ IF running THEN Goto(c, "lock") ELSE UNCHANGED call
  /\ UNCHANGED <<ads_port, variables, mutex, live, todo, phase, router, cb>>

DestroyBegin(c) ==
  /\ \A d \in Callers : Begin(d)
  /\ running' = FALSE
  /\ Goto(c, IF running THEN "destroy_lock" ELSE "close")
  /\ phase' = "dying"
  /\ UNCHANGED <<ads_port, variables, mutex, live, todo, router, cb>>

Stopping(c) == At(c, "delete") \/ At(c, "destroy_delete")

VisitNone == {}                                                         \* mutant
ToVisit == DOMAIN variables

StopLock(c) ==
  /\ MutexFree
  /\ mutex' = {c}
  /\ todo' = ToVisit
  /\ \/ At(c, "lock") /\ Goto(c, "delete")
     \/ At(c, "destroy_lock") /\ Goto(c, "destroy_delete")
  /\ UNCHANGED <<ads_port, running, variables, live, phase, router, cb>>

\* The answer to a delete request waits for a callback that is running.
Drained == DelDrains /\ cb # NoCb => cb.note \in DOMAIN notes

\* The result of the delete request is ignored.
StopDel(c) ==
  /\ Stopping(c)
  /\ Drained
  /\ \E n \in todo :
       /\ todo' = todo \ {n}
       /\ \/ /\ n \in DOMAIN notes /\ notes[n].port = ads_port
             /\ notes' = Without(notes, {n})
          \/ /\ DelMayFail \/ n \notin DOMAIN notes \/ notes[n].port # ads_port
             /\ UNCHANGED notes
  /\ UNCHANGED <<ads_port, running, variables, mutex, live, call, phase, opened, cb>>

\* Mutant: the mutex is not released.
StopClearLocked(c) ==
  /\ Stopping(c)
  /\ todo = {} /\ Drained
  /\ live' = live \ Range(variables)
  /\ variables' = Empty
  /\ IF At(c, "delete") THEN Return(c) ELSE Goto(c, "close")
  /\ UNCHANGED <<ads_port, running, mutex, todo, phase, router, cb>>

\* Mutant: variables_ is not cleared.
StopClearKeeps(c) ==
  /\ Stopping(c)
  /\ todo = {} /\ Drained
  /\ mutex' = {}
  /\ IF At(c, "delete") THEN Return(c) ELSE Goto(c, "close")
  /\ UNCHANGED <<ads_port, running, variables, live, todo, phase, router, cb>>

StopClear(c) ==
  /\ Stopping(c)
  /\ todo = {} /\ Drained
  /\ live' = live \ Range(variables)
  /\ variables' = Empty
  /\ mutex' = {}
  /\ IF At(c, "delete") THEN Return(c) ELSE Goto(c, "close")
  /\ UNCHANGED <<ads_port, running, todo, phase, router, cb>>

\* Destructor: closing the port ends its notifications; then the members go.
NoNotes == {}                                                           \* mutant
PortNotes == {n \in DOMAIN notes : notes[n].port = ads_port}

DestroyClose(c) ==
  /\ At(c, "close")
  /\ notes' = Without(notes, PortNotes)
  /\ ads_port' = 0
  /\ Goto(c, "free")
  /\ UNCHANGED <<running, variables, mutex, live, todo, phase, opened, cb>>

DestroyFree(c) ==
  /\ At(c, "free") /\ Drained
  /\ live' = live \ Range(variables)
  /\ variables' = Empty
  /\ phase' = "dead"
  /\ Return(c)
  /\ UNCHANGED <<ads_port, running, mutex, todo, router, cb>>
-----------------------------------------------------------------------------
\* Notification thread.  It never looks at running_.
CbEnter ==
  /\ cb = NoCb
  /\ \E n \in DOMAIN notes : cb' = [pc |-> "entered", note |-> n, user |-> notes[n].user]
  /\ UNCHANGED <<engineState, router>>

CbCall ==
  /\ cb.pc = "entered"
  /\ cb' = IF cb.user = 0 THEN NoCb ELSE [cb EXCEPT !.pc = "in_callback"]
  /\ UNCHANGED <<engineState, router>>

CbReturn ==
  /\ cb.pc = "in_callback"
  /\ cb' = NoCb
  /\ UNCHANGED <<engineState, router>>

CbNext == CbEnter \/ CbCall \/ CbReturn

CallBegins(c) == Connect(c) \/ AddBegin(c) \/ Start(c) \/ StopBegin(c) \/ DestroyBegin(c)
CallSteps(c) ==
  \/ AddFail(c) \/ AddNotification(c) \/ AddInsert(c)
  \/ StopLock(c) \/ StopDel(c) \/ StopClear(c) \/ DestroyClose(c) \/ DestroyFree(c)

Next == (\E c \in Callers : CallBegins(c) \/ CallSteps(c)) \/ CbNext

Spec == Init /\ [][Next]_vars

\* Threads inside a call, and callbacks that were entered, are scheduled.
Fairness == (\A c \in Callers : WF_vars(CallSteps(c))) /\ WF_vars(CbCall \/ CbReturn)
FairSpec == Spec /\ Fairness
-----------------------------------------------------------------------------
TypeOK ==
  /\ ads_port \in 0 .. MaxPorts /\ opened \in 0 .. MaxPorts
  /\ running \in BOOLEAN /\ phase \in {"alive", "dying", "dead"}
  /\ DOMAIN variables \subseteq Notes /\ Range(variables) \subseteq Addrs
  /\ mutex \subseteq Callers /\ live \subseteq Addrs /\ todo \subseteq Notes
  /\ call \in [Callers -> [pc : {"idle", "notify", "insert", "lock", "delete",
                                 "destroy_lock", "destroy_delete", "close", "free"},
                           addr : Addrs \union {0}, note : Notes \union {0}]]
  /\ DOMAIN notes \subseteq Notes
  /\ \A n \in DOMAIN notes : notes[n] \in [port : 1 .. MaxPorts, user : 0 .. UserRange - 1]
  /\ cb \in [pc : {"idle", "entered", "in_callback"}, note : Notes \union {0},
             user : 0 .. UserRange - 1]

\* The notification thread only dereferences VariableHandles that exist: no
\* order of add_variable, stop and the destructor frees one that a callback is
\* using or that an active notification still points to.
CallbackTargetsLive ==
  /\ cb # NoCb => cb.user \in live
  /\ \A n \in DOMAIN notes : notes[n].user \in live

\* Nothing is left behind: a destroyed engine has no VariableHandle, no
\* notification at the router and no callback running.
DestroyedIsQuiet == phase = "dead" => live = {} /\ DOMAIN notes = {} /\ cb = NoCb

\* A registered variable is never replaced by another one, although the router
\* may give out a handle again while stop() is between deleting and clearing.
NeverReplaced ==
  [][\A n \in DOMAIN variables \cap DOMAIN variables' :
       variables'[n] = variables[n]]_variables

\* stop() holds the mutex while it waits for the router, which may wait for
\* callbacks: it never waits for ever.
LockReleased == mutex # {} ~> mutex = {}

\* "Alle Notifications entfernen" (stop, line 185): when stop() clears the map
\* no notification is left at the router.
StopRemovesAll == [][\A c \in Callers : StopClear(c) => DOMAIN notes' = {}]_vars

\* What it does leave is only what a concurrent add_variable() has from the
\* router and not yet in the map, never a variable that was registered.
StopLeavesOnlyNew ==
  [][\A c \in Callers : StopClear(c) =>
       \A n \in DOMAIN notes' : \E d \in Callers : At(d, "insert") /\ call[d].note = n]_vars

\* "wird in Realtime-Thread aufgerufen" (add_variable): the user value of each
\* registered variable leads the callback to that variable, except while stop()
\* holds the mutex and the router may give out a deleted handle again.
CallbackReachesVariable ==
  mutex = {} =>
    \A n \in DOMAIN notes \cap DOMAIN variables : notes[n].user = variables[n]
=============================================================================
