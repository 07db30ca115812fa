------------------------ MODULE AdsRealtimeEngineProofs ------------------------
(***************************************************************************)
(* Theorems about AdsRealtimeEngine, for any number of calling threads,    *)
(* addresses and notification handles.                                     *)
(***************************************************************************)
EXTENDS AdsRealtimeEngine, TLAPS

Steps == {"idle", "notify", "insert", "lock", "delete",
          "destroy_lock", "destroy_delete", "close", "free"}
Locals == [pc : Steps, addr : Addrs \union {0}, note : Notes \union {0}]

\* TypeOK in parts: the engine's own state, its variables, the router.
EngineTypes ==
  /\ ads_port \in 0 .. MaxPorts /\ opened \in 0 .. MaxPorts
  /\ running \in BOOLEAN /\ phase \in {"alive", "dying", "dead"}
  /\ mutex \subseteq Callers /\ live \subseteq Addrs /\ todo \subseteq Notes
VariableTypes == \A n \in DOMAIN variables : n \in Notes /\ variables[n] \in Addrs
CallTypes == call \in [Callers -> Locals]
NoteTypes ==
  /\ DOMAIN notes \subseteq Notes
  /\ \A n \in DOMAIN notes : notes[n] \in [port : 1 .. MaxPorts, user : 0 .. UserRange - 1]
CbTypes == cb \in [pc : {"idle", "entered", "in_callback"}, note : Notes \union {0},
                   user : 0 .. UserRange - 1]

\* Inside add_variable() the address is one, and so is the handle after the
\* router's answer.
AddTypes ==
  \A c \in Callers :
    /\ At(c, "notify") \/ At(c, "insert") => call[c].addr \in Addrs
    /\ At(c, "insert") => call[c].note \in Notes

Types == EngineTypes /\ VariableTypes /\ CallTypes /\ NoteTypes /\ CbTypes /\ AddTypes

LEMMA TypesSuffice == Types => TypeOK
  BY DEF Types, EngineTypes, VariableTypes, CallTypes, NoteTypes, CbTypes, TypeOK,
         Locals, Steps, Range

\* A caller's step within its call, and its locals.
LEMMA LocalsMove ==
  ASSUME CallTypes, AddTypes, NEW c \in Callers, NEW step \in Steps,
         call' = [call EXCEPT ![c].pc = step],
         step \notin {"notify", "insert"}
  PROVE  CallTypes' /\ AddTypes'
<1>1. CallTypes'
  BY DEF CallTypes, Locals
<1>2. \A d \in Callers : d # c => call'[d] = call[d]
  BY DEF CallTypes
<1>3. call'[c].pc = step
  BY DEF CallTypes, Locals
<1> QED BY <1>1, <1>2, <1>3 DEF AddTypes, At

LEMMA ReturnMove ==
  ASSUME CallTypes, AddTypes, NEW c \in Callers, Return(c)
  PROVE  CallTypes' /\ AddTypes'
<1>1. CallTypes'
  BY DEF CallTypes, Return, Idle, Locals, Steps
<1>2. \A d \in Callers : d # c => call'[d] = call[d]
  BY DEF CallTypes, Return
<1>3. call'[c].pc = "idle"
  BY DEF CallTypes, Return, Idle
<1> QED BY <1>1, <1>2, <1>3 DEF AddTypes, At

LEMMA Unmoved ==
  ASSUME CallTypes, AddTypes, UNCHANGED call
  PROVE  CallTypes' /\ AddTypes'
  BY DEF CallTypes, AddTypes, At

LEMMA InitTypes == Init => Types
<1> SUFFICES ASSUME Init PROVE Types
  OBVIOUS
<1>1. EngineTypes
  <2>1. 0 \in 0 .. MaxPorts
    BY EngineAssumption DEF EngineAssumption
  <2> QED BY <2>1 DEF Init, EngineTypes
<1>5. DOMAIN variables = {} /\ DOMAIN notes = {}
  BY DEF Init, Empty
<1>6. VariableTypes /\ NoteTypes
  BY <1>5 DEF VariableTypes, NoteTypes
<1>2. CallTypes
  BY DEF Init, CallTypes, Locals, Steps, Idle
<1>3. CbTypes
  BY EngineAssumption DEF EngineAssumption, Init, CbTypes, NoCb
<1>4. AddTypes
  BY DEF Init, AddTypes, At, Idle
<1> QED BY <1>1, <1>2, <1>3, <1>4, <1>6 DEF Types

\* Types is inductive.
LEMMA NextTypes == Types /\ [Next]_vars => Types'
<1> SUFFICES ASSUME Types, [Next]_vars PROVE Types'
  OBVIOUS
<1> USE DEF Types
<1>1. ASSUME NEW c \in Callers, Connect(c) PROVE Types'
  <2>1. EngineTypes'
    BY <1>1, EngineAssumption DEF Connect, EngineTypes, EngineAssumption
  <2> QED
    BY <1>1, <2>1, Unmoved DEF Connect, VariableTypes, NoteTypes, CbTypes
<1>2. ASSUME NEW c \in Callers, AddBegin(c) PROVE Types'
  <2>1. PICK a \in Addrs :
          /\ live' = live \union {a}
          /\ call' = [call EXCEPT ![c] = [Idle EXCEPT !.pc = "notify", !.addr = a]]
    BY <1>2 DEF AddBegin
  <2>2. CallTypes'
    BY <2>1 DEF CallTypes, Locals, Steps, Idle
  <2>3. call'[c].pc = "notify" /\ call'[c].addr = a
    BY <2>1 DEF CallTypes, Idle
  <2>4. \A d \in Callers : d # c => call'[d] = call[d]
    BY <2>1 DEF CallTypes
  <2>5. AddTypes'
    BY <2>3, <2>4 DEF AddTypes, At
  <2>6. EngineTypes' /\ VariableTypes' /\ NoteTypes' /\ CbTypes'
    BY <1>2, <2>1 DEF AddBegin, router, EngineTypes, VariableTypes, NoteTypes, CbTypes
  <2> QED BY <2>2, <2>5, <2>6
<1>3. ASSUME NEW c \in Callers, AddFail(c) PROVE Types'
  <2>1. EngineTypes' /\ VariableTypes' /\ NoteTypes' /\ CbTypes'
    BY <1>3 DEF AddFail, router, EngineTypes, VariableTypes, NoteTypes, CbTypes
  <2> QED BY <1>3, <2>1, ReturnMove DEF AddFail
<1>4. ASSUME NEW c \in Callers, AddNotification(c) PROVE Types'
  <2>1. PICK n \in Notes :
          /\ notes' = [x \in DOMAIN notes \union {n} |->
               IF x = n THEN [port |-> ads_port, user |-> User(call[c].addr)] ELSE notes[x]]
          /\ call' = [call EXCEPT ![c].pc = "insert", ![c].note = n]
    BY <1>4 DEF AddNotification
  <2>2. CallTypes'
    BY <2>1 DEF CallTypes, Locals, Steps
  <2>3. call'[c].pc = "insert" /\ call'[c].addr = call[c].addr /\ call'[c].note = n
    BY <2>1 DEF CallTypes, Locals
  <2>4. \A d \in Callers : d # c => call'[d] = call[d]
    BY <2>1 DEF CallTypes
  <2>5. call[c].addr \in Addrs
    BY <1>4 DEF AddNotification, AddTypes
  <2>6. AddTypes'
    BY <2>3, <2>4, <2>5 DEF AddTypes, At
  <2>7. User(call[c].addr) \in 0 .. UserRange - 1 /\ ads_port \in 1 .. MaxPorts
    BY <1>4, <2>5, EngineAssumption
    DEF AddNotification, PortOpen, User, EngineTypes, EngineAssumption
  <2>8. NoteTypes'
    BY <2>1, <2>7 DEF NoteTypes
  <2>9. EngineTypes' /\ VariableTypes' /\ CbTypes'
    BY <1>4 DEF AddNotification, EngineTypes, VariableTypes, CbTypes
  <2> QED BY <2>2, <2>6, <2>8, <2>9
<1>5. ASSUME NEW c \in Callers, AddInsert(c) PROVE Types'
  <2>1. call[c].note \in Notes /\ call[c].addr \in Addrs
    BY <1>5 DEF AddInsert, AddTypes
  <2>2. VariableTypes'
    BY <1>5, <2>1 DEF AddInsert, VariableTypes
  <2>3. EngineTypes' /\ NoteTypes' /\ CbTypes'
    BY <1>5 DEF AddInsert, router, EngineTypes, NoteTypes, CbTypes
  <2> QED BY <1>5, <2>2, <2>3, ReturnMove DEF AddInsert
<1>6. ASSUME NEW c \in Callers, Start(c) PROVE Types'
  <2>1. EngineTypes' /\ VariableTypes' /\ NoteTypes' /\ CbTypes'
    BY <1>6 DEF Start, router, EngineTypes, VariableTypes, NoteTypes, CbTypes
  <2> QED BY <1>6, <2>1, Unmoved DEF Start
<1>7. ASSUME NEW c \in Callers, StopBegin(c) \/ DestroyBegin(c) PROVE Types'
  <2>1. EngineTypes' /\ VariableTypes' /\ NoteTypes' /\ CbTypes'
    BY <1>7 DEF StopBegin, DestroyBegin, router, EngineTypes, VariableTypes, NoteTypes, CbTypes
  <2>2. \/ UNCHANGED call
        \/ \E step \in {"lock", "destroy_lock", "close"} : call' = [call EXCEPT ![c].pc = step]
    BY <1>7 DEF StopBegin, DestroyBegin, Goto
  <2> QED BY <2>1, <2>2, Unmoved, LocalsMove DEF Steps
<1>8. ASSUME NEW c \in Callers, StopLock(c) PROVE Types'
  <2>1. DOMAIN variables \subseteq Notes
    BY DEF VariableTypes
  <2>2. EngineTypes' /\ VariableTypes' /\ NoteTypes' /\ CbTypes'
    BY <1>8, <2>1
    DEF StopLock, ToVisit, router, EngineTypes, VariableTypes, NoteTypes, CbTypes
  <2>3. \E step \in {"delete", "destroy_delete"} : call' = [call EXCEPT ![c].pc = step]
    BY <1>8 DEF StopLock, Goto
  <2> QED BY <2>2, <2>3, LocalsMove DEF Steps
<1>9. ASSUME NEW c \in Callers, StopDel(c) PROVE Types'
  <2>1. NoteTypes'
    BY <1>9 DEF StopDel, NoteTypes, Without, Restrict
  <2>2. EngineTypes' /\ VariableTypes' /\ CbTypes'
    BY <1>9 DEF StopDel, EngineTypes, VariableTypes, CbTypes
  <2> QED BY <1>9, <2>1, <2>2, Unmoved DEF StopDel
<1>10. ASSUME NEW c \in Callers, StopClear(c) \/ DestroyFree(c) PROVE Types'
  <2>1. EngineTypes' /\ NoteTypes' /\ CbTypes'
    BY <1>10 DEF StopClear, DestroyFree, router, EngineTypes, NoteTypes, CbTypes
  <2>2. VariableTypes'
    BY <1>10 DEF StopClear, DestroyFree, Empty, VariableTypes
  <2>3. Return(c) \/ call' = [call EXCEPT ![c].pc = "close"]
    BY <1>10 DEF StopClear, DestroyFree, Goto
  <2> QED BY <2>1, <2>2, <2>3, ReturnMove, LocalsMove DEF Steps
<1>11. ASSUME NEW c \in Callers, DestroyClose(c) PROVE Types'
  <2>1. EngineTypes'
    BY <1>11, EngineAssumption DEF DestroyClose, EngineTypes, EngineAssumption
  <2>2. VariableTypes' /\ CbTypes'
    BY <1>11 DEF DestroyClose, VariableTypes, CbTypes
  <2>3. NoteTypes'
    BY <1>11 DEF DestroyClose, NoteTypes, Without, Restrict
  <2> QED BY <1>11, <2>1, <2>2, <2>3, LocalsMove DEF DestroyClose, Goto, Steps
<1>12. CASE CbNext
  <2>1. CbTypes'
    BY <1>12, EngineAssumption
    DEF CbNext, CbEnter, CbCall, CbReturn, NoCb, CbTypes, NoteTypes, EngineAssumption
  <2>2. UNCHANGED <<engineState, router>>
    BY <1>12 DEF CbNext, CbEnter, CbCall, CbReturn
  <2> QED
    BY <2>1, <2>2, Unmoved DEF engineState, router, EngineTypes, VariableTypes, NoteTypes
<1>13. CASE UNCHANGED vars
  BY <1>13, Unmoved
  DEF vars, engineState, router, EngineTypes, VariableTypes, NoteTypes, CbTypes
<1> QED
  BY <1>1, <1>2, <1>3, <1>4, <1>5, <1>6, <1>7, <1>8, <1>9, <1>10, <1>11, <1>12, <1>13
  DEF Next, CallBegins, CallSteps

\* Everything keeps its type, whatever the router does and in whatever order
\* the engine's functions are called.
THEOREM EngineTypeCorrect == Spec => []TypeOK
  BY InitTypes, NextTypes, TypesSuffice, PTL DEF Spec

-----------------------------------------------------------------------------
\* What the engine relies on: a delete request succeeds and waits for the
\* running callback, connect() is called while no port is open, and addresses
\* fit into hUser.
Environment ==
  /\ DelDrains = TRUE /\ DelMayFail = FALSE /\ Reconnects = FALSE
  /\ \A a \in Addrs : a < UserRange

Adding(c) == At(c, "notify") \/ At(c, "insert")

\* The variables whose notification has not been deleted.
Registered == IF mutex = {} THEN DOMAIN variables ELSE todo

\* The mutex belongs to the caller that is deleting.
Holder ==
  /\ \A c \in Callers : c \in mutex <=> Stopping(c)
  /\ \A c, d \in mutex : c = d
  /\ todo \subseteq DOMAIN variables
  /\ mutex = {} => todo = {}

\* The destructor is alone.
LifeCycle ==
  /\ phase = "alive" =>
       \A c \in Callers : call[c].pc \notin {"destroy_lock", "destroy_delete", "close", "free"}
  /\ phase = "dying" =>
       \E c \in Callers :
         /\ call[c].pc \in {"destroy_lock", "destroy_delete", "close", "free"}
         /\ \A d \in Callers : d # c => call[d] = Idle
  /\ phase = "dead" => live = {} /\ \A c \in Callers : call[c] = Idle

\* Each VariableHandle has one owner, an add_variable() or the map.
Owners ==
  /\ \A c \in Callers : Adding(c) => call[c].addr \in live
  /\ \A c, d \in Callers : Adding(c) /\ Adding(d) /\ c # d => call[c].addr # call[d].addr
  /\ \A n \in DOMAIN variables : variables[n] \in live
  /\ \A c \in Callers, n \in DOMAIN variables : Adding(c) => call[c].addr # variables[n]
  /\ \A a \in live :
       \/ \E n \in DOMAIN variables : variables[n] = a
       \/ \E c \in Callers : Adding(c) /\ call[c].addr = a

\* Each notification at the router leads to a registered variable or to one
\* that add_variable() is about to insert, and those have theirs.
Routed ==
  /\ \A n \in DOMAIN notes : notes[n].port = ads_port
  /\ \A n \in DOMAIN notes :
       n \in Registered \/ \E c \in Callers : At(c, "insert") /\ call[c].note = n
  /\ (\A c \in Callers : ~At(c, "free")) =>
       \A n \in Registered : n \in DOMAIN notes /\ notes[n].user = variables[n]
  /\ \A c \in Callers : At(c, "insert") =>
       /\ call[c].note \in DOMAIN notes /\ call[c].note \notin Registered
       /\ notes[call[c].note].user = call[c].addr
  /\ \A c, d \in Callers : At(c, "insert") /\ At(d, "insert") /\ c # d =>
       call[c].note # call[d].note
  /\ \A c \in Callers : At(c, "free") => DOMAIN notes = {}

\* A callback has the user value of its notification, or, when that was deleted
\* meanwhile, of a variable that is still in the map.
InCallback ==
  cb # NoCb =>
    \/ cb.note \in DOMAIN notes /\ notes[cb.note].user = cb.user
    \/ cb.note \notin DOMAIN notes /\ \E n \in DOMAIN variables : variables[n] = cb.user

Inv == Holder /\ LifeCycle /\ Owners /\ Routed /\ InCallback

\* The caller's own locals, and the others', after a step.
LEMMA Goes ==
  ASSUME CallTypes, NEW c \in Callers, NEW step, Goto(c, step)
  PROVE  /\ call'[c].pc = step /\ call'[c].addr = call[c].addr /\ call'[c].note = call[c].note
         /\ \A d \in Callers : d # c => call'[d] = call[d]
  BY DEF CallTypes, Locals, Goto

LEMMA Returned ==
  ASSUME CallTypes, NEW c \in Callers, Return(c)
  PROVE  /\ call'[c] = Idle /\ call'[c].pc = "idle"
         /\ \A d \in Callers : d # c => call'[d] = call[d]
  BY DEF CallTypes, Return, Idle

LEMMA InitInv == Init => Inv
<1> SUFFICES ASSUME Init PROVE Inv
  OBVIOUS
<1>1. DOMAIN variables = {} /\ DOMAIN notes = {} /\ mutex = {} /\ live = {} /\ todo = {}
  BY DEF Init, Empty
<1>2. \A c \in Callers : call[c].pc = "idle"
  BY DEF Init, Idle
<1>3. Holder
  BY <1>1, <1>2 DEF Holder, Stopping, At
<1>4. LifeCycle
  BY <1>2 DEF Init, LifeCycle
<1>5. Owners
  BY <1>1, <1>2 DEF Owners, Adding, At
<1>6. Routed
  BY <1>1, <1>2 DEF Routed, Registered, At
<1>7. InCallback
  BY DEF Init, InCallback
<1> QED BY <1>3, <1>4, <1>5, <1>6, <1>7 DEF Inv

\* What each action does to Inv, one lemma per action.
LEMMA ConnectSafe ==
  ASSUME Environment, Types, Inv, NEW c \in Callers, Connect(c)
  PROVE  Inv'
<1> USE DEF Types, Inv
<1>1. ads_port = 0
  BY DEF Connect, Environment
<1>2. DOMAIN notes = {}
  BY <1>1 DEF Routed, NoteTypes
<1>3. UNCHANGED <<variables, mutex, live, call, todo, phase, notes, cb>>
  BY DEF Connect
<1>4. Holder'
  BY <1>3 DEF Holder, Stopping, At
<1>5. LifeCycle'
  BY <1>3 DEF LifeCycle
<1>6. Owners'
  BY <1>3 DEF Owners, Adding, At
<1>7. Routed'
  BY <1>2, <1>3 DEF Routed, Registered, At
<1>8. InCallback'
  BY <1>3 DEF InCallback
<1> QED BY <1>4, <1>5, <1>6, <1>7, <1>8

LEMMA AddBeginSafe ==
  ASSUME Environment, Types, Inv, NEW c \in Callers, AddBegin(c)
  PROVE  Inv'
<1> USE DEF Types, Inv
<1>1. PICK a \in Addrs :
        /\ a \notin live /\ live' = live \union {a}
        /\ call' = [call EXCEPT ![c] = [Idle EXCEPT !.pc = "notify", !.addr = a]]
  BY DEF AddBegin
<1>2. /\ call'[c].pc = "notify" /\ call'[c].addr = a
      /\ \A d \in Callers : d # c => call'[d] = call[d]
  BY <1>1 DEF CallTypes, Idle
<1>3. call[c].pc = "idle" /\ phase = "alive"
  BY DEF AddBegin, Begin, Idle
<1>4. UNCHANGED <<ads_port, variables, mutex, todo, phase, notes, cb>>
  BY DEF AddBegin, router
<1>5. Holder'
  BY <1>2, <1>3, <1>4 DEF Holder, Stopping, At
<1>6. LifeCycle'
  BY <1>2, <1>3, <1>4 DEF LifeCycle
<1>7. Owners'
  BY <1>1, <1>2, <1>3, <1>4 DEF Owners, Adding, At
<1>8. Routed'
  BY <1>2, <1>3, <1>4 DEF Routed, Registered, At
<1>9. InCallback'
  BY <1>4 DEF InCallback
<1> QED BY <1>5, <1>6, <1>7, <1>8, <1>9

LEMMA AddFailSafe ==
  ASSUME Environment, Types, Inv, NEW c \in Callers, AddFail(c)
  PROVE  Inv'
<1> USE DEF Types, Inv
<1>1. call'[c].pc = "idle" /\ call'[c] = Idle /\ \A d \in Callers : d # c => call'[d] = call[d]
  BY Returned DEF AddFail
<1>2. call[c].pc = "notify" /\ live' = live \ {call[c].addr}
  BY DEF AddFail, At
<1>3. UNCHANGED <<ads_port, variables, mutex, todo, phase, notes, cb>>
  BY DEF AddFail, router
<1>4. Holder'
  BY <1>1, <1>2, <1>3 DEF Holder, Stopping, At
<1>5. LifeCycle'
  BY <1>1, <1>2, <1>3 DEF LifeCycle
<1>6. Owners'
  BY <1>1, <1>2, <1>3 DEF Owners, Adding, At
<1>7. Routed'
  BY <1>1, <1>2, <1>3 DEF Routed, Registered, At
<1>8. InCallback'
  BY <1>3 DEF InCallback
<1> QED BY <1>4, <1>5, <1>6, <1>7, <1>8

LEMMA AddNotificationSafe ==
  ASSUME Environment, Types, Inv, NEW c \in Callers, AddNotification(c)
  PROVE  Inv'
<1> USE DEF Types, Inv
<1>1. PICK n \in Notes :
        /\ n \notin DOMAIN notes /\ n # cb.note
        /\ notes' = [x \in DOMAIN notes \union {n} |->
             IF x = n THEN [port |-> ads_port, user |-> User(call[c].addr)] ELSE notes[x]]
        /\ call' = [call EXCEPT ![c].pc = "insert", ![c].note = n]
  BY DEF AddNotification
<1>2. /\ call'[c].pc = "insert" /\ call'[c].note = n /\ call'[c].addr = call[c].addr
      /\ \A d \in Callers : d # c => call'[d] = call[d]
  BY <1>1 DEF CallTypes, Locals
<1>3. call[c].pc = "notify"
  BY DEF AddNotification, At
<1>4. \A a \in Addrs : User(a) = a
  BY EngineAssumption DEF User, Environment, EngineAssumption
<1>5. call[c].addr \in Addrs
  BY <1>3 DEF AddTypes, At
<1>6. phase = "alive"
  BY <1>3 DEF LifeCycle, EngineTypes, Idle
<1>7. n \notin DOMAIN notes /\ n # cb.note
  BY <1>1
<1>8. /\ DOMAIN notes' = DOMAIN notes \union {n}
      /\ notes'[n].port = ads_port /\ notes'[n].user = call[c].addr
      /\ \A x \in DOMAIN notes : notes'[x] = notes[x]
  BY <1>1, <1>4, <1>5
<1>9. UNCHANGED <<ads_port, variables, mutex, live, todo, phase, cb>>
  BY DEF AddNotification
<1>10. Holder'
  BY <1>2, <1>3, <1>9 DEF Holder, Stopping, At
<1>11. LifeCycle'
  BY <1>2, <1>6, <1>9 DEF LifeCycle
<1>12. Owners'
  BY <1>2, <1>3, <1>9 DEF Owners, Adding, At
<1>13. Routed'
  <2>1. Registered' = Registered /\ \A d \in Callers : ~At(d, "free")
    BY <1>6, <1>9 DEF Registered, LifeCycle, At
  <2>2. n \notin Registered
    BY <1>7, <2>1 DEF Routed
  <2>3. \A d \in Callers : At(d, "insert")' => d = c \/ (At(d, "insert") /\ call'[d] = call[d])
    BY <1>2 DEF At
  <2>4. \A d \in Callers : At(d, "insert") => At(d, "insert")' /\ call'[d] = call[d]
    BY <1>2, <1>3 DEF At
  <2>5. \A d \in Callers : At(d, "insert") => call[d].note # n
    BY <1>7 DEF Routed
  <2>6. \A x \in DOMAIN notes' :
          /\ notes'[x].port = ads_port'
          /\ x \in Registered' \/ \E d \in Callers : At(d, "insert")' /\ call'[d].note = x
    BY <1>2, <1>8, <1>9, <2>1, <2>4 DEF Routed, At
  <2>7. \A x \in Registered' : x \in DOMAIN notes' /\ notes'[x].user = variables'[x]
    BY <1>8, <1>9, <2>1, <2>2 DEF Routed
  <2>8. \A d \in Callers : At(d, "insert")' =>
          /\ call'[d].note \in DOMAIN notes' /\ call'[d].note \notin Registered'
          /\ notes'[call'[d].note].user = call'[d].addr
    BY <1>2, <1>8, <2>1, <2>2, <2>3 DEF Routed
  <2>9. \A d, e \in Callers : At(d, "insert")' /\ At(e, "insert")' /\ d # e =>
          call'[d].note # call'[e].note
    BY <1>2, <2>3, <2>5 DEF Routed
  <2>10. \A d \in Callers : ~At(d, "free")'
    BY <1>2, <2>1 DEF At
  <2> QED BY <2>6, <2>7, <2>8, <2>9, <2>10 DEF Routed
<1>14. InCallback'
  BY <1>7, <1>8, <1>9 DEF InCallback
<1> QED BY <1>10, <1>11, <1>12, <1>13, <1>14

LEMMA AddInsertSafe ==
  ASSUME Environment, Types, Inv, NEW c \in Callers, AddInsert(c)
  PROVE  Inv'
<1> USE DEF Types, Inv
<1>1. call'[c].pc = "idle" /\ call'[c] = Idle /\ \A d \in Callers : d # c => call'[d] = call[d]
  BY Returned DEF AddInsert
<1>2. call[c].pc = "insert" /\ mutex = {}
  BY DEF AddInsert, At, MutexFree
<1>3. call[c].note \notin DOMAIN variables
  BY <1>2 DEF Routed, Registered, At
<1>4. live' = live
  BY <1>3 DEF AddInsert
<1>5. /\ DOMAIN variables' = DOMAIN variables \union {call[c].note}
      /\ variables'[call[c].note] = call[c].addr
      /\ \A x \in DOMAIN variables : variables'[x] = variables[x]
  BY <1>3 DEF AddInsert
<1>6. UNCHANGED <<ads_port, mutex, todo, phase, notes, cb>>
  BY DEF AddInsert, router
<1>7. Holder'
  BY <1>1, <1>2, <1>6 DEF Holder, Stopping, At
<1>8. LifeCycle'
  BY <1>1, <1>2, <1>6 DEF LifeCycle
<1>9. Owners'
  BY <1>1, <1>2, <1>4, <1>5 DEF Owners, Adding, At
<1>10. Routed'
  BY <1>1, <1>2, <1>5, <1>6 DEF Routed, Registered, At
<1>11. InCallback'
  BY <1>5, <1>6 DEF InCallback
<1> QED BY <1>7, <1>8, <1>9, <1>10, <1>11

LEMMA StartSafe ==
  ASSUME Environment, Types, Inv, NEW c \in Callers, Start(c)
  PROVE  Inv'
<1> USE DEF Types, Inv
<1>1. UNCHANGED <<ads_port, variables, mutex, live, call, todo, phase, notes, cb>>
  BY DEF Start, router
<1>2. Holder'
  BY <1>1 DEF Holder, Stopping, At
<1>3. LifeCycle'
  BY <1>1 DEF LifeCycle
<1>4. Owners'
  BY <1>1 DEF Owners, Adding, At
<1>5. Routed'
  BY <1>1 DEF Routed, Registered, At
<1>6. InCallback'
  BY <1>1 DEF InCallback
<1> QED BY <1>2, <1>3, <1>4, <1>5, <1>6

LEMMA StopBeginSafe ==
  ASSUME Environment, Types, Inv, NEW c \in Callers, StopBegin(c)
  PROVE  Inv'
<1> USE DEF Types, Inv
<1>1. call[c].pc = "idle" /\ phase = "alive"
  BY DEF StopBegin, Begin, Idle
<1>2. call' = call \/ (call'[c].pc = "lock" /\ \A d \in Callers : d # c => call'[d] = call[d])
  BY Goes DEF StopBegin
<1>3. UNCHANGED <<ads_port, variables, mutex, live, todo, phase, notes, cb>>
  BY DEF StopBegin, router
<1>4. Holder'
  BY <1>1, <1>2, <1>3 DEF Holder, Stopping, At
<1>5. LifeCycle'
  BY <1>1, <1>2, <1>3 DEF LifeCycle
<1>6. Owners'
  BY <1>1, <1>2, <1>3 DEF Owners, Adding, At
<1>7. Routed'
  BY <1>1, <1>2, <1>3 DEF Routed, Registered, At
<1>8. InCallback'
  BY <1>3 DEF InCallback
<1> QED BY <1>4, <1>5, <1>6, <1>7, <1>8

LEMMA DestroyBeginSafe ==
  ASSUME Environment, Types, Inv, NEW c \in Callers, DestroyBegin(c)
  PROVE  Inv'
<1> USE DEF Types, Inv
<1>1. \A d \in Callers : call[d] = Idle /\ call[d].pc = "idle"
  BY DEF DestroyBegin, Begin, Idle
<1>2. /\ call'[c].pc \in {"destroy_lock", "close"}
      /\ \A d \in Callers : d # c => call'[d] = call[d]
  BY Goes DEF DestroyBegin
<1>3. phase' = "dying"
  BY DEF DestroyBegin
<1>4. UNCHANGED <<ads_port, variables, mutex, live, todo, notes, cb>>
  BY DEF DestroyBegin, router
<1>5. Holder'
  BY <1>1, <1>2, <1>4 DEF Holder, Stopping, At
<1>6. LifeCycle'
  BY <1>1, <1>2, <1>3 DEF LifeCycle
<1>7. Owners'
  BY <1>1, <1>2, <1>4 DEF Owners, Adding, At
<1>8. Routed'
  BY <1>1, <1>2, <1>4 DEF Routed, Registered, At
<1>9. InCallback'
  BY <1>4 DEF InCallback
<1> QED BY <1>5, <1>6, <1>7, <1>8, <1>9

LEMMA StopLockSafe ==
  ASSUME Environment, Types, Inv, NEW c \in Callers, StopLock(c)
  PROVE  Inv'
<1> USE DEF Types, Inv
<1>1. mutex = {} /\ mutex' = {c} /\ todo' = DOMAIN variables
  BY DEF StopLock, MutexFree, ToVisit
<1>2. PICK to \in {"delete", "destroy_delete"} :
        /\ Goto(c, to)
        /\ call[c].pc = IF to = "delete" THEN "lock" ELSE "destroy_lock"
  BY DEF StopLock, At
<1>3. call'[c].pc = to /\ \A d \in Callers : d # c => call'[d] = call[d]
  BY <1>2, Goes
<1>4. UNCHANGED <<ads_port, variables, live, phase, notes, cb>>
  BY DEF StopLock, router
<1>5. Holder'
  BY <1>1, <1>3, <1>4 DEF Holder, Stopping, At
<1>6. LifeCycle'
  BY <1>2, <1>3, <1>4 DEF LifeCycle, Idle
<1>7. Owners'
  BY <1>2, <1>3, <1>4 DEF Owners, Adding, At
<1>8. Routed'
  BY <1>1, <1>2, <1>3, <1>4 DEF Routed, Registered, At
<1>9. InCallback'
  BY <1>4 DEF InCallback
<1> QED BY <1>5, <1>6, <1>7, <1>8, <1>9

LEMMA StopDelSafe ==
  ASSUME Environment, Types, Inv, NEW c \in Callers, StopDel(c)
  PROVE  Inv'
<1> USE DEF Types, Inv
<1>1. call[c].pc \in {"delete", "destroy_delete"} /\ c \in mutex
  BY DEF StopDel, Stopping, At, Holder
<1>2. \A d \in Callers : call[d].pc # "free"
  BY <1>1 DEF LifeCycle, Idle, EngineTypes
<1>3. PICK n \in todo :
        /\ todo' = todo \ {n}
        /\ \/ notes' = Without(notes, {n})
           \/ n \notin DOMAIN notes \/ notes[n].port # ads_port
  BY DEF StopDel, Environment
<1>4. n \in DOMAIN notes /\ notes[n].user = variables[n] /\ notes[n].port = ads_port
  BY <1>1, <1>2, <1>3 DEF Routed, Registered, At
<1>5. DOMAIN notes' = DOMAIN notes \ {n} /\ \A x \in DOMAIN notes \ {n} : notes'[x] = notes[x]
  BY <1>3, <1>4 DEF Without, Restrict
<1>6. \A d \in Callers : At(d, "insert") => call[d].note # n
  BY <1>1, <1>3 DEF Routed, Registered
<1>7. n \in DOMAIN variables /\ mutex # {} /\ mutex' # {}
  BY <1>1, <1>3 DEF Holder, StopDel
<1>8. UNCHANGED <<ads_port, variables, mutex, live, call, phase, cb>>
  BY DEF StopDel
<1>9. Holder'
  BY <1>3, <1>8 DEF Holder, Stopping, At
<1>10. LifeCycle'
  BY <1>8 DEF LifeCycle
<1>11. Owners'
  BY <1>8 DEF Owners, Adding, At
<1>12. Routed'
  BY <1>3, <1>5, <1>7, <1>8 DEF Routed, Registered, At
<1>13. InCallback'
  BY <1>4, <1>5, <1>7, <1>8 DEF InCallback
<1> QED BY <1>9, <1>10, <1>11, <1>12, <1>13

LEMMA StopClearSafe ==
  ASSUME Environment, Types, Inv, NEW c \in Callers, StopClear(c)
  PROVE  Inv'
<1> USE DEF Types, Inv
<1>1. call[c].pc \in {"delete", "destroy_delete"} /\ c \in mutex /\ todo = {}
  BY DEF StopClear, Stopping, At, Holder
<1>2. /\ mutex' = {} /\ DOMAIN variables' = {}
      /\ live' = live \ {variables[x] : x \in DOMAIN variables}
  BY DEF StopClear, Empty, Range
<1>3. \/ call[c].pc = "delete" /\ call'[c] = Idle /\ call'[c].pc = "idle"
      \/ call[c].pc = "destroy_delete" /\ call'[c].pc = "close"
  BY <1>1, Goes, Returned DEF StopClear, At
<1>4. \A d \in Callers : d # c => call'[d] = call[d]
  BY Goes, Returned DEF StopClear
<1>5. cb # NoCb => cb.note \in DOMAIN notes
  BY DEF StopClear, Drained, Environment
<1>6. UNCHANGED <<ads_port, todo, phase, notes, cb>>
  BY DEF StopClear, router
<1>7. Holder'
  BY <1>1, <1>2, <1>3, <1>4, <1>6 DEF Holder, Stopping, At
<1>8. LifeCycle'
  BY <1>3, <1>4, <1>6 DEF LifeCycle, Idle
<1>9. Owners'
  BY <1>2, <1>3, <1>4 DEF Owners, Adding, At
<1>10. Routed'
  BY <1>1, <1>2, <1>3, <1>4, <1>6 DEF Routed, Registered, At
<1>11. InCallback'
  <2>1. cb # NoCb => cb.note \in DOMAIN notes /\ notes[cb.note].user = cb.user
    BY <1>5 DEF InCallback
  <2> QED BY <2>1, <1>6 DEF InCallback, NoCb
<1> QED BY <1>7, <1>8, <1>9, <1>10, <1>11

LEMMA DestroyCloseSafe ==
  ASSUME Environment, Types, Inv, NEW c \in Callers, DestroyClose(c)
  PROVE  Inv'
<1> USE DEF Types, Inv
<1>1. call[c].pc = "close" /\ call'[c].pc = "free"
  BY Goes DEF DestroyClose, At
<1>2. \A d \in Callers : d # c => call'[d] = call[d]
  BY Goes DEF DestroyClose
<1>3. phase = "dying" /\ \A d \in Callers : d # c => call[d] = Idle /\ call[d].pc = "idle"
  BY <1>1 DEF LifeCycle, Idle, EngineTypes
<1>4. mutex = {}
  BY <1>1, <1>3 DEF Holder, Stopping, At, EngineTypes
<1>5. DOMAIN notes' = {}
  BY DEF DestroyClose, Routed, PortNotes, Without, Restrict
<1>6. \A n \in DOMAIN notes : n \in DOMAIN variables /\ notes[n].user = variables[n]
  BY <1>1, <1>3, <1>4 DEF Routed, Registered, At
<1>7. UNCHANGED <<variables, mutex, live, todo, phase, cb>>
  BY DEF DestroyClose
<1>8. Holder'
  BY <1>1, <1>2, <1>7 DEF Holder, Stopping, At
<1>9. LifeCycle'
  BY <1>1, <1>2, <1>3, <1>7 DEF LifeCycle
<1>10. Owners'
  BY <1>1, <1>2, <1>7 DEF Owners, Adding, At
<1>11. Routed'
  BY <1>1, <1>2, <1>4, <1>5, <1>6 DEF Routed, Registered, At
<1>12. InCallback'
  BY <1>5, <1>6, <1>7 DEF InCallback
<1> QED BY <1>8, <1>9, <1>10, <1>11, <1>12

LEMMA DestroyFreeSafe ==
  ASSUME Environment, Types, Inv, NEW c \in Callers, DestroyFree(c)
  PROVE  Inv'
<1> USE DEF Types, Inv
<1>1. call[c].pc = "free" /\ call'[c] = Idle /\ call'[c].pc = "idle"
  BY Returned DEF DestroyFree, At
<1>2. \A d \in Callers : d # c => call'[d] = call[d]
  BY Returned DEF DestroyFree
<1>3. phase = "dying" /\ \A d \in Callers : d # c => call[d] = Idle /\ call[d].pc = "idle"
  BY <1>1 DEF LifeCycle, Idle, EngineTypes
<1>4. DOMAIN notes = {} /\ cb = NoCb
  BY <1>1 DEF Routed, At, DestroyFree, Drained, Environment
<1>5. /\ phase' = "dead" /\ DOMAIN variables' = {}
      /\ live' = live \ {variables[x] : x \in DOMAIN variables}
  BY DEF DestroyFree, Empty, Range
<1>6. live' = {}
  BY <1>1, <1>3, <1>5 DEF Owners, Adding, At
<1>7. mutex = {}
  BY <1>1, <1>3 DEF Holder, Stopping, At, EngineTypes
<1>8. UNCHANGED <<ads_port, mutex, todo, notes, cb>>
  BY DEF DestroyFree, router
<1>9. Holder'
  BY <1>1, <1>2, <1>7, <1>8 DEF Holder, Stopping, At
<1>10. LifeCycle'
  BY <1>1, <1>2, <1>3, <1>5, <1>6 DEF LifeCycle
<1>11. Owners'
  BY <1>1, <1>2, <1>5 DEF Owners, Adding, At
<1>12. Routed'
  BY <1>1, <1>2, <1>5, <1>7, <1>8 DEF Routed, Registered, At
<1>13. InCallback'
  BY <1>4, <1>8 DEF InCallback
<1> QED BY <1>9, <1>10, <1>11, <1>12, <1>13

LEMMA CallbackSafe ==
  ASSUME Environment, Types, Inv, CbNext
  PROVE  Inv'
<1> USE DEF Types, Inv
<1>1. UNCHANGED <<ads_port, variables, mutex, live, call, todo, phase, notes>>
  BY DEF CbNext, CbEnter, CbCall, CbReturn, engineState, router
<1>2. Holder'
  BY <1>1 DEF Holder, Stopping, At
<1>3. LifeCycle'
  BY <1>1 DEF LifeCycle
<1>4. Owners'
  BY <1>1 DEF Owners, Adding, At
<1>5. Routed'
  BY <1>1 DEF Routed, Registered, At
<1>6. InCallback'
  <2>1. CASE CbEnter
    BY <1>1, <2>1 DEF CbEnter, InCallback
  <2>2. CASE CbCall
    BY <1>1, <2>2 DEF CbCall, InCallback, CbTypes, NoCb
  <2>3. CASE CbReturn
    BY <2>3 DEF CbReturn, InCallback
  <2> QED BY <2>1, <2>2, <2>3 DEF CbNext
<1> QED BY <1>2, <1>3, <1>4, <1>5, <1>6

\* Inv is inductive.
LEMMA NextSafe ==
  ASSUME Environment, Types, Inv, [Next]_vars
  PROVE  Inv'
<1>1. CASE UNCHANGED vars
  <2>1. Holder' /\ LifeCycle' /\ Owners'
    BY <1>1 DEF vars, engineState, Inv, Holder, Stopping, At, LifeCycle, Owners, Adding
  <2>2. Routed' /\ InCallback'
    BY <1>1 DEF vars, engineState, router, Inv, Routed, Registered, At, InCallback, NoCb
  <2> QED BY <2>1, <2>2 DEF Inv
<1>2. ASSUME NEW c \in Callers, CallBegins(c) PROVE Inv'
  BY <1>2, ConnectSafe, AddBeginSafe, StartSafe, StopBeginSafe, DestroyBeginSafe DEF CallBegins
<1>3. ASSUME NEW c \in Callers, CallSteps(c) PROVE Inv'
  BY <1>3, AddFailSafe, AddNotificationSafe, AddInsertSafe, StopLockSafe, StopDelSafe,
     StopClearSafe, DestroyCloseSafe, DestroyFreeSafe DEF CallSteps
<1> QED BY <1>1, <1>2, <1>3, CallbackSafe DEF Next

LEMMA AlwaysSafe ==
  ASSUME Environment
  PROVE  Spec => [](Types /\ Inv)
  BY InitTypes, NextTypes, InitInv, NextSafe, PTL DEF Spec

-----------------------------------------------------------------------------
\* No callback dereferences a VariableHandle that does not exist, and no active
\* notification points to one, for any number of threads that call the engine
\* in any order while the router calls back.
THEOREM CallbacksAreSafe ==
  ASSUME Environment
  PROVE  Spec => []CallbackTargetsLive
<1>1. Types /\ Inv => CallbackTargetsLive
  <2> SUFFICES ASSUME Types, Inv PROVE CallbackTargetsLive
    OBVIOUS
  <2>1. \A c \in Callers : ~At(c, "free") \/ DOMAIN notes = {}
    BY DEF Inv, Routed
  <2>2. \A n \in Registered : n \in DOMAIN variables /\ variables[n] \in live
    BY DEF Inv, Holder, Owners, Registered
  <2>3. \A n \in DOMAIN notes : notes[n].user \in live
    BY <2>1, <2>2 DEF Inv, Routed, Owners, Adding
  <2>4. cb # NoCb => cb.user \in live
    BY <2>3 DEF Inv, InCallback, Owners
  <2> QED BY <2>3, <2>4 DEF CallbackTargetsLive
<1> QED BY <1>1, AlwaysSafe, PTL

\* A destroyed engine leaves nothing behind.
THEOREM DestructionIsClean ==
  ASSUME Environment
  PROVE  Spec => []DestroyedIsQuiet
<1>1. Types /\ Inv => DestroyedIsQuiet
  <2> SUFFICES ASSUME Types, Inv, phase = "dead"
               PROVE  live = {} /\ DOMAIN notes = {} /\ cb = NoCb
    BY DEF DestroyedIsQuiet
  <2>1. live = {} /\ \A c \in Callers : call[c] = Idle /\ call[c].pc = "idle"
    BY DEF Inv, LifeCycle, Idle
  <2>2. DOMAIN variables = {}
    BY <2>1 DEF Inv, Owners
  <2>3. DOMAIN notes = {}
    BY <2>1, <2>2 DEF Inv, Routed, Registered, Holder, At
  <2>4. cb = NoCb
    BY <2>2, <2>3 DEF Inv, InCallback
  <2> QED BY <2>1, <2>3, <2>4
<1> QED BY <1>1, AlwaysSafe, PTL

\* While no stop() holds the mutex the user value of each registered variable
\* leads the callback to that variable.
THEOREM CallbacksFindTheirVariable ==
  ASSUME Environment
  PROVE  Spec => []CallbackReachesVariable
<1>1. Types /\ Inv => CallbackReachesVariable
  BY DEF Inv, Routed, Registered, CallbackReachesVariable
<1> QED BY <1>1, AlwaysSafe, PTL

\* add_variable() never takes the place of a registered variable in the map,
\* although the router gives out handles again.
THEOREM VariablesAreNotReplaced ==
  ASSUME Environment
  PROVE  Spec => NeverReplaced
<1> DEFINE Kept == \A n \in DOMAIN variables \cap DOMAIN variables' :
                     variables'[n] = variables[n]
<1>1. Types /\ Inv /\ [Next]_vars => [Kept]_variables
  <2> SUFFICES ASSUME Types, Inv, [Next]_vars, variables' # variables PROVE Kept
    OBVIOUS
  <2>1. ASSUME NEW c \in Callers, AddInsert(c) PROVE Kept
    <3>1. call[c].note \notin DOMAIN variables
      BY <2>1 DEF AddInsert, MutexFree, Inv, Routed, Registered
    <3> QED BY <2>1, <3>1 DEF AddInsert
  <2>2. ASSUME NEW c \in Callers, StopClear(c) \/ DestroyFree(c) PROVE Kept
    BY <2>2 DEF StopClear, DestroyFree, Empty
  <2>3. ASSUME NEW c \in Callers, CallBegins(c) PROVE FALSE
    BY <2>3 DEF CallBegins, Connect, AddBegin, Start, StopBegin, DestroyBegin
  <2>4. ASSUME NEW c \in Callers,
               AddFail(c) \/ AddNotification(c) \/ StopLock(c) \/ StopDel(c) \/ DestroyClose(c)
        PROVE  FALSE
    BY <2>4 DEF AddFail, AddNotification, StopLock, StopDel, DestroyClose
  <2>5. CASE CbNext
    BY <2>5 DEF CbNext, CbEnter, CbCall, CbReturn, engineState
  <2>6. CASE UNCHANGED vars
    BY <2>6 DEF vars, engineState
  <2> QED BY <2>1, <2>2, <2>3, <2>4, <2>5, <2>6 DEF Next, CallSteps
<1> QED BY <1>1, AlwaysSafe, PTL DEF Spec, NeverReplaced

\* What stop() leaves at the router belongs to an add_variable() that has not
\* reached the map yet.
THEOREM StopMissesOnlyNew ==
  ASSUME Environment
  PROVE  Spec => StopLeavesOnlyNew
<1> DEFINE OnlyNew == \A c \in Callers : StopClear(c) =>
              \A n \in DOMAIN notes' : \E d \in Callers : At(d, "insert") /\ call[d].note = n
<1>1. Types /\ Inv /\ [Next]_vars => [OnlyNew]_vars
  <2> SUFFICES ASSUME Types, Inv, NEW c \in Callers, StopClear(c), NEW n \in DOMAIN notes'
               PROVE  \E d \in Callers : At(d, "insert") /\ call[d].note = n
    OBVIOUS
  <2>1. notes' = notes /\ todo = {}
    BY DEF StopClear, router
  <2>2. mutex # {}
    BY DEF StopClear, Inv, Holder
  <2> QED BY <2>1, <2>2 DEF Inv, Routed, Registered
<1> QED BY <1>1, AlwaysSafe, PTL DEF Spec, StopLeavesOnlyNew
================================================================================
