---------------------------- MODULE BridgeProofs ----------------------------
(***************************************************************************)
(* Theorems about Bridge: the engine, the publisher, main and the monitor  *)
(* thread together, for any addresses, notification handles and samples.   *)
(***************************************************************************)
EXTENDS Bridge, SequenceTheorems, TLAPS

\* What the engine relies on, see AdsRealtimeEngine.
RouterAndHeap ==
  /\ DelDrains = TRUE
  /\ Addrs \subseteq Nat \ {0} /\ UserRange \in Nat
  /\ \A a \in Addrs : a < UserRange

Before == {"engine_connect", "mqtt_connect", "mqtt_wait", "add"}
Open == {"add", "start", "spawn", "loop", "stop", "disconnect"}
After == {"join", "destroy_mqtt", "free_mqtt", "destroy_engine", "exit", "done"}

\* Nothing is notified and no callback runs.
Quiet == DOMAIN notes = {} /\ cb = Engine!NoCb
In(step) == call["main"].pc = step

Steps == {"idle", "notify", "insert", "lock", "delete",
          "destroy_lock", "destroy_delete", "close", "free"}
Shapes ==
  /\ call \in [{"main"} -> [pc : Steps, addr : Addrs \union {0}, note : Notes \union {0}]]
  /\ cb \in [pc : {"idle", "entered", "in_callback"}, note : Notes \union {0}, user : Addrs \union {0}]
  /\ DOMAIN notes \subseteq Notes
  /\ pub = [p \in {"cb"} |-> pub["cb"]]

\* Where main is, where the engine is: notifications come with the variable of
\* add_variable() and go with stop(), which main waits for.
Stages ==
  /\ main \in Before \/ platform # "windows" =>
       call["main"] = Engine!Idle /\ Quiet /\ DOMAIN variables = {}
  /\ main = "start" =>
       \/ call["main"] = Engine!Idle /\ DOMAIN notes \subseteq DOMAIN variables
       \/ In("notify") /\ Quiet /\ DOMAIN variables = {}
       \/ In("insert") /\ DOMAIN notes \subseteq {call["main"].note} /\ DOMAIN variables = {}
  /\ main \in {"spawn", "loop", "stop"} /\ platform = "windows" =>
       call["main"] = Engine!Idle /\ running /\ DOMAIN notes \subseteq DOMAIN variables
  /\ main = "disconnect" =>
       \/ call["main"] = Engine!Idle /\ Quiet
       \/ In("lock") /\ DOMAIN notes \subseteq DOMAIN variables
       \/ In("delete") /\ DOMAIN notes \subseteq todo
  /\ main \in After =>
       Quiet /\ call["main"].pc \in {"idle", "destroy_lock", "destroy_delete", "close", "free"}
  /\ main \in After \ {"exit", "done"} => call["main"] = Engine!Idle
  /\ main \in Before \union {"start", "spawn", "loop", "stop", "disconnect"} \union After
  /\ main \in {"engine_connect", "add", "start", "spawn", "stop", "destroy_engine", "exit"} =>
       platform = "windows"

\* Notifications and callbacks lead to VariableHandles that exist.
Targets ==
  /\ \A n \in DOMAIN notes :
       notes[n].port = ads_port /\ notes[n].user \in live /\ notes[n].user \in Addrs
  /\ cb # Engine!NoCb => cb.user \in live
  /\ In("notify") \/ In("insert") => call["main"].addr \in live \cap Addrs

\* The publisher is open from mqtt_wait to disconnect; the monitor thread lives
\* between spawn and join; publish() is called from within a callback.
Others ==
  /\ main \in Open => connected
  /\ main \in Before \union {"start", "spawn"} => monitor = "none"
  /\ main \in After \ {"join"} => monitor \in {"none", "done"}
  /\ pub["cb"] # Mqtt!None => cb.pc = "in_callback"

BridgeInv == Shapes /\ Stages /\ Targets /\ Others

-----------------------------------------------------------------------------
LEMMA InvAtFirst ==
  ASSUME Init PROVE BridgeInv
<1>1. call["main"] = Engine!Idle /\ Quiet /\ DOMAIN variables = {} /\ DOMAIN notes = {}
  BY DEF Init, Engine!Init, Engine!Idle, Engine!Empty, Quiet
<1>2. Shapes
  BY <1>1 DEF Init, Engine!Init, Mqtt!Init, Shapes, Steps, Engine!Idle, Engine!NoCb
<1>3. Stages
  BY <1>1 DEF Init, Stages, Before, After
<1>4. Targets
  BY <1>1 DEF Targets, Quiet, In, Engine!Idle
<1>5. Others
  BY DEF Init, Mqtt!Init, Others, Open, Before, After
<1> QED BY <1>2, <1>3, <1>4, <1>5 DEF BridgeInv

\* Steps of main that leave the engine alone.
LEMMA PublisherCalls ==
  ASSUME BridgeInv, MqttConnect \/ MqttConnected \/ DisconnectMqtt \/ DestroyMqtt
  PROVE  BridgeInv'
<1> USE DEF BridgeInv
<1>1. UNCHANGED <<engineVars, pub, platform, g_running, monitor, printed, sample>>
  BY DEF MqttConnect, MqttConnected, DisconnectMqtt, DestroyMqtt, ToAfterMqtt,
         Mqtt!ConnectBegin, Mqtt!ConnectStore, Mqtt!ConnectFail, Mqtt!DisconnectBegin
<1>2. \/ main = "mqtt_connect" /\ main' = "mqtt_wait"
      \/ main = "mqtt_wait" /\ main' = (IF platform = "windows" THEN "add" ELSE "loop") /\ connected'
      \/ main = "mqtt_wait" /\ main' = "destroy_mqtt"
      \/ main = "disconnect" /\ main' = "join" /\ call["main"] = Engine!Idle
      \/ main = "destroy_mqtt" /\ main' = "free_mqtt"
  BY DEF MqttConnect, MqttConnected, DisconnectMqtt, DestroyMqtt, ToAfterMqtt, Mqtt!ConnectStore
<1>3. Shapes'
  BY <1>1 DEF Shapes, engineVars
<1>4. Stages'
  BY <1>1, <1>2 DEF Stages, engineVars, Before, After, Quiet, In, Engine!Idle, Engine!NoCb
<1>5. Targets'
  BY <1>1 DEF Targets, engineVars, In
<1>6. Others'
  BY <1>1, <1>2 DEF Others, engineVars, Before, Open, After, Mqtt!None
<1> QED BY <1>3, <1>4, <1>5, <1>6

LEMMA OwnSteps ==
  ASSUME BridgeInv,
         SpawnMonitor \/ LeaveLoop \/ JoinMonitor \/ FreeMqtt \/ Exit
  PROVE  BridgeInv'
<1> USE DEF BridgeInv
<1>1. UNCHANGED <<engineVars, mqttVars, platform>>
  BY DEF SpawnMonitor, LeaveLoop, JoinMonitor, FreeMqtt, Exit, To, ToAfterEngine
<1>2. \/ main = "spawn" /\ main' = "loop"
      \/ /\ main = "loop" /\ UNCHANGED monitor
         /\ main' = IF platform = "windows" THEN "stop" ELSE "disconnect"
      \/ main = "join" /\ main' = "destroy_mqtt" /\ monitor' \in {"none", "done"}
      \/ /\ main = "free_mqtt" /\ UNCHANGED monitor
         /\ main' = IF platform = "windows" THEN "destroy_engine" ELSE "done"
      \/ main = "exit" /\ main' = "done" /\ UNCHANGED monitor
  BY DEF SpawnMonitor, LeaveLoop, JoinMonitor, FreeMqtt, Exit, To, ToAfterEngine
<1>3. Shapes'
  BY <1>1 DEF Shapes, engineVars, mqttVars
<1>4. Stages'
  BY <1>1, <1>2 DEF Stages, engineVars, Before, After, Quiet, In, Engine!Idle, Engine!NoCb
<1>5. Targets'
  BY <1>1 DEF Targets, engineVars, In
<1>6. Others'
  BY <1>1, <1>2 DEF Others, engineVars, mqttVars, Before, Open, After, Mqtt!None
<1> QED BY <1>3, <1>4, <1>5, <1>6

\* The calls of main that begin in the engine.
LEMMA EngineCalls ==
  ASSUME RouterAndHeap, BridgeInv,
         EngineConnect \/ AddVariable \/ StartEngine \/ StopEngine \/ DestroyEngine
  PROVE  BridgeInv'
<1> USE DEF BridgeInv
<1>1. UNCHANGED <<mqttVars, platform, monitor, notes, cb, variables>>
  BY DEF EngineConnect, AddVariable, StartEngine, StopEngine, DestroyEngine, ToAfterEngine,
         Engine!Connect, Engine!AddBegin, Engine!Start, Engine!StopBegin, Engine!DestroyBegin,
         Engine!router
<1>2. CASE EngineConnect
  <2>1. main = "engine_connect" /\ main' \in {"destroy_engine", "mqtt_connect"} /\ UNCHANGED <<call, live>>
    BY <1>2 DEF EngineConnect, Engine!Connect, ToAfterEngine
  <2>2. Shapes'
    BY <1>1, <2>1 DEF Shapes, mqttVars, Steps
  <2>3. Stages'
    BY <1>1, <2>1 DEF Stages, Before, After, Quiet, Engine!Idle, Engine!NoCb
  <2>4. Targets'
    BY <1>1, <2>1 DEF Targets, Stages, Before, Quiet, In
  <2>5. Others'
    BY <1>1, <2>1 DEF Others, mqttVars, Before, Open, After, Mqtt!None
  <2> QED BY <2>2, <2>3, <2>4, <2>5
<1>3. CASE AddVariable
  <2>1. PICK a \in Addrs :
          /\ live' = live \union {a}
          /\ call' = [call EXCEPT !["main"] = [Engine!Idle EXCEPT !.pc = "notify", !.addr = a]]
    BY <1>3 DEF AddVariable, Engine!AddBegin
  <2>2. main = "add" /\ main' = "start" /\ UNCHANGED ads_port
    BY <1>3 DEF AddVariable, ToAfterEngine, Engine!AddBegin
  <2>3. call'["main"] = [pc |-> "notify", addr |-> a, note |-> 0]
    BY <2>1 DEF Shapes, Engine!Idle
  <2>4. Shapes'
    BY <1>1, <2>1 DEF Shapes, mqttVars, Engine!Idle, Steps
  <2>5. Stages'
    BY <1>1, <2>2, <2>3 DEF Stages, Before, After, Quiet, In, Engine!NoCb
  <2>6. Targets'
    BY <1>1, <2>1, <2>2, <2>3 DEF Targets, In, Engine!NoCb
  <2>7. Others'
    BY <1>1, <2>2 DEF Others, mqttVars, Before, Open, After, Mqtt!None
  <2> QED BY <2>4, <2>5, <2>6, <2>7
<1>4. CASE StartEngine
  <2>1. /\ main = "start" /\ main' = "spawn" /\ running' /\ call["main"] = Engine!Idle
        /\ UNCHANGED <<ads_port, live, call, todo>>
    BY <1>4 DEF StartEngine, ToAfterEngine, Engine!Start, Engine!Begin, Engine!Idle
  <2>2. Shapes'
    BY <1>1, <2>1 DEF Shapes, mqttVars, Steps
  <2>3. Stages'
    BY <1>1, <2>1 DEF Stages, Before, After, Quiet, In, Engine!Idle
  <2>4. Targets'
    BY <1>1, <2>1 DEF Targets, In, Engine!NoCb
  <2>5. Others'
    BY <1>1, <2>1 DEF Others, mqttVars, Before, Open, After, Mqtt!None
  <2> QED BY <2>2, <2>3, <2>4, <2>5
<1>5. CASE StopEngine
  <2>1. /\ main = "stop" /\ main' = "disconnect" /\ running
        /\ call' = [call EXCEPT !["main"].pc = "lock"]
        /\ UNCHANGED <<ads_port, live, todo>>
    BY <1>5 DEF StopEngine, ToAfterEngine, Engine!StopBegin, Engine!Goto, Stages
  <2>2. call'["main"].pc = "lock"
    BY <2>1 DEF Shapes
  <2>3. Shapes'
    BY <1>1, <2>1 DEF Shapes, mqttVars, Steps
  <2>4. Stages'
    BY <1>1, <2>1, <2>2 DEF Stages, Before, After, Quiet, In
  <2>5. Targets'
    BY <1>1, <2>1, <2>2 DEF Targets, In, Engine!NoCb
  <2>6. Others'
    BY <1>1, <2>1 DEF Others, mqttVars, Before, Open, After, Mqtt!None
  <2> QED BY <2>3, <2>4, <2>5, <2>6
<1>6. CASE DestroyEngine
  <2>1. PICK step \in {"destroy_lock", "close"} : call' = [call EXCEPT !["main"].pc = step]
    BY <1>6 DEF DestroyEngine, Engine!DestroyBegin, Engine!Goto
  <2>2. main = "destroy_engine" /\ main' = "exit" /\ UNCHANGED <<ads_port, live, todo>>
    BY <1>6 DEF DestroyEngine, ToAfterEngine, Engine!DestroyBegin
  <2>3. call'["main"].pc = step
    BY <2>1 DEF Shapes
  <2>4. Shapes'
    BY <1>1, <2>1 DEF Shapes, mqttVars, Steps
  <2>5. Stages'
    BY <1>1, <2>2, <2>3 DEF Stages, Before, After, Quiet, In, Engine!NoCb
  <2>6. Targets'
    BY <1>1, <2>2, <2>3 DEF Targets, In, Engine!NoCb
  <2>7. Others'
    BY <1>1, <2>2 DEF Others, mqttVars, Before, Open, After, Mqtt!None
  <2> QED BY <2>4, <2>5, <2>6, <2>7
<1> QED BY <1>2, <1>3, <1>4, <1>5, <1>6

-----------------------------------------------------------------------------
\* Inside add_variable(): main is at "start", which waits for it.
LEMMA AddSteps ==
  ASSUME RouterAndHeap, BridgeInv, UNCHANGED <<mqttVars, own>>,
         \/ Engine!AddFail("main") \/ Engine!AddNotification("main")
         \/ Engine!AddInsert("main")
  PROVE  BridgeInv'
<1> USE DEF BridgeInv
<1>1. UNCHANGED <<main, platform, connected, monitor, pub, cb, ads_port, running, todo>>
  BY DEF own, mqttVars, Engine!AddFail, Engine!AddNotification, Engine!AddInsert
<1>2. Others'
  BY <1>1 DEF Others, Mqtt!None
<1>3. main = "start" /\ platform = "windows"
  BY DEF Engine!AddFail, Engine!AddNotification, Engine!AddInsert, Engine!At, Stages, In,
         Before, After, Engine!Idle
<1>4. CASE Engine!AddFail("main")
  <2>1. /\ In("notify") /\ call' = [call EXCEPT !["main"] = Engine!Idle]
        /\ UNCHANGED <<variables, notes>>
    BY <1>4 DEF Engine!AddFail, Engine!At, Engine!Return, In, Engine!router
  <2>2. call'["main"] = Engine!Idle
    BY <2>1 DEF Shapes
  <2>3. Shapes'
    BY <1>1, <2>1 DEF Shapes, Steps, Engine!Idle
  <2>4. Stages'
    BY <1>1, <1>3, <2>1, <2>2 DEF Stages, Quiet, In, Before, After, Engine!Idle
  <2>5. Targets'
    BY <1>1, <1>3, <2>1, <2>2 DEF Targets, Stages, Quiet, In, Before, After, Engine!Idle, Engine!NoCb
  <2> QED BY <1>2, <2>3, <2>4, <2>5
<1>5. CASE Engine!AddNotification("main")
  <2>1. PICK n \in Notes :
          /\ notes' = [x \in DOMAIN notes \union {n} |->
               IF x = n THEN [port |-> ads_port, user |-> Engine!User(call["main"].addr)]
               ELSE notes[x]]
          /\ call' = [call EXCEPT !["main"].pc = "insert", !["main"].note = n]
    BY <1>5 DEF Engine!AddNotification
  <2>2. In("notify") /\ UNCHANGED <<variables, live>>
    BY <1>5 DEF Engine!AddNotification, Engine!At, In
  <2>3. Quiet /\ DOMAIN variables = {} /\ call["main"].addr \in live \cap Addrs
    BY <1>3, <2>2 DEF Stages, Targets, In, Before, After, Engine!Idle
  <2>4. Engine!User(call["main"].addr) = call["main"].addr
    <3>1. call["main"].addr \in Nat /\ call["main"].addr < UserRange /\ UserRange \in Nat \ {0}
      <4>1. \A a \in Addrs : a \in Nat /\ a < UserRange /\ UserRange \in Nat
        BY DEF RouterAndHeap
      <4>2. \A x, y \in Nat : x < y => y \in Nat \ {0}
        OBVIOUS
      <4> QED BY <2>3, <4>1, <4>2
    <3>2. \A x \in Nat, y \in Nat \ {0} : x < y => x % y = x
      OBVIOUS
    <3> QED BY <3>1, <3>2 DEF Engine!User
  <2>5. DOMAIN notes' = {n} /\ notes'[n] = [port |-> ads_port, user |-> call["main"].addr]
    BY <2>1, <2>3, <2>4 DEF Quiet
  <2>6. /\ call'["main"].pc = "insert" /\ call'["main"].note = n
        /\ call'["main"].addr = call["main"].addr
    BY <2>1 DEF Shapes
  <2>7. Shapes'
    BY <1>1, <2>1, <2>5 DEF Shapes, Steps
  <2>8. Stages'
    BY <1>1, <1>3, <2>2, <2>3, <2>5, <2>6 DEF Stages, In, Before, After
  <2>9. Targets'
    BY <1>1, <2>2, <2>3, <2>5, <2>6 DEF Targets, In, Engine!NoCb
  <2> QED BY <1>2, <2>7, <2>8, <2>9
<1>6. CASE Engine!AddInsert("main")
  <2>1. /\ In("insert") /\ call' = [call EXCEPT !["main"] = Engine!Idle]
        /\ UNCHANGED notes
        /\ DOMAIN variables' = DOMAIN variables \union {call["main"].note}
    BY <1>6 DEF Engine!AddInsert, Engine!At, Engine!Return, In, Engine!router
  <2>2. DOMAIN variables = {} /\ DOMAIN notes \subseteq {call["main"].note}
    BY <1>3, <2>1 DEF Stages, In, Before, After, Engine!Idle
  <2>3. live' = live
    BY <1>6, <2>2 DEF Engine!AddInsert
  <2>4. call'["main"] = Engine!Idle
    BY <2>1 DEF Shapes
  <2>5. Shapes'
    BY <1>1, <2>1 DEF Shapes, Steps, Engine!Idle
  <2>6. Stages'
    BY <1>1, <1>3, <2>1, <2>2, <2>4 DEF Stages, In, Before, After
  <2>7. Targets'
    BY <1>1, <2>1, <2>3, <2>4 DEF Targets, In, Engine!Idle, Engine!NoCb
  <2> QED BY <1>2, <2>5, <2>6, <2>7
<1> QED BY <1>4, <1>5, <1>6

\* Inside stop() and the destructor: when the map is cleared no notification
\* is left, and with the last delete request the last callback has ended.
LEMMA StopSteps ==
  ASSUME RouterAndHeap, BridgeInv, UNCHANGED <<mqttVars, own>>,
         \/ Engine!StopLock("main") \/ Engine!StopDel("main") \/ Engine!StopClear("main")
         \/ Engine!DestroyClose("main") \/ Engine!DestroyFree("main")
  PROVE  BridgeInv'
<1> USE DEF BridgeInv
<1>1. UNCHANGED <<main, platform, connected, monitor, pub, cb>>
  BY DEF own, mqttVars, Engine!StopLock, Engine!StopDel, Engine!StopClear,
         Engine!DestroyClose, Engine!DestroyFree
<1>2. Others'
  BY <1>1 DEF Others, Mqtt!None
<1>3. /\ main \in {"disconnect", "exit", "done"}
      /\ platform = "windows" /\ (main = "disconnect" => In("lock") \/ In("delete"))
  BY DEF Engine!StopLock, Engine!StopDel, Engine!StopClear, Engine!DestroyClose,
         Engine!DestroyFree, Engine!At, Engine!Stopping, Stages, In, Before, After, Engine!Idle
<1>4. CASE Engine!StopLock("main")
  <2>1. PICK step \in {"delete", "destroy_delete"} :
          /\ call' = [call EXCEPT !["main"].pc = step]
          /\ call["main"].pc = IF step = "delete" THEN "lock" ELSE "destroy_lock"
    BY <1>4 DEF Engine!StopLock, Engine!At, Engine!Goto
  <2>2. todo' = DOMAIN variables /\ UNCHANGED <<ads_port, variables, notes, live>>
    BY <1>4 DEF Engine!StopLock, Engine!ToVisit, Engine!router
  <2>3. call'["main"].pc = step
    BY <2>1 DEF Shapes
  <2>4. Shapes'
    BY <1>1, <2>1, <2>2 DEF Shapes, Steps
  <2>5. Stages'
    BY <1>1, <1>3, <2>1, <2>2, <2>3 DEF Stages, Quiet, In, Before, After, Engine!Idle, Engine!NoCb
  <2>6. Targets'
    BY <1>1, <2>2, <2>3 DEF Targets, In, Engine!NoCb
  <2> QED BY <1>2, <2>4, <2>5, <2>6
<1>5. CASE Engine!StopDel("main")
  <2>1. PICK n \in todo :
          /\ todo' = todo \ {n}
          /\ \/ notes' = Engine!Without(notes, {n})
             \/ /\ n \notin DOMAIN notes \/ notes[n].port # ads_port
                /\ UNCHANGED notes
    BY <1>5 DEF Engine!StopDel
  <2>2. UNCHANGED <<ads_port, variables, live, call>>
    BY <1>5 DEF Engine!StopDel
  <2>3. /\ DOMAIN notes' = DOMAIN notes \ {n}
        /\ \A x \in DOMAIN notes' : notes'[x] = notes[x]
    BY <2>1 DEF Targets, Engine!Without, Engine!Restrict
  <2>4. Shapes'
    BY <1>1, <2>2, <2>3 DEF Shapes
  <2>5. Stages'
    BY <1>1, <1>3, <2>1, <2>2, <2>3 DEF Stages, Quiet, In, Before, After, Engine!Idle, Engine!NoCb
  <2>6. Targets'
    BY <1>1, <2>2, <2>3 DEF Targets, In, Engine!NoCb
  <2> QED BY <1>2, <2>4, <2>5, <2>6
<1>6. CASE Engine!StopClear("main")
  <2>1. todo = {} /\ Engine!Drained /\ UNCHANGED <<ads_port, notes>>
    BY <1>6 DEF Engine!StopClear, Engine!router
  <2>2. Quiet
    BY <1>3, <1>6, <2>1 DEF Engine!StopClear, Engine!Stopping, Engine!At, Engine!Drained,
       RouterAndHeap, Stages, Quiet, In, Before, After
  <2>3. \/ call["main"].pc = "delete" /\ call' = [call EXCEPT !["main"] = Engine!Idle]
        \/ /\ call["main"].pc = "destroy_delete"
           /\ call' = [call EXCEPT !["main"].pc = "close"]
    BY <1>6 DEF Engine!StopClear, Engine!Stopping, Engine!At, Engine!Return, Engine!Goto
  <2>4. \/ call["main"].pc = "delete" /\ call'["main"] = Engine!Idle
        \/ call["main"].pc = "destroy_delete" /\ call'["main"].pc = "close"
    BY <2>3 DEF Shapes
  <2>5. Shapes'
    BY <1>1, <2>1, <2>3 DEF Shapes, Steps, Engine!Idle
  <2>6. Stages'
    BY <1>1, <1>3, <2>1, <2>2, <2>4 DEF Stages, Quiet, In, Before, After, Engine!Idle, Engine!NoCb
  <2>7. Targets'
    BY <1>1, <2>1, <2>2, <2>4 DEF Targets, Quiet, In, Engine!Idle, Engine!NoCb
  <2> QED BY <1>2, <2>5, <2>6, <2>7
<1>7. CASE Engine!DestroyClose("main") \/ Engine!DestroyFree("main")
  <2>1. main \in {"exit", "done"} /\ Quiet
    BY <1>3, <1>7 DEF Engine!DestroyClose, Engine!DestroyFree, Engine!At, Stages, In, After
  <2>2. DOMAIN notes' = {}
    BY <1>7, <2>1 DEF Engine!DestroyClose, Engine!DestroyFree, Engine!Without,
       Engine!Restrict, Engine!router, Quiet
  <2>3. \/ call' = [call EXCEPT !["main"].pc = "free"]
        \/ call' = [call EXCEPT !["main"] = Engine!Idle]
    BY <1>7 DEF Engine!DestroyClose, Engine!DestroyFree, Engine!Goto, Engine!Return
  <2>4. call'["main"].pc \in {"free", "idle"}
    BY <2>3 DEF Shapes, Engine!Idle
  <2>5. Shapes'
    BY <1>1, <2>2, <2>3 DEF Shapes, Steps, Engine!Idle
  <2>6. Stages'
    BY <1>1, <1>3, <2>1, <2>2, <2>4 DEF Stages, Quiet, In, Before, After, Engine!NoCb
  <2>7. Targets'
    BY <1>1, <2>1, <2>2, <2>4 DEF Targets, Quiet, In, Engine!NoCb
  <2> QED BY <1>2, <2>5, <2>6, <2>7
<1> QED BY <1>4, <1>5, <1>6, <1>7

-----------------------------------------------------------------------------
LEMMA OtherSteps ==
  ASSUME BridgeInv,
         \/ SignalHandler \/ MonitorCheck \/ MonitorReport \/ External
         \/ /\ Mqtt!ClientDisconnect \/ Mqtt!DisconnectReturn
            /\ UNCHANGED <<engineVars, own>>
  PROVE  BridgeInv'
<1> USE DEF BridgeInv
<1>1. UNCHANGED <<engineVars, main, platform, connected, pub>>
  BY DEF SignalHandler, MonitorCheck, MonitorReport, External, own, mqttVars,
         Mqtt!ClientDisconnect, Mqtt!DisconnectReturn, Mqtt!External, Mqtt!ConnectAnswer,
         Mqtt!LinkDrop, Mqtt!AutoReconnect, Mqtt!Deliver
<1>2. \/ UNCHANGED monitor
      \/ monitor = "check" /\ monitor' \in {"sleep", "done"}
      \/ monitor = "sleep" /\ monitor' = "check"
  BY DEF SignalHandler, MonitorCheck, MonitorReport, External, own
<1>3. Shapes' /\ Stages' /\ Targets'
  BY <1>1 DEF Shapes, Stages, Targets, engineVars, Quiet, In
<1>4. Others'
  BY <1>1, <1>2 DEF Others, engineVars, Mqtt!None
<1> QED BY <1>3, <1>4

\* The notification thread: a callback begins at a notification, whose
\* VariableHandle it uses until it ends.
LEMMA CallbackSteps ==
  ASSUME BridgeInv, Notification \/ CallbackThread
  PROVE  BridgeInv'
<1> USE DEF BridgeInv
<1>1. /\ UNCHANGED <<main, platform, monitor, connected>>
      /\ UNCHANGED <<ads_port, running, variables, live, call, todo, notes>>
  BY DEF Notification, CallbackThread, Callback, CallbackPublish, CallbackReturn, own, mqttVars,
         engineVars, Mqtt!PublishLoad, Mqtt!PublishSend, Engine!CbEnter, Engine!CbCall,
         Engine!CbReturn, Engine!engineState, Engine!router
<1>2. \/ \E n \in DOMAIN notes :
           cb' = [pc |-> "entered", note |-> n, user |-> notes[n].user] /\ pub["cb"] = Mqtt!None
      \/ cb # Engine!NoCb /\ cb' = [cb EXCEPT !.pc = "in_callback"]
      \/ cb # Engine!NoCb /\ cb' = Engine!NoCb /\ pub'["cb"] = Mqtt!None
      \/ cb # Engine!NoCb /\ cb' = cb /\ pub'["cb"] = Mqtt!None
  <2>1. CASE Notification
    BY <2>1 DEF Notification, Engine!CbEnter, Others, Engine!NoCb
  <2>2. CASE Callback
    BY <2>2 DEF Callback, Engine!CbCall, Others, Engine!NoCb, mqttVars
  <2>3. CASE CallbackPublish
    BY <2>3 DEF CallbackPublish, Mqtt!PublishSend, Shapes, Others, Engine!NoCb, engineVars
  <2>4. CASE CallbackReturn
    BY <2>4 DEF CallbackReturn, Engine!CbReturn, Engine!NoCb, mqttVars
  <2> QED BY <2>1, <2>2, <2>3, <2>4 DEF CallbackThread
<1>3. pub' = [p \in {"cb"} |-> pub'["cb"]]
  BY DEF Notification, CallbackThread, Callback, CallbackPublish, CallbackReturn, mqttVars,
         Mqtt!PublishLoad, Mqtt!PublishSend, Shapes
<1>4. Notification => UNCHANGED pub
  BY DEF Notification, mqttVars
<1>5. Shapes'
  BY <1>1, <1>2, <1>3 DEF Shapes, Targets, Engine!NoCb
<1>6. Stages'
  BY <1>1, <1>2 DEF Stages, Quiet, In
<1>7. Targets'
  BY <1>1, <1>2 DEF Targets, Shapes, In, Engine!NoCb
<1>8. pub'["cb"] # Mqtt!None => cb'.pc = "in_callback"
  <2>1. CASE Notification
    BY <2>1 DEF Notification, Engine!CbEnter, Others, Engine!NoCb, mqttVars
  <2>2. CASE Callback
    BY <2>2 DEF Callback, Engine!CbCall, Others, Shapes, mqttVars
  <2>3. CASE CallbackPublish
    BY <2>3 DEF CallbackPublish, Mqtt!PublishSend, Shapes
  <2>4. CASE CallbackReturn
    BY <2>4 DEF CallbackReturn, mqttVars
  <2> QED BY <2>1, <2>2, <2>3, <2>4 DEF CallbackThread
<1>9. Others'
  BY <1>1, <1>8 DEF Others, Mqtt!None
<1> QED BY <1>5, <1>6, <1>7, <1>9

LEMMA AlwaysBridgeInv ==
  ASSUME RouterAndHeap
  PROVE  Spec => []BridgeInv
<1>1. BridgeInv /\ [Next]_vars => BridgeInv'
  <2> SUFFICES ASSUME BridgeInv, [Next]_vars PROVE BridgeInv'
    OBVIOUS
  <2>1. CASE Main
    BY <2>1, PublisherCalls, OwnSteps, EngineCalls DEF Main
  <2>2. CASE InCall
    BY <2>2, AddSteps, StopSteps, OtherSteps DEF InCall, Engine!CallSteps
  <2>3. CASE SignalHandler \/ MonitorCheck \/ MonitorReport \/ External
    BY <2>3, OtherSteps
  <2>4. CASE Notification \/ CallbackThread
    BY <2>4, CallbackSteps
  <2>5. CASE UNCHANGED vars
    BY <2>5 DEF BridgeInv, Shapes, Stages, Targets, Others, Quiet, In, vars, engineVars,
                mqttVars, own
  <2> QED BY <2>1, <2>2, <2>3, <2>4, <2>5 DEF Next
<1> QED BY InvAtFirst, <1>1, PTL DEF Spec

\* The references that the lambda and the monitor thread hold to main's objects
\* are valid whenever they are used, for any addresses, handles and number of
\* samples, with a signal, failing calls and link losses at any point.
THEOREM ReferencesAreValid ==
  ASSUME RouterAndHeap
  PROVE  Spec => []ReferencesValid
<1>1. BridgeInv => ReferencesValid
  <2> SUFFICES ASSUME BridgeInv PROVE ReferencesValid
    OBVIOUS
  <2>1. main \in After => pub["cb"] = Mqtt!None /\ cb.pc # "in_callback"
    BY DEF BridgeInv, Stages, Others, Quiet, Engine!NoCb
  <2>2. Engine!CallbackTargetsLive
    BY DEF BridgeInv, Targets, Engine!CallbackTargetsLive
  <2> QED BY <2>1, <2>2 DEF ReferencesValid, BridgeInv, Others, After
<1> QED BY <1>1, AlwaysBridgeInv, PTL

\* No sample reaches a publisher that is not open yet or is no longer open.
THEOREM SamplesFindPublisher ==
  ASSUME RouterAndHeap
  PROVE  Spec => []SamplesMeetPublisher
<1>1. BridgeInv => SamplesMeetPublisher
  BY DEF BridgeInv, Stages, Others, Quiet, Before, Open, After, SamplesMeetPublisher
<1> QED BY <1>1, AlwaysBridgeInv, PTL

-----------------------------------------------------------------------------
(* The components inside the program *)

EngineP == INSTANCE AdsRealtimeEngineProofs WITH
  Callers <- {"main"}, MaxPorts <- 1, Reconnects <- FALSE, DelMayFail <- FALSE
MqttP == INSTANCE MqttPublisherProofs WITH
  Publishers <- {"cb"}, Msgs <- Sent, PerPublisher <- MaxSamples, sent <- sample

\* The calls that the program makes are those of the engine and the publisher.
LEMMA SameEngine ==
  /\ Engine!Init <=> EngineP!Init
  /\ \A c : /\ Engine!Connect(c) <=> EngineP!Connect(c)
            /\ Engine!AddBegin(c) <=> EngineP!AddBegin(c)
            /\ Engine!Start(c) <=> EngineP!Start(c)
            /\ Engine!StopBegin(c) <=> EngineP!StopBegin(c)
            /\ Engine!DestroyBegin(c) <=> EngineP!DestroyBegin(c)
            /\ Engine!CallSteps(c) <=> EngineP!CallSteps(c)
  /\ Engine!CbEnter <=> EngineP!CbEnter
  /\ Engine!CbCall <=> EngineP!CbCall
  /\ Engine!CbReturn <=> EngineP!CbReturn
BY DEF
  Engine!Connect, Engine!AddBegin, Engine!Start, Engine!StopBegin,
  Engine!DestroyBegin, Engine!CallSteps, Engine!CbEnter, Engine!CbCall,
  Engine!CbReturn, Engine!AddFail, Engine!AddNotification, Engine!AddInsert,
  Engine!StopLock, Engine!StopDel, Engine!StopClear, Engine!DestroyClose,
  Engine!DestroyFree, Engine!Begin, Engine!At, Engine!Goto, Engine!Return,
  Engine!Idle, Engine!NoCb, Engine!Empty, Engine!Without, Engine!Restrict,
  Engine!Range, Engine!User, Engine!PortOpen, Engine!MutexFree, Engine!Stopping,
  Engine!ToVisit, Engine!Drained, Engine!PortNotes, Engine!engineState,
  Engine!router, Engine!Init, EngineP!Connect, EngineP!AddBegin, EngineP!Start,
  EngineP!StopBegin, EngineP!DestroyBegin, EngineP!CallSteps, EngineP!CbEnter,
  EngineP!CbCall, EngineP!CbReturn, EngineP!AddFail, EngineP!AddNotification,
  EngineP!AddInsert, EngineP!StopLock, EngineP!StopDel, EngineP!StopClear,
  EngineP!DestroyClose, EngineP!DestroyFree, EngineP!Begin, EngineP!At,
  EngineP!Goto, EngineP!Return, EngineP!Idle, EngineP!NoCb, EngineP!Empty,
  EngineP!Without, EngineP!Restrict, EngineP!Range, EngineP!User, EngineP!PortOpen,
  EngineP!MutexFree, EngineP!Stopping, EngineP!ToVisit, EngineP!Drained,
  EngineP!PortNotes, EngineP!engineState, EngineP!router, EngineP!Init

LEMMA SamePublisher ==
  /\ Mqtt!Init <=> MqttP!Init
  /\ Mqtt!ConnectBegin <=> MqttP!ConnectBegin
  /\ Mqtt!ConnectStore <=> MqttP!ConnectStore
  /\ Mqtt!ConnectFail <=> MqttP!ConnectFail
  /\ Mqtt!DisconnectBegin <=> MqttP!DisconnectBegin
  /\ Mqtt!ClientDisconnect <=> MqttP!ClientDisconnect
  /\ Mqtt!DisconnectReturn <=> MqttP!DisconnectReturn
  /\ Mqtt!External <=> MqttP!External
  /\ \A p : /\ Mqtt!PublishSend(p) <=> MqttP!PublishSend(p)
            /\ \A m : Mqtt!PublishLoad(p, m) <=> MqttP!PublishLoad(p, m)
BY DEF
  Mqtt!ConnectBegin, Mqtt!ConnectStore, Mqtt!ConnectFail, Mqtt!DisconnectBegin,
  Mqtt!ClientDisconnect, Mqtt!DisconnectReturn, Mqtt!External, Mqtt!PublishLoad,
  Mqtt!PublishSend, Mqtt!ConnectAnswer, Mqtt!LinkDrop, Mqtt!AutoReconnect,
  Mqtt!Deliver, Mqtt!Taken, Mqtt!None, Mqtt!Init, MqttP!ConnectBegin,
  MqttP!ConnectStore, MqttP!ConnectFail, MqttP!DisconnectBegin,
  MqttP!ClientDisconnect, MqttP!DisconnectReturn, MqttP!External,
  MqttP!PublishLoad, MqttP!PublishSend, MqttP!ConnectAnswer, MqttP!LinkDrop,
  MqttP!AutoReconnect, MqttP!Deliver, MqttP!Taken, MqttP!None, MqttP!Init

\* The program's own variables, and the sample that a callback is about.
OwnTypes ==
  /\ platform \in Platforms
  /\ g_running \in BOOLEAN
  /\ monitor \in {"none", "check", "sleep", "done"}
  /\ printed \in Nat
  /\ sample \in 0 .. MaxSamples
  /\ cb # Engine!NoCb => sample > 0
  /\ main \in {"engine_connect", "mqtt_connect", "mqtt_wait", "add", "start",
               "spawn", "loop", "stop", "disconnect", "join", "destroy_mqtt",
               "free_mqtt", "destroy_engine", "exit", "done"}

LEMMA OwnTypesKept ==
  ASSUME MaxSamples \in Nat
  PROVE  Spec => []OwnTypes
<1>1. Init => OwnTypes
  BY DEF Init, Engine!Init, OwnTypes
<1>2. OwnTypes /\ [Next]_vars => OwnTypes'
  <2> SUFFICES ASSUME OwnTypes, [Next]_vars PROVE OwnTypes'
    OBVIOUS
  <2> USE DEF OwnTypes, To, ToAfterEngine, ToAfterMqtt, engineVars, own
  <2>1. CASE EngineConnect \/ AddVariable \/ StartEngine \/ StopEngine \/ DestroyEngine
    BY <2>1
    DEF EngineConnect, AddVariable, StartEngine, StopEngine, DestroyEngine, Engine!Connect,
      Engine!AddBegin, Engine!Start, Engine!StopBegin, Engine!DestroyBegin
  <2>2. CASE MqttConnect \/ MqttConnected \/ DisconnectMqtt \/ DestroyMqtt
    BY <2>2 DEF MqttConnect, MqttConnected, DisconnectMqtt, DestroyMqtt
  <2>3. CASE SpawnMonitor \/ LeaveLoop \/ JoinMonitor \/ FreeMqtt \/ Exit
    BY <2>3 DEF SpawnMonitor, LeaveLoop, JoinMonitor, FreeMqtt, Exit
  <2>4. CASE InCall
    BY <2>4
    DEF InCall, Engine!CallSteps, Engine!AddFail, Engine!AddNotification, Engine!AddInsert,
      Engine!StopLock, Engine!StopDel, Engine!StopClear, Engine!DestroyClose,
      Engine!DestroyFree
  <2>5. CASE SignalHandler
    BY <2>5 DEF SignalHandler
  <2>9. CASE MonitorCheck \/ MonitorReport
    BY <2>9 DEF MonitorCheck, MonitorReport, StatsTotal
  <2>10. CASE External
    BY <2>10 DEF External
  <2>6. CASE Notification
    BY <2>6 DEF Notification
  <2>7. CASE CallbackThread
    BY <2>7
    DEF CallbackThread, Callback, CallbackPublish, CallbackReturn, Engine!CbCall,
      Engine!CbReturn, Engine!NoCb
  <2>8. CASE UNCHANGED vars
    BY <2>8 DEF vars
  <2> QED BY <2>1, <2>2, <2>3, <2>4, <2>5, <2>6, <2>7, <2>8, <2>9, <2>10 DEF Next, Main
<1> QED BY <1>1, <1>2, PTL DEF Spec

\* Within the program the engine behaves as its own specification says, with
\* main as the only caller, and the publisher as its own, with the notification
\* thread as the only one that publishes: what is proved of them holds here.
THEOREM ComponentsInProgram ==
  ASSUME MaxSamples \in Nat
  PROVE  Spec => EngineP!Spec /\ MqttP!Spec
<1>1. Init => EngineP!Init /\ MqttP!Init
  BY SameEngine, SamePublisher DEF Init
<1>2. ASSUME [Next]_vars PROVE [EngineP!Next]_EngineP!vars
  <2>1. UNCHANGED engineVars => UNCHANGED EngineP!vars
    BY DEF engineVars, EngineP!vars, EngineP!engineState, EngineP!router
  <2>2. CASE EngineConnect \/ AddVariable \/ StartEngine \/ StopEngine \/ DestroyEngine
    <3>1. EngineP!CallBegins("main")
      BY <2>2, SameEngine
      DEF EngineConnect, AddVariable, StartEngine, StopEngine, DestroyEngine, EngineP!CallBegins
    <3> QED BY <3>1 DEF EngineP!Next
  <2>3. CASE InCall
    BY <2>1, <2>3, SameEngine DEF InCall, EngineP!Next
  <2>4. CASE Notification \/ CallbackThread
    BY <2>1, <2>4, SameEngine
    DEF Notification, CallbackThread, Callback, CallbackPublish, CallbackReturn, EngineP!Next,
      EngineP!CbNext
  <2>5. CASE MqttConnect \/ MqttConnected \/ DisconnectMqtt \/ DestroyMqtt
    BY <2>1, <2>5
    DEF MqttConnect, MqttConnected, DisconnectMqtt, DestroyMqtt, ToAfterMqtt
  <2>6. CASE SpawnMonitor \/ LeaveLoop \/ JoinMonitor \/ FreeMqtt \/ Exit
    BY <2>1, <2>6 DEF SpawnMonitor, LeaveLoop, JoinMonitor, FreeMqtt, Exit, To
  <2>7. CASE SignalHandler \/ MonitorCheck \/ MonitorReport \/ External
    BY <2>1, <2>7 DEF SignalHandler, MonitorCheck, MonitorReport, External
  <2>8. CASE UNCHANGED vars
    BY <2>1, <2>8 DEF vars
  <2> QED
    BY <1>2, <2>2, <2>3, <2>4, <2>5, <2>6, <2>7, <2>8 DEF Next, Main
<1>3. ASSUME OwnTypes, [Next]_vars PROVE [MqttP!Next]_MqttP!vars
  <2>1. UNCHANGED mqttVars => UNCHANGED MqttP!vars
    BY DEF mqttVars, MqttP!vars
  <2>2. CASE MqttConnect \/ MqttConnected \/ DisconnectMqtt \/ DestroyMqtt
    BY <2>2, SamePublisher
    DEF MqttConnect, MqttConnected, DisconnectMqtt, DestroyMqtt, MqttP!Next, MqttP!Control
  <2>3. CASE InCall \/ External
    BY <2>1, <2>3, SamePublisher DEF InCall, External, MqttP!Next, MqttP!Control
  <2>4. CASE Callback
    <3>1. CASE UNCHANGED mqttVars
      BY <2>1, <3>1
    <3>2. CASE Mqtt!PublishLoad("cb", [seq |-> sample, value |-> ReadAt(HeaderSize)])
      <4>1. ReadAt(HeaderSize) \in [1 .. SampleSize -> 0 .. SampleSize]
        BY DEF ReadAt, ByteAt, HeaderSize, DataOffset, SampleSize, Beyond
      <4>2. sample \in 1 .. MaxSamples
        BY <1>3, <2>4 DEF OwnTypes, Callback, Engine!CbCall, Engine!NoCb
      <4>3. [seq |-> sample, value |-> ReadAt(HeaderSize)] \in Sent
        BY <4>1, <4>2 DEF Sent
      <4> QED BY <3>2, <4>3, SamePublisher DEF MqttP!Next
    <3> QED BY <2>4, <3>1, <3>2 DEF Callback
  <2>5. CASE CallbackPublish
    BY <2>5, SamePublisher DEF CallbackPublish, MqttP!Next
  <2>6. CASE EngineConnect \/ AddVariable \/ StartEngine \/ StopEngine \/ DestroyEngine
    BY <2>1, <2>6
    DEF EngineConnect, AddVariable, StartEngine, StopEngine, DestroyEngine, ToAfterEngine
  <2>7. CASE SpawnMonitor \/ LeaveLoop \/ JoinMonitor \/ FreeMqtt \/ Exit
    BY <2>1, <2>7
    DEF SpawnMonitor, LeaveLoop, JoinMonitor, FreeMqtt, Exit, To, ToAfterEngine
  <2>8. CASE SignalHandler \/ MonitorCheck \/ MonitorReport \/ Notification \/ CallbackReturn
    BY <2>1, <2>8 DEF SignalHandler, MonitorCheck, MonitorReport, Notification, CallbackReturn
  <2>9. CASE UNCHANGED vars
    BY <2>1, <2>9 DEF vars
  <2> QED
    BY <1>3, <2>2, <2>3, <2>4, <2>5, <2>6, <2>7, <2>8, <2>9 DEF Next, Main, CallbackThread
<1> QED
  BY <1>1, <1>2, <1>3, OwnTypesKept, PTL DEF Spec, EngineP!Spec, MqttP!Spec

LEMMA PublisherTypesInProgram ==
  ASSUME MaxSamples \in Nat
  PROVE  Spec => []Mqtt!TypeOK
<1>1. MqttP!Spec => []MqttP!TypeOK
  BY MqttP!PublisherTypeCorrect
<1>2. MqttP!TypeOK => Mqtt!TypeOK
  BY DEF MqttP!TypeOK, MqttP!None, Mqtt!TypeOK, Mqtt!None
<1> QED BY <1>1, <1>2, ComponentsInProgram, PTL

\* The program's variables keep their types, for any addresses and number of
\* samples and on both platforms.
THEOREM BridgeTypeCorrect ==
  ASSUME Addrs \subseteq Nat \ {0}, UserRange \in Nat \ {0}, DelDrains \in BOOLEAN,
         MaxSamples \in Nat
  PROVE  Spec => []TypeOK
<1>1. EngineP!Spec => []EngineP!TypeOK
  <2>1. /\ Addrs \subseteq Nat \ {0}
        /\ UserRange \in Nat \ {0}
        /\ 1 \in Nat
        /\ {FALSE, FALSE, DelDrains} \subseteq BOOLEAN
    OBVIOUS
  <2> QED BY <2>1, EngineP!EngineTypeCorrect
<1>2. EngineP!TypeOK => Engine!TypeOK
  BY DEF EngineP!TypeOK, EngineP!Range, Engine!TypeOK, Engine!Range
<1>3. Spec => []Mqtt!TypeOK
  BY PublisherTypesInProgram
<1>5. Engine!TypeOK /\ Mqtt!TypeOK /\ OwnTypes => TypeOK
  BY DEF OwnTypes, TypeOK
<1> QED
  BY <1>1, <1>2, <1>3, <1>5, ComponentsInProgram, OwnTypesKept, PTL

-----------------------------------------------------------------------------
(* The feed of samples *)

\* Numbers() of a sequence of messages, and what appending to it, taking its
\* head and concatenating do to the numbers.
LEMMA NumbersOf ==
  ASSUME NEW s \in Seq(Sent)
  PROVE  /\ Numbers(s) \in Seq(Nat) /\ Len(Numbers(s)) = Len(s)
         /\ \A i \in 1 .. Len(s) : Numbers(s)[i] = s[i].seq
<1>1. \A i \in 1 .. Len(s) : s[i] \in Sent
  BY ElementOfSeq
<1>2. \A i \in 1 .. Len(s) : s[i].seq \in Nat
  BY <1>1 DEF Sent
<1>3. Numbers(s) = [i \in 1 .. Len(s) |-> s[i].seq] /\ Len(s) \in Nat
  BY DEF Numbers
<1>4. [i \in 1 .. Len(s) |-> s[i].seq] \in Seq(Nat)
  BY <1>2, <1>3
<1> QED BY <1>3, <1>4

LEMMA NumbersAppend ==
  ASSUME NEW s \in Seq(Sent), NEW m \in Sent
  PROVE  /\ Numbers(s \o <<m>>) = Numbers(s) \o <<m.seq>>
         /\ Numbers(Append(s, m)) = Append(Numbers(s), m.seq)
<1> DEFINE t == Append(s, m)
           u == Append(Numbers(s), m.seq)
<1>1. m.seq \in Nat /\ Len(s) \in Nat
  BY DEF Sent
<1>2. /\ t \in Seq(Sent) /\ t = s \o <<m>> /\ Len(t) = Len(s) + 1
      /\ t[Len(s) + 1] = m /\ \A i \in 1 .. Len(s) : t[i] = s[i]
  OBVIOUS
<1>3. /\ u \in Seq(Nat) /\ u = Numbers(s) \o <<m.seq>> /\ Len(u) = Len(s) + 1
      /\ u[Len(s) + 1] = m.seq /\ \A i \in 1 .. Len(s) : u[i] = s[i].seq
  BY <1>1, NumbersOf
<1> HIDE DEF t, u
<1>4. /\ Numbers(t) \in Seq(Nat) /\ Len(Numbers(t)) = Len(s) + 1
      /\ \A i \in 1 .. Len(s) + 1 : Numbers(t)[i] = t[i].seq
  BY <1>2, NumbersOf
<1>5. \A i \in 1 .. Len(s) + 1 : i = Len(s) + 1 \/ i \in 1 .. Len(s)
  BY <1>1
<1>6. \A i \in 1 .. Len(s) + 1 : Numbers(t)[i] = u[i]
  BY <1>2, <1>3, <1>4, <1>5
<1>7. Numbers(t) = u
  BY <1>3, <1>4, <1>6, SeqEqual
<1> QED BY <1>2, <1>3, <1>7 DEF t, u

LEMMA NumbersTail ==
  ASSUME NEW s \in Seq(Sent), s # <<>>
  PROVE  /\ Numbers(s) # <<>>
         /\ Head(Numbers(s)) = Head(s).seq
         /\ Tail(Numbers(s)) = Numbers(Tail(s))
<1>1. Len(s) \in Nat \ {0} /\ Tail(s) \in Seq(Sent) /\ Len(Tail(s)) = Len(s) - 1
  BY HeadTailProperties
<1>2. Numbers(s) # <<>>
  BY <1>1, NumbersOf
<1>3. Head(Numbers(s)) = Head(s).seq
  BY <1>1, NumbersOf
<1>4. /\ Tail(Numbers(s)) \in Seq(Nat) /\ Len(Tail(Numbers(s))) = Len(s) - 1
      /\ \A i \in 1 .. Len(s) - 1 : Tail(Numbers(s))[i] = Numbers(s)[i + 1]
  BY <1>1, <1>2, NumbersOf, HeadTailProperties
<1>5. /\ Numbers(Tail(s)) \in Seq(Nat) /\ Len(Numbers(Tail(s))) = Len(s) - 1
      /\ \A i \in 1 .. Len(s) - 1 : Numbers(Tail(s))[i] = Tail(s)[i].seq
  BY <1>1, NumbersOf
<1>6. \A i \in 1 .. Len(s) - 1 : Tail(s)[i].seq = Numbers(s)[i + 1]
  BY <1>1, NumbersOf, HeadTailProperties
<1>7. Tail(Numbers(s)) = Numbers(Tail(s))
  BY <1>4, <1>5, <1>6, SeqEqual
<1> QED BY <1>2, <1>3, <1>7

LEMMA TailConcat ==
  ASSUME NEW p \in Seq(Nat), NEW r \in Seq(Nat), p # <<>>
  PROVE  Tail(p \o r) = Tail(p) \o r
<1> DEFINE q == p \o r
           t == Tail(p)
           u == Tail(q)
           v == t \o r
<1>1. /\ q \in Seq(Nat) /\ Len(q) = Len(p) + Len(r) /\ Len(p) \in Nat \ {0} /\ Len(r) \in Nat
      /\ \A i \in 1 .. Len(p) + Len(r) : q[i] = IF i <= Len(p) THEN p[i] ELSE r[i - Len(p)]
  BY ConcatProperties, EmptySeq
<1>2. /\ t \in Seq(Nat) /\ Len(t) = Len(p) - 1
      /\ \A i \in 1 .. Len(t) : t[i] = p[i + 1]
  BY HeadTailProperties
<1> HIDE DEF q, t
<1>3. /\ u \in Seq(Nat) /\ Len(u) = Len(q) - 1
      /\ \A i \in 1 .. Len(u) : u[i] = q[i + 1]
  <2>1. q # <<>>
    BY <1>1, EmptySeq
  <2> QED BY <1>1, <2>1, HeadTailProperties
<1>4. /\ v \in Seq(Nat) /\ Len(v) = Len(t) + Len(r)
      /\ \A i \in 1 .. Len(t) + Len(r) : v[i] = IF i <= Len(t) THEN t[i] ELSE r[i - Len(t)]
  BY <1>2, ConcatProperties
<1> HIDE DEF u, v
<1>5. Len(u) = Len(v)
  BY <1>1, <1>2, <1>3, <1>4
<1>6. ASSUME NEW i \in 1 .. Len(u) PROVE u[i] = v[i]
  <2>1. /\ i \in Int /\ i + 1 \in 1 .. Len(p) + Len(r) /\ i \in 1 .. Len(t) + Len(r)
        /\ i <= Len(t) => i \in 1 .. Len(t)
        /\ i <= Len(t) <=> i + 1 <= Len(p)
        /\ (i + 1) - Len(p) = i - Len(t)
    BY <1>1, <1>2, <1>3, <1>5
  <2> QED BY <1>1, <1>2, <1>3, <1>4, <2>1
<1>7. u = v
  BY <1>3, <1>4, <1>5, <1>6, SeqEqual
<1> QED BY <1>7 DEF q, t, u, v

\* Losing the last sample, and losing all that were in front of the last ones.
LEMMA LoseLast ==
  ASSUME NEW p \in Seq(Nat), NEW n \in Nat
  PROVE  \E i, j \in 0 .. Len(p \o <<n>>) :
           /\ i < j
           /\ p = SubSeq(p \o <<n>>, 1, i) \o SubSeq(p \o <<n>>, j + 1, Len(p \o <<n>>))
<1> DEFINE q == p \o <<n>>
<1>1. q \in Seq(Nat) /\ Len(q) = Len(p) + 1 /\ Len(p) \in Nat
  OBVIOUS
<1>2. SubSeq(q, Len(q) + 1, Len(q)) = <<>>
  BY <1>1, SubSeqEmpty
<1>3. SubSeq(q, 1, Len(p)) = p
  <2>1. \A i \in 1 .. Len(p) : q[i] = p[i] /\ q[i] \in Nat
    BY ElementOfSeq
  <2>2. /\ SubSeq(q, 1, Len(p)) \in Seq(Nat) /\ Len(SubSeq(q, 1, Len(p))) = Len(p)
        /\ \A i \in 1 .. Len(p) : SubSeq(q, 1, Len(p))[i] = q[i]
    BY <1>1, <2>1, SubSeqProperties
  <2> QED BY <2>1, <2>2, SeqEqual
<1>4. p \o <<>> = p
  BY ConcatEmptySeq
<1> HIDE DEF q
<1>5. /\ Len(p) \in 0 .. Len(q) /\ Len(q) \in 0 .. Len(q) /\ Len(p) < Len(q)
      /\ p = SubSeq(q, 1, Len(p)) \o SubSeq(q, Len(q) + 1, Len(q))
  BY <1>1, <1>2, <1>3, <1>4
<1> QED BY <1>5 DEF q

LEMMA RestOf ==
  ASSUME NEW q \in Seq(Nat), NEW k \in 1 .. Len(q) + 1
  PROVE  /\ SubSeq(q, k, Len(q)) \in Seq(Nat)
         /\ Len(SubSeq(q, k, Len(q))) = Len(q) - k + 1
         /\ \A i \in 1 .. Len(q) - k + 1 : SubSeq(q, k, Len(q))[i] = q[k + i - 1]
OBVIOUS

LEMMA LoseFront ==
  ASSUME NEW p \in Seq(Nat), NEW r \in Seq(Nat), p # <<>>
  PROVE  \E i, j \in 0 .. Len(p \o r) :
           /\ i < j
           /\ r = SubSeq(p \o r, 1, i) \o SubSeq(p \o r, j + 1, Len(p \o r))
<1> DEFINE q == p \o r
<1>1. /\ q \in Seq(Nat) /\ Len(q) = Len(p) + Len(r) /\ Len(p) \in Nat \ {0} /\ Len(r) \in Nat
      /\ \A i \in 1 .. Len(r) : q[Len(p) + i] = r[i]
  BY ConcatProperties, EmptySeq
<1> HIDE DEF q
<1>2. SubSeq(q, 1, 0) = <<>>
  BY SubSeqEmpty
<1>3. SubSeq(q, Len(p) + 1, Len(q)) = r
  <2>1. Len(p) + 1 \in 1 .. Len(q) + 1
    BY <1>1
  <2>2. PICK k \in 1 .. Len(q) + 1 : k = Len(p) + 1
    BY <2>1
  <2>3. /\ SubSeq(q, k, Len(q)) \in Seq(Nat)
        /\ Len(SubSeq(q, k, Len(q))) = Len(q) - k + 1
        /\ \A i \in 1 .. Len(q) - k + 1 : SubSeq(q, k, Len(q))[i] = q[k + i - 1]
    BY <1>1, RestOf
  <2>4. SubSeq(q, k, Len(q)) = r
    <3>1. Len(q) - k + 1 = Len(r)
      BY <1>1, <2>2
    <3>2. \A i \in 1 .. Len(r) : k + i - 1 = Len(p) + i
      BY <1>1, <2>2
    <3> DEFINE e == SubSeq(q, k, Len(q))
    <3>3. e \in Seq(Nat) /\ Len(e) = Len(r) /\ \A i \in 1 .. Len(r) : e[i] = q[k + i - 1]
      BY <2>3, <3>1
    <3> HIDE DEF e
    <3>4. \A i \in 1 .. Len(r) : e[i] = r[i]
      BY <1>1, <3>2, <3>3
    <3>5. e = r
      BY <3>3, <3>4, SeqEqual
    <3> QED BY <3>5 DEF e
  <2> QED BY <2>2, <2>4
<1>4. <<>> \o r = r
  BY ConcatEmptySeq
<1>5. 0 \in 0 .. Len(q) /\ Len(p) \in 0 .. Len(q) /\ 0 < Len(p)
  BY <1>1
<1>6. r = SubSeq(q, 1, 0) \o SubSeq(q, Len(p) + 1, Len(q))
  BY <1>2, <1>3, <1>4, Zenon
<1> QED BY <1>5, <1>6 DEF q

\* What the notification thread is about to publish is the current sample.
SampleInHand == pub["cb"] # Mqtt!None => pub["cb"][1].seq = sample

LEMMA AlwaysInHand ==
  ASSUME RouterAndHeap
  PROVE  Spec => []SampleInHand
<1>1. Init => SampleInHand
  BY DEF Init, Mqtt!Init, SampleInHand
<1>2. BridgeInv /\ SampleInHand /\ [Next]_vars => SampleInHand'
  <2> SUFFICES ASSUME BridgeInv, SampleInHand, [Next]_vars PROVE SampleInHand'
    OBVIOUS
  <2> USE DEF SampleInHand, own, mqttVars, ToAfterEngine, ToAfterMqtt, To
  <2>1. CASE Main \/ InCall \/ SignalHandler \/ MonitorCheck \/ MonitorReport \/ External
    <3>1. UNCHANGED <<pub, sample>>
      <4>1. CASE MqttConnect \/ MqttConnected \/ DisconnectMqtt \/ DestroyMqtt
        BY <4>1
        DEF MqttConnect, MqttConnected, DisconnectMqtt, DestroyMqtt, Mqtt!ConnectBegin,
          Mqtt!ConnectStore, Mqtt!ConnectFail, Mqtt!DisconnectBegin
      <4>2. CASE InCall \/ External
        BY <4>2
        DEF InCall, External, Mqtt!ClientDisconnect, Mqtt!DisconnectReturn, Mqtt!External,
          Mqtt!ConnectAnswer, Mqtt!LinkDrop, Mqtt!AutoReconnect, Mqtt!Deliver
      <4> QED
        BY <2>1, <4>1, <4>2
        DEF Main, EngineConnect, AddVariable, StartEngine, StopEngine, DestroyEngine,
          SpawnMonitor, LeaveLoop, JoinMonitor, FreeMqtt, Exit, SignalHandler, MonitorCheck,
          MonitorReport
    <3> QED BY <3>1 DEF Mqtt!None
  <2>2. CASE Notification
    BY <2>2 DEF Notification, Engine!CbEnter, BridgeInv, Others, Engine!NoCb, Mqtt!None
  <2>3. CASE Callback
    <3>1. CASE UNCHANGED mqttVars
      BY <2>3, <3>1 DEF Callback, Mqtt!None
    <3>2. ASSUME NEW v, Mqtt!PublishLoad("cb", [seq |-> sample, value |-> v])
          PROVE  SampleInHand'
      <4>1. pub'["cb"] = <<[seq |-> sample, value |-> v]>> \/ pub'["cb"] = Mqtt!None
        BY <3>2 DEF Mqtt!PublishLoad, BridgeInv, Shapes
      <4>2. sample' = sample
        BY <2>3 DEF Callback
      <4> QED BY <4>1, <4>2 DEF Mqtt!None
    <3> QED BY <2>3, <3>1, <3>2 DEF Callback
  <2>4. CASE CallbackPublish
    BY <2>4 DEF CallbackPublish, Mqtt!PublishSend, BridgeInv, Shapes, Mqtt!None
  <2>5. CASE CallbackReturn
    BY <2>5 DEF CallbackReturn, Mqtt!None
  <2>6. CASE UNCHANGED vars
    BY <2>6 DEF vars, Mqtt!None
  <2> QED
    BY <2>1, <2>2, <2>3, <2>4, <2>5, <2>6 DEF Next, CallbackThread
<1> QED BY <1>1, <1>2, AlwaysBridgeInv, PTL DEF Spec

\* What is on its way does not change while the callback, the publisher and the
\* link do not move.
LEMMA WayUnchanged ==
  ASSUME UNCHANGED <<cb, pub, wire, broker, sample>>
  PROVE  UNCHANGED <<OnTheirWay, sample, Numbers(broker)>>
BY DEF OnTheirWay, Numbers, InCallback, Mqtt!None

\* The feed opens once, when add_variable() is called, and closes once.
LEMMA FeedMoves ==
  ASSUME BridgeInv, Main \/ InCall
  PROVE  \/ UNCHANGED FeedState
         \/ FeedState = "before" /\ FeedState' = "open"
         \/ FeedState # "closed" /\ FeedState' = "closed"
<1> USE DEF FeedState, FeedIsOpen, To, ToAfterEngine, ToAfterMqtt, engineVars, own
<1>1. CASE EngineConnect
  BY <1>1 DEF EngineConnect
<1>2. CASE MqttConnect \/ MqttConnected
  BY <1>2 DEF MqttConnect, MqttConnected
<1>3. CASE AddVariable \/ StartEngine \/ SpawnMonitor
  BY <1>3
  DEF AddVariable, StartEngine, SpawnMonitor, Engine!AddBegin, Engine!Start, BridgeInv, Stages
<1>4. CASE LeaveLoop \/ StopEngine
  BY <1>4 DEF LeaveLoop, StopEngine, Engine!StopBegin, BridgeInv, Stages
<1>5. CASE DisconnectMqtt
  BY <1>5 DEF DisconnectMqtt
<1>6. CASE JoinMonitor \/ DestroyMqtt \/ FreeMqtt \/ DestroyEngine \/ Exit
  BY <1>6 DEF JoinMonitor, DestroyMqtt, FreeMqtt, DestroyEngine, Exit
<1>7. CASE InCall
  <2>1. main' = main /\ platform' = platform
    BY <1>7 DEF InCall
  <2>2. CASE call["main"] = Engine!Idle
    <3>1. call' = call
      BY <1>7, <2>2
      DEF InCall, Engine!CallSteps, Engine!AddFail, Engine!AddNotification, Engine!AddInsert,
        Engine!StopLock, Engine!StopDel, Engine!StopClear, Engine!DestroyClose,
        Engine!DestroyFree, Engine!At, Engine!Stopping, Engine!Idle
    <3> QED BY <2>1, <3>1 DEF Engine!Idle
  <2>3. CASE call["main"] # Engine!Idle
    BY <2>1, <2>3 DEF Engine!Idle
  <2> QED BY <2>2, <2>3
<1> QED BY <1>1, <1>2, <1>3, <1>4, <1>5, <1>6, <1>7 DEF Main

\* The steps of the feed itself.
LEMMA FeedReports ==
  ASSUME BridgeInv, OwnTypes, Mqtt!TypeOK, Notification
  PROVE  Feed!Report
<1>1. /\ cb = Engine!NoCb /\ cb'.pc = "entered" /\ DOMAIN notes # {}
      /\ sample' = sample + 1
      /\ UNCHANGED <<pub, wire, broker, main, platform, call>>
  BY DEF Notification, Engine!CbEnter, mqttVars, Engine!engineState
<1>2. pub["cb"] = Mqtt!None
  BY <1>1 DEF BridgeInv, Others, Engine!NoCb
<1>3. FeedState = "open" /\ FeedState' = FeedState
  <2>1. /\ main \in {"start", "spawn", "loop", "stop", "disconnect"}
        /\ platform = "windows"
        /\ main = "disconnect" => call["main"] # Engine!Idle
    <3>1. ~Quiet
      BY <1>1 DEF Quiet
    <3>2. main \notin Before /\ main \notin After /\ platform = "windows"
      BY <3>1 DEF BridgeInv, Stages
    <3>3. main = "disconnect" => In("lock") \/ In("delete")
      BY <3>1 DEF BridgeInv, Stages
    <3> QED BY <3>2, <3>3 DEF BridgeInv, Stages, Before, After, In, Engine!Idle
  <2> QED BY <1>1, <2>1 DEF FeedState, FeedIsOpen, Engine!Idle
<1>4. InCallback = <<>> /\ InCallback' = <<sample'>>
  BY <1>1, <1>2 DEF InCallback, Engine!NoCb, Mqtt!None
<1>5. Numbers(wire) \in Seq(Nat) /\ sample' \in Nat
  BY <1>1, NumbersOf DEF Mqtt!TypeOK, OwnTypes
<1>6. OnTheirWay' = Append(OnTheirWay, sample')
  <2>1. OnTheirWay = Numbers(wire) \o <<>>
    BY <1>4 DEF OnTheirWay
  <2>2. OnTheirWay' = Numbers(wire) \o <<sample'>>
    BY <1>1, <1>4 DEF OnTheirWay, Numbers
  <2> QED BY <1>5, <2>1, <2>2
<1>7. UNCHANGED Numbers(broker)
  BY <1>1 DEF Numbers
<1> QED BY <1>1, <1>3, <1>6, <1>7 DEF Feed!Report

LEMMA FeedLosesOrKeeps ==
  ASSUME BridgeInv, OwnTypes, Mqtt!TypeOK, SampleInHand, CallbackThread
  PROVE  Feed!Lose \/ UNCHANGED Feed!vars
<1>1. UNCHANGED <<main, platform, call, broker, sample>>
  BY DEF CallbackThread, Callback, CallbackPublish, CallbackReturn, own, mqttVars, engineVars,
    Engine!CbCall, Engine!CbReturn, Mqtt!PublishLoad, Mqtt!PublishSend, Engine!engineState
<1>2. UNCHANGED <<FeedState, Numbers(broker), sample>>
  BY <1>1 DEF FeedState, FeedIsOpen, Numbers, Engine!Idle
<1>3. Numbers(wire) \in Seq(Nat) /\ sample \in Nat
  BY NumbersOf DEF Mqtt!TypeOK, OwnTypes
<1>4. \/ UNCHANGED OnTheirWay
      \/ OnTheirWay = Numbers(wire) \o <<sample>> /\ OnTheirWay' = Numbers(wire)
  <2> USE DEF BridgeInv, Shapes, Others
  <2>1. CASE Callback
    <3>1. cb.pc = "entered" /\ InCallback = <<sample>> /\ wire' = wire
      BY <2>1 DEF Callback, Engine!CbCall, InCallback, mqttVars, Mqtt!PublishLoad
    <3>2. InCallback' \in {<<sample>>, <<>>}
      BY <1>1 DEF InCallback
    <3>3. Numbers(wire)' = Numbers(wire)
      BY <3>1 DEF Numbers
    <3>4. Numbers(wire) \o <<>> = Numbers(wire)
      BY <1>3
    <3> QED BY <3>1, <3>2, <3>3, <3>4 DEF OnTheirWay
  <2>2. CASE CallbackPublish
    <3>1. /\ pub["cb"] # Mqtt!None /\ pub'["cb"] = Mqtt!None
          /\ cb.pc = "in_callback" /\ cb' = cb
          /\ wire' = wire \o Mqtt!Taken("cb")
      BY <2>2 DEF CallbackPublish, Mqtt!PublishSend, engineVars
    <3>2. InCallback = <<sample>> /\ InCallback' = <<>>
      BY <3>1 DEF InCallback, Mqtt!None
    <3>3. PICK m \in Sent : pub["cb"] = <<m>>
      BY <3>1 DEF Mqtt!TypeOK
    <3>4. m.seq = sample
      BY <3>1, <3>3 DEF SampleInHand
    <3>5. wire \in Seq(Sent)
      BY DEF Mqtt!TypeOK
    <3>6. CASE Mqtt!Taken("cb") = <<m>>
      <4>1. Numbers(wire') = Numbers(wire) \o <<sample>>
        BY <3>1, <3>4, <3>5, <3>6, NumbersAppend
      <4>2. Numbers(wire') \o <<>> = Numbers(wire')
        BY <1>3, <4>1
      <4>3. OnTheirWay' = Numbers(wire') \o InCallback'
        BY DEF OnTheirWay, Numbers
      <4> QED BY <3>2, <4>1, <4>2, <4>3 DEF OnTheirWay
    <3>7. CASE Mqtt!Taken("cb") = <<>>
      <4>1. wire' = wire
        BY <3>1, <3>5, <3>7
      <4>2. OnTheirWay' = Numbers(wire) \o <<>>
        BY <3>2, <4>1 DEF OnTheirWay, Numbers
      <4> QED BY <1>3, <3>2, <4>2 DEF OnTheirWay
    <3> QED BY <3>3, <3>6, <3>7 DEF Mqtt!Taken, Mqtt!None
  <2>3. CASE CallbackReturn
    <3>1. /\ pub["cb"] = Mqtt!None /\ pub' = pub /\ wire' = wire
          /\ cb.pc = "in_callback" /\ cb'.pc = "idle"
      BY <2>3 DEF CallbackReturn, Engine!CbReturn, Engine!NoCb, mqttVars
    <3>2. InCallback = <<>> /\ InCallback' = <<>>
      BY <3>1 DEF InCallback, Mqtt!None
    <3> QED BY <3>1, <3>2 DEF OnTheirWay, Numbers
  <2> QED BY <2>1, <2>2, <2>3 DEF CallbackThread
<1>5. CASE UNCHANGED OnTheirWay
  BY <1>2, <1>5 DEF Feed!vars
<1>6. CASE OnTheirWay = Numbers(wire) \o <<sample>> /\ OnTheirWay' = Numbers(wire)
  <2>1. \E i, j \in 0 .. Len(OnTheirWay) :
          /\ i < j
          /\ OnTheirWay' = SubSeq(OnTheirWay, 1, i) \o SubSeq(OnTheirWay, j + 1, Len(OnTheirWay))
    <3> DEFINE all == Numbers(wire) \o <<sample>>
    <3>1. \E i, j \in 0 .. Len(all) :
            i < j /\ Numbers(wire) = SubSeq(all, 1, i) \o SubSeq(all, j + 1, Len(all))
      BY <1>3, LoseLast, Zenon
    <3> QED BY <1>6, <3>1, Zenon
  <2> QED BY <1>2, <2>1, Zenon DEF Feed!Lose
<1> QED BY <1>4, <1>5, <1>6

LEMMA FeedOutside ==
  ASSUME OwnTypes, Mqtt!TypeOK, External
  PROVE  Feed!Deliver \/ Feed!Lose \/ UNCHANGED Feed!vars
<1>1. UNCHANGED <<main, platform, call, cb, pub, sample>>
  BY DEF External, Mqtt!External, Mqtt!ConnectAnswer, Mqtt!LinkDrop, Mqtt!AutoReconnect,
    Mqtt!Deliver, engineVars, own
<1>2. UNCHANGED <<FeedState, InCallback, sample>>
  BY <1>1 DEF FeedState, FeedIsOpen, InCallback, Engine!Idle, Mqtt!None
<1>3. /\ wire \in Seq(Sent) /\ Numbers(wire) \in Seq(Nat) /\ broker \in Seq(Sent)
      /\ Len(Numbers(wire)) = Len(wire)
  BY NumbersOf DEF Mqtt!TypeOK
<1>4. InCallback \in Seq(Nat)
  BY DEF InCallback, OwnTypes
<1>5. OnTheirWay' = Numbers(wire') \o InCallback
  BY <1>2 DEF OnTheirWay, Numbers
<1>6. CASE Mqtt!Deliver
  <2>1. /\ wire # <<>> /\ wire' = Tail(wire)
        /\ broker' = Append(broker, Head(wire)) /\ Head(wire) \in Sent
    BY <1>3, <1>6, HeadTailProperties DEF Mqtt!Deliver
  <2>2. /\ Numbers(wire) # <<>> /\ Head(Numbers(wire)) = Head(wire).seq
        /\ Numbers(wire') = Tail(Numbers(wire))
    BY <1>3, <2>1, NumbersTail
  <2>3. Numbers(broker') = Append(Numbers(broker), Head(OnTheirWay))
    <3>1. Numbers(broker') = Append(Numbers(broker), Head(wire).seq)
      BY <1>3, <2>1, NumbersAppend
    <3>2. Head(OnTheirWay) = Head(Numbers(wire))
      BY <1>3, <1>4, <2>2 DEF OnTheirWay
    <3> QED BY <2>2, <3>1, <3>2
  <2>4. OnTheirWay # <<>>
    BY <1>3, <1>4, <2>2 DEF OnTheirWay
  <2>5. OnTheirWay' = Tail(OnTheirWay)
    BY <1>3, <1>4, <1>5, <2>2, TailConcat DEF OnTheirWay
  <2>6. Numbers(broker)' = Numbers(broker')
    BY DEF Numbers
  <2> QED BY <1>2, <2>3, <2>4, <2>5, <2>6 DEF Feed!Deliver
<1>7. CASE Mqtt!LinkDrop
  <2>1. wire' = <<>> /\ UNCHANGED Numbers(broker)
    BY <1>7 DEF Mqtt!LinkDrop, Numbers
  <2>2. Numbers(wire') = <<>>
    BY <2>1 DEF Numbers
  <2>3. OnTheirWay' = InCallback
    BY <1>4, <1>5, <2>2
  <2>4. CASE Numbers(wire) = <<>>
    BY <1>2, <1>4, <2>1, <2>3, <2>4 DEF OnTheirWay, Feed!vars
  <2>5. CASE Numbers(wire) # <<>>
    <3>1. \E i, j \in 0 .. Len(OnTheirWay) :
            /\ i < j
            /\ InCallback = SubSeq(OnTheirWay, 1, i) \o SubSeq(OnTheirWay, j + 1, Len(OnTheirWay))
      BY <1>3, <1>4, <2>5, LoseFront, Zenon DEF OnTheirWay
    <3> QED BY <1>2, <2>1, <2>3, <3>1, Zenon DEF Feed!Lose
  <2> QED BY <2>4, <2>5
<1>8. CASE Mqtt!ConnectAnswer \/ Mqtt!AutoReconnect
  <2>1. UNCHANGED <<wire, broker>>
    BY <1>8 DEF Mqtt!ConnectAnswer, Mqtt!AutoReconnect
  <2> QED BY <1>1, <1>2, <2>1, WayUnchanged DEF Feed!vars
<1> QED BY <1>6, <1>7, <1>8 DEF External, Mqtt!External

\* The engine, the publisher and main together implement SampleFeed, for any
\* addresses, handles and number of samples, on both platforms: each sample is
\* delivered once and in order or is lost, and none is reported before the
\* variable is added or once stop() has returned.
THEOREM BridgeImplementsFeed ==
  ASSUME RouterAndHeap, MaxSamples \in Nat
  PROVE  Spec => ImplementsFeed
<1>1. Init => Feed!Init
  <2> SUFFICES ASSUME Init PROVE Feed!Init
    OBVIOUS
  <2>1. wire = <<>> /\ broker = <<>> /\ InCallback = <<>> /\ sample = 0
    BY DEF Init, Mqtt!Init, Engine!Init, InCallback, Engine!NoCb, Mqtt!None
  <2>2. FeedState = "before"
    BY DEF Init, FeedState
  <2>3. Numbers(wire) = <<>> /\ Numbers(broker) = <<>>
    BY <2>1 DEF Numbers
  <2>4. OnTheirWay = <<>>
    BY <2>1, <2>3 DEF OnTheirWay
  <2> QED BY <2>1, <2>2, <2>3, <2>4 DEF Feed!Init
<1> DEFINE Known == BridgeInv /\ OwnTypes /\ Mqtt!TypeOK /\ SampleInHand
<1>2. Known /\ [Next]_vars => [Feed!Next]_Feed!vars
  <2> SUFFICES ASSUME Known, [Next]_vars PROVE Feed!Next \/ UNCHANGED Feed!vars
    OBVIOUS
  <2>1. CASE Main \/ InCall
    <3>1. UNCHANGED <<cb, pub, wire, broker, sample>>
      <4> USE DEF own, mqttVars, engineVars, ToAfterEngine, ToAfterMqtt, To
      <4>1. CASE MqttConnect \/ MqttConnected \/ DisconnectMqtt \/ DestroyMqtt
        BY <4>1
        DEF MqttConnect, MqttConnected, DisconnectMqtt, DestroyMqtt, Mqtt!ConnectBegin,
          Mqtt!ConnectStore, Mqtt!ConnectFail, Mqtt!DisconnectBegin
      <4>2. CASE InCall
        BY <4>2
        DEF InCall, Mqtt!ClientDisconnect, Mqtt!DisconnectReturn, Engine!CallSteps,
          Engine!AddFail, Engine!AddNotification, Engine!AddInsert, Engine!StopLock,
          Engine!StopDel, Engine!StopClear, Engine!DestroyClose, Engine!DestroyFree
      <4>3. CASE EngineConnect \/ AddVariable \/ StartEngine \/ StopEngine \/ DestroyEngine
        BY <4>3
        DEF EngineConnect, AddVariable, StartEngine, StopEngine, DestroyEngine,
          Engine!Connect, Engine!AddBegin, Engine!Start, Engine!StopBegin,
          Engine!DestroyBegin
      <4>4. CASE SpawnMonitor \/ LeaveLoop \/ JoinMonitor \/ FreeMqtt \/ Exit
        BY <4>4 DEF SpawnMonitor, LeaveLoop, JoinMonitor, FreeMqtt, Exit
      <4> QED BY <2>1, <4>1, <4>2, <4>3, <4>4 DEF Main
    <3>2. UNCHANGED <<OnTheirWay, sample, Numbers(broker)>>
      BY <3>1, WayUnchanged
    <3> QED BY <2>1, <3>2, FeedMoves DEF Feed!Next, Feed!Open, Feed!Close, Feed!vars
  <2>2. CASE SignalHandler \/ MonitorCheck \/ MonitorReport \/ UNCHANGED vars
    <3>1. UNCHANGED <<cb, pub, wire, broker, sample, main, platform, call>>
      BY <2>2
      DEF SignalHandler, MonitorCheck, MonitorReport, vars, own, mqttVars, engineVars
    <3>2. UNCHANGED FeedState
      BY <3>1 DEF FeedState, FeedIsOpen, Engine!Idle
    <3> QED BY <3>1, <3>2, WayUnchanged DEF Feed!vars
  <2>3. CASE Notification
    BY <2>3, FeedReports DEF Feed!Next
  <2>4. CASE CallbackThread
    BY <2>4, FeedLosesOrKeeps DEF Feed!Next
  <2>5. CASE External
    BY <2>5, FeedOutside DEF Feed!Next
  <2> QED BY <2>1, <2>2, <2>3, <2>4, <2>5 DEF Next
<1>3. Spec => []Mqtt!TypeOK
  BY PublisherTypesInProgram
<1> QED
  BY <1>1, <1>2, <1>3, AlwaysBridgeInv, OwnTypesKept, AlwaysInHand, PTL
  DEF Spec, ImplementsFeed, Feed!Spec
=============================================================================
