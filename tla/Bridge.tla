-------------------------------- MODULE Bridge --------------------------------
(***************************************************************************)
(* main.cpp: the engine, the publisher, the main thread that builds and    *)
(* tears them down, the monitor thread, the signal handler, and the lambda *)
(* that carries each sample from the notification thread to publish().     *)
(* The Linux build has no engine and publishes nothing.                    *)
(***************************************************************************)
EXTENDS Integers, Sequences

CONSTANTS
  Platforms,    \* the builds considered: "windows", "linux"
  MaxSamples,   \* bound: samples the router reports
  Addrs, UserRange, Notes, DelDrains   \* see AdsRealtimeEngine

VARIABLES
  ads_port, running, variables, mutex, live, call, todo, phase,
  opened, notes, cb,                                \* AdsRealtimeEngine
  connected, ctl, pub, client, wire, broker,        \* MqttPublisher
  platform,     \* the build that runs
  g_running,    \* cleared by the signal handler
  main,         \* what the main thread does next
  monitor,      \* step of the monitor thread
  printed,      \* the notification count of its last report
  sample        \* samples reported so far; the last one is being handled

Engine == INSTANCE AdsRealtimeEngine WITH
  Callers <- {"main"}, MaxPorts <- 1, Reconnects <- FALSE, DelMayFail <- FALSE

\* A sample of the variable is an int32_t; Beyond is a byte of what follows it.
SampleSize == 4
Beyond == 0

\* What reaches the broker for a sample: its number and the value read for it,
\* which of the sample's bytes, 1 to SampleSize, each byte of the value is.
Sent == [seq : 1 .. MaxSamples, value : [1 .. SampleSize -> 0 .. SampleSize]]

Mqtt == INSTANCE MqttPublisher WITH Publishers <- {"cb"}, Msgs <- Sent

engineVars == <<ads_port, running, variables, mutex, live, call, todo, phase,
                opened, notes, cb>>
mqttVars == <<connected, ctl, pub, client, wire, broker>>
own == <<platform, g_running, main, monitor, printed, sample>>
vars == <<engineVars, mqttVars, own>>

Init ==
  /\ Engine!Init
  /\ Mqtt!Init
  /\ platform \in Platforms
  /\ g_running = TRUE
  /\ main = IF platform = "windows" THEN "engine_connect" ELSE "mqtt_connect"
  /\ monitor = "none"
  /\ printed = 0
  /\ sample = 0
-----------------------------------------------------------------------------
\* The main thread goes on to step next, after an engine, a publisher or no call.
ToAfterEngine(next) ==
  main' = next /\ UNCHANGED <<mqttVars, platform, g_running, monitor, printed, sample>>
ToAfterMqtt(next) ==
  main' = next /\ UNCHANGED <<engineVars, platform, g_running, monitor, printed, sample>>
To(next) == ToAfterEngine(next) /\ UNCHANGED engineVars

EngineConnect ==
  /\ main = "engine_connect"
  /\ Engine!Connect("main")
  /\ ToAfterEngine(IF ads_port' = 0 THEN "destroy_engine" ELSE "mqtt_connect")

MqttConnect ==
  /\ main = "mqtt_connect"
  /\ Mqtt!ConnectBegin /\ ToAfterMqtt("mqtt_wait")

MqttConnected ==
  /\ main = "mqtt_wait"
  /\ \/ /\ Mqtt!ConnectStore
        /\ ToAfterMqtt(IF platform = "windows" THEN "add" ELSE "loop")
     \/ Mqtt!ConnectFail /\ ToAfterMqtt("destroy_mqtt")

\* The result of add_variable is not looked at.
AddVariable ==
  /\ main = "add"
  /\ Engine!AddBegin("main") /\ ToAfterEngine("start")

StartEngine ==
  /\ main = "start"
  /\ Engine!Start("main") /\ ToAfterEngine("spawn")

SpawnMonitor ==
  /\ main = "spawn"
  /\ main' = "loop"
  /\ monitor' = "check"
  /\ UNCHANGED <<engineVars, mqttVars, platform, g_running, printed, sample>>

\* Mutant: the engine is not stopped.
LeaveLoopNoStop ==
  /\ main = "loop"
  /\ ~g_running
  /\ To("disconnect")

LeaveLoop ==
  /\ main = "loop"
  /\ ~g_running
  /\ To(IF platform = "windows" THEN "stop" ELSE "disconnect")

StopEngine ==
  /\ main = "stop"
  /\ Engine!StopBegin("main") /\ ToAfterEngine("disconnect")

DisconnectMqtt ==
  /\ main = "disconnect"
  /\ call["main"] = Engine!Idle
  /\ Mqtt!DisconnectBegin /\ ToAfterMqtt("join")

\* Mutant: the monitor thread is detached.
DetachMonitor ==
  /\ main = "join"
  /\ ctl = "idle"
  /\ To("destroy_mqtt")

JoinMonitor ==
  /\ main = "join"
  /\ ctl = "idle"
  /\ monitor \in {"none", "done"}
  /\ To("destroy_mqtt")

\* Destructors run in reverse order: the publisher's calls disconnect(), then
\* its client is freed; the engine's comes after.
DestroyMqtt ==
  /\ main = "destroy_mqtt"
  /\ Mqtt!DisconnectBegin /\ ToAfterMqtt("free_mqtt")

FreeMqtt ==
  /\ main = "free_mqtt"
  /\ ctl = "idle"
  /\ To(IF platform = "windows" THEN "destroy_engine" ELSE "done")

DestroyEngine ==
  /\ main = "destroy_engine"
  /\ Engine!DestroyBegin("main") /\ ToAfterEngine("exit")

Exit ==
  /\ main = "exit"
  /\ phase = "dead"
  /\ To("done")

Main ==
  \/ EngineConnect \/ MqttConnect \/ MqttConnected \/ AddVariable \/ StartEngine
  \/ SpawnMonitor \/ LeaveLoop \/ StopEngine \/ DisconnectMqtt \/ JoinMonitor
  \/ DestroyMqtt \/ FreeMqtt \/ DestroyEngine \/ Exit

\* The steps inside the calls that the main thread makes.
InCall ==
  \/ Engine!CallSteps("main") /\ UNCHANGED <<mqttVars, own>>
  \/ /\ Mqtt!ClientDisconnect \/ Mqtt!DisconnectReturn
     /\ UNCHANGED <<engineVars, own>>

SignalHandler ==
  /\ g_running
  /\ main # "done"
  /\ g_running' = FALSE
  /\ UNCHANGED <<engineVars, mqttVars, platform, main, monitor, printed, sample>>
-----------------------------------------------------------------------------
\* Mutant: the loop never looks at g_running.
MonitorForEver ==
  /\ monitor = "check"
  /\ monitor' = "sleep"
  /\ UNCHANGED <<engineVars, mqttVars, platform, g_running, main, printed, sample>>

MonitorCheck ==
  /\ monitor = "check"
  /\ monitor' = IF g_running THEN "sleep" ELSE "done"
  /\ UNCHANGED <<engineVars, mqttVars, platform, g_running, main, printed, sample>>

\* get_statistics() copies stats_, which nothing in the engine ever writes.
StatsUnderflow == 0 - 1                                                 \* mutant
StatsTotal == 0

MonitorReport ==
  /\ monitor = "sleep"
  /\ monitor' = "check"
  /\ printed' = StatsTotal
  /\ UNCHANGED <<engineVars, mqttVars, platform, g_running, main, sample>>
-----------------------------------------------------------------------------
\* The router reports a change of the variable, bounded by MaxSamples.
Notification ==
  /\ sample < MaxSamples
  /\ Engine!CbEnter
  /\ sample' = sample + 1
  /\ UNCHANGED <<mqttVars, platform, g_running, main, monitor, printed>>

\* TcAdsDef.h packs the header (pragma pack(push, 1)): 4 + 8 + 4 bytes precede
\* `data`, where the sample begins, and sizeof counts the one byte of data[1] in.
DataOffset == 4 + 8 + 4
HeaderSize == DataOffset + 1

\* The SampleSize bytes that the lambda reads from an offset on.
ByteAt(offset) ==
  IF offset - DataOffset \in 0 .. SampleSize - 1 THEN offset - DataOffset + 1 ELSE Beyond
ReadAt(offset) == [k \in 1 .. SampleSize |-> ByteAt(offset + k - 1)]

\* The lambda reads the sample and calls publish().
Callback ==
  /\ Engine!CbCall
  /\ IF cb.user = 0
       THEN UNCHANGED mqttVars
       ELSE Mqtt!PublishLoad("cb", [seq |-> sample, value |-> ReadAt(HeaderSize)])
  /\ UNCHANGED own

CallbackPublish ==
  /\ Mqtt!PublishSend("cb")
  /\ UNCHANGED <<engineVars, own>>

CallbackReturn ==
  /\ pub["cb"] = Mqtt!None
  /\ Engine!CbReturn
  /\ UNCHANGED <<mqttVars, own>>

CallbackThread == Callback \/ CallbackPublish \/ CallbackReturn

External == Mqtt!External /\ UNCHANGED <<engineVars, own>>

Next ==
  \/ Main \/ InCall \/ SignalHandler
  \/ MonitorCheck \/ MonitorReport
  \/ Notification \/ CallbackThread
  \/ External

Spec == Init /\ [][Next]_vars

\* Every thread of the process is scheduled, the client answers connect and the
\* broker takes what is on the link.  Signals, samples and the link are free.
Fairness ==
  /\ WF_vars(Main) /\ WF_vars(InCall)
  /\ WF_vars(MonitorCheck \/ MonitorReport)
  /\ WF_vars(CallbackThread)
  /\ WF_vars(Mqtt!ConnectAnswer /\ UNCHANGED <<engineVars, own>>)
  /\ WF_vars(Mqtt!Deliver /\ UNCHANGED <<engineVars, own>>)

FairSpec == Spec /\ Fairness
-----------------------------------------------------------------------------
TypeOK ==
  /\ Engine!TypeOK
  /\ Mqtt!TypeOK
  /\ platform \in Platforms
  /\ g_running \in BOOLEAN
  /\ monitor \in {"none", "check", "sleep", "done"}
  /\ printed \in Nat
  /\ sample \in 0 .. MaxSamples
  /\ main \in {"engine_connect", "mqtt_connect", "mqtt_wait", "add", "start",
               "spawn", "loop", "stop", "disconnect", "join", "destroy_mqtt",
               "free_mqtt", "destroy_engine", "exit", "done"}

\* The lambda and the monitor hold references to main's local objects: neither
\* runs once the object it uses is gone, on the early exits as on shutdown.
ReferencesValid ==
  /\ main \in {"destroy_engine", "exit", "done"} => pub["cb"] = Mqtt!None /\ cb.pc # "in_callback"
  /\ main \in {"exit", "done"} => monitor \in {"none", "done"}
  /\ Engine!CallbackTargetsLive

\* No sample meets a publisher that is not open: main connects it before it
\* registers a variable and disconnects it only when the last callback is over.
SamplesMeetPublisher == DOMAIN notes # {} \/ cb # Engine!NoCb => connected

\* The engine, the publisher and main together are a feed of samples that are
\* delivered once and in order or lost, and that ends when stop() returns.
Numbers(s) == [i \in DOMAIN s |-> s[i].seq]
InCallback == IF cb.pc = "entered" \/ pub["cb"] # Mqtt!None THEN <<sample>> ELSE <<>>
OnTheirWay == Numbers(wire) \o InCallback

FeedIsOpen ==
  /\ platform = "windows"
  /\ \/ main \in {"start", "spawn", "loop", "stop"}
     \/ main = "disconnect" /\ call["main"] # Engine!Idle
FeedState ==
  IF main \in {"engine_connect", "mqtt_connect", "mqtt_wait", "add"} THEN "before"
  ELSE IF FeedIsOpen THEN "open" ELSE "closed"

Feed == INSTANCE SampleFeed WITH
  feed <- FeedState, reported <- sample, pending <- OnTheirWay, delivered <- Numbers(broker)

ImplementsFeed == Feed!Spec

\* A signal always ends the program, from any point of its start on, while
\* notifications keep arriving and whatever the broker answers.
ShutdownCompletes == ~g_running ~> main = "done"

\* A sample that publish() takes while the link is up arrives, unless the link
\* is lost or shutdown closes the session first.
SampleArrives ==
  \A s \in 1 .. MaxSamples :
    (pub["cb"] # Mqtt!None /\ sample = s /\ client = "up") ~>
      (client # "up" \/ \E i \in DOMAIN broker : broker[i].seq = s)

\* "Data folgt nach Header" (ads_notification_callback, line 216): the value
\* that is published is the sample that the notification carries, byte for byte.
PublishesValue ==
  \A i \in DOMAIN broker : broker[i].value = [k \in 1 .. SampleSize |-> k]
=============================================================================
