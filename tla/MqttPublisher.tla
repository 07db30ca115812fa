---------------------------- MODULE MqttPublisher ----------------------------
(***************************************************************************)
(* MqttPublisher: one thread connects, disconnects and destroys it while   *)
(* others call publish.  The Paho client, the link and the broker are      *)
(* external: the client reconnects by itself, publishes nothing while it   *)
(* is not connected (it throws), and loses what is in flight with the link *)
(* (QoS 0, clean session).                                                 *)
(***************************************************************************)
EXTENDS Naturals, Sequences

CONSTANTS
  Publishers,   \* threads that call publish
  Msgs          \* what they may publish

VARIABLES
  connected,    \* connected_
  ctl,          \* step of the thread inside connect() or disconnect()
  pub,          \* for each publisher, the message past the check of connected_
  client,       \* Paho: off, connecting, up, down (reconnecting), closing, closed
  wire,         \* messages handed to the client, not yet at the broker
  broker        \* messages the broker has received

vars == <<connected, ctl, pub, client, wire, broker>>

None == <<>>

Init ==
  /\ connected = FALSE
  /\ ctl = "idle"
  /\ pub = [p \in Publishers |-> None]
  /\ client = "off"
  /\ wire = <<>>
  /\ broker = <<>>
-----------------------------------------------------------------------------
\* connect(): waits for the answer, then sets connected_.  A client that is
\* not off or closed throws, which changes nothing.
\* Mutant: connected_ is set before the answer.
ConnectBeginEarly ==
  /\ ctl = "idle"
  /\ client \in {"off", "closed"}
  /\ client' = "connecting"
  /\ ctl' = "connect"
  /\ connected' = TRUE
  /\ UNCHANGED <<pub, wire, broker>>

ConnectBegin ==
  /\ ctl = "idle"
  /\ client \in {"off", "closed"}
  /\ client' = "connecting"
  /\ ctl' = "connect"
  /\ UNCHANGED <<connected, pub, wire, broker>>

ConnectStore ==
  /\ ctl = "connect"
  /\ client \in {"up", "down"}
  /\ connected' = TRUE
  /\ ctl' = "idle"
  /\ UNCHANGED <<pub, client, wire, broker>>

ConnectFail ==
  /\ ctl = "connect"
  /\ client = "off"
  /\ ctl' = "idle"
  /\ UNCHANGED <<connected, pub, client, wire, broker>>

\* disconnect(): only the call that clears connected_ goes on.
DisconnectBegin ==
  /\ ctl = "idle"
  /\ connected' = FALSE
  /\ ctl' = IF connected THEN "disconnect" ELSE "idle"
  /\ UNCHANGED <<pub, client, wire, broker>>

\* The client throws while the link is down; the exception is swallowed.
ClientDisconnect ==
  /\ ctl = "disconnect"
  /\ IF client = "up" THEN client' = "closing" /\ ctl' = "wait_for"
                      ELSE client' = "closed" /\ ctl' = "idle"
  /\ UNCHANGED <<connected, pub, wire, broker>>

\* wait_for(1 s) returns with the answer or without it.
\* Mutant: wait() in place of wait_for().
DisconnectWait ==
  /\ ctl = "wait_for"
  /\ client = "closed"
  /\ ctl' = "idle"
  /\ UNCHANGED <<connected, pub, client, wire, broker>>

DisconnectReturn ==
  /\ ctl = "wait_for"
  /\ ctl' = "idle"
  /\ UNCHANGED <<connected, pub, client, wire, broker>>

Control == ConnectStore \/ ConnectFail \/ ClientDisconnect \/ DisconnectReturn
-----------------------------------------------------------------------------
\* publish(): connected_ is checked once, the client is called afterwards.
\* Mutant: a second publish starts in the buffer of the first.
PublishLoadAgain(p, m) ==
  /\ connected
  /\ pub' = [pub EXCEPT ![p] = Append(@, m)]
  /\ UNCHANGED <<connected, ctl, client, wire, broker>>

PublishLoad(p, m) ==
  /\ pub[p] = None
  /\ pub' = [pub EXCEPT ![p] = IF connected THEN <<m>> ELSE None]
  /\ UNCHANGED <<connected, ctl, client, wire, broker>>

\* What the client takes; it throws when it is not connected.  The mutants
\* retry a call that succeeded, and treat every call as failed.
SentTwice(p) == IF client \in {"up", "closing"} THEN pub[p] \o pub[p] ELSE None
SentNever(p) == None
Taken(p) == IF client \in {"up", "closing"} THEN pub[p] ELSE None

PublishSend(p) ==
  /\ pub[p] # None
  /\ wire' = wire \o Taken(p)
  /\ pub' = [pub EXCEPT ![p] = None]
  /\ UNCHANGED <<connected, ctl, client, broker>>
-----------------------------------------------------------------------------
\* External: the answer to connect, the link, and the broker.
ConnectAnswer ==
  /\ client = "connecting"
  /\ client' \in {"up", "off"}
  /\ UNCHANGED <<connected, ctl, pub, wire, broker>>

LinkDrop ==
  /\ client \in {"up", "closing"}
  /\ client' = IF client = "up" THEN "down" ELSE "closed"
  /\ wire' = <<>>
  /\ UNCHANGED <<connected, ctl, pub, broker>>

AutoReconnect ==
  /\ client = "down"
  /\ client' = "up"
  /\ UNCHANGED <<connected, ctl, pub, wire, broker>>

Deliver ==
  /\ wire # <<>>
  /\ broker' = Append(broker, Head(wire))
  /\ wire' = Tail(wire)
  /\ UNCHANGED <<connected, ctl, pub, client>>

External == ConnectAnswer \/ LinkDrop \/ AutoReconnect \/ Deliver

Next ==
  \/ ConnectBegin \/ DisconnectBegin \/ Control
  \/ \E p \in Publishers : PublishSend(p) \/ \E m \in Msgs : PublishLoad(p, m)
  \/ External

Spec == Init /\ [][Next]_vars

\* The client answers connect requests (it has a timeout of its own).
Fairness ==
  WF_vars(Control) /\ WF_vars(ConnectAnswer) /\ WF_vars(Deliver)
  /\ \A p \in Publishers : WF_vars(PublishSend(p))
-----------------------------------------------------------------------------
TypeOK ==
  /\ connected \in BOOLEAN
  /\ ctl \in {"idle", "connect", "disconnect", "wait_for"}
  /\ pub \in [Publishers -> {None} \union {<<m>> : m \in Msgs}]
  /\ client \in {"off", "connecting", "up", "down", "closing", "closed"}
  /\ wire \in Seq(Msgs) /\ broker \in Seq(Msgs)

\* While publish() lets messages through, the client is connected or trying to
\* be: connected_ is set only after the connection and cleared before it goes.
FlagMeansSession == connected => client \in {"up", "down"}

\* connect() and disconnect() return, even when the broker never answers the
\* disconnect.
ControlReturns == ctl # "idle" ~> ctl = "idle"
=============================================================================
