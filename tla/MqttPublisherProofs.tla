-------------------------- MODULE MqttPublisherProofs --------------------------
(***************************************************************************)
(* Theorems about MqttPublisher, for any publishing threads and messages,  *)
(* and about publishers that number their messages, as in MCPublisher.     *)
(***************************************************************************)
EXTENDS MCPublisher, TLAPS

\* What the client and the broker get are sequences of messages.
LEMMA ShortSequences == <<>> \in Seq(Msgs) /\ \A m \in Msgs : <<m>> \in Seq(Msgs)
  OBVIOUS

LEMMA TypesKept == TypeOK /\ [Next]_vars => TypeOK'
<1> SUFFICES ASSUME TypeOK, [Next]_vars PROVE TypeOK'
  OBVIOUS
<1> USE DEF TypeOK
<1>1. CASE ConnectBegin \/ DisconnectBegin
  BY <1>1 DEF ConnectBegin, DisconnectBegin
<1>2. CASE Control
  BY <1>2 DEF Control, ConnectStore, ConnectFail, ClientDisconnect, DisconnectReturn
<1>3. ASSUME NEW p \in Publishers, PublishSend(p) PROVE TypeOK'
  <2>1. pub[p] \in {None} \union {<<m>> : m \in Msgs}
    OBVIOUS
  <2>2. pub[p] \in Seq(Msgs)
    BY ShortSequences, <2>1 DEF None
  <2>3. Taken(p) \in Seq(Msgs)
    BY ShortSequences, <2>2 DEF Taken, None
  <2>4. wire' \in Seq(Msgs)
    BY <1>3, <2>3 DEF PublishSend
  <2> QED BY <1>3, <2>4 DEF PublishSend
<1>4. ASSUME NEW p \in Publishers, NEW m \in Msgs, PublishLoad(p, m) PROVE TypeOK'
  BY <1>4 DEF PublishLoad
<1>5. CASE ConnectAnswer \/ AutoReconnect
  BY <1>5 DEF ConnectAnswer, AutoReconnect
<1>8. CASE LinkDrop
  <2>1. wire' \in Seq(Msgs)
    BY ShortSequences, <1>8 DEF LinkDrop
  <2> QED BY <1>8, <2>1 DEF LinkDrop
<1>6. CASE Deliver
  BY <1>6 DEF Deliver
<1>7. CASE UNCHANGED vars
  BY <1>7 DEF vars
<1> QED
  BY <1>1, <1>2, <1>3, <1>4, <1>5, <1>6, <1>7, <1>8 DEF Next, External

LEMMA TypesAtFirst == Init => TypeOK
  BY ShortSequences, ZenonT(20) DEF Init, TypeOK

\* All variables keep their types: a publisher holds one message of its own at
\* most, and what the client and the broker get are messages.
THEOREM PublisherTypeCorrect == Spec => []TypeOK
  BY TypesAtFirst, TypesKept, PTL DEF Spec

-----------------------------------------------------------------------------
\* Inside disconnect() the flag is clear; while it is set there is a session,
\* so connect(), which the client refuses then, begins with the flag clear.
FlagAndCalls ==
  /\ connected \in BOOLEAN
  /\ ctl \in {"disconnect", "wait_for"} => ~connected
  /\ FlagMeansSession

\* While publish() lets messages through the client has a session or is getting
\* it back, whatever the link does and in every order of the calls.
THEOREM FlagIsTrue == Spec => []FlagMeansSession
<1>1. Init => FlagAndCalls
  BY DEF Init, FlagAndCalls, FlagMeansSession
<1>2. FlagAndCalls /\ [Next]_vars => FlagAndCalls'
  <2> SUFFICES ASSUME FlagAndCalls, [Next]_vars PROVE FlagAndCalls'
    OBVIOUS
  <2> USE DEF FlagAndCalls, FlagMeansSession
  <2>1. CASE ConnectBegin
    <3>1. ~connected
      BY <2>1 DEF ConnectBegin
    <3>2. connected' = connected /\ ctl' = "connect"
      BY <2>1 DEF ConnectBegin
    <3> QED BY <3>1, <3>2
  <2>2. CASE DisconnectBegin
    <3>1. ~connected'
      BY <2>2 DEF DisconnectBegin
    <3>2. connected' \in BOOLEAN
      BY <2>2 DEF DisconnectBegin
    <3> QED BY <3>1, <3>2
  <2>6. CASE ConnectStore
    <3>1. connected' \in BOOLEAN /\ ctl' = "idle"
      BY <2>6 DEF ConnectStore
    <3>2. client' \in {"up", "down"}
      BY <2>6 DEF ConnectStore
    <3> QED BY <3>1, <3>2
  <2>7. CASE ConnectFail
    <3>1. connected' = connected /\ ctl' = "idle" /\ client' = client
      BY <2>7 DEF ConnectFail
    <3> QED BY <3>1
  <2>8. CASE ClientDisconnect \/ DisconnectReturn
    <3>1. ~connected /\ connected' = connected
      BY <2>8 DEF ClientDisconnect, DisconnectReturn
    <3> QED BY <3>1
  <2>3. ASSUME NEW p \in Publishers, PublishSend(p) \/ \E m \in Msgs : PublishLoad(p, m)
        PROVE  FlagAndCalls'
    BY <2>3 DEF PublishSend, PublishLoad
  <2>4. CASE External
    BY <2>4 DEF External, ConnectAnswer, LinkDrop, AutoReconnect, Deliver
  <2>5. CASE UNCHANGED vars
    BY <2>5 DEF vars
  <2> QED BY <2>1, <2>2, <2>3, <2>4, <2>5, <2>6, <2>7, <2>8 DEF Next, Control
<1>3. FlagAndCalls => FlagMeansSession
  BY DEF FlagAndCalls
<1> QED BY <1>1, <1>2, <1>3, PTL DEF Spec
-----------------------------------------------------------------------------
\* A publisher's number is one that its messages at the broker and on the link
\* are below, or reach when it is outside publish().
Below(m) ==
  m[2] <= sent[m[1]] /\ (pub[m[1]] # None => m[2] < sent[m[1]])

InOrder(s) ==
  \A i, j \in 1 .. Len(s) : i < j /\ s[i][1] = s[j][1] => s[i][2] < s[j][2]

\* The numbers rise along the way from publish() to the broker.
Rising ==
  /\ sent \in [Publishers -> 0 .. PerPublisher]
  /\ \A p \in Publishers : pub[p] # None => pub[p] = << <<p, sent[p]>> >>
  /\ InOrder(broker) /\ InOrder(wire)
  /\ \A i \in 1 .. Len(broker), j \in 1 .. Len(wire) :
       broker[i][1] = wire[j][1] => broker[i][2] < wire[j][2]
  /\ \A i \in 1 .. Len(broker) : Below(broker[i])
  /\ \A i \in 1 .. Len(wire) : Below(wire[i])

\* Messages on their way are pairs of a publisher and a number.
LEMMA Numbered ==
  ASSUME Msgs = MCMsgs, PerPublisher \in Nat, TypeOK
  PROVE  /\ \A m \in Msgs : m[1] \in Publishers /\ m[2] \in Nat
         /\ Len(broker) \in Nat /\ \A i \in 1 .. Len(broker) : broker[i] \in Msgs
         /\ Len(wire) \in Nat /\ \A i \in 1 .. Len(wire) : wire[i] \in Msgs
  BY DEF TypeOK, MCMsgs

\* A publish() begins with the next number, so the others' and its own earlier
\* messages stay below.
LEMMA LoadRises ==
  ASSUME Msgs = MCMsgs, PerPublisher \in Nat, TypeOK, Rising,
         NEW p \in Publishers, PublishNext(p)
  PROVE  Rising'
<1>1. sent' = [sent EXCEPT ![p] = @ + 1] /\ sent[p] < PerPublisher
  BY DEF PublishNext
<1>2. UNCHANGED <<wire, broker>>
  BY DEF PublishNext, PublishLoad
<1>3. /\ pub[p] = None
      /\ pub' = [pub EXCEPT ![p] = IF connected THEN << <<p, sent'[p]>> >> ELSE None]
  BY DEF PublishNext, PublishLoad
<1>4. sent' \in [Publishers -> 0 .. PerPublisher]
  BY <1>1 DEF Rising
<1>5. \A q \in Publishers : pub'[q] # None => pub'[q] = << <<q, sent'[q]>> >>
  BY <1>1, <1>3 DEF Rising, TypeOK
<1>6. \A m \in Msgs : Below(m) => Below(m)'
  BY <1>1, <1>3, Numbered DEF Below, Rising, TypeOK
<1>7. (\A i \in 1 .. Len(broker) : Below(broker[i]))'
  BY <1>2, <1>6, Numbered DEF Rising, Below
<1>8. (\A i \in 1 .. Len(wire) : Below(wire[i]))'
  BY <1>2, <1>6, Numbered DEF Rising, Below
<1> QED BY <1>2, <1>4, <1>5, <1>7, <1>8 DEF Rising, InOrder

\* What the client takes goes behind what is on the link, and is above it.
LEMMA SendRises ==
  ASSUME Msgs = MCMsgs, PerPublisher \in Nat, TypeOK, Rising, UNCHANGED sent,
         NEW p \in Publishers, PublishSend(p)
  PROVE  Rising'
<1>1. pub[p] # None /\ pub[p] = << <<p, sent[p]>> >> /\ sent[p] \in Nat
  BY DEF PublishSend, Rising
<1>2. pub' = [pub EXCEPT ![p] = None] /\ UNCHANGED broker
  BY DEF PublishSend
<1>3. \A m \in Msgs : Below(m) => Below(m)'
  BY <1>2, Numbered DEF Below, TypeOK
<1>4. \A q \in Publishers : pub'[q] # None => pub'[q] = << <<q, sent'[q]>> >>
  BY <1>2 DEF Rising, TypeOK
<1>5. (\A i \in 1 .. Len(broker) : Below(broker[i]))'
  BY <1>2, <1>3, Numbered DEF Rising, Below
<1>6. wire' = wire \/ wire' = Append(wire, <<p, sent[p]>>)
  <2>1. wire' = wire \o Taken(p)
    BY DEF PublishSend
  <2>2. wire \o <<>> = wire /\ wire \o << <<p, sent[p]>> >> = Append(wire, <<p, sent[p]>>)
    BY DEF TypeOK
  <2> QED BY <1>1, <2>1, <2>2 DEF Taken, None
<1>7. CASE wire' = wire
  <2>1. (\A i \in 1 .. Len(wire) : Below(wire[i]))'
    BY <1>3, <1>7, Numbered DEF Rising, Below
  <2> QED BY <1>2, <1>4, <1>5, <1>7, <2>1 DEF Rising, InOrder
<1>8. CASE wire' = Append(wire, <<p, sent[p]>>)
  <2>1. Len(wire') = Len(wire) + 1 /\ wire'[Len(wire) + 1] = <<p, sent[p]>>
    BY <1>8 DEF TypeOK
  <2>2. \A i \in 1 .. Len(wire) : wire'[i] = wire[i]
    BY <1>8 DEF TypeOK
  <2>3. \A m \in Msgs : Below(m) /\ m[1] = p => m[2] < sent[p]
    BY <1>1 DEF Below
  <2>4. /\ \A i \in 1 .. Len(wire) : wire[i][1] = p => wire[i][2] < sent[p]
        /\ \A i \in 1 .. Len(broker) : broker[i][1] = p => broker[i][2] < sent[p]
    BY <2>3, Numbered DEF Rising
  <2>5. InOrder(wire')
    <3> SUFFICES ASSUME NEW i \in 1 .. Len(wire'), NEW j \in 1 .. Len(wire'),
                        i < j, wire'[i][1] = wire'[j][1]
                 PROVE  wire'[i][2] < wire'[j][2]
      BY DEF InOrder
    <3>1. i \in 1 .. Len(wire) /\ wire'[i] = wire[i]
      BY <2>1, <2>2, Numbered
    <3>2. CASE j = Len(wire) + 1
      BY <2>1, <2>4, <3>1, <3>2
    <3>3. CASE j \in 1 .. Len(wire)
      BY <2>2, <3>1, <3>3 DEF Rising, InOrder
    <3> QED BY <2>1, <3>2, <3>3, Numbered
  <2>6. \A i \in 1 .. Len(broker), j \in 1 .. Len(wire') :
          broker[i][1] = wire'[j][1] => broker[i][2] < wire'[j][2]
    <3> SUFFICES ASSUME NEW i \in 1 .. Len(broker), NEW j \in 1 .. Len(wire'),
                        broker[i][1] = wire'[j][1]
                 PROVE  broker[i][2] < wire'[j][2]
      OBVIOUS
    <3>1. CASE j = Len(wire) + 1
      BY <2>1, <2>4, <3>1
    <3>2. CASE j \in 1 .. Len(wire)
      BY <2>2, <3>2 DEF Rising
    <3> QED BY <2>1, <3>1, <3>2, Numbered
  <2>7. (\A i \in 1 .. Len(wire) : Below(wire[i]))'
    <3> SUFFICES ASSUME NEW i \in 1 .. Len(wire') PROVE Below(wire[i])'
      OBVIOUS
    <3>1. CASE i = Len(wire) + 1
      BY <1>1, <1>2, <2>1, <3>1 DEF Below, TypeOK
    <3>2. CASE i \in 1 .. Len(wire)
      BY <1>3, <2>2, <3>2, Numbered DEF Rising, Below
    <3> QED BY <2>1, <3>1, <3>2, Numbered
  <2> QED BY <1>2, <1>4, <1>5, <2>5, <2>6, <2>7 DEF Rising
<1> QED BY <1>6, <1>7, <1>8

\* The link is emptied from its end.
LEMMA DeliverRises ==
  ASSUME Msgs = MCMsgs, PerPublisher \in Nat, TypeOK, Rising, UNCHANGED sent, Deliver
  PROVE  Rising'
<1>1. /\ wire # <<>> /\ broker' = Append(broker, Head(wire)) /\ wire' = Tail(wire)
      /\ UNCHANGED pub
  BY DEF Deliver
<1>2. Len(wire) \in Nat \ {0} /\ Len(broker) \in Nat
  BY <1>1 DEF TypeOK
<1>3. Len(wire') = Len(wire) - 1 /\ \A i \in 1 .. Len(wire) - 1 : wire'[i] = wire[i + 1]
  BY <1>1, <1>2 DEF TypeOK
<1>4. /\ Len(broker') = Len(broker) + 1 /\ broker'[Len(broker) + 1] = wire[1]
      /\ \A i \in 1 .. Len(broker) : broker'[i] = broker[i]
  BY <1>1, <1>2 DEF TypeOK
<1>5. InOrder(broker')
  BY <1>2, <1>4 DEF InOrder, Rising
<1>6. InOrder(wire')
  BY <1>2, <1>3 DEF InOrder, Rising
<1>7. \A i \in 1 .. Len(broker'), j \in 1 .. Len(wire') :
        broker'[i][1] = wire'[j][1] => broker'[i][2] < wire'[j][2]
  <2> SUFFICES ASSUME NEW i \in 1 .. Len(broker'), NEW j \in 1 .. Len(wire'),
                      broker'[i][1] = wire'[j][1]
               PROVE  broker'[i][2] < wire'[j][2]
    OBVIOUS
  <2>1. wire'[j] = wire[j + 1] /\ j + 1 \in 1 .. Len(wire) /\ 1 < j + 1 /\ 1 \in 1 .. Len(wire)
    BY <1>2, <1>3
  <2>2. CASE i = Len(broker) + 1
    BY <1>4, <2>1, <2>2 DEF Rising, InOrder
  <2>3. CASE i \in 1 .. Len(broker)
    BY <1>4, <2>1, <2>3 DEF Rising
  <2> QED BY <1>2, <1>4, <2>2, <2>3
<1>8. (\A i \in 1 .. Len(broker) : Below(broker[i]))'
  BY <1>1, <1>2, <1>4 DEF Rising, Below
<1>9. (\A i \in 1 .. Len(wire) : Below(wire[i]))'
  BY <1>1, <1>2, <1>3 DEF Rising, Below
<1> QED BY <1>1, <1>5, <1>6, <1>7, <1>8, <1>9 DEF Rising

\* A link that drops empties itself.
LEMMA DropRises ==
  ASSUME Rising, UNCHANGED sent, LinkDrop
  PROVE  Rising'
  BY DEF Rising, LinkDrop, InOrder, Below

\* For any number of publishers and of messages, the broker gets each
\* publisher's messages once at most and in the order of its publish() calls,
\* across disconnects, link losses and reconnects.
THEOREM PublishersInOrder ==
  ASSUME Msgs = MCMsgs, PerPublisher \in Nat
  PROVE  MCSpec => []BrokerInOrder
<1>1. MCInit => TypeOK /\ Rising
  BY TypesAtFirst DEF MCInit, Init, Rising, InOrder, None
<1>2. TypeOK /\ Rising /\ [MCNext]_<<vars, sent>> => (TypeOK /\ Rising)'
  <2> SUFFICES ASSUME TypeOK, Rising, [MCNext]_<<vars, sent>> PROVE TypeOK' /\ Rising'
    OBVIOUS
  <2>1. ASSUME NEW p \in Publishers, PublishNext(p) PROVE TypeOK' /\ Rising'
    <3>1. <<p, sent'[p]>> \in Msgs
      BY <2>1 DEF PublishNext, Rising, MCMsgs
    <3>2. Next
      BY <2>1, <3>1 DEF PublishNext, Next
    <3> QED BY <2>1, <3>2, LoadRises, TypesKept
  <2>2. ASSUME NEW p \in Publishers, PublishSend(p), UNCHANGED sent PROVE TypeOK' /\ Rising'
    BY <2>2, SendRises, TypesKept DEF Next
  <2>3. CASE Deliver /\ UNCHANGED sent
    BY <2>3, DeliverRises, TypesKept DEF Next, External
  <2>4. CASE LinkDrop /\ UNCHANGED sent
    BY <2>4, DropRises, TypesKept DEF Next, External
  <2>5. CASE /\ ConnectBegin \/ DisconnectBegin \/ Control \/ ConnectAnswer \/ AutoReconnect
             /\ UNCHANGED sent
    <3>1. UNCHANGED <<pub, wire, broker>>
      BY <2>5 DEF ConnectBegin, DisconnectBegin, Control, ConnectStore, ConnectFail,
                  ClientDisconnect, DisconnectReturn, ConnectAnswer, AutoReconnect
    <3>2. Rising'
      BY <2>5, <3>1 DEF Rising, InOrder, Below
    <3> QED BY <2>5, <3>2, TypesKept DEF Next, External
  <2>6. CASE UNCHANGED <<vars, sent>>
    <3>1. Rising'
      BY <2>6 DEF Rising, InOrder, Below, vars
    <3> QED BY <2>6, <3>1, TypesKept
  <2> QED BY <2>1, <2>2, <2>3, <2>4, <2>5, <2>6 DEF MCNext, External
<1>3. TypeOK /\ Rising => BrokerInOrder
  <2>1. TypeOK => DOMAIN broker = 1 .. Len(broker)
    BY DEF TypeOK
  <2> QED BY <2>1 DEF Rising, InOrder, BrokerInOrder
<1> QED BY <1>1, <1>2, <1>3, PTL DEF MCSpec
=============================================================================
