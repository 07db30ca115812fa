----------------------------- MODULE MCPublisher -----------------------------
(* MqttPublisher for TLC: every publisher sends its messages once, in order. *)
EXTENDS MqttPublisher, FiniteSets

CONSTANT PerPublisher   \* bound: messages of each publisher

MCMsgs == Publishers \X (1 .. PerPublisher)

VARIABLE sent           \* for each publisher, how many it has passed to publish()

MCInit == Init /\ sent = [p \in Publishers |-> 0]

PublishNext(p) ==
  /\ sent[p] < PerPublisher
  /\ sent' = [sent EXCEPT ![p] = @ + 1]
  /\ PublishLoad(p, <<p, sent'[p]>>)

MCNext ==
  \/ \E p \in Publishers : PublishNext(p)
  \/ /\ ConnectBegin \/ DisconnectBegin \/ Control \/ External
        \/ \E p \in Publishers : PublishSend(p)
     /\ UNCHANGED sent

MCSpec == MCInit /\ [][MCNext]_<<vars, sent>> /\ Fairness

\* The broker sees each publisher's messages at most once and in the order of
\* its publish() calls, whatever the link does.
BrokerInOrder ==
  \A i, j \in DOMAIN broker :
    i < j /\ broker[i][1] = broker[j][1] => broker[i][2] < broker[j][2]
=============================================================================
