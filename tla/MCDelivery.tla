----------------------------- MODULE MCDelivery -----------------------------
(* Instances of Delivery.  Topic cmd is a command, answered on topic ack.  *)
EXTENDS Delivery

CONSTANTS cmd, ack, T1, th1, th2

MCTopics  == {cmd, ack}
MCTypes   == {T1}
MCConfigs == {}
MCDeclares == [c \in MCConfigs |-> {}]
MCThreads == {th1, th2}

\* The callback on cmd publishes on ack; no other callback publishes.
Acknowledge ==
  [t \in MCTopics |-> IF t = cmd THEN [topic |-> ack, type |-> T1] ELSE NoReply]
Passive == [t \in MCTopics |-> NoReply]

EndpointFaults == {"datareader", "datareader_narrow", "datawriter"}
=============================================================================
