----------------------------- MODULE MCAsioBroker -----------------------------
(* Small instances of AsioBroker for TLC. *)
EXTENDS AsioBroker, TLC

\* Connections are interchangeable: nothing in the specification names one.
Interchangeable == Permutations(Clients)

\* The commands that change the broker's tables, and PING as the shortest
\* request that makes the broker write.
PubSubRequests == [cmd : {"PUBLISH", "SUBSCRIBE", "UNSUBSCRIBE"}, topic : Topics]
PubAndSub == [cmd : {"PUBLISH", "SUBSCRIBE"}, topic : Topics]
\* All but UNSUBSCRIBE, to keep two topics small.
NoUnsubscribe == PubAndSub \cup [cmd : {"PING", "INVALID"}, topic : {NoTopic}]
PingOnly == [cmd : {"PING"}, topic : {NoTopic}]
===============================================================================
