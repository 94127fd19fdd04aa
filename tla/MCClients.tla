------------------------------- MODULE MCClients -------------------------------
(* A small instance of Clients for TLC. *)
EXTENDS Clients

CONSTANTS t1, t2, t3

\* Three topics, or none; then the user types some.
ThreeOrNone == {<<t1, t2, t3>>, <<>>}

\* A request of each kind; the topic is one that the consumer subscribes to early.
Requests == {[cmd |-> "PUBLISH", topic |-> t1], [cmd |-> "SUBSCRIBE", topic |-> t1],
             [cmd |-> "UNSUBSCRIBE", topic |-> t1],
             [cmd |-> "PING", topic |-> NoTopic], [cmd |-> "INVALID", topic |-> NoTopic]}
===============================================================================
