------------------------------ MODULE BrokerLines ------------------------------
(***************************************************************************)
(* The lines clients and the Asio broker exchange, reduced to what decides *)
(* control: Session::process_message of src/asio_server.cpp and the        *)
(* notification that TopicManager::publish builds.                         *)
(***************************************************************************)
EXTENDS Naturals

CONSTANTS Topics,
          NoTopic     \* the topic field of a line that names none

ASSUME NoTopicOK == NoTopic \notin Topics

\* What process_message tells apart: the four commands, and INVALID for any line
\* it answers with one of its ERROR replies.
Lines == [cmd : {"PUBLISH", "SUBSCRIBE", "UNSUBSCRIBE"}, topic : Topics]
            \cup [cmd : {"PING", "INVALID"}, topic : {NoTopic}]

\* What the broker writes: MESSAGE notifications, identified by their sequence
\* number, and replies.  GARBAGE is a line sent from a buffer already freed.
Notes == [kind : {"MESSAGE", "PUBLISHED", "SUBSCRIBED", "UNSUBSCRIBED",
                  "PONG", "ERROR", "GARBAGE"},
          topic : Topics \cup {NoTopic}, seq : Nat]

Message(t, n) == [kind |-> "MESSAGE", topic |-> t, seq |-> n]
Reply(k, t)   == [kind |-> k, topic |-> t, seq |-> 0]
Garbage       == Reply("GARBAGE", NoTopic)

IsMessage(note) == note.kind = "MESSAGE"
===============================================================================
