----------------------------- MODULE TopicManager -----------------------------
(***************************************************************************)
(* The subscription table of the Asio broker: class TopicManager of        *)
(* src/asio_server.hpp.  Every operation holds mutex_ for all the state it *)
(* touches, so one operation is one action.  The only part of an operation *)
(* outside the lock is the broadcast at the end of publish, which belongs  *)
(* to the caller's module: Subscribers(t) is the set it iterates over,     *)
(* which get_subscribers returns too.                                      *)
(***************************************************************************)
EXTENDS Naturals, Sequences

CONSTANTS Topics,    \* topic names, the keys of the two maps
          Clients    \* one session (TCP connection) per element

VARIABLES subscriptions,    \* topic -> sessions; its DOMAIN is the set of keys
          topic_queues,     \* topic -> sequence numbers of the stored messages
          sequence_counter  \* next sequence number to assign

tmVars == <<subscriptions, topic_queues, sequence_counter>>

\* A stored message is its sequence number; the payload takes no part in any
\* decision.  An absent key of topic_queues_ and an empty queue are the same to
\* every operation, so that map is total.
TMTypeOK ==
    /\ DOMAIN subscriptions \subseteq Topics
    /\ subscriptions \in [DOMAIN subscriptions -> SUBSET Clients]
    /\ topic_queues \in [Topics -> Seq(Nat)]
    /\ sequence_counter \in Nat

TMInit ==
    /\ subscriptions = [t \in {} |-> {}]
    /\ topic_queues = [t \in Topics |-> <<>>]
    /\ sequence_counter = 0

\* The sessions subscribed to t: what publish copies under the lock.
Subscribers(t) ==
    IF t \in DOMAIN subscriptions THEN subscriptions[t] ELSE {}

Subscribe(t, s) ==
    /\ subscriptions' = [u \in DOMAIN subscriptions \cup {t} |->
                            IF u = t THEN Subscribers(t) \cup {s}
                                     ELSE subscriptions[u]]
    /\ UNCHANGED <<topic_queues, sequence_counter>>

\* Wrong: the last subscriber of a topic stays.
UnsubscribeKeepsLast(t, s) ==
    /\ subscriptions' = [u \in DOMAIN subscriptions |->
                             IF u = t /\ subscriptions[u] # {s} THEN subscriptions[u] \ {s}
                                                               ELSE subscriptions[u]]
    /\ UNCHANGED <<topic_queues, sequence_counter>>

\* The key of a topic whose last subscriber leaves this way is removed.
Unsubscribe(t, s) ==
    /\ subscriptions' =
         [u \in {v \in DOMAIN subscriptions :
                    v = t => subscriptions[v] \ {s} # {}} |->
             IF u = t THEN subscriptions[u] \ {s} ELSE subscriptions[u]]
    /\ UNCHANGED <<topic_queues, sequence_counter>>

\* A session that disconnects leaves every set, and the keys all stay.
UnsubscribeAll(s) ==
    /\ subscriptions' = [u \in DOMAIN subscriptions |-> subscriptions[u] \ {s}]
    /\ UNCHANGED <<topic_queues, sequence_counter>>

\* Wrong: the counter is not incremented.
PublishLockedNoCount(t) ==
    /\ topic_queues' = [topic_queues EXCEPT ![t] = Append(@, sequence_counter)]
    /\ UNCHANGED <<subscriptions, sequence_counter>>

\* The locked half of publish: number the message and store it.
PublishLocked(t) ==
    /\ topic_queues' = [topic_queues EXCEPT ![t] = Append(@, sequence_counter)]
    /\ sequence_counter' = sequence_counter + 1
    /\ UNCHANGED subscriptions
===============================================================================
