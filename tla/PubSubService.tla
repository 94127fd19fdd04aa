---------------------------- MODULE PubSubService ----------------------------
(***************************************************************************)
(* What the Asio broker promises its clients, without queues, sockets,     *)
(* handlers or threads: every request takes effect at once.                *)
(* A publication goes to exactly the members of its topic at that moment,  *)
(* every request is answered, each client is given its messages and        *)
(* replies in one order and takes them in that order, and a client that is *)
(* gone is given nothing more.                                             *)
(***************************************************************************)
EXTENDS BrokerLines, Sequences

CONSTANT Clients

VARIABLES members,  \* topic -> the clients subscribed to it
          log,      \* topic -> the numbers of its publications
          next,     \* the number of the next publication, of whatever topic
          mail,     \* client -> everything it has been given
          taken,    \* client -> how much of that it has taken
          gone      \* the clients whose disconnection the broker has noticed

svcVars == <<members, log, next, mail, taken, gone>>

Init ==
    /\ members = [t \in Topics |-> {}]
    /\ log = [t \in Topics |-> <<>>]
    /\ next = 0
    /\ mail = [c \in Clients |-> <<>>]
    /\ taken = [c \in Clients |-> 0]
    /\ gone = {}

Give(batch) == mail' = [c \in Clients |-> mail[c] \o batch[c]]

Only(c, note) == [d \in Clients |-> IF d = c THEN <<note>> ELSE <<>>]

Join(c, t) ==
    /\ c \notin gone
    /\ members' = [members EXCEPT ![t] = @ \cup {c}]
    /\ Give(Only(c, Reply("SUBSCRIBED", t)))
    /\ UNCHANGED <<log, next, taken, gone>>

Leave(c, t) ==
    /\ c \notin gone
    /\ members' = [members EXCEPT ![t] = @ \ {c}]
    /\ Give(Only(c, Reply("UNSUBSCRIBED", t)))
    /\ UNCHANGED <<log, next, taken, gone>>

\* A publisher that is a member of the topic gets its message before its reply.
Publish(c, t) ==
    /\ c \notin gone
    /\ log' = [log EXCEPT ![t] = Append(@, next)]
    /\ next' = next + 1
    /\ Give([d \in Clients |->
                (IF d \in members[t] THEN <<Message(t, next)>> ELSE <<>>)
             \o (IF d = c THEN <<Reply("PUBLISHED", NoTopic)>> ELSE <<>>)])
    /\ UNCHANGED <<members, taken, gone>>

\* PING, and any line that is not a request.
Respond(c, kind) ==
    /\ c \notin gone
    /\ Give(Only(c, Reply(kind, NoTopic)))
    /\ UNCHANGED <<members, log, next, taken, gone>>

Take(c) ==
    /\ taken[c] < Len(mail[c])
    /\ taken' = [taken EXCEPT ![c] = @ + 1]
    /\ UNCHANGED <<members, log, next, mail, gone>>

\* A failed write drops the client from every topic; it may join again.
Drop(c) ==
    /\ members' = [t \in Topics |-> members[t] \ {c}]
    /\ UNCHANGED <<log, next, mail, taken, gone>>

\* A failed read drops the client for good.
Leaves(c) ==
    /\ c \notin gone
    /\ members' = [t \in Topics |-> members[t] \ {c}]
    /\ gone' = gone \cup {c}
    /\ UNCHANGED <<log, next, mail, taken>>

Next ==
    \E c \in Clients :
        \/ \E t \in Topics : Join(c, t) \/ Leave(c, t) \/ Publish(c, t)
        \/ Respond(c, "PONG") \/ Respond(c, "ERROR")
        \/ Take(c) \/ Drop(c) \/ Leaves(c)

Spec == Init /\ [][Next]_svcVars

\* With a message in its mail that came after it was last told SUBSCRIBED, a member of a
\* topic has every publication of the topic from that one on, whichever topic the
\* message is of: none is passed over, and none comes before an older one.
MissesNothing ==
    \A t \in Topics : \A c \in members[t] : \A i \in DOMAIN mail[c] :
        /\ IsMessage(mail[c][i])
        /\ \A k \in i .. Len(mail[c]) : mail[c][k] # Reply("SUBSCRIBED", t)
        => \A m \in DOMAIN log[t] :
               log[t][m] >= mail[c][i].seq =>
                   \E k \in i .. Len(mail[c]) : mail[c][k] = Message(t, log[t][m])
===============================================================================
