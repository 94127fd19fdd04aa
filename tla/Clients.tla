-------------------------------- MODULE Clients --------------------------------
(***************************************************************************)
(* The console programs src/consumer.cpp and src/producer.cpp on top of    *)
(* the service that the Asio broker implements (PubSubService): what a     *)
(* client has been given and not yet taken is on its way to it.            *)
(*                                                                         *)
(* Requests and replies carry no number: whatever line comes next is taken *)
(* for the reply.  A read may fetch more than that line and end in the     *)
(* middle of another; subscribe, publish and send_command drop the excess  *)
(* with their buffer, start_listening keeps its buffer between the reads.  *)
(***************************************************************************)
EXTENDS PubSubService

CONSTANTS Consumers, Producers,
          Arguments,      \* the lists of topics a consumer may be started with
          Entries,        \* the topics that the user of a consumer types
          MaxEntered,     \* bound: topics typed at each consumer
          Console,        \* the requests that the users of producers type
          MaxTyped,       \* bound: lines typed at each producer
          Losing          \* bound: the clients whose connection may be lost

ASSUME ClientConstantsOK ==
    /\ Clients = Consumers \cup Producers /\ Consumers \cap Producers = {}
    /\ Arguments \subseteq Seq(Topics) /\ Entries \subseteq Topics /\ MaxEntered \in Nat
    /\ Console \subseteq Lines
    /\ MaxTyped \in Nat
    /\ Losing \subseteq Clients

VARIABLES
    request, \* client -> its requests that the broker has not processed yet
    socket,  \* client -> new, open, lost (the connection is gone), closed
    arrives, \* client -> how much of its mail came before its connection was gone
    half,    \* the clients whose last read took the first half of a line with it
    pc,      \* client -> where the program is
    asked,   \* client -> the requests it has written, or tried to write
    answer,  \* history: client -> the lines it took for replies, and to what
    running, \* consumer -> running_
    start,   \* history: consumer -> how much it had taken when it began to listen
    shown,   \* history: consumer -> the lines it has put on the screen
    topics   \* consumer -> topics, what it is to subscribe to

netVars == <<request, socket, arrives, half>>
cliVars == <<pc, asked, answer, running, start, shown, topics>>
clientVars == <<svcVars, netVars, cliVars>>

-------------------------------------------------------------------------------
(* Properties of a stream. *)

NoMessages(stream) == \A n \in DOMAIN stream : ~IsMessage(stream[n])

\* What process_message answers to a request.
ReplyTo(line) ==
    CASE line.cmd = "SUBSCRIBE"   -> Reply("SUBSCRIBED", line.topic)
      [] line.cmd = "UNSUBSCRIBE" -> Reply("UNSUBSCRIBED", line.topic)
      [] line.cmd = "PUBLISH"     -> Reply("PUBLISHED", NoTopic)
      [] line.cmd = "PING"        -> Reply("PONG", NoTopic)
      [] line.cmd = "INVALID"     -> Reply("ERROR", NoTopic)

\* The rest of a line whose first half was dropped; taken to begin like no line of
\* the protocol.
Broken == Reply("BROKEN", NoTopic)

-------------------------------------------------------------------------------
(* The socket. *)

ClientsInit ==
    /\ Init
    /\ request = [c \in Clients |-> <<>>]
    /\ socket = [c \in Clients |-> "new"]
    /\ arrives = [c \in Clients |-> 0]
    /\ half = {}
    /\ pc = [c \in Clients |-> "connect"]
    /\ asked = [c \in Clients |-> <<>>] /\ answer = [c \in Clients |-> <<>>]
    /\ running = [c \in Consumers |-> TRUE]
    /\ start = [c \in Consumers |-> 0] /\ shown = [c \in Consumers |-> <<>>]
    /\ topics \in [Consumers -> Arguments]

Goto(c, label) == pc' = [pc EXCEPT ![c] = label]

\* A line has come, or lies in the buffer of start_listening.
HasLine(c) ==
    /\ taken[c] < Len(mail[c])
    /\ socket[c] = "open" \/ taken[c] < arrives[c]

Incoming(c) == IF c \in half THEN Broken ELSE mail[c][taken[c] + 1]

\* A buffer that dies with the function: any number of the lines that have arrived
\* goes with it, and perhaps the first half of another.
TakeLineAndDrop(c) ==
    \E n \in taken[c] + 1 .. Len(mail[c]) :
        /\ socket[c] = "open" \/ n <= arrives[c]
        /\ taken' = [taken EXCEPT ![c] = n]
        /\ \/ half' = half \ {c}
           \/ n < Len(mail[c]) /\ half' = half \cup {c}

\* A buffer that lives on: whatever was fetched beyond the line stays.
TakeLine(c) ==
    /\ taken' = [taken EXCEPT ![c] = @ + 1]
    /\ half' = half \ {c}

\* What has arrived in the buffer of start_listening can still be shown.
Disconnected(c, state) ==
    /\ socket' = [socket EXCEPT ![c] = state]
    /\ arrives' = IF socket[c] = "open" THEN [arrives EXCEPT ![c] = Len(mail[c])]
                                        ELSE arrives

\* The request is on its way if the connection is there; the call goes on to its read.
Write(c, line) ==
    /\ request' = IF socket[c] = "open" THEN [request EXCEPT ![c] = Append(@, line)]
                                        ELSE request
    /\ asked' = [asked EXCEPT ![c] = Append(@, line)]
    /\ Goto(c, "reply")
    /\ UNCHANGED <<svcVars, socket, arrives, half, answer, running, start, shown, topics>>

\* read_until in subscribe, publish or send_command returns; then the program is where
\* it was before it wrote, so that `label` is the next step.
ReadReply(c, label) ==
    /\ pc[c] = "reply" /\ HasLine(c) /\ socket[c] # "closed"
    /\ answer' = [answer EXCEPT ![c] =
                      Append(@, [to |-> asked[c][Len(asked[c])], line |-> Incoming(c)])]
    /\ TakeLineAndDrop(c)
    /\ Goto(c, label)
    /\ UNCHANGED <<members, log, next, mail, gone, request, socket, arrives, asked,
                   running, start, shown, topics>>

\* The write or the read throws: the function says "Failed" and returns.
RequestFails(c, label) ==
    /\ pc[c] = "reply" /\ socket[c] # "open"
    /\ arrives' = [arrives EXCEPT ![c] = taken[c]]
    /\ Goto(c, label)
    /\ UNCHANGED <<svcVars, request, socket, half, asked, answer, running, start, shown,
                   topics>>

Connect(c, label) ==
    /\ pc[c] = "connect"
    /\ \/ socket' = [socket EXCEPT ![c] = "open"] /\ Goto(c, label)
       \/ UNCHANGED socket /\ Goto(c, "ended")
    /\ UNCHANGED <<svcVars, request, arrives, half, asked, answer, running, start, shown,
                   topics>>

-------------------------------------------------------------------------------
(* src/producer.cpp. *)

Typed(p) == Len(asked[p])

\* Wrong: publish does not read the reply.
TypePublishesBlindly(p) ==
    /\ pc[p] = "prompt" /\ Typed(p) < MaxTyped
    /\ \E line \in Console :
          /\ request' = [request EXCEPT ![p] = Append(@, line)]
          /\ asked' = [asked EXCEPT ![p] = Append(@, line)]
          /\ Goto(p, IF line.cmd = "PUBLISH" THEN "prompt" ELSE "reply")
    /\ UNCHANGED <<svcVars, socket, arrives, half, answer, running, start, shown, topics>>

\* publish or send_command.  What the console rejects itself changes nothing.
Type(p) ==
    /\ pc[p] = "prompt" /\ Typed(p) < MaxTyped
    /\ \E line \in Console : Write(p, line)

\* quit, exit or the end of the input; disconnect.
Quit(p) ==
    /\ pc[p] = "prompt"
    /\ socket' = [socket EXCEPT ![p] = "closed"]
    /\ Goto(p, "ended")
    /\ UNCHANGED <<svcVars, request, arrives, half, asked, answer, running, start, shown,
                   topics>>

Producer(p) ==
    \/ Connect(p, "prompt") \/ Type(p) \/ Quit(p)
    \/ ReadReply(p, "prompt") \/ RequestFails(p, "prompt")

-------------------------------------------------------------------------------
(* src/consumer.cpp. *)

\* A consumer that was started without topics asks for them.
AfterConnect(k) == IF topics[k] = <<>> THEN "topics" ELSE "subscribe"

\* The user types one more topic.
EnterTopic(k) ==
    /\ pc[k] = "topics" /\ Len(topics[k]) < MaxEntered
    /\ \E t \in Entries : topics' = [topics EXCEPT ![k] = Append(@, t)]
    /\ UNCHANGED <<svcVars, netVars, pc, asked, answer, running, start, shown>>

\* An empty line or the end of the input.
EnterNothing(k) ==
    /\ pc[k] = "topics" /\ topics[k] # <<>>
    /\ Goto(k, "subscribe")
    /\ UNCHANGED <<svcVars, netVars, asked, answer, running, start, shown, topics>>

\* The same without a topic: main returns 1, and the client object closes its socket.
GiveUp(k) ==
    /\ pc[k] = "topics" /\ topics[k] = <<>>
    /\ Disconnected(k, "closed")
    /\ Goto(k, "ended")
    /\ UNCHANGED <<svcVars, request, half, asked, answer, running, start, shown, topics>>

\* Wrong: the loop ends at a subscription that "failed".
TopicsLeftWhileSuccessful(k) ==
    /\ Len(asked[k]) < Len(topics[k])
    /\ \A n \in DOMAIN answer[k] : answer[k][n].line.kind = "SUBSCRIBED"

TopicsLeft(k) == Len(asked[k]) < Len(topics[k])

\* The loop over the topics: one call of subscribe.
Subscribe(k) ==
    /\ pc[k] = "subscribe" /\ TopicsLeft(k)
    /\ Write(k, [cmd |-> "SUBSCRIBE", topic |-> topics[k][Len(asked[k]) + 1]])

StartListening(k) ==
    /\ pc[k] = "subscribe" /\ ~TopicsLeft(k)
    /\ start' = [start EXCEPT ![k] = taken[k] + (IF k \in half THEN 1 ELSE 0)]
    /\ Goto(k, "listen")
    /\ UNCHANGED <<svcVars, netVars, asked, answer, running, shown, topics>>

ListenTest(k) ==
    /\ pc[k] = "listen"
    /\ Goto(k, IF running[k] THEN "read" ELSE "disconnect")
    /\ UNCHANGED <<svcVars, netVars, asked, answer, running, start, shown, topics>>

\* Every line is shown, each kind in its way; the rest of a line does not count.
ListenReads(k) ==
    /\ pc[k] = "read" /\ HasLine(k)
    /\ shown' = IF k \in half THEN shown ELSE [shown EXCEPT ![k] = Append(@, Incoming(k))]
    /\ TakeLine(k)
    /\ Goto(k, "listen")
    /\ UNCHANGED <<members, log, next, mail, gone, request, socket, arrives, asked,
                   answer, running, start, topics>>

ListenFails(k) ==
    /\ pc[k] = "read" /\ socket[k] # "open"
    /\ Goto(k, "disconnect")
    /\ UNCHANGED <<svcVars, netVars, asked, answer, running, start, shown, topics>>

\* Wrong: the socket stays open.
StopOnlyFlags(k) ==
    /\ running' = [running EXCEPT ![k] = FALSE]
    /\ UNCHANGED <<socket, arrives>>

Stop(k) ==
    /\ running' = [running EXCEPT ![k] = FALSE]
    /\ IF socket[k] = "new" THEN UNCHANGED <<socket, arrives>>
                            ELSE Disconnected(k, "closed")

Disconnect(k) ==
    /\ pc[k] = "disconnect"
    /\ Stop(k)
    /\ Goto(k, "ended")
    /\ UNCHANGED <<svcVars, request, half, asked, answer, start, shown, topics>>

\* SIGINT or SIGTERM, at any moment while the client object lives.  What the program
\* waits for goes on: getline too, because std::signal restarts it.
Signal(k) ==
    /\ pc[k] # "ended" /\ (running[k] \/ socket[k] \in {"open", "lost"})
    /\ Stop(k)
    /\ UNCHANGED <<svcVars, request, half, pc, asked, answer, start, shown, topics>>

\* The user of the consumer; nobody has to type.
Enter(k) == EnterTopic(k) \/ EnterNothing(k) \/ GiveUp(k)

Consumer(k) ==
    \/ Connect(k, AfterConnect(k)) \/ Subscribe(k) \/ StartListening(k)
    \/ ReadReply(k, "subscribe") \/ RequestFails(k, "subscribe")
    \/ ListenTest(k) \/ ListenReads(k) \/ ListenFails(k) \/ Disconnect(k)

-------------------------------------------------------------------------------
(* The connection and the broker. *)

Loss(c) ==
    /\ c \in Losing /\ socket[c] = "open"
    /\ Disconnected(c, "lost")
    /\ UNCHANGED <<svcVars, request, half, cliVars>>

\* Wrong: no answer to a line that is no request.
ServeValidOnly(c, line) ==
    \/ line.cmd = "SUBSCRIBE" /\ Join(c, line.topic)
    \/ line.cmd = "UNSUBSCRIBE" /\ Leave(c, line.topic)
    \/ line.cmd = "PUBLISH" /\ Publish(c, line.topic)
    \/ line.cmd = "PING" /\ Respond(c, "PONG")
    \/ line.cmd = "INVALID" /\ UNCHANGED svcVars

Serve(c, line) ==
    \/ line.cmd = "SUBSCRIBE" /\ Join(c, line.topic)
    \/ line.cmd = "UNSUBSCRIBE" /\ Leave(c, line.topic)
    \/ line.cmd = "PUBLISH" /\ Publish(c, line.topic)
    \/ line.cmd \in {"PING", "INVALID"} /\ Respond(c, ReplyTo(line).kind)

Process(c) ==
    /\ request[c] # <<>>
    /\ Serve(c, Head(request[c]))
    /\ request' = [request EXCEPT ![c] = Tail(@)]
    /\ UNCHANGED <<socket, arrives, half, cliVars>>

\* The broker's read fails, and what it has not read is lost.  A write that failed
\* before is not modelled: it changes nothing that this client can still see.
Notice(c) ==
    /\ socket[c] \in {"lost", "closed"}
    /\ Leaves(c)
    /\ request' = [request EXCEPT ![c] = <<>>]
    /\ UNCHANGED <<socket, arrives, half, cliVars>>

-------------------------------------------------------------------------------

ClientsNext ==
    \/ \E p \in Producers : Producer(p)
    \/ \E k \in Consumers : Consumer(k) \/ Enter(k) \/ Signal(k)
    \/ \E c \in Clients : Loss(c) \/ Process(c) \/ Notice(c)

ClientsSpec == ClientsInit /\ [][ClientsNext]_clientVars

\* The consumer and a call in progress get on as soon as they can, and the broker
\* processes what it is sent (RequestsAreTaken of AsioBroker).  Nobody need type.
FairClientsSpec ==
    /\ ClientsSpec
    /\ \A k \in Consumers : WF_clientVars(Consumer(k))
    /\ \A p \in Producers : WF_clientVars(ReadReply(p, "prompt") \/ RequestFails(p, "prompt"))
    /\ \A c \in Clients : WF_clientVars(Process(c))

-------------------------------------------------------------------------------

\* "Read response" (producer.cpp, consumer.cpp) is right as long as the client has been
\* sent no MESSAGE: every line it takes for a reply answers the request it just made.
RepliesMatchWithoutMessages ==
    \A c \in Clients :
        NoMessages(mail[c]) =>
            \A n \in DOMAIN answer[c] : answer[c][n].line = ReplyTo(answer[c][n].to)

\* From where it begins to listen, the consumer shows every line of its stream, once and
\* in order, also those that one read fetched together and those still in its buffer
\* when the connection is gone.
ShownIsStream ==
    \A k \in Consumers :
        pc[k] \in {"listen", "read", "disconnect", "ended"} =>
            shown[k] = SubSeq(mail[k], start[k] + 1, taken[k])

\* What a consumer shows has no gap, from one end of the system to the other: with a
\* message on its screen, every later publication in a topic it is a member of (and has
\* not joined again since) is on its screen after it or still on its way.
ShownWithoutGap ==
    \A k \in Consumers, t \in Topics : k \in members[t] =>
        \A i \in DOMAIN shown[k] :
            /\ IsMessage(shown[k][i])
            /\ \A j \in start[k] + i .. Len(mail[k]) : mail[k][j] # Reply("SUBSCRIBED", t)
            => \A m \in DOMAIN log[t] :
                   log[t][m] >= shown[k][i].seq =>
                       \/ \E j \in i .. Len(shown[k]) : shown[k][j] = Message(t, log[t][m])
                       \/ \E j \in taken[k] + 1 .. Len(mail[k]) :
                              mail[k][j] = Message(t, log[t][m])

\* Every call of publish, send_command and subscribe returns, whichever line it takes
\* for its reply and whatever the calls before it took or dropped.
CallsAreAnswered == \A c \in Clients : pc[c] = "reply" ~> pc[c] # "reply"

\* A consumer that listens comes to be subscribed to every topic it was given, also to
\* those of which it has said "Subscription failed".
AllSubscribed ==
    \A k \in Consumers :
        pc[k] \in {"listen", "read"} ~>
            socket[k] # "open" \/ \A n \in DOMAIN topics[k] : k \in members[topics[k][n]]

\* A signal ends the consumer, though nothing more may come over the connection.  The
\* exception is the prompt for the topics: a consumer that is there, or comes there from
\* connect, first needs its user, and then ends as well.
SignalEnds ==
    \A k \in Consumers : ~running[k] ~> pc[k] = "ended" \/ pc[k] = "topics"
===============================================================================
