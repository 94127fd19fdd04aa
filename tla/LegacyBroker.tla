----------------------------- MODULE LegacyBroker -----------------------------
(***************************************************************************)
(* The legacy broker: BrokerServer of src/server.cpp, run by               *)
(* src/broker_legacy.cpp.  A thread accepts, each client has a detached    *)
(* thread of its own, and a publication is sent to every client with       *)
(* blocking sends under clients_mtx_.  The descriptor numbers of the       *)
(* client sockets are modelled, because the kernel reuses them.            *)
(***************************************************************************)
EXTENDS Naturals, Sequences, Functions

CONSTANTS Clients,      \* TCP connections
          Readers,      \* the clients whose program reads what it is sent
          Fds,          \* descriptor numbers the kernel can hand out
          NoOne,        \* the holder of a mutex that is free
          SockCap,      \* messages the socket buffers towards one client hold
          MaxSent,      \* bound: publications sent in a behaviour
          Fragments,    \* segments the bytes of one publication arrive in
          Closing,      \* bound: the clients that may close their connection
          MayStop       \* bound: whether the broker may be stopped

ASSUME LegacyConstantsOK ==
    /\ Readers \subseteq Clients
    /\ Fds \subseteq Nat
    /\ NoOne \notin Clients
    /\ SockCap \in Nat \ {0} /\ MaxSent \in Nat /\ Fragments \in {1, 2}
    /\ Closing \subseteq Clients /\ MayStop \in BOOLEAN

VARIABLES
    conn,       \* absent, open or closed: the client's side of the connection
    toBroker,   \* segments sent and not yet received
    toClient,   \* messages in the socket buffers towards the client
    got,        \* history: messages the client has read
    sent,       \* publications the client has sent so far
    pc,         \* the thread of the client, from the accept on
    fd,         \* its client_socket, a local variable
    number,     \* sequence number of the publication it handles
    todo,       \* descriptors its broadcast has still to serve
    data,       \* the publication that its last recv has found
    connected_clients, clientsLock,  \* clients_mtx_: the thread that holds it
    topics, sequence_counter,        \* of the one topic of this model
    acceptPc,   \* test, accepting, inserting, done
    running, serverOpen,
    mainPc,     \* serving, closing, joining, stopped
    order       \* history: the publications in the order of their broadcasts

clientVars == <<conn, toBroker, got, sent>>
threadVars == <<fd, number, todo, data>>
topicVars  == <<topics, sequence_counter>>
serverVars == <<acceptPc, running, serverOpen, mainPc>>
vars == <<clientVars, toClient, pc, threadVars, connected_clients, clientsLock,
          topicVars, serverVars, order>>

\* The thread of a client, between the insertion and the removal of its socket.
Handling == {"test", "recv", "publish", "lock", "send", "remove"}

\* The states in which the thread of a client holds an open descriptor.
HasFd(c) == pc[c] \in Handling \cup {"accepted", "close"}
OpenFds  == {fd[c] : c \in {d \in Clients : HasFd(d)}}

Lowest(n, S) == n \in S /\ \A m \in S : n <= m

\* A piece of the bytes of one publication, numbered as it was sent.  A head reaches past
\* the colon after the topic, a cut ends before it, and a tail is the rest; it does not
\* begin like a publication, which is to say that no payload has "PUBLISH:" in it.
Segments == [of : Nat, part : {"head", "cut", "tail"}]

\* A publication that has been stored, and where it came from.
Stored == [seq : Nat, by : Clients, of : Nat]

LegacyTypeOK ==
    /\ conn \in [Clients -> {"absent", "open", "closed"}]
    /\ toBroker \in [Clients -> Seq(Segments)]
    /\ toClient \in [Clients -> Seq(Nat)] /\ got \in [Clients -> Seq(Nat)]
    /\ sent \in [Clients -> Nat]
    /\ pc \in [Clients -> Handling \cup {"none", "accepted", "close", "done"}]
    /\ fd \in [Clients -> Nat] /\ number \in [Clients -> Nat]
    /\ todo \in [Clients -> SUBSET Fds] /\ data \in [Clients -> Nat]
    /\ connected_clients \subseteq Fds /\ clientsLock \in Clients \cup {NoOne}
    /\ topics \in Seq(Stored) /\ sequence_counter \in Nat
    /\ acceptPc \in {"test", "accepting", "inserting", "done"}
    /\ running \in BOOLEAN /\ serverOpen \in BOOLEAN
    /\ mainPc \in {"serving", "closing", "joining", "stopped"}
    /\ order \in Seq(Nat)

\* start has succeeded: the socket listens and the accept thread runs.
LegacyInit ==
    /\ conn = [c \in Clients |-> "absent"]
    /\ toBroker = [c \in Clients |-> <<>>]
    /\ toClient = [c \in Clients |-> <<>>] /\ got = [c \in Clients |-> <<>>]
    /\ sent = [c \in Clients |-> 0]
    /\ pc = [c \in Clients |-> "none"]
    /\ fd = [c \in Clients |-> 0] /\ number = [c \in Clients |-> 0]
    /\ todo = [c \in Clients |-> {}] /\ data = [c \in Clients |-> 0]
    /\ connected_clients = {} /\ clientsLock = NoOne
    /\ topics = <<>> /\ sequence_counter = 0
    /\ acceptPc = "test" /\ running = TRUE /\ serverOpen = TRUE
    /\ mainPc = "serving"
    /\ order = <<>>

\* stop has returned: main returns and the process ends with all its threads.
Alive == mainPc # "stopped"

\* An accept that is under way keeps the socket listening even after close.
Listening == Alive /\ (serverOpen \/ acceptPc = "accepting")

-------------------------------------------------------------------------------
(* The clients. *)

Connect(c) ==
    /\ Listening
    /\ conn[c] = "absent"
    /\ conn' = [conn EXCEPT ![c] = "open"]
    /\ UNCHANGED <<toBroker, toClient, got, sent, pc, threadVars, connected_clients,
                   clientsLock, topicVars, serverVars, order>>

\* The pieces that the bytes of a publication arrive in; recv may return them together.
Arrivals ==
    IF Fragments = 1 THEN {<<"head">>} ELSE {<<"head", "tail">>, <<"cut", "tail">>}

Send(c) ==
    /\ Alive /\ conn[c] = "open"
    /\ FoldFunction(+, 0, sent) < MaxSent
    /\ sent' = [sent EXCEPT ![c] = @ + 1]
    /\ \E parts \in Arrivals :
          LET pieces == [i \in DOMAIN parts |-> [of |-> sent'[c], part |-> parts[i]]] IN
          toBroker' = [toBroker EXCEPT ![c] = @ \o pieces]
    /\ UNCHANGED <<conn, toClient, got, pc, threadVars, connected_clients, clientsLock,
                   topicVars, serverVars, order>>

Receive(c) ==
    /\ c \in Readers /\ conn[c] = "open"
    /\ toClient[c] # <<>>
    /\ got' = [got EXCEPT ![c] = Append(@, Head(toClient[c]))]
    /\ toClient' = [toClient EXCEPT ![c] = Tail(@)]
    /\ UNCHANGED <<conn, toBroker, sent, pc, threadVars, connected_clients, clientsLock,
                   topicVars, serverVars, order>>

Close(c) ==
    /\ c \in Closing
    /\ conn[c] = "open"
    /\ conn' = [conn EXCEPT ![c] = "closed"]
    /\ UNCHANGED <<toBroker, toClient, got, sent, pc, threadVars, connected_clients,
                   clientsLock, topicVars, serverVars, order>>

-------------------------------------------------------------------------------
(* The accept thread. *)

\* The head of the loop.  A call of accept on the socket that stop has closed and
\* set to -1 fails, and the loop goes round.
AcceptTest ==
    /\ Alive /\ acceptPc = "test"
    /\ \/ ~running /\ acceptPc' = "done"
       \/ running /\ serverOpen /\ acceptPc' = "accepting"
    /\ UNCHANGED <<clientVars, toClient, pc, threadVars, connected_clients, clientsLock,
                   topicVars, running, serverOpen, mainPc, order>>

\* accept returns with the lowest number that is free.
AcceptReturns(c) ==
    /\ Alive /\ acceptPc = "accepting"
    /\ conn[c] # "absent" /\ pc[c] = "none"
    /\ \E n \in Fds : Lowest(n, Fds \ OpenFds) /\ fd' = [fd EXCEPT ![c] = n]
    /\ pc' = [pc EXCEPT ![c] = "accepted"]
    /\ acceptPc' = "inserting"
    /\ UNCHANGED <<clientVars, toClient, number, todo, data, connected_clients,
                   clientsLock, topicVars, running, serverOpen, mainPc, order>>

\* The socket joins connected_clients_ and its thread starts.
AcceptInserts(c) ==
    /\ Alive /\ pc[c] = "accepted" /\ clientsLock = NoOne
    /\ connected_clients' = connected_clients \cup {fd[c]}
    /\ pc' = [pc EXCEPT ![c] = "test"]
    /\ acceptPc' = "test"
    /\ UNCHANGED <<clientVars, toClient, threadVars, clientsLock, topicVars, running,
                   serverOpen, mainPc, order>>

-------------------------------------------------------------------------------
(* handleClient, in the thread of client c. *)

At(c, label) == Alive /\ pc[c] = label

Goto(c, label) == pc' = [pc EXCEPT ![c] = label]

HandlerTest(c) ==
    /\ At(c, "test")
    /\ Goto(c, IF running THEN "recv" ELSE "remove")
    /\ UNCHANGED <<clientVars, toClient, threadVars, connected_clients, clientsLock,
                   topicVars, serverVars, order>>

\* Wrong: bytes are a publication if PUBLISH: and a colon are anywhere in them, be it
\* behind the end of the previous one.
IsPublicationAnywhere(bytes) ==
    \E i \in DOMAIN bytes :
        bytes[i].part = "head" \/ (bytes[i].part = "cut" /\ i < Len(bytes))

\* Bytes are a publication if they begin with PUBLISH: and have a colon after that.
IsPublication(bytes) ==
    \/ bytes[1].part = "head"
    \/ bytes[1].part = "cut" /\ Len(bytes) > 1

\* recv returns some of the bytes that have arrived, without regard to where a
\* publication ends.  Bytes that are not a publication are ignored.
HandlerRecv(c) ==
    /\ At(c, "recv")
    /\ \E n \in 1 .. Len(toBroker[c]) :
          LET bytes == SubSeq(toBroker[c], 1, n) IN
          /\ toBroker' = [toBroker EXCEPT ![c] = SubSeq(@, n + 1, Len(@))]
          /\ \/ /\ IsPublication(bytes)
                /\ data' = [data EXCEPT ![c] = bytes[1].of]
                /\ Goto(c, "publish")
             \/ /\ ~IsPublication(bytes)
                /\ Goto(c, "test")
                /\ UNCHANGED data
    /\ UNCHANGED <<conn, toClient, got, sent, fd, number, todo, connected_clients,
                   clientsLock, topicVars, serverVars, order>>

HandlerEnds(c) ==
    /\ At(c, "recv") /\ toBroker[c] = <<>> /\ conn[c] = "closed"
    /\ Goto(c, "remove")
    /\ UNCHANGED <<clientVars, toClient, threadVars, connected_clients, clientsLock,
                   topicVars, serverVars, order>>

\* publish, under mtx_.
Publish(c) ==
    /\ At(c, "publish")
    /\ number' = [number EXCEPT ![c] = sequence_counter]
    /\ sequence_counter' = sequence_counter + 1
    /\ topics' = Append(topics, [seq |-> sequence_counter, by |-> c, of |-> data[c]])
    /\ Goto(c, "lock")
    /\ UNCHANGED <<clientVars, toClient, fd, todo, data, connected_clients,
                   clientsLock, serverVars, order>>

\* Wrong: the sockets are copied, and the mutex is not held while sending.
BroadcastBeginCopies(c) ==
    /\ At(c, "lock") /\ clientsLock = NoOne
    /\ todo' = [todo EXCEPT ![c] = connected_clients]
    /\ order' = Append(order, number[c])
    /\ Goto(c, "send")
    /\ UNCHANGED <<clientVars, toClient, fd, number, data, connected_clients, clientsLock,
                   topicVars, serverVars>>

\* broadcastMessage takes clients_mtx_ and keeps it until all the sends are done.
BroadcastBegin(c) ==
    /\ At(c, "lock") /\ clientsLock = NoOne
    /\ clientsLock' = c
    /\ todo' = [todo EXCEPT ![c] = connected_clients]
    /\ order' = Append(order, number[c])
    /\ Goto(c, "send")
    /\ UNCHANGED <<clientVars, toClient, fd, number, data, connected_clients, topicVars,
                   serverVars>>

\* send blocks while the buffers of an open connection are full; on a connection the
\* client has closed it fails, or the bytes are thrown away.
BroadcastSend(c) ==
    /\ At(c, "send")
    /\ \E d \in Clients :
          /\ HasFd(d) /\ Lowest(fd[d], todo[c])
          /\ \/ conn[d] = "closed" /\ UNCHANGED toClient
             \/ /\ conn[d] = "open" /\ Len(toClient[d]) < SockCap
                /\ toClient' = [toClient EXCEPT ![d] = Append(@, number[c])]
          /\ todo' = [todo EXCEPT ![c] = @ \ {fd[d]}]
    /\ UNCHANGED <<clientVars, pc, fd, number, data, connected_clients, clientsLock,
                   topicVars, serverVars, order>>

\* Wrong: clients_mtx_ is not released.
BroadcastEndKeepsLock(c) ==
    /\ At(c, "send") /\ todo[c] = {}
    /\ Goto(c, "test")
    /\ UNCHANGED <<clientVars, toClient, threadVars, connected_clients, clientsLock,
                   topicVars, serverVars, order>>

BroadcastEnd(c) ==
    /\ At(c, "send") /\ todo[c] = {}
    /\ clientsLock' = NoOne
    /\ Goto(c, "test")
    /\ UNCHANGED <<clientVars, toClient, threadVars, connected_clients, topicVars,
                   serverVars, order>>

\* Wrong: the socket is closed before removeClient, so its number can be reused.
HandlerExitClosesFirst(c) ==
    \/ /\ At(c, "remove")
       /\ Goto(c, "close")
       /\ fd' = [fd EXCEPT ![c] = 0]
       /\ number' = [number EXCEPT ![c] = fd[c]]
       /\ UNCHANGED <<clientVars, toClient, todo, data, connected_clients, clientsLock,
                      topicVars, serverVars, order>>
    \/ /\ At(c, "close") /\ clientsLock = NoOne
       /\ connected_clients' = connected_clients \ {number[c]}
       /\ Goto(c, "done")
       /\ UNCHANGED <<clientVars, toClient, threadVars, clientsLock, topicVars,
                      serverVars, order>>

\* removeClient, then close.
HandlerExit(c) ==
    \/ /\ At(c, "remove") /\ clientsLock = NoOne
       /\ connected_clients' = connected_clients \ {fd[c]}
       /\ Goto(c, "close")
       /\ UNCHANGED <<clientVars, toClient, threadVars, clientsLock, topicVars,
                      serverVars, order>>
    \/ /\ At(c, "close")
       /\ Goto(c, "done")
       /\ UNCHANGED <<clientVars, toClient, threadVars, connected_clients, clientsLock,
                      topicVars, serverVars, order>>

-------------------------------------------------------------------------------
(* stop, called by the main thread after a signal. *)

StopBegin ==
    /\ MayStop /\ mainPc = "serving"
    /\ running' = FALSE
    /\ mainPc' = "closing"
    /\ UNCHANGED <<clientVars, toClient, pc, threadVars, connected_clients, clientsLock,
                   topicVars, acceptPc, serverOpen, order>>

\* close does not wake a thread that is blocked in accept.
StopCloses ==
    /\ mainPc = "closing"
    /\ serverOpen' = FALSE
    /\ mainPc' = "joining"
    /\ UNCHANGED <<clientVars, toClient, pc, threadVars, connected_clients, clientsLock,
                   topicVars, acceptPc, running, order>>

StopJoins ==
    /\ mainPc = "joining" /\ acceptPc = "done"
    /\ mainPc' = "stopped"
    /\ UNCHANGED <<clientVars, toClient, pc, threadVars, connected_clients, clientsLock,
                   topicVars, acceptPc, running, serverOpen, order>>

-------------------------------------------------------------------------------

HandleClient(c) ==
    \/ HandlerTest(c) \/ HandlerRecv(c) \/ HandlerEnds(c)
    \/ Publish(c) \/ BroadcastBegin(c) \/ BroadcastSend(c) \/ BroadcastEnd(c)
    \/ HandlerExit(c)

AcceptConnections == AcceptTest \/ \E c \in Clients : AcceptReturns(c) \/ AcceptInserts(c)

Stop == StopBegin \/ StopCloses \/ StopJoins

LegacyNext ==
    \/ AcceptConnections
    \/ \E c \in Clients : HandleClient(c)
    \/ \E c \in Clients : Connect(c) \/ Send(c) \/ Receive(c) \/ Close(c)
    \/ Stop

LegacySpec == LegacyInit /\ [][LegacyNext]_vars

\* Every thread of the broker gets on when it can; the mutex is contended for only
\* as often as publications are sent, so nobody waits for it for ever; the readers
\* read.  Nobody has to connect, send or close.
FairLegacySpec ==
    /\ LegacySpec
    /\ WF_vars(AcceptConnections)
    /\ WF_vars(StopCloses) /\ WF_vars(StopJoins)
    /\ \A c \in Clients : WF_vars(HandleClient(c)) /\ WF_vars(Receive(c))

-------------------------------------------------------------------------------

\* connected_clients_ has exactly the sockets whose threads serve them: no number
\* that the kernel has given to another connection meanwhile, so that nobody is sent
\* what is not for it and no removal throws out somebody else.
ConnectedAreHandled ==
    /\ connected_clients = {fd[c] : c \in {d \in Clients : pc[d] \in Handling}}
    /\ \A c, d \in Clients : c # d /\ HasFd(c) /\ HasFd(d) => fd[c] # fd[d]

\* The publications of client c, and those that it was sent, read or not.
Own(c)  == {topics[i].seq : i \in {k \in DOMAIN topics : topics[k].by = c}}
Wire(c) == got[c] \o toClient[c]

\* m was broadcast before n.
Precedes(m, n) == \E i, j \in DOMAIN order : i < j /\ order[i] = m /\ order[j] = n

\* All clients see the publications in one order, none of them twice, and between the
\* first and the last that it sees a client misses none that others have published,
\* whoever publishes at the same time.  Whether it sees its own is left open: a comment in
\* handleClient says "to all other connected clients", and broadcastMessage serves the
\* publisher as well.
AgreeOnOrder ==
    /\ \A i, j \in DOMAIN order : order[i] = order[j] => i = j
    /\ \A c \in Clients : \A i, j \in DOMAIN Wire(c) :
          /\ i < j => Precedes(Wire(c)[i], Wire(c)[j])
          /\ \A k \in DOMAIN order :
                /\ Precedes(Wire(c)[i], order[k]) /\ Precedes(order[k], Wire(c)[j])
                /\ order[k] \notin Own(c)
                => \E l \in DOMAIN Wire(c) : Wire(c)[l] = order[k]

\* The publications of a client are stored in the order in which it sent them and each
\* at most once, wherever recv cuts them or joins them; some are never found.
StoredAsSent ==
    \A i, j \in DOMAIN topics :
        i < j /\ topics[i].by = topics[j].by => topics[i].of < topics[j].of

\* The broadcast of a publication that was stored comes to its end, unless the broker
\* stops.  It goes to every client, the publisher included, and needs all of them to read.
StoredIsBroadcast ==
    \A c \in Clients : pc[c] = "lock" ~> pc[c] = "test" \/ ~running

\* A client that has closed its connection loses its thread and its descriptor.
\* It needs every client to read.
ClosedIsReleased ==
    \A c \in Clients : pc[c] = "test" /\ conn[c] = "closed" ~> pc[c] = "done" \/ ~running

\* A connection that is waiting when stop joins the accept thread lets stop return,
\* whatever the handlers are doing.  It needs every client to read; without a connection
\* stop does not return, because close does not wake the thread that is in accept.
StopReturnsOnConnection ==
    mainPc = "joining" /\ (\E c \in Clients : conn[c] # "absent" /\ pc[c] = "none")
        ~> mainPc = "stopped"
===============================================================================
