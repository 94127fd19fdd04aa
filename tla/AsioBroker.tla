------------------------------ MODULE AsioBroker ------------------------------
(***************************************************************************)
(* The Asio broker: Session and BrokerServer of src/asio_server.cpp, on    *)
(* top of the TopicManager, with the TCP connections they serve.           *)
(*                                                                         *)
(* One io thread runs the completion handlers (broker.cpp starts one), so  *)
(* a handler is one action; the exception is the accept handler, which is  *)
(* split where BrokerServer::stop, which another thread calls, can come in *)
(* between.  Clients, the kernel's buffers and the reactor are the         *)
(* environment, modelled from how the code uses them.                      *)
(***************************************************************************)
EXTENDS BrokerLines, Sequences

CONSTANTS Clients,    \* TCP connections; each gets at most one Session
          Requests,   \* the request lines clients may send, a subset of Lines
          SockCap,    \* lines the socket buffers of one connection hold
          MaxLines,   \* bound: lines all the clients send in a behaviour
          Disturbances  \* bound: which of close, reset and stop may happen

ASSUME ConstantsOK ==
    /\ Requests \subseteq Lines
    /\ SockCap \in Nat \ {0}
    /\ MaxLines \in Nat
    /\ Disturbances \subseteq {"close", "reset", "stop"}

VARIABLES
    \* the connections (environment)
    peer,       \* absent, connected, closed (FIN sent) or reset (RST seen)
    inbox,      \* lines sent by the client and not yet taken by the read handler
    net,        \* lines in the socket buffers towards the client
    received,   \* history: lines the client has read
    linesSent,  \* lines sent so far, for the bound
    \* Session
    phase,      \* none, accepted, inserted, reading, ended (the read loop)
    write_queue,
    writeOp,    \* idle, sent, blocked, failed (one async_write), dead
    delivered,  \* history: everything passed to Session::deliver
    \* TopicManager
    subscriptions, topic_queues, sequence_counter,
    \* BrokerServer
    sessions,
    acceptPending,  \* an async_accept is outstanding
    mainPc,         \* the thread that calls start and stop
    aborted         \* an exception left the io thread: std::terminate

netVars     == <<peer, inbox, received, linesSent>>
sessionVars == <<net, write_queue, writeOp, delivered>>
topicVars   == <<subscriptions, topic_queues, sequence_counter>>
serverVars  == <<acceptPending, mainPc, aborted>>
vars == <<netVars, sessionVars, phase, topicVars, sessions, serverVars>>

TM == INSTANCE TopicManager

Peers    == {"absent", "connected", "closed", "reset"}
Phases   == {"none", "accepted", "inserted", "reading", "ended"}
WriteOps == {"idle", "sent", "blocked", "failed", "dead"}

TypeOK ==
    /\ peer \in [Clients -> Peers]
    /\ inbox \in [Clients -> Seq(Lines)]
    /\ net \in [Clients -> Seq(Notes)]
    /\ received \in [Clients -> Seq(Notes)]
    /\ linesSent \in Nat
    /\ phase \in [Clients -> Phases]
    /\ write_queue \in [Clients -> Seq(Notes)]
    /\ writeOp \in [Clients -> WriteOps]
    /\ delivered \in [Clients -> Seq(Notes)]
    /\ TM!TMTypeOK
    /\ sessions \subseteq Clients
    /\ acceptPending \in BOOLEAN
    /\ mainPc \in {"created", "serving", "closing", "clearing", "stopped"}
    /\ aborted \in BOOLEAN

Init ==
    /\ peer = [c \in Clients |-> "absent"]
    /\ inbox = [c \in Clients |-> <<>>]
    /\ net = [c \in Clients |-> <<>>]
    /\ received = [c \in Clients |-> <<>>]
    /\ linesSent = 0
    /\ phase = [c \in Clients |-> "none"]
    /\ write_queue = [c \in Clients |-> <<>>]
    /\ writeOp = [c \in Clients |-> "idle"]
    /\ delivered = [c \in Clients |-> <<>>]
    /\ TM!TMInit
    /\ sessions = {}
    /\ acceptPending = FALSE
    /\ mainPc = "created"
    /\ aborted = FALSE

\* BrokerServer::running_, and whether acceptor_ is open (it listens from the
\* constructor on, before start).
running      == mainPc = "serving"
AcceptorOpen == mainPc \in {"created", "serving", "closing"}

\* The io thread can take up a handler: it is not inside the accept handler.
IoIdle == ~aborted /\ \A c \in Clients : phase[c] # "inserted"

-------------------------------------------------------------------------------
(***************************************************************************)
(* The clients and the kernel.                                             *)
(***************************************************************************)

\* The kernel completes the handshake: the connection waits in the backlog.
Connect(c) ==
    /\ AcceptorOpen /\ ~aborted
    /\ peer[c] = "absent"
    /\ peer' = [peer EXCEPT ![c] = "connected"]
    /\ UNCHANGED <<inbox, received, linesSent, sessionVars, phase, topicVars,
                   sessions, serverVars>>

Send(c, line) ==
    /\ peer[c] = "connected" /\ ~aborted
    /\ linesSent < MaxLines
    /\ linesSent' = linesSent + 1
    /\ inbox' = [inbox EXCEPT ![c] = Append(@, line)]
    /\ UNCHANGED <<peer, received, sessionVars, phase, topicVars, sessions, serverVars>>

\* A client that has closed its sending side may still read.
Receive(c) ==
    /\ peer[c] \in {"connected", "closed"}
    /\ net[c] # <<>>
    /\ received' = [received EXCEPT ![c] = Append(@, Head(net[c]))]
    /\ net' = [net EXCEPT ![c] = Tail(@)]
    /\ UNCHANGED <<peer, inbox, linesSent, write_queue, writeOp, delivered, phase,
                   topicVars, sessions, serverVars>>

Close(c) ==
    /\ "close" \in Disturbances
    /\ peer[c] = "connected"
    /\ peer' = [peer EXCEPT ![c] = "closed"]
    /\ UNCHANGED <<inbox, received, linesSent, sessionVars, phase, topicVars,
                   sessions, serverVars>>

\* A reset arrives.  Lines still in flight are lost; those already in the receive
\* queue or in read_buffer_ can still be read.
Reset(c) ==
    /\ "reset" \in Disturbances
    /\ peer[c] \in {"connected", "closed"}
    /\ peer' = [peer EXCEPT ![c] = "reset"]
    /\ \E n \in 0 .. Len(inbox[c]) :
          inbox' = [inbox EXCEPT ![c] = SubSeq(@, 1, n)]
    /\ UNCHANGED <<received, linesSent, sessionVars, phase, topicVars, sessions,
                   serverVars>>

-------------------------------------------------------------------------------
(***************************************************************************)
(* Session: deliver, do_write and the write handler.                       *)
(***************************************************************************)

\* How the async_write that do_write starts begins.  The reactor tries the send at
\* once: it fails on a reset connection, completes if the socket buffers have
\* room, and otherwise waits for the socket to become writable.
Attempt(c) ==
    IF peer[c] = "reset" THEN "failed"
    ELSE IF Len(net[c]) < SockCap THEN "sent" ELSE "blocked"

\* Wrong: write_in_progress is read after the push, so nobody starts the write.
DeliverAllTestsAfterPush(batch) ==
    /\ write_queue' = [c \in Clients |-> write_queue[c] \o batch[c]]
    /\ delivered' = [c \in Clients |-> delivered[c] \o batch[c]]
    /\ UNCHANGED <<writeOp, net>>

\* Session::deliver, once for each line of batch[c] in order, for every session c.
\* Only the call that finds write_queue_ empty calls do_write, with that line.
DeliverAll(batch) ==
    LET starting == {c \in Clients : write_queue[c] = <<>> /\ batch[c] # <<>>}
    IN  /\ write_queue' = [c \in Clients |-> write_queue[c] \o batch[c]]
        /\ delivered' = [c \in Clients |-> delivered[c] \o batch[c]]
        /\ writeOp' = [c \in Clients |->
                          IF c \in starting THEN Attempt(c) ELSE writeOp[c]]
        /\ net' = [c \in Clients |->
                      IF c \in starting /\ Attempt(c) = "sent"
                      THEN Append(net[c], Head(batch[c])) ELSE net[c]]

\* One reply, to the session whose line is being processed.
Only(c, note) == [d \in Clients |-> IF d = c THEN <<note>> ELSE <<>>]

Answer(c, note) == DeliverAll(Only(c, note))

\* Wrong: the topics are forgotten.
OnSessionDisconnectKeepsTopics(c) ==
    /\ UNCHANGED topicVars
    /\ sessions' = sessions \ {c}

\* BrokerServer::on_session_disconnect: from every topic, then from sessions_.
OnSessionDisconnect(c) ==
    /\ TM!UnsubscribeAll(c)
    /\ sessions' = sessions \ {c}

\* Wrong: do_write is called before the pop, and takes the same line again.
WriteDoneBeforePop(c) ==
    LET rest == Tail(write_queue[c])
    IN  /\ IoIdle
        /\ writeOp[c] = "sent"
        /\ write_queue' = [write_queue EXCEPT ![c] = rest]
        /\ writeOp' = [writeOp EXCEPT ![c] = IF rest = <<>> THEN "idle" ELSE Attempt(c)]
        /\ net' = IF rest # <<>> /\ Attempt(c) = "sent"
                  THEN [net EXCEPT ![c] = Append(@, Head(write_queue[c]))] ELSE net
        /\ UNCHANGED <<netVars, delivered, phase, topicVars, sessions, serverVars>>

\* Wrong: the handler pops and leaves the next write to the next deliver.
WriteDoneOnlyPops(c) ==
    /\ IoIdle
    /\ writeOp[c] = "sent"
    /\ write_queue' = [write_queue EXCEPT ![c] = Tail(@)]
    /\ writeOp' = [writeOp EXCEPT ![c] = "idle"]
    /\ UNCHANGED <<netVars, net, delivered, phase, topicVars, sessions, serverVars>>

\* The write handler without error: pop the line sent, do_write the next one.
WriteDone(c) ==
    LET rest == Tail(write_queue[c])
    IN  /\ IoIdle
        /\ writeOp[c] = "sent"
        /\ write_queue' = [write_queue EXCEPT ![c] = rest]
        /\ writeOp' = [writeOp EXCEPT ![c] = IF rest = <<>> THEN "idle" ELSE Attempt(c)]
        /\ net' = IF rest # <<>> /\ Attempt(c) = "sent"
                  THEN [net EXCEPT ![c] = Append(@, Head(rest))] ELSE net
        /\ UNCHANGED <<netVars, delivered, phase, topicVars, sessions, serverVars>>

\* The write handler with an error: the session leaves the broker's tables.  The
\* line stays in write_queue_, the socket stays open and the read loop goes on.
WriteError(c) ==
    /\ IoIdle
    /\ writeOp[c] = "failed"
    /\ writeOp' = [writeOp EXCEPT ![c] = "dead"]
    /\ OnSessionDisconnect(c)
    /\ UNCHANGED <<netVars, net, write_queue, delivered, phase, serverVars>>

\* A blocked write goes on when the socket is writable, from the address of
\* do_write's local string, which was destroyed when do_write returned: the bytes
\* sent are the line if the memory has not been reused, and arbitrary otherwise.
BlockedWriteSent(c) ==
    /\ writeOp[c] = "blocked" /\ ~aborted
    /\ peer[c] # "reset" /\ Len(net[c]) < SockCap
    /\ \E note \in {Head(write_queue[c]), Garbage} :
          net' = [net EXCEPT ![c] = Append(@, note)]
    /\ writeOp' = [writeOp EXCEPT ![c] = "sent"]
    /\ UNCHANGED <<netVars, write_queue, delivered, phase, topicVars, sessions,
                   serverVars>>

BlockedWriteFailed(c) ==
    /\ writeOp[c] = "blocked" /\ ~aborted
    /\ peer[c] = "reset"
    /\ writeOp' = [writeOp EXCEPT ![c] = "failed"]
    /\ UNCHANGED <<netVars, net, write_queue, delivered, phase, topicVars,
                   sessions, serverVars>>

-------------------------------------------------------------------------------
(***************************************************************************)
(* Session: the read handler and process_message.                          *)
(***************************************************************************)

\* Wrong: a subscriber whose last line is still being written is passed over.
PublicationSkipsBusy(c, t) ==
    [d \in Clients |->
        (IF d \in TM!Subscribers(t) /\ write_queue[d] = <<>>
            THEN <<Message(t, sequence_counter)>> ELSE <<>>)
        \o (IF d = c THEN <<Reply("PUBLISHED", NoTopic)>> ELSE <<>>)]

\* What a publication hands to deliver.  The topic is published before the
\* publisher is answered: a publisher that subscribes to its own topic gets its
\* MESSAGE first.
Publication(c, t) ==
    [d \in Clients |->
        (IF d \in TM!Subscribers(t) THEN <<Message(t, sequence_counter)>> ELSE <<>>)
        \o (IF d = c THEN <<Reply("PUBLISHED", NoTopic)>> ELSE <<>>)]

DoPublish(c, t) ==
    /\ TM!PublishLocked(t)
    /\ DeliverAll(Publication(c, t))

DoSubscribe(c, t) ==
    /\ TM!Subscribe(t, c)
    /\ Answer(c, Reply("SUBSCRIBED", t))

DoUnsubscribe(c, t) ==
    /\ TM!Unsubscribe(t, c)
    /\ Answer(c, Reply("UNSUBSCRIBED", t))

\* Wrong: the topic of a SUBSCRIBE line is not checked.
RejectForgotten(c) == DoSubscribe(c, NoTopic)

Reject(c) == Answer(c, Reply("ERROR", NoTopic)) /\ UNCHANGED topicVars

ProcessMessage(c, line) ==
    \/ line.cmd = "PUBLISH" /\ DoPublish(c, line.topic)
    \/ line.cmd = "SUBSCRIBE" /\ DoSubscribe(c, line.topic)
    \/ line.cmd = "UNSUBSCRIBE" /\ DoUnsubscribe(c, line.topic)
    \/ line.cmd = "PING" /\ Answer(c, Reply("PONG", NoTopic)) /\ UNCHANGED topicVars
    \/ line.cmd = "INVALID" /\ Reject(c)

\* The read handler with a complete line: process it and read again.
ReadLine(c) ==
    /\ IoIdle
    /\ phase[c] = "reading" /\ inbox[c] # <<>>
    /\ inbox' = [inbox EXCEPT ![c] = Tail(@)]
    /\ ProcessMessage(c, Head(inbox[c]))
    /\ UNCHANGED <<peer, received, linesSent, phase, sessions, serverVars>>

\* Wrong: a session the write handler has removed already is not removed again.
ReadErrorOnce(c) ==
    /\ IoIdle
    /\ phase[c] = "reading" /\ inbox[c] = <<>>
    /\ peer[c] \in {"closed", "reset"}
    /\ phase' = [phase EXCEPT ![c] = "ended"]
    /\ IF writeOp[c] = "dead" THEN UNCHANGED <<topicVars, sessions>>
                              ELSE OnSessionDisconnect(c)
    /\ UNCHANGED <<netVars, sessionVars, serverVars>>

\* The read handler with an error, end of file included: the read loop ends here.
ReadError(c) ==
    /\ IoIdle
    /\ phase[c] = "reading" /\ inbox[c] = <<>>
    /\ peer[c] \in {"closed", "reset"}
    /\ phase' = [phase EXCEPT ![c] = "ended"]
    /\ OnSessionDisconnect(c)
    /\ UNCHANGED <<netVars, sessionVars, serverVars>>

-------------------------------------------------------------------------------
(***************************************************************************)
(* BrokerServer: accepting connections, start and stop.                    *)
(***************************************************************************)

\* The reactor takes a connection from the backlog and queues the accept handler.
AcceptCompletes(c) ==
    /\ IoIdle /\ acceptPending /\ AcceptorOpen
    /\ peer[c] # "absent" /\ phase[c] = "none"
    /\ acceptPending' = FALSE
    /\ phase' = [phase EXCEPT ![c] = "accepted"]
    /\ UNCHANGED <<netVars, sessionVars, topicVars, sessions, mainPc, aborted>>

\* The accept handler up to the insertion into sessions_.  The constructor of
\* Session asks the socket for its remote endpoint, which throws if the connection
\* is reset by then; nothing up to the io thread's entry function catches it.
InsertSession(c) ==
    /\ IoIdle /\ phase[c] = "accepted"
    /\ IF peer[c] = "reset"
       THEN aborted' = TRUE /\ UNCHANGED <<phase, sessions>>
       ELSE /\ sessions' = sessions \cup {c}
            /\ phase' = [phase EXCEPT ![c] = "inserted"]
            /\ UNCHANGED aborted
    /\ UNCHANGED <<netVars, sessionVars, topicVars, acceptPending, mainPc>>

\* Wrong: do_accept is not called again.
StartSessionAcceptsOne(c) ==
    /\ phase[c] = "inserted"
    /\ phase' = [phase EXCEPT ![c] = "reading"]
    /\ UNCHANGED <<netVars, sessionVars, topicVars, sessions, serverVars>>

\* session->start() arms the read loop; do_accept again only while running_.
StartSession(c) ==
    /\ phase[c] = "inserted"
    /\ phase' = [phase EXCEPT ![c] = "reading"]
    /\ acceptPending' = running
    /\ UNCHANGED <<netVars, sessionVars, topicVars, sessions, mainPc, aborted>>

\* The accept handler with an error, after stop has closed the acceptor.
AcceptAborted ==
    /\ IoIdle /\ acceptPending /\ ~AcceptorOpen
    /\ acceptPending' = running
    /\ UNCHANGED <<netVars, sessionVars, phase, topicVars, sessions, mainPc, aborted>>

Start ==
    /\ mainPc = "created"
    /\ mainPc' = "serving"
    /\ acceptPending' = TRUE
    /\ UNCHANGED <<netVars, sessionVars, phase, topicVars, sessions, aborted>>

\* BrokerServer::stop, called by the main thread: clear running_, close the
\* acceptor, clear sessions_.
StopBegin ==
    /\ "stop" \in Disturbances
    /\ ~aborted /\ running
    /\ mainPc' = "closing"
    /\ UNCHANGED <<netVars, sessionVars, phase, topicVars, sessions, acceptPending,
                   aborted>>

\* Wrong: the sessions are dropped before the acceptor is closed.
StopCloseAcceptorLast ==
    /\ ~aborted /\ mainPc = "closing"
    /\ mainPc' = "clearing"
    /\ sessions' = {}
    /\ UNCHANGED <<netVars, sessionVars, phase, topicVars, acceptPending, aborted>>

StopCloseAcceptor ==
    /\ ~aborted /\ mainPc = "closing"
    /\ mainPc' = "clearing"
    /\ UNCHANGED <<netVars, sessionVars, phase, topicVars, sessions, acceptPending,
                   aborted>>

StopClearSessions ==
    /\ ~aborted /\ mainPc = "clearing"
    /\ sessions' = {}
    /\ mainPc' = "stopped"
    /\ UNCHANGED <<netVars, sessionVars, phase, topicVars, acceptPending, aborted>>

-------------------------------------------------------------------------------

IoHandler(c) ==
    \/ ReadLine(c) \/ ReadError(c)
    \/ WriteDone(c) \/ WriteError(c)
    \/ InsertSession(c) \/ StartSession(c)

Kernel(c) == BlockedWriteSent(c) \/ BlockedWriteFailed(c) \/ AcceptCompletes(c)

Client(c) ==
    \/ Connect(c) \/ Receive(c) \/ Close(c) \/ Reset(c)
    \/ \E line \in Requests : Send(c, line)

Main == Start \/ StopBegin \/ StopCloseAcceptor \/ StopClearSessions

Next ==
    \/ \E c \in Clients : IoHandler(c) \/ Kernel(c) \/ Client(c)
    \/ AcceptAborted
    \/ Main

Spec == Init /\ [][Next]_vars

\* What the scheduling justifies.  The io thread runs the handlers that are ready
\* in the order they became ready, so each is taken up eventually; the reactor
\* reports a socket that has become writable; the clients of this specification
\* keep reading.  Nothing obliges a client to send, close or reset, nor the main
\* thread to stop.
FairSpec ==
    /\ Spec
    /\ WF_vars(Start)
    /\ \A c \in Clients :
          /\ WF_vars(ReadLine(c)) /\ WF_vars(ReadError(c))
          /\ WF_vars(WriteDone(c)) /\ WF_vars(WriteError(c))
          /\ WF_vars(InsertSession(c)) /\ WF_vars(StartSession(c))
          /\ WF_vars(AcceptCompletes(c))
          /\ WF_vars(BlockedWriteSent(c)) /\ WF_vars(BlockedWriteFailed(c))
          /\ WF_vars(Receive(c))

-------------------------------------------------------------------------------
(***************************************************************************)
(* Safety.                                                                 *)
(***************************************************************************)

Subscribed(c) == \E t \in Topics : c \in TM!Subscribers(t)

\* A session no read loop keeps alive is held by no table of the broker: when the
\* last handler that captured it is gone, the shared_ptr count is zero.  Two
\* handlers of one session, in either order, call on_session_disconnect, and
\* lines still buffered may subscribe again in between.
NoLeakedSession ==
    \A c \in Clients :
        phase[c] \in {"none", "accepted", "ended"} => c \notin sessions /\ ~Subscribed(c)

\* get_active_sessions counts every session whose read loop runs, except those
\* whose write failed and those cleared by stop.
ActiveSessionsCounted ==
    \A c \in Clients :
        phase[c] = "reading" /\ c \notin sessions
            => writeOp[c] = "dead" \/ mainPc = "stopped"

\* Exactly one async_write is outstanding (or has failed for good) while lines are
\* queued, and none otherwise: deliver and the write handler never both leave
\* the next write to the other, nor both start it.
OneWriteWhileQueued ==
    \A c \in Clients : writeOp[c] = "idle" <=> write_queue[c] = <<>>

\* The lines on their way to c or read by it, and those still to be sent.
Wire(c)    == received[c] \o net[c]
Pending(c) == IF writeOp[c] = "sent" THEN Tail(write_queue[c]) ELSE write_queue[c]

\* A line on the wire may have been spoiled but keeps its place.
StreamMatches(wire, pending, given) ==
    /\ Len(wire) + Len(pending) = Len(given)
    /\ \A i \in 1 .. Len(wire) : wire[i] \in {given[i], Garbage}
    /\ \A i \in 1 .. Len(pending) : pending[i] = given[Len(wire) + i]

\* What a client has read or will read is what was delivered to its session, in that
\* order, none missing and none twice, however its writes block, fail and resume.
StreamMatchesDelivered ==
    \A c \in Clients : StreamMatches(Wire(c), Pending(c), delivered[c])

\* Every session is given the messages of all its topics in the one order the
\* sequence numbers define, so two subscribers never disagree about the order
\* of two publications, and none is given a message twice.
DeliveredInPublishOrder ==
    \A c \in Clients : \A i, j \in DOMAIN delivered[c] :
        i < j /\ IsMessage(delivered[c][i]) /\ IsMessage(delivered[c][j])
            => delivered[c][i].seq < delivered[c][j].seq

\* A MESSAGE reaches a session only between the replies that acknowledge its
\* SUBSCRIBE and its UNSUBSCRIBE for that topic.
OnlyWhileSubscribed ==
    \A c \in Clients : \A i \in DOMAIN delivered[c] :
        LET note == delivered[c][i] IN
        IsMessage(note) =>
            \E j \in 1 .. i - 1 :
                /\ delivered[c][j] = Reply("SUBSCRIBED", note.topic)
                /\ \A k \in j .. i : delivered[c][k] # Reply("UNSUBSCRIBED", note.topic)

\* Whatever the handlers, the sockets and the threads do, clients see the service of
\* PubSubService: each publication reaches exactly the sessions subscribed when it
\* is processed, and what a client reads never overtakes what it was given.
Service == INSTANCE PubSubService WITH
    members <- [t \in Topics |-> TM!Subscribers(t)],
    log     <- topic_queues,
    next    <- sequence_counter,
    mail    <- delivered,
    taken   <- [c \in Clients |-> Len(received[c])],
    gone    <- {c \in Clients : phase[c] = "ended"}

ImplementsService == Service!Spec

\* While a session is subscribed to a topic it is given every publication of the topic,
\* also while its writes are blocked or other sessions come and go: the set copied under
\* the lock and what is handed to deliver after it never differ.
SubscribersMissNothing == Service!MissesNothing

\* Once its read loop has ended, nothing more is given to a session, whatever is
\* published and whatever its write handler still does.
SilentAfterDisconnect ==
    [][\A c \in Clients : phase[c] = "ended" => delivered'[c] = delivered[c]]_vars

-------------------------------------------------------------------------------
(***************************************************************************)
(* Liveness, under FairSpec.                                               *)
(***************************************************************************)

\* Every line delivered to a session is read by its client, unless the connection
\* is reset or the broker aborts.
DeliveredIsReceived ==
    \A c \in Clients : \A n \in 1 .. 2 * MaxLines :
        Len(delivered[c]) >= n
            ~> Len(received[c]) >= n \/ peer[c] = "reset" \/ aborted

\* Every line a client sends is taken up, unless the connection is reset, the
\* broker is stopped before accepting it, or aborts.
RequestsAreTaken ==
    \A c \in Clients :
        inbox[c] # <<>>
            ~> inbox[c] = <<>> \/ peer[c] = "reset" \/ ~running \/ aborted

\* A session whose client has closed or reset the connection is forgotten for
\* good: no table of the broker holds it any more.
DisconnectedIsForgotten ==
    \A c \in Clients :
        phase[c] = "reading" /\ peer[c] \in {"closed", "reset"}
            ~> [](c \notin sessions /\ ~Subscribed(c)) \/ aborted

-------------------------------------------------------------------------------
(***************************************************************************)
(* What the repository says and the code does not do.                      *)
(***************************************************************************)

\* "Broker handles rapid connections" (tests/test_edge_cases.sh): no sequence of
\* connections ends the broker.
BrokerSurvivesConnections == ~aborted

\* A subscriber reads MESSAGE:topic:payload as published
\* (tests/test_asio_broker.cpp asserts it): no line read is garbled.
LinesArriveIntact ==
    \A c \in Clients : \A i \in DOMAIN received[c] : received[c][i] # Garbage
===============================================================================
