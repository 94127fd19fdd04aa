--------------------------- MODULE AsioBrokerProofs ---------------------------
(***************************************************************************)
(* Theorems about AsioBroker, for every set of clients and topics, every   *)
(* socket capacity and every bound.                                        *)
(***************************************************************************)
EXTENDS AsioBroker, SequenceTheorems, TLAPS

-------------------------------------------------------------------------------
(***************************************************************************)
(* Facts about the operators the actions are built from.                   *)
(***************************************************************************)

\* The notes the broker gives are notes.
LEMMA NotesFact ==
    /\ \A t \in Topics, n \in Nat : Message(t, n) \in Notes
    /\ \A k \in {"PUBLISHED", "SUBSCRIBED", "UNSUBSCRIBED", "PONG", "ERROR"},
          t \in Topics \cup {NoTopic} : Reply(k, t) \in Notes
    /\ Garbage \in Notes
  BY DEF Message, Reply, Garbage, Notes

\* Session::deliver keeps the types of what it changes.
LEMMA DeliverAllType ==
    ASSUME TypeOK, NEW batch \in [Clients -> Seq(Notes)], DeliverAll(batch)
    PROVE  /\ write_queue' \in [Clients -> Seq(Notes)]
           /\ delivered' \in [Clients -> Seq(Notes)]
           /\ writeOp' \in [Clients -> WriteOps]
           /\ net' \in [Clients -> Seq(Notes)]
  <1>1. \A c \in Clients : /\ write_queue[c] \o batch[c] \in Seq(Notes)
                           /\ delivered[c] \o batch[c] \in Seq(Notes)
    BY ConcatProperties DEF TypeOK
  <1>2. \A c \in Clients : Attempt(c) \in WriteOps
    BY DEF Attempt, WriteOps
  <1>3. \A c \in Clients : batch[c] # <<>> => Append(net[c], Head(batch[c])) \in Seq(Notes)
    BY HeadTailProperties, AppendProperties DEF TypeOK
  <1>. QED
    BY <1>1, <1>2, <1>3 DEF DeliverAll, TypeOK

\* What a reply and a publication hand to deliver are batches of notes.
LEMMA OnlyType ==
    ASSUME NEW c, NEW note \in Notes
    PROVE  Only(c, note) \in [Clients -> Seq(Notes)]
  BY DEF Only

LEMMA PublicationType ==
    ASSUME TypeOK, NEW c, NEW t \in Topics
    PROVE  Publication(c, t) \in [Clients -> Seq(Notes)]
  <1>1. Message(t, sequence_counter) \in Notes /\ Reply("PUBLISHED", NoTopic) \in Notes
    BY NotesFact DEF TypeOK, TM!TMTypeOK
  <1>. DEFINE a(d) == IF d \in TM!Subscribers(t)
                      THEN <<Message(t, sequence_counter)>> ELSE <<>>
              b(d) == IF d = c THEN <<Reply("PUBLISHED", NoTopic)>> ELSE <<>>
  <1>2. \A d : a(d) \in Seq(Notes) /\ b(d) \in Seq(Notes)
    BY <1>1
  <1>. HIDE DEF a, b
  <1>3. \A d : a(d) \o b(d) \in Seq(Notes)
    BY <1>2, ConcatProperties
  <1>4. [d \in Clients |-> a(d) \o b(d)] \in [Clients -> Seq(Notes)]
    BY <1>3
  <1>. QED
    BY <1>4 DEF a, b, Publication

\* The operations of the TopicManager keep its types.
LEMMA TopicManagerType ==
    ASSUME TM!TMTypeOK, NEW c \in Clients
    PROVE  /\ TM!UnsubscribeAll(c) => TM!TMTypeOK'
           /\ \A t \in Topics : /\ TM!Subscribe(t, c) => TM!TMTypeOK'
                                /\ TM!Unsubscribe(t, c) => TM!TMTypeOK'
                                /\ TM!PublishLocked(t) => TM!TMTypeOK'
  <1>1. TM!UnsubscribeAll(c) => TM!TMTypeOK'
    BY DEF TM!TMTypeOK, TM!UnsubscribeAll
  <1>2. ASSUME NEW t \in Topics, TM!Subscribe(t, c) PROVE TM!TMTypeOK'
    BY <1>2 DEF TM!TMTypeOK, TM!Subscribe, TM!Subscribers
  <1>3. ASSUME NEW t \in Topics, TM!Unsubscribe(t, c) PROVE TM!TMTypeOK'
    BY <1>3 DEF TM!TMTypeOK, TM!Unsubscribe
  <1>4. ASSUME NEW t \in Topics, TM!PublishLocked(t) PROVE TM!TMTypeOK'
    BY <1>4, AppendProperties DEF TM!TMTypeOK, TM!PublishLocked
  <1>. QED
    BY <1>1, <1>2, <1>3, <1>4

-------------------------------------------------------------------------------
(***************************************************************************)
(* Type correctness.                                                       *)
(***************************************************************************)

LEMMA InitType == Init => TypeOK
  <1>. SUFFICES ASSUME Init PROVE TypeOK
    OBVIOUS
  <1>1. TM!TMTypeOK
    BY DEF Init, TM!TMInit, TM!TMTypeOK
  <1>2. \A S : <<>> \in Seq(S)
    OBVIOUS
  <1>. QED
    BY <1>1, <1>2 DEF Init, TypeOK, Peers, Phases, WriteOps

\* Processing a line, whatever the line.
LEMMA ProcessMessageType ==
    ASSUME TypeOK, NEW c \in Clients, NEW line \in Lines, ProcessMessage(c, line)
    PROVE  /\ TM!TMTypeOK'
           /\ write_queue' \in [Clients -> Seq(Notes)]
           /\ delivered' \in [Clients -> Seq(Notes)]
           /\ writeOp' \in [Clients -> WriteOps]
           /\ net' \in [Clients -> Seq(Notes)]
  <1>. USE NotesFact, OnlyType, PublicationType, DeliverAllType, TopicManagerType
  <1>0. TM!TMTypeOK
    BY DEF TypeOK
  <1>1. CASE line.cmd = "PUBLISH" /\ DoPublish(c, line.topic)
    BY <1>0, <1>1 DEF DoPublish, Lines
  <1>2. CASE line.cmd = "SUBSCRIBE" /\ DoSubscribe(c, line.topic)
    BY <1>0, <1>2 DEF DoSubscribe, Answer, Lines
  <1>3. CASE line.cmd = "UNSUBSCRIBE" /\ DoUnsubscribe(c, line.topic)
    BY <1>0, <1>3 DEF DoUnsubscribe, Answer, Lines
  <1>4. CASE line.cmd = "PING" /\ Answer(c, Reply("PONG", NoTopic)) /\ UNCHANGED topicVars
    BY <1>0, <1>4 DEF Answer, topicVars, TM!TMTypeOK
  <1>5. CASE line.cmd = "INVALID" /\ Reject(c)
    BY <1>0, <1>5 DEF Reject, Answer, topicVars, TM!TMTypeOK
  <1>. QED
    BY <1>1, <1>2, <1>3, <1>4, <1>5 DEF ProcessMessage

\* The write handler pops the line it has sent, so a queue must not be empty while a
\* write is outstanding: types alone are not inductive.
TypeInv == TypeOK /\ OneWriteWhileQueued

LEMMA NextType == TypeInv /\ [Next]_vars => TypeOK'
  <1>. SUFFICES ASSUME TypeInv, [Next]_vars PROVE TypeOK'
    OBVIOUS
  <1>. USE DEF TypeInv, netVars, sessionVars, topicVars, serverVars
  <1>a. TM!TMTypeOK /\ UNCHANGED topicVars => TM!TMTypeOK'
    BY DEF TM!TMTypeOK
  <1>1. ASSUME NEW c \in Clients, IoHandler(c) PROVE TypeOK'
    <2>1. CASE ReadLine(c)
      <3>1. Head(inbox[c]) \in Lines /\ Tail(inbox[c]) \in Seq(Lines)
        BY <2>1, HeadTailProperties DEF ReadLine, TypeOK
      <3>. QED
        BY <2>1, <3>1, ProcessMessageType DEF ReadLine, TypeOK
    <2>2. CASE ReadError(c)
      BY <2>2, TopicManagerType DEF ReadError, OnSessionDisconnect, TypeOK, Phases
    <2>3. CASE WriteDone(c)
      <3>. DEFINE rest == Tail(write_queue[c])
      <3>1. rest \in Seq(Notes)
        BY <2>3, HeadTailProperties DEF WriteDone, OneWriteWhileQueued, TypeOK
      <3>2. rest # <<>> => Append(net[c], Head(rest)) \in Seq(Notes)
        BY <3>1, HeadTailProperties, AppendProperties DEF TypeOK
      <3>3. Attempt(c) \in WriteOps
        BY DEF Attempt, WriteOps
      <3>. HIDE DEF rest
      <3>4. /\ write_queue' = [write_queue EXCEPT ![c] = rest]
            /\ writeOp' = [writeOp EXCEPT ![c] = IF rest = <<>> THEN "idle" ELSE Attempt(c)]
            /\ net' = IF rest # <<>> /\ Attempt(c) = "sent"
                      THEN [net EXCEPT ![c] = Append(@, Head(rest))] ELSE net
            /\ UNCHANGED <<netVars, delivered, phase, topicVars, sessions, serverVars>>
        BY <2>3 DEF WriteDone, rest
      <3>5. /\ write_queue' \in [Clients -> Seq(Notes)]
            /\ writeOp' \in [Clients -> WriteOps]
            /\ net' \in [Clients -> Seq(Notes)]
        BY <3>1, <3>2, <3>3, <3>4 DEF TypeOK, WriteOps
      <3>. QED
        BY <3>4, <3>5, <1>a DEF TypeOK
    <2>4. CASE WriteError(c)
      BY <2>4, TopicManagerType DEF WriteError, OnSessionDisconnect, TypeOK, WriteOps
    <2>5. CASE InsertSession(c)
      BY <2>5, <1>a DEF InsertSession, TypeOK, Phases
    <2>6. CASE StartSession(c)
      BY <2>6, <1>a DEF StartSession, TypeOK, Phases, running
    <2>. QED
      BY <1>1, <2>1, <2>2, <2>3, <2>4, <2>5, <2>6 DEF IoHandler
  <1>2. ASSUME NEW c \in Clients, Kernel(c) PROVE TypeOK'
    <2>1. CASE BlockedWriteSent(c)
      <3>1. Head(write_queue[c]) \in Notes
        BY <2>1, HeadTailProperties DEF BlockedWriteSent, OneWriteWhileQueued, TypeOK
      <3>2. \A note \in Notes : Append(net[c], note) \in Seq(Notes)
        BY AppendProperties DEF TypeOK
      <3>. QED
        BY <2>1, <3>1, <3>2, <1>a, NotesFact DEF BlockedWriteSent, TypeOK, WriteOps
    <2>2. CASE BlockedWriteFailed(c)
      BY <2>2, <1>a DEF BlockedWriteFailed, TypeOK, WriteOps
    <2>3. CASE AcceptCompletes(c)
      BY <2>3, <1>a DEF AcceptCompletes, TypeOK, Phases
    <2>. QED
      BY <1>2, <2>1, <2>2, <2>3 DEF Kernel
  <1>3. ASSUME NEW c \in Clients, Client(c) PROVE TypeOK'
    <2>1. CASE Connect(c)
      BY <2>1, <1>a DEF Connect, TypeOK, Peers
    <2>2. ASSUME NEW line \in Requests, Send(c, line) PROVE TypeOK'
      <3>1. Append(inbox[c], line) \in Seq(Lines)
        BY ConstantsOK, AppendProperties DEF TypeOK
      <3>. QED
        BY <2>2, <3>1, <1>a DEF Send, TypeOK
    <2>3. CASE Receive(c)
      <3>1. /\ Tail(net[c]) \in Seq(Notes)
            /\ Append(received[c], Head(net[c])) \in Seq(Notes)
        BY <2>3, HeadTailProperties, AppendProperties DEF Receive, TypeOK
      <3>. QED
        BY <2>3, <3>1, <1>a DEF Receive, TypeOK
    <2>4. CASE Close(c)
      BY <2>4, <1>a DEF Close, TypeOK, Peers
    <2>5. CASE Reset(c)
      <3>1. \A n \in 0 .. Len(inbox[c]) : SubSeq(inbox[c], 1, n) \in Seq(Lines)
        <4>1. \A i \in 1 .. Len(inbox[c]) : inbox[c][i] \in Lines
          BY ElementOfSeq DEF TypeOK
        <4>. QED
          BY <4>1, SubSeqProperties DEF TypeOK
      <3>. QED
        BY <2>5, <3>1, <1>a DEF Reset, TypeOK, Peers
    <2>. QED
      BY <1>3, <2>1, <2>2, <2>3, <2>4, <2>5 DEF Client
  <1>4. CASE AcceptAborted
    BY <1>4, <1>a DEF AcceptAborted, TypeOK, running
  <1>5. CASE Main
    BY <1>5, <1>a DEF Main, Start, StopBegin, StopCloseAcceptor, StopClearSessions, TypeOK
  <1>6. CASE UNCHANGED vars
    BY <1>6, <1>a DEF vars, TypeOK
  <1>. QED
    BY <1>1, <1>2, <1>3, <1>4, <1>5, <1>6 DEF Next

-------------------------------------------------------------------------------
(***************************************************************************)
(* One write at a time.                                                    *)
(***************************************************************************)

\* Whatever the line, it is processed by handing some batch to deliver.
LEMMA ProcessMessageDelivers ==
    ASSUME TypeOK, NEW c \in Clients, NEW line \in Lines, ProcessMessage(c, line)
    PROVE  \E batch \in [Clients -> Seq(Notes)] : DeliverAll(batch)
  <1>. USE NotesFact, OnlyType, PublicationType DEF Lines, Answer
  <1>1. line.cmd = "PUBLISH" /\ DoPublish(c, line.topic) =>
            \E batch \in [Clients -> Seq(Notes)] : DeliverAll(batch)
    BY DEF DoPublish
  <1>2. line.cmd = "SUBSCRIBE" /\ DoSubscribe(c, line.topic) =>
            \E batch \in [Clients -> Seq(Notes)] : DeliverAll(batch)
    BY DEF DoSubscribe
  <1>3. line.cmd = "UNSUBSCRIBE" /\ DoUnsubscribe(c, line.topic) =>
            \E batch \in [Clients -> Seq(Notes)] : DeliverAll(batch)
    BY DEF DoUnsubscribe
  <1>4. Answer(c, Reply("PONG", NoTopic)) \/ Reject(c) =>
            \E batch \in [Clients -> Seq(Notes)] : DeliverAll(batch)
    BY DEF Reject
  <1>. QED
    BY <1>1, <1>2, <1>3, <1>4 DEF ProcessMessage

\* Session::deliver starts a write exactly when it ends the emptiness of a queue.
LEMMA DeliverAllOneWrite ==
    ASSUME TypeInv, NEW batch \in [Clients -> Seq(Notes)], DeliverAll(batch)
    PROVE  OneWriteWhileQueued'
  <1>1. \A c \in Clients :
            write_queue[c] \o batch[c] = <<>> <=> write_queue[c] = <<>> /\ batch[c] = <<>>
    BY ConcatEqualIffEmpty DEF TypeInv, TypeOK
  <1>2. \A c \in Clients : Attempt(c) # "idle"
    BY DEF Attempt
  <1>. QED
    BY <1>1, <1>2 DEF DeliverAll, OneWriteWhileQueued, TypeInv, TypeOK

LEMMA NextOneWrite == TypeInv /\ [Next]_vars => OneWriteWhileQueued'
  <1>. SUFFICES ASSUME TypeInv, [Next]_vars PROVE OneWriteWhileQueued'
    OBVIOUS
  <1>a. UNCHANGED <<write_queue, writeOp>> => OneWriteWhileQueued'
    BY DEF TypeInv, OneWriteWhileQueued
  <1>. USE DEF netVars, sessionVars, topicVars, serverVars
  <1>1. ASSUME NEW c \in Clients, ReadLine(c) PROVE OneWriteWhileQueued'
    <2>1. Head(inbox[c]) \in Lines
      BY <1>1, HeadTailProperties DEF ReadLine, TypeInv, TypeOK
    <2>. QED
      BY <1>1, <2>1, ProcessMessageDelivers, DeliverAllOneWrite DEF ReadLine, TypeInv
  <1>2. ASSUME NEW c \in Clients, WriteDone(c) PROVE OneWriteWhileQueued'
    <2>1. Attempt(c) # "idle"
      BY DEF Attempt
    <2>. QED
      BY <1>2, <2>1 DEF WriteDone, OneWriteWhileQueued, TypeInv, TypeOK
  <1>3. ASSUME NEW c \in Clients,
               WriteError(c) \/ BlockedWriteSent(c) \/ BlockedWriteFailed(c)
        PROVE  OneWriteWhileQueued'
    BY <1>3 DEF WriteError, BlockedWriteSent, BlockedWriteFailed, OneWriteWhileQueued,
                TypeInv, TypeOK
  <1>4. ASSUME NEW c \in Clients,
               \/ ReadError(c) \/ InsertSession(c) \/ StartSession(c)
               \/ AcceptCompletes(c) \/ Client(c)
        PROVE  OneWriteWhileQueued'
    BY <1>4, <1>a DEF ReadError, InsertSession, StartSession, AcceptCompletes, Client,
                      Connect, Send, Receive, Close, Reset
  <1>5. CASE AcceptAborted \/ Main \/ UNCHANGED vars
    BY <1>5, <1>a DEF AcceptAborted, Main, Start, StopBegin, StopCloseAcceptor,
                      StopClearSessions, vars
  <1>. QED
    BY <1>1, <1>2, <1>3, <1>4, <1>5 DEF Next, IoHandler, Kernel

LEMMA TypeInvariant == Spec => []TypeInv
  <1>1. Init => TypeInv
    BY InitType DEF TypeInv, Init, OneWriteWhileQueued
  <1>2. TypeInv /\ [Next]_vars => TypeInv'
    BY NextType, NextOneWrite DEF TypeInv
  <1>. QED
    BY <1>1, <1>2, PTL DEF Spec

\* Every variable keeps its type: only known topics are keys of subscriptions_, and
\* what is queued, sent and received are lines of the protocol.
THEOREM TypeCorrect == Spec => []TypeOK
  BY TypeInvariant, PTL DEF TypeInv

\* Exactly one async_write is outstanding while lines are queued, none otherwise:
\* Session::deliver and the write handler hand the next write to each other
\* without losing or doubling it.
THEOREM OneWrite == Spec => []OneWriteWhileQueued
  BY TypeInvariant, PTL DEF TypeInv

-------------------------------------------------------------------------------
(***************************************************************************)
(* The broker's tables.                                                    *)
(***************************************************************************)

\* What the operations of the TopicManager do to the set of subscribers that
\* publish reads, whichever keys of subscriptions_ they add and remove.
LEMMA SubscribersAfter ==
    ASSUME TM!TMTypeOK, NEW c \in Clients, NEW t \in Topics
    PROVE  /\ TM!Subscribe(t, c) => \A u \in Topics : TM!Subscribers(u)' =
                 IF u = t THEN TM!Subscribers(t) \cup {c} ELSE TM!Subscribers(u)
           /\ TM!Unsubscribe(t, c) => \A u \in Topics : TM!Subscribers(u)' =
                 IF u = t THEN TM!Subscribers(t) \ {c} ELSE TM!Subscribers(u)
           /\ TM!UnsubscribeAll(c) => \A u \in Topics :
                 TM!Subscribers(u)' = TM!Subscribers(u) \ {c}
           /\ UNCHANGED subscriptions => \A u \in Topics :
                 TM!Subscribers(u)' = TM!Subscribers(u)
  <1>1. TM!Subscribe(t, c) => \A u \in Topics : TM!Subscribers(u)' =
            IF u = t THEN TM!Subscribers(t) \cup {c} ELSE TM!Subscribers(u)
    BY DEF TM!Subscribe, TM!Subscribers, TM!TMTypeOK
  <1>2. TM!Unsubscribe(t, c) => \A u \in Topics : TM!Subscribers(u)' =
            IF u = t THEN TM!Subscribers(t) \ {c} ELSE TM!Subscribers(u)
    BY DEF TM!Unsubscribe, TM!Subscribers, TM!TMTypeOK
  <1>3. TM!UnsubscribeAll(c) => \A u \in Topics :
            TM!Subscribers(u)' = TM!Subscribers(u) \ {c}
    BY DEF TM!UnsubscribeAll, TM!Subscribers, TM!TMTypeOK
  <1>4. UNCHANGED subscriptions => \A u \in Topics :
            TM!Subscribers(u)' = TM!Subscribers(u)
    BY DEF TM!Subscribers
  <1>. QED
    BY <1>1, <1>2, <1>3, <1>4

\* Only the session whose line is processed may become subscribed by it.
LEMMA ProcessMessageSubscribers ==
    ASSUME TypeOK, NEW c \in Clients, NEW line \in Lines, ProcessMessage(c, line)
    PROVE  \A d \in Clients \ {c} : Subscribed(d)' => Subscribed(d)
  <1>. USE SubscribersAfter DEF Subscribed, Lines
  <1>0. TM!TMTypeOK
    BY DEF TypeOK
  <1>1. CASE line.cmd = "PUBLISH" /\ DoPublish(c, line.topic)
    BY <1>0, <1>1 DEF DoPublish, TM!PublishLocked
  <1>2. CASE line.cmd = "SUBSCRIBE" /\ DoSubscribe(c, line.topic)
    BY <1>0, <1>2 DEF DoSubscribe
  <1>3. CASE line.cmd = "UNSUBSCRIBE" /\ DoUnsubscribe(c, line.topic)
    BY <1>0, <1>3 DEF DoUnsubscribe
  <1>4. CASE UNCHANGED topicVars
    BY <1>0, <1>4 DEF topicVars
  <1>. QED
    BY <1>1, <1>2, <1>3, <1>4 DEF ProcessMessage, Reject

\* A session is in the tables only while the accept handler or its read loop holds
\* it, and is missing from sessions_ only after a failed write or stop.  The write
\* handler of a session that lost its last write stays silent for ever, which is
\* why OneWriteWhileQueued is needed: deliver must find its queue non-empty.
TablesInv ==
    \A c \in Clients :
        /\ phase[c] \notin {"inserted", "reading"} => c \notin sessions
        /\ phase[c] # "reading" => ~Subscribed(c)
        /\ phase[c] \in {"inserted", "reading"} /\ c \notin sessions
               => writeOp[c] = "dead" \/ mainPc = "stopped"

LEMMA DeadStaysDead ==
    ASSUME TypeInv, NEW batch, DeliverAll(batch), NEW c \in Clients, writeOp[c] = "dead"
    PROVE  writeOp'[c] = "dead"
  BY DEF DeliverAll, TypeInv, TypeOK, OneWriteWhileQueued

LEMMA NextTables == TypeInv /\ TablesInv /\ [Next]_vars => TablesInv'
  <1>. SUFFICES ASSUME TypeInv, TablesInv, [Next]_vars PROVE TablesInv'
    OBVIOUS
  <1>. USE DEF TypeInv, netVars, sessionVars, topicVars, serverVars
  <1>0. TM!TMTypeOK
    BY DEF TypeOK
  <1>a. UNCHANGED subscriptions => \A c \in Clients : Subscribed(c)' = Subscribed(c)
    BY DEF Subscribed, TM!Subscribers
  <1>b. \A c \in Clients : TM!UnsubscribeAll(c) =>
            /\ ~Subscribed(c)'
            /\ \A d \in Clients : Subscribed(d)' => Subscribed(d)
    BY <1>0, SubscribersAfter DEF Subscribed
  <1>1. ASSUME NEW c \in Clients, ReadLine(c) PROVE TablesInv'
    <2>1. PICK line \in Lines : ProcessMessage(c, line)
      BY <1>1, HeadTailProperties DEF ReadLine, TypeOK
    <2>2. \A d \in Clients : writeOp[d] = "dead" => writeOp'[d] = "dead"
      BY <2>1, ProcessMessageDelivers, DeadStaysDead
    <2>3. \A d \in Clients : phase[d] # "reading" => ~Subscribed(d)'
      BY <1>1, <2>1, ProcessMessageSubscribers DEF ReadLine, TablesInv
    <2>. QED
      BY <1>1, <2>2, <2>3 DEF ReadLine, TablesInv
  <1>2. ASSUME NEW c \in Clients, ReadError(c) PROVE TablesInv'
    BY <1>2, <1>b DEF ReadError, OnSessionDisconnect, TablesInv, TypeOK, Phases
  <1>3. ASSUME NEW c \in Clients, WriteError(c) PROVE TablesInv'
    BY <1>3, <1>b DEF WriteError, OnSessionDisconnect, TablesInv, TypeOK, WriteOps
  <1>4. ASSUME NEW c \in Clients,
               WriteDone(c) \/ BlockedWriteSent(c) \/ BlockedWriteFailed(c)
        PROVE  TablesInv'
    BY <1>4, <1>a DEF WriteDone, BlockedWriteSent, BlockedWriteFailed, TablesInv, TypeOK
  <1>5. ASSUME NEW c \in Clients,
               InsertSession(c) \/ StartSession(c) \/ AcceptCompletes(c)
        PROVE  TablesInv'
    BY <1>5, <1>a DEF InsertSession, StartSession, AcceptCompletes, TablesInv, TypeOK,
                      Phases
  <1>6. ASSUME NEW c \in Clients, Client(c) PROVE TablesInv'
    BY <1>6, <1>a DEF Client, Connect, Send, Receive, Close, Reset, TablesInv
  <1>7. CASE AcceptAborted \/ Main \/ UNCHANGED vars
    BY <1>7, <1>a DEF AcceptAborted, Main, Start, StopBegin, StopCloseAcceptor,
                      StopClearSessions, running, vars, TablesInv
  <1>. QED
    BY <1>1, <1>2, <1>3, <1>4, <1>5, <1>6, <1>7 DEF Next, IoHandler, Kernel

LEMMA TablesInvariant == Spec => []TablesInv
  <1>1. Init => TablesInv
    BY DEF Init, TM!TMInit, TablesInv, Subscribed, TM!Subscribers
  <1>. QED
    BY <1>1, NextTables, TypeInvariant, PTL DEF Spec

\* No table of the broker holds a session whose read loop has not begun or has
\* ended, so the session is destroyed with its last handler.
THEOREM NoLeak == Spec => []NoLeakedSession
  <1>1. TablesInv => NoLeakedSession
    BY DEF TablesInv, NoLeakedSession
  <1>. QED
    BY <1>1, TablesInvariant, PTL

\* get_active_sessions counts every session being read, but for failed writes
\* and stop.
THEOREM Counted == Spec => []ActiveSessionsCounted
  <1>1. TablesInv => ActiveSessionsCounted
    BY DEF TablesInv, ActiveSessionsCounted
  <1>. QED
    BY <1>1, TablesInvariant, PTL

\* A session whose read loop has ended is subscribed to nothing and processes no
\* line, so no publication and no reply is ever delivered to it.
THEOREM Silent == Spec => SilentAfterDisconnect
  <1>. DEFINE Quiet == \A c \in Clients : phase[c] = "ended" => delivered'[c] = delivered[c]
  <1>1. TypeInv /\ TablesInv /\ [Next]_vars => [Quiet]_vars
    <2>. SUFFICES ASSUME TypeInv, TablesInv, Next,
                         NEW d \in Clients, phase[d] = "ended"
                  PROVE  delivered'[d] = delivered[d]
      OBVIOUS
    <2>1. ASSUME NEW c \in Clients, ReadLine(c) PROVE delivered'[d] = delivered[d]
      <3>1. PICK line \in Lines : ProcessMessage(c, line)
        BY <2>1, HeadTailProperties DEF ReadLine, TypeInv, TypeOK
      <3>2. c # d
        BY <2>1 DEF ReadLine
      <3>3. \A t \in Topics : d \notin TM!Subscribers(t)
        BY DEF TablesInv, Subscribed
      <3>4. delivered[d] \o <<>> = delivered[d] /\ <<>> \o <<>> = <<>>
        BY ConcatEmptySeq DEF TypeInv, TypeOK
      <3>5. /\ \A note : Only(c, note)[d] = <<>>
            /\ \A t \in Topics : Publication(c, t)[d] = <<>>
        BY <3>2, <3>3, <3>4 DEF Only, Publication
      <3>6. \E batch : DeliverAll(batch) /\ batch[d] = <<>>
        BY <3>1, <3>5 DEF ProcessMessage, DoPublish, DoSubscribe, DoUnsubscribe, Reject,
                          Answer, Lines
      <3>. QED
        BY <3>4, <3>6 DEF DeliverAll
    <2>2. UNCHANGED delivered => delivered'[d] = delivered[d]
      OBVIOUS
    <2>. QED
      BY <2>1, <2>2 DEF Next, IoHandler, Kernel, Client, Main, netVars, sessionVars,
         ReadError, WriteDone, WriteError, InsertSession, StartSession,
         BlockedWriteSent, BlockedWriteFailed, AcceptCompletes,
         Connect, Send, Receive, Close, Reset,
         AcceptAborted, Start, StopBegin, StopCloseAcceptor, StopClearSessions
  <1>. QED
    BY <1>1, TypeInvariant, TablesInvariant, PTL DEF Spec, SilentAfterDisconnect

-------------------------------------------------------------------------------
(***************************************************************************)
(* What is delivered is what is sent.                                      *)
(***************************************************************************)

\* Delivering more lines extends what is pending.
LEMMA StreamGrows ==
    ASSUME NEW w \in Seq(Notes), NEW p \in Seq(Notes), NEW g \in Seq(Notes),
           NEW b \in Seq(Notes), StreamMatches(w, p, g)
    PROVE  StreamMatches(w, p \o b, g \o b)
  <1>. DEFINE pb == p \o b
              gb == g \o b
              lw == Len(w)
              lp == Len(p)
              lg == Len(g)
              lb == Len(b)
  <1>1. lw \in Nat /\ lp \in Nat /\ lg \in Nat /\ lb \in Nat
    BY LenProperties
  <1>2. Len(pb) = lp + lb /\ Len(gb) = lg + lb
    BY ConcatProperties
  <1>3. \A i \in 1 .. lp + lb : pb[i] = IF i <= lp THEN p[i] ELSE b[i - lp]
    BY ConcatProperties
  <1>4. \A i \in 1 .. lg + lb : gb[i] = IF i <= lg THEN g[i] ELSE b[i - lg]
    BY ConcatProperties
  <1>5. lw + lp = lg
    BY DEF StreamMatches
  <1>6. \A i \in 1 .. lw : w[i] \in {g[i], Garbage}
    BY DEF StreamMatches
  <1>7. \A i \in 1 .. lp : p[i] = g[lw + i]
    BY DEF StreamMatches
  <1>. HIDE DEF pb, gb, lw, lp, lg, lb
  <1>8. \A i \in 1 .. lw : w[i] \in {gb[i], Garbage}
    BY <1>1, <1>4, <1>5, <1>6
  <1>9. ASSUME NEW i \in 1 .. lp + lb PROVE pb[i] = gb[lw + i]
    <2>1. lw + i \in 1 .. lg + lb
      BY <1>1, <1>5
    <2>2. CASE i <= lp
      <3>1. i \in 1 .. lp /\ lw + i <= lg
        BY <1>1, <1>5, <2>2
      <3>. QED
        BY <1>3, <1>4, <1>7, <2>1, <2>2, <3>1
    <2>3. CASE ~(i <= lp)
      <3>1. ~(lw + i <= lg) /\ (lw + i) - lg = i - lp
        BY <1>1, <1>5, <2>3
      <3>2. pb[i] = b[i - lp]
        BY <1>3, <2>3
      <3>3. gb[lw + i] = b[(lw + i) - lg]
        BY <1>4, <2>1, <3>1
      <3>. QED
        BY <3>1, <3>2, <3>3
    <2>. QED
      BY <2>2, <2>3
  <1>10. lw + Len(pb) = Len(gb) /\ Len(pb) = lp + lb
    BY <1>1, <1>2, <1>5
  <1>11. StreamMatches(w, pb, gb)
    BY <1>8, <1>9, <1>10 DEF StreamMatches, lw
  <1>. QED
    BY <1>11 DEF pb, gb

\* Sending the first pending line, or garbage in its place, moves it to the wire.
LEMMA StreamMoves ==
    ASSUME NEW w \in Seq(Notes), NEW p \in Seq(Notes), NEW g \in Seq(Notes),
           p # <<>>, NEW x \in {Head(p), Garbage}, StreamMatches(w, p, g)
    PROVE  StreamMatches(Append(w, x), Tail(p), g)
  <1>1. Head(p) = p[1] /\ x \in Notes
    BY HeadTailProperties, NotesFact
  <1>2. /\ Len(w) \in Nat /\ Len(p) \in Nat \ {0} /\ Len(g) \in Nat
        /\ Len(Append(w, x)) = Len(w) + 1
        /\ Append(w, x)[Len(w) + 1] = x
        /\ \A i \in 1 .. Len(w) : Append(w, x)[i] = w[i]
    BY <1>1, EmptySeq, LenProperties, AppendProperties
  <1>3. /\ Len(Tail(p)) = Len(p) - 1
        /\ \A i \in 1 .. Len(p) - 1 : Tail(p)[i] = p[i + 1]
    BY HeadTailProperties
  <1>4. Len(Append(w, x)) + Len(Tail(p)) = Len(g)
    BY <1>2, <1>3, LenProperties DEF StreamMatches
  <1>5. \A i \in 1 .. Len(Append(w, x)) : Append(w, x)[i] \in {g[i], Garbage}
    <2>1. p[1] = g[Len(w) + 1]
      BY <1>2 DEF StreamMatches
    <2>2. \A i \in 1 .. Len(w) : Append(w, x)[i] \in {g[i], Garbage}
      BY <1>2 DEF StreamMatches
    <2>3. Append(w, x)[Len(w) + 1] \in {g[Len(w) + 1], Garbage}
      BY <1>1, <1>2, <2>1
    <2>. QED
      BY <1>2, <2>2, <2>3
  <1>6. \A i \in 1 .. Len(Tail(p)) : Tail(p)[i] = g[Len(Append(w, x)) + i]
    BY <1>2, <1>3 DEF StreamMatches
  <1>. QED
    BY <1>4, <1>5, <1>6 DEF StreamMatches

\* What is appended to net is appended to the wire.
LEMMA AppendToWire ==
    ASSUME NEW S, NEW r \in Seq(S), NEW n \in Seq(S), NEW x \in S
    PROVE  r \o Append(n, x) = Append(r \o n, x)
  <1>1. Append(n, x) = n \o <<x>> /\ Append(r \o n, x) = (r \o n) \o <<x>>
    BY AppendIsConcat, ConcatProperties
  <1>. QED
    BY <1>1, ConcatAssociative

\* What moves from net to received stays on the wire.
LEMMA MoveAlongWire ==
    ASSUME NEW S, NEW r \in Seq(S), NEW n \in Seq(S), n # <<>>
    PROVE  Append(r, Head(n)) \o Tail(n) = r \o n
  <1>0. Head(n) \in S /\ Head(n) = n[1] /\ Tail(n) \in Seq(S) /\ Len(n) \in Nat \ {0}
    BY HeadTailProperties, EmptySeq
  <1>1. n = <<Head(n)>> \o Tail(n)
    BY <1>0, SubSeqFull, TailIsSubSeq, SubSeqRecursiveFirst
  <1>2. Append(r, Head(n)) = r \o <<Head(n)>>
    BY <1>0, AppendIsConcat
  <1>3. <<Head(n)>> \in Seq(S)
    BY <1>0
  <1>. QED
    BY <1>0, <1>1, <1>2, <1>3, ConcatAssociative

\* What is appended to a non-empty queue is appended to its tail.
LEMMA TailOfConcat ==
    ASSUME NEW S, NEW n \in Seq(S), NEW b \in Seq(S), n # <<>>
    PROVE  Tail(n \o b) = Tail(n) \o b
  <1>1. Tail(n) \in Seq(S) /\ Len(Tail(n)) = Len(n) - 1 /\ Len(n) \in Nat \ {0}
    BY HeadTailProperties, EmptySeq
  <1>2. n \o b \in Seq(S) /\ n \o b # <<>> /\ Len(n \o b) = Len(n) + Len(b)
    BY ConcatProperties, ConcatEqualIffEmpty
  <1>3. /\ Tail(n \o b) \in Seq(S)
        /\ Len(Tail(n \o b)) = Len(n) + Len(b) - 1
        /\ \A i \in 1 .. Len(n) + Len(b) - 1 : Tail(n \o b)[i] = (n \o b)[i + 1]
    BY <1>2, HeadTailProperties
  <1>4. /\ Tail(n) \o b \in Seq(S)
        /\ Len(Tail(n) \o b) = Len(n) + Len(b) - 1
        /\ Len(b) \in Nat
    BY <1>1, ConcatProperties, LenProperties
  <1>5. \A i \in 1 .. Len(n) + Len(b) - 1 : Tail(n \o b)[i] = (Tail(n) \o b)[i]
    <2>. SUFFICES ASSUME NEW i \in 1 .. Len(n) + Len(b) - 1
                  PROVE  Tail(n \o b)[i] = (Tail(n) \o b)[i]
      OBVIOUS
    <2>1. (n \o b)[i + 1] = IF i + 1 <= Len(n) THEN n[i + 1] ELSE b[i + 1 - Len(n)]
      BY <1>1, <1>4, ConcatProperties
    <2>2. (Tail(n) \o b)[i] = IF i <= Len(n) - 1 THEN Tail(n)[i] ELSE b[i - (Len(n) - 1)]
      BY <1>1, <1>4, ConcatProperties
    <2>3. i <= Len(n) - 1 => Tail(n)[i] = n[i + 1]
      BY <1>1, HeadTailProperties
    <2>. QED
      BY <1>1, <1>3, <1>4, <2>1, <2>2, <2>3
  <1>. QED
    BY <1>3, <1>4, <1>5, SeqEqual

\* The stream of one session when deliver is called for it, and when it is not.
LEMMA DeliverAllStream ==
    ASSUME TypeInv, NEW batch \in [Clients -> Seq(Notes)], DeliverAll(batch),
           UNCHANGED received, NEW c \in Clients,
           StreamMatches(Wire(c), Pending(c), delivered[c])
    PROVE  StreamMatches(Wire(c), Pending(c), delivered[c])'
  <1>. DEFINE q == write_queue[c]
              b == batch[c]
              starts == q = <<>> /\ b # <<>>
  <1>1. /\ q \in Seq(Notes) /\ b \in Seq(Notes) /\ net[c] \in Seq(Notes)
        /\ received[c] \in Seq(Notes) /\ delivered[c] \in Seq(Notes)
        /\ writeOp[c] = "idle" <=> q = <<>>
    BY DEF TypeInv, TypeOK, OneWriteWhileQueued
  <1>2. /\ write_queue'[c] = q \o b /\ delivered'[c] = delivered[c] \o b
        /\ writeOp'[c] = IF starts THEN Attempt(c) ELSE writeOp[c]
        /\ net'[c] = IF starts /\ Attempt(c) = "sent"
                     THEN Append(net[c], Head(b)) ELSE net[c]
        /\ received'[c] = received[c]
    BY DEF DeliverAll
  <1>3. Wire(c) \in Seq(Notes) /\ Pending(c) \in Seq(Notes)
    BY <1>1, ConcatProperties, HeadTailProperties DEF Wire, Pending
  <1>. HIDE DEF q, b
  <1>4. StreamMatches(Wire(c), Pending(c) \o b, delivered[c] \o b)
    BY <1>1, <1>3, StreamGrows
  <1>5. CASE ~(starts /\ Attempt(c) = "sent")
    <2>1. Wire(c)' = Wire(c)
      BY <1>2, <1>5 DEF Wire
    <2>2. Pending(c)' = Pending(c) \o b
      <3>1. CASE starts
        BY <1>1, <1>2, <1>5, <3>1 DEF Pending, q
      <3>2. CASE ~starts /\ writeOp[c] = "sent"
        <4>1. Tail(q \o b) = Tail(q) \o b
          <5>1. q # <<>>
            BY <1>1, <3>2
          <5>. QED
            BY <1>1, <5>1, TailOfConcat
        <4>. QED
          BY <1>2, <3>2, <4>1 DEF Pending, q
      <3>3. CASE ~starts /\ writeOp[c] # "sent"
        BY <1>2, <3>3 DEF Pending, q
      <3>. QED
        BY <3>1, <3>2, <3>3
    <2>. QED
      BY <1>2, <1>4, <2>1, <2>2
  <1>6. CASE starts /\ Attempt(c) = "sent"
    <2>1. Pending(c) = <<>> /\ q \o b = b /\ Pending(c) \o b = b
      BY <1>1, <1>6, ConcatEmptySeq DEF Pending, q
    <2>2. Head(b) \in Notes
      BY <1>1, <1>6, HeadTailProperties
    <2>3. Wire(c)' = Append(Wire(c), Head(b))
      <3>1. received[c] \o Append(net[c], Head(b)) = Append(received[c] \o net[c], Head(b))
        <4>1. \A r, n \in Seq(Notes) : \A x \in Notes :
                  r \o Append(n, x) = Append(r \o n, x)
          BY AppendToWire
        <4>2. received[c] \in Seq(Notes) /\ net[c] \in Seq(Notes)
          BY <1>1
        <4>. QED
          BY <2>2, <4>1, <4>2
      <3>2. Wire(c)' = received[c] \o Append(net[c], Head(b))
        BY <1>2, <1>6 DEF Wire
      <3>. QED
        BY <3>1, <3>2 DEF Wire
    <2>4. Pending(c)' = Tail(b)
      BY <1>2, <1>6, <2>1 DEF Pending
    <2>5. delivered[c] \o b \in Seq(Notes)
      BY <1>1, ConcatProperties
    <2>6. StreamMatches(Append(Wire(c), Head(b)), Tail(b), delivered[c] \o b)
      <3>1. StreamMatches(Wire(c), b, delivered[c] \o b) /\ b # <<>>
        BY <1>4, <1>6, <2>1
      <3>. QED
        BY <1>1, <1>3, <2>5, <3>1, StreamMoves
    <2>. QED
      BY <1>2, <2>3, <2>4, <2>6
  <1>. QED
    BY <1>5, <1>6

\* A step that sends the first pending line of c, or garbage in its place, and
\* changes no other stream.
LEMMA SendStream ==
    ASSUME TypeInv, StreamMatchesDelivered, NEW c \in Clients,
           Pending(c) \in Seq(Notes), Pending(c) # <<>>,
           NEW x \in {Head(Pending(c)), Garbage},
           net' = [net EXCEPT ![c] = Append(@, x)], Pending(c)' = Tail(Pending(c)),
           UNCHANGED <<received, delivered>>,
           \A d \in Clients \ {c} : Pending(d)' = Pending(d)
    PROVE  StreamMatchesDelivered'
  <1>1. x \in Notes
    BY HeadTailProperties, NotesFact
  <1>2. received[c] \in Seq(Notes) /\ net[c] \in Seq(Notes) /\ delivered[c] \in Seq(Notes)
    BY DEF TypeInv, TypeOK
  <1>3. Wire(c)' = Append(Wire(c), x) /\ Wire(c) \in Seq(Notes)
    <2>1. \A r, n \in Seq(Notes) : \A y \in Notes :
              r \o Append(n, y) = Append(r \o n, y) /\ r \o n \in Seq(Notes)
      BY AppendToWire, ConcatProperties
    <2>2. Wire(c)' = received[c] \o Append(net[c], x)
      BY DEF Wire, TypeInv, TypeOK
    <2>. QED
      BY <1>1, <1>2, <2>1, <2>2 DEF Wire
  <1>4. StreamMatches(Wire(c), Pending(c), delivered[c])'
    <2>1. StreamMatches(Wire(c), Pending(c), delivered[c])
      BY DEF StreamMatchesDelivered
    <2>2. StreamMatches(Append(Wire(c), x), Tail(Pending(c)), delivered[c])
      BY <1>2, <1>3, <2>1, StreamMoves
    <2>. QED
      BY <1>3, <2>2
  <1>5. ASSUME NEW d \in Clients \ {c} PROVE Wire(d)' = Wire(d)
    BY DEF Wire, TypeInv, TypeOK
  <1>. QED
    BY <1>4, <1>5 DEF StreamMatchesDelivered

LEMMA NextStream == TypeInv /\ StreamMatchesDelivered /\ [Next]_vars => StreamMatchesDelivered'
  <1>. SUFFICES ASSUME TypeInv, StreamMatchesDelivered, [Next]_vars
                PROVE  StreamMatchesDelivered'
    OBVIOUS
  <1>. USE DEF netVars, sessionVars, topicVars, serverVars
  <1>a. ASSUME \A c \in Clients : /\ Wire(c)' = Wire(c) /\ Pending(c)' = Pending(c)
                                  /\ delivered'[c] = delivered[c]
        PROVE  StreamMatchesDelivered'
    BY <1>a DEF StreamMatchesDelivered
  <1>b. UNCHANGED sessionVars /\ UNCHANGED received => StreamMatchesDelivered'
    BY <1>a DEF Wire, Pending
  <1>1. ASSUME NEW c \in Clients, ReadLine(c) PROVE StreamMatchesDelivered'
    <2>1. PICK line \in Lines : ProcessMessage(c, line)
      BY <1>1, HeadTailProperties DEF ReadLine, TypeInv, TypeOK
    <2>2. PICK batch \in [Clients -> Seq(Notes)] : DeliverAll(batch)
      BY <2>1, ProcessMessageDelivers DEF TypeInv
    <2>. QED
      BY <1>1, <2>2, DeliverAllStream DEF ReadLine, StreamMatchesDelivered
  <1>2. ASSUME NEW c \in Clients, WriteDone(c) PROVE StreamMatchesDelivered'
    <2>. DEFINE rest == Tail(write_queue[c])
    <2>1. Pending(c) = rest /\ rest \in Seq(Notes)
      BY <1>2, HeadTailProperties DEF WriteDone, Pending, OneWriteWhileQueued, TypeInv, TypeOK
    <2>. HIDE DEF rest
    <2>2. /\ write_queue' = [write_queue EXCEPT ![c] = rest]
          /\ writeOp' = [writeOp EXCEPT ![c] = IF rest = <<>> THEN "idle" ELSE Attempt(c)]
          /\ net' = IF rest # <<>> /\ Attempt(c) = "sent"
                    THEN [net EXCEPT ![c] = Append(@, Head(rest))] ELSE net
          /\ UNCHANGED <<received, delivered>>
      BY <1>2 DEF WriteDone, rest
    <2>3. \A d \in Clients \ {c} : Pending(d)' = Pending(d)
      BY <2>2 DEF Pending, TypeInv, TypeOK
    <2>4. write_queue'[c] = rest /\ writeOp'[c] = IF rest = <<>> THEN "idle" ELSE Attempt(c)
      BY <2>2 DEF TypeInv, TypeOK
    <2>5. CASE rest # <<>> /\ Attempt(c) = "sent"
      <3>1. Pending(c)' = Tail(Pending(c))
        BY <2>1, <2>4, <2>5 DEF Pending
      <3>. QED
        BY <2>1, <2>2, <2>3, <2>5, <3>1, SendStream
    <2>6. CASE ~(rest # <<>> /\ Attempt(c) = "sent")
      <3>1. Pending(c)' = Pending(c)
        BY <2>1, <2>4, <2>6 DEF Pending
      <3>. QED
        BY <1>a, <2>2, <2>3, <2>6, <3>1 DEF Wire
    <2>. QED
      BY <2>5, <2>6
  <1>3. ASSUME NEW c \in Clients, BlockedWriteSent(c) PROVE StreamMatchesDelivered'
    <2>1. Pending(c) = write_queue[c] /\ Pending(c) \in Seq(Notes) /\ Pending(c) # <<>>
      BY <1>3 DEF BlockedWriteSent, Pending, OneWriteWhileQueued, TypeInv, TypeOK
    <2>2. PICK x \in {Head(Pending(c)), Garbage} : net' = [net EXCEPT ![c] = Append(@, x)]
      BY <1>3, <2>1 DEF BlockedWriteSent
    <2>3. Pending(c)' = Tail(Pending(c)) /\ \A d \in Clients \ {c} : Pending(d)' = Pending(d)
      BY <1>3, <2>1 DEF BlockedWriteSent, Pending, TypeInv, TypeOK
    <2>. QED
      BY <1>3, <2>1, <2>2, <2>3, SendStream DEF BlockedWriteSent
  <1>4. ASSUME NEW c \in Clients, BlockedWriteFailed(c) \/ WriteError(c)
        PROVE  StreamMatchesDelivered'
    BY <1>4, <1>a DEF BlockedWriteFailed, WriteError, Wire, Pending, TypeInv, TypeOK
  <1>5. ASSUME NEW c \in Clients, Receive(c) PROVE StreamMatchesDelivered'
    <2>1. Append(received[c], Head(net[c])) \o Tail(net[c]) = received[c] \o net[c]
      <3>1. \A r, n \in Seq(Notes) : n # <<>> => Append(r, Head(n)) \o Tail(n) = r \o n
        BY MoveAlongWire
      <3>. QED
        BY <1>5, <3>1 DEF Receive, TypeInv, TypeOK
    <2>2. \A d \in Clients : Wire(d)' = Wire(d)
      BY <1>5, <2>1 DEF Receive, Wire, TypeInv, TypeOK
    <2>. QED
      BY <1>5, <1>a, <2>2 DEF Receive, Pending
  <1>6. ASSUME NEW c \in Clients,
               \/ ReadError(c) \/ InsertSession(c) \/ StartSession(c) \/ AcceptCompletes(c)
               \/ Connect(c) \/ Close(c) \/ Reset(c) \/ \E line \in Requests : Send(c, line)
        PROVE  StreamMatchesDelivered'
    BY <1>6, <1>b DEF ReadError, InsertSession, StartSession, AcceptCompletes, Connect,
                      Close, Reset, Send
  <1>7. CASE AcceptAborted \/ Main \/ UNCHANGED vars
    BY <1>7, <1>b DEF AcceptAborted, Main, Start, StopBegin, StopCloseAcceptor,
                      StopClearSessions, vars
  <1>. QED
    BY <1>1, <1>2, <1>3, <1>4, <1>5, <1>6, <1>7 DEF Next, IoHandler, Kernel, Client

\* What a client has read or will read is what was delivered to its session, in
\* order and complete: writes that block, fail or resume lose and repeat nothing.
THEOREM StreamIntact == Spec => []StreamMatchesDelivered
  <1>1. Init => StreamMatchesDelivered
    <2>1. <<>> \o <<>> = <<>> /\ Len(<<>>) = 0
      OBVIOUS
    <2>. QED
      BY <2>1 DEF Init, StreamMatchesDelivered, StreamMatches, Wire, Pending
  <1>. QED
    BY <1>1, NextStream, TypeInvariant, PTL DEF Spec

-------------------------------------------------------------------------------
(***************************************************************************)
(* The broker implements PubSubService.                                    *)
(***************************************************************************)

\* A line that is processed is one request of the service, taking effect at once.
LEMMA RequestIsService ==
    ASSUME TypeOK, NEW c \in Clients, phase[c] # "ended", NEW line \in Lines,
           ProcessMessage(c, line), UNCHANGED <<received, phase>>
    PROVE  Service!Next
  <1>. DEFINE members == [t \in Topics |-> TM!Subscribers(t)]
  <1>0. TM!TMTypeOK
    BY DEF TypeOK
  <1>1. ASSUME NEW t \in Topics, DoPublish(c, t) PROVE Service!Publish(c, t)
    <2>1. members' = members
      BY <1>0, <1>1, SubscribersAfter DEF DoPublish, TM!PublishLocked
    <2>2. delivered' = [d \in Clients |-> delivered[d] \o
                 ((IF d \in members[t] THEN <<Message(t, sequence_counter)>> ELSE <<>>)
               \o (IF d = c THEN <<Reply("PUBLISHED", NoTopic)>> ELSE <<>>))]
      BY <1>1 DEF DoPublish, DeliverAll, Publication
    <2>. QED
      BY <1>1, <2>1, <2>2 DEF DoPublish, TM!PublishLocked, Service!Publish, Service!Give,
                              Service!Message, Service!Reply, Message, Reply
  <1>2. ASSUME NEW t \in Topics, DoSubscribe(c, t) PROVE Service!Join(c, t)
    <2>1. members' = [members EXCEPT ![t] = @ \cup {c}]
      BY <1>0, <1>2, SubscribersAfter DEF DoSubscribe
    <2>. QED
      BY <1>2, <2>1 DEF DoSubscribe, Answer, DeliverAll, Only, TM!Subscribe, Service!Join,
                        Service!Give, Service!Only, Service!Reply, Reply
  <1>3. ASSUME NEW t \in Topics, DoUnsubscribe(c, t) PROVE Service!Leave(c, t)
    <2>1. members' = [members EXCEPT ![t] = @ \ {c}]
      BY <1>0, <1>3, SubscribersAfter DEF DoUnsubscribe
    <2>. QED
      BY <1>3, <2>1 DEF DoUnsubscribe, Answer, DeliverAll, Only, TM!Unsubscribe,
                        Service!Leave, Service!Give, Service!Only, Service!Reply, Reply
  <1>4. ASSUME NEW kind, Answer(c, Reply(kind, NoTopic)), UNCHANGED topicVars
        PROVE  Service!Respond(c, kind)
    <2>1. members' = members
      BY <1>4 DEF topicVars, TM!Subscribers
    <2>. QED
      BY <1>4, <2>1 DEF topicVars, Answer, DeliverAll, Only, Service!Respond,
                        Service!Give, Service!Only, Service!Reply, Reply
  <1>. QED
    BY <1>1, <1>2, <1>3, <1>4 DEF ProcessMessage, Reject, Lines, Service!Next

LEMMA StepIsService ==
    ASSUME TypeInv, TablesInv, StreamMatchesDelivered, [Next]_vars
    PROVE  [Service!Next]_(Service!svcVars)
  <1>. DEFINE members == [t \in Topics |-> TM!Subscribers(t)]
              taken == [c \in Clients |-> Len(received[c])]
              gone == {c \in Clients : phase[c] = "ended"}
  <1>. USE DEF TypeInv, netVars, sessionVars, topicVars, serverVars
  <1>0. TM!TMTypeOK
    BY DEF TypeOK
  <1>a. ASSUME UNCHANGED <<subscriptions, topic_queues, sequence_counter, delivered, received>>,
               gone' = gone
        PROVE  UNCHANGED Service!svcVars
    BY <1>a DEF Service!svcVars, TM!Subscribers
  <1>b. \A c \in Clients : TM!UnsubscribeAll(c) =>
            members' = [t \in Topics |-> members[t] \ {c}]
    BY <1>0, SubscribersAfter
  <1>1. ASSUME NEW c \in Clients, ReadLine(c) PROVE Service!Next
    <2>1. PICK line \in Lines : ProcessMessage(c, line)
      BY <1>1, HeadTailProperties DEF ReadLine, TypeOK
    <2>. QED
      BY <1>1, <2>1, RequestIsService DEF ReadLine
  <1>2. ASSUME NEW c \in Clients, ReadError(c) PROVE Service!Next
    <2>1. gone' = gone \cup {c}
      BY <1>2 DEF ReadError, TypeOK
    <2>2. Service!Leaves(c)
      BY <1>2, <1>b, <2>1 DEF ReadError, OnSessionDisconnect, TM!UnsubscribeAll,
                              Service!Leaves
    <2>. QED
      BY <2>2 DEF Service!Next
  <1>3. ASSUME NEW c \in Clients, WriteError(c) PROVE Service!Next
    <2>1. Service!Drop(c)
      BY <1>3, <1>b DEF WriteError, OnSessionDisconnect, TM!UnsubscribeAll, Service!Drop
    <2>. QED
      BY <2>1 DEF Service!Next
  <1>4. ASSUME NEW c \in Clients, Receive(c) PROVE Service!Next
    <2>1. taken[c] < Len(delivered[c])
      <3>1. /\ received[c] \in Seq(Notes) /\ net[c] \in Seq(Notes) /\ net[c] # <<>>
            /\ delivered[c] \in Seq(Notes)
        BY <1>4 DEF Receive, TypeOK
      <3>2. Pending(c) \in Seq(Notes)
        BY HeadTailProperties DEF Pending, OneWriteWhileQueued, TypeOK
      <3>3. Len(received[c] \o net[c]) = Len(received[c]) + Len(net[c])
        BY <3>1, ConcatProperties
      <3>4. Len(received[c]) \in Nat /\ Len(net[c]) \in Nat \ {0} /\ Len(Pending(c)) \in Nat
        BY <3>1, <3>2, EmptySeq, LenProperties
      <3>5. Len(received[c]) + Len(net[c]) + Len(Pending(c)) = Len(delivered[c])
        BY <3>3 DEF StreamMatchesDelivered, StreamMatches, Wire
      <3>6. \A r, p, g \in Nat, n \in Nat \ {0} : r + n + p = g => r < g
        OBVIOUS
      <3>7. Len(delivered[c]) \in Nat
        BY <3>1, LenProperties
      <3>. QED
        BY <3>4, <3>5, <3>6, <3>7
    <2>2. taken' = [taken EXCEPT ![c] = @ + 1]
      <3>1. Head(net[c]) \in Notes
        BY <1>4, HeadTailProperties DEF Receive, TypeOK
      <3>2. Len(Append(received[c], Head(net[c]))) = Len(received[c]) + 1
        BY <3>1, AppendProperties DEF TypeOK
      <3>. QED
        BY <1>4, <3>2 DEF Receive, TypeOK
    <2>3. Service!Take(c)
      BY <1>4, <2>1, <2>2 DEF Receive, Service!Take, TM!Subscribers
    <2>. QED
      BY <2>3 DEF Service!Next
  <1>5. ASSUME NEW c \in Clients,
               \/ WriteDone(c) \/ InsertSession(c) \/ StartSession(c) \/ Kernel(c)
               \/ Connect(c) \/ Close(c) \/ Reset(c) \/ \E line \in Requests : Send(c, line)
        PROVE  UNCHANGED Service!svcVars
    BY <1>5, <1>a DEF WriteDone, InsertSession, StartSession, Kernel, BlockedWriteSent,
                      BlockedWriteFailed, AcceptCompletes, Connect, Close, Reset, Send,
                      TypeOK, Phases
  <1>6. AcceptAborted \/ Main \/ UNCHANGED vars => UNCHANGED Service!svcVars
    BY <1>a DEF AcceptAborted, Main, Start, StopBegin, StopCloseAcceptor,
                StopClearSessions, vars
  <1>. QED
    BY <1>1, <1>2, <1>3, <1>4, <1>5, <1>6 DEF Next, IoHandler, Client

\* Behind its queues, sockets, handlers and threads the broker is the service of
\* PubSubService: each request takes effect at once, each publication is given to
\* exactly the sessions then subscribed, and a session that is gone is given nothing.
THEOREM Refinement == Spec => ImplementsService
  <1>1. Init => Service!Init
    BY DEF Init, TM!TMInit, TM!Subscribers, Service!Init
  <1>. QED
    BY <1>1, StepIsService, TypeInvariant, TablesInvariant, StreamIntact, PTL
       DEF Spec, ImplementsService, Service!Spec

-------------------------------------------------------------------------------
(***************************************************************************)
(* What a client is given: in order, and only while subscribed.            *)
(***************************************************************************)

\* The messages of g are in order, and older than the next number.
Ordered(g, n) ==
    /\ \A i \in 1 .. Len(g) : IsMessage(g[i]) => g[i].seq < n
    /\ \A i, j \in 1 .. Len(g) :
          i < j /\ IsMessage(g[i]) /\ IsMessage(g[j]) => g[i].seq < g[j].seq

\* The acknowledgements in g up to k leave the client subscribed to t.
Acked(g, t, k) ==
    \E j \in 1 .. k : /\ g[j] = Reply("SUBSCRIBED", t)
                      /\ \A l \in j .. k : g[l] # Reply("UNSUBSCRIBED", t)

\* Messages come while subscribed, and S are topics the client is subscribed to.
Covered(g, S) ==
    /\ \A i \in 1 .. Len(g) : IsMessage(g[i]) => Acked(g, g[i].topic, i)
    /\ \A t \in S : Acked(g, t, Len(g))

LEMMA OrderedReply ==
    ASSUME NEW g \in Seq(Notes), NEW n \in Nat, Ordered(g, n),
           NEW x \in Notes, ~IsMessage(x)
    PROVE  Ordered(Append(g, x), n)
  BY AppendProperties, LenProperties DEF Ordered

LEMMA OrderedMessage ==
    ASSUME NEW g \in Seq(Notes), NEW n \in Nat, Ordered(g, n),
           NEW x \in Notes, x.seq = n
    PROVE  Ordered(Append(g, x), n + 1)
  <1>. DEFINE h == Append(g, x)
  <1>1. /\ Len(h) = Len(g) + 1 /\ Len(g) \in Nat /\ h[Len(g) + 1] = x
        /\ \A i \in 1 .. Len(g) : h[i] = g[i]
    BY AppendProperties, LenProperties
  <1>2. \A i \in 1 .. Len(g) : g[i] \in Notes
    BY ElementOfSeq
  <1>. HIDE DEF h
  <1>3. \A i \in 1 .. Len(h) : IsMessage(h[i]) => h[i].seq < n + 1
    BY <1>1, <1>2 DEF Ordered, Notes
  <1>4. \A i, j \in 1 .. Len(h) :
            i < j /\ IsMessage(h[i]) /\ IsMessage(h[j]) => h[i].seq < h[j].seq
    <2>. SUFFICES ASSUME NEW i \in 1 .. Len(h), NEW j \in 1 .. Len(h), i < j,
                         IsMessage(h[i]), IsMessage(h[j])
                  PROVE  h[i].seq < h[j].seq
      OBVIOUS
    <2>1. i \in 1 .. Len(g) /\ h[i] = g[i]
      BY <1>1
    <2>2. CASE j = Len(g) + 1
      BY <1>1, <2>1, <2>2 DEF Ordered
    <2>3. CASE j # Len(g) + 1
      <3>1. j \in 1 .. Len(g) /\ h[j] = g[j]
        BY <1>1, <2>3
      <3>. QED
        BY <2>1, <3>1 DEF Ordered
    <2>. QED
      BY <2>2, <2>3
  <1>. QED
    BY <1>3, <1>4 DEF Ordered, h

LEMMA OrderedLater ==
    ASSUME NEW g \in Seq(Notes), NEW n \in Nat, Ordered(g, n)
    PROVE  Ordered(g, n + 1)
  <1>1. \A i \in 1 .. Len(g) : g[i].seq \in Nat
    <2>1. \A i \in 1 .. Len(g) : g[i] \in Notes
      BY ElementOfSeq
    <2>. QED
      BY <2>1 DEF Notes
  <1>2. ASSUME NEW i \in 1 .. Len(g), IsMessage(g[i]) PROVE g[i].seq < n + 1
    <2>1. g[i].seq < n
      BY <1>2 DEF Ordered
    <2>. QED
      BY <1>1, <2>1
  <1>. QED
    BY <1>2 DEF Ordered

LEMMA AckedAppend ==
    ASSUME NEW g \in Seq(Notes), NEW x \in Notes, NEW t, NEW k \in 0 .. Len(g), Acked(g, t, k)
    PROVE  /\ Acked(Append(g, x), t, k)
           /\ k = Len(g) /\ x # Reply("UNSUBSCRIBED", t) => Acked(Append(g, x), t, k + 1)
  <1>1. /\ Len(g) \in Nat /\ Append(g, x)[Len(g) + 1] = x
        /\ \A i \in 1 .. Len(g) : Append(g, x)[i] = g[i]
    BY AppendProperties, LenProperties
  <1>. QED
    BY <1>1 DEF Acked

LEMMA CoveredReply ==
    ASSUME NEW g \in Seq(Notes), NEW S, Covered(g, S), NEW x \in Notes, ~IsMessage(x), NEW T,
           \A t \in T : \/ t \in S /\ x # Reply("UNSUBSCRIBED", t)
                       \/ x = Reply("SUBSCRIBED", t)
    PROVE  Covered(Append(g, x), T)
  <1>. DEFINE h == Append(g, x)
  <1>1. /\ Len(h) = Len(g) + 1 /\ Len(g) \in Nat /\ h[Len(g) + 1] = x
        /\ \A i \in 1 .. Len(g) : h[i] = g[i]
    BY AppendProperties, LenProperties
  <1>2. ASSUME NEW i \in 1 .. Len(h), IsMessage(h[i]) PROVE Acked(h, h[i].topic, i)
    <2>1. i \in 1 .. Len(g) /\ h[i] = g[i]
      BY <1>1, <1>2
    <2>. QED
      BY <1>2, <2>1, AckedAppend DEF Covered
  <1>3. ASSUME NEW t \in T PROVE Acked(h, t, Len(h))
    <2>1. CASE t \in S /\ x # Reply("UNSUBSCRIBED", t)
      BY <1>1, <2>1, AckedAppend DEF Covered
    <2>2. CASE x = Reply("SUBSCRIBED", t)
      BY <1>1, <2>2 DEF Acked, Reply
    <2>. QED
      BY <2>1, <2>2
  <1>. QED
    BY <1>2, <1>3 DEF Covered

LEMMA CoveredMessage ==
    ASSUME NEW g \in Seq(Notes), NEW S, Covered(g, S), NEW x \in Notes, IsMessage(x),
           x.topic \in S
    PROVE  Covered(Append(g, x), S)
  <1>. DEFINE h == Append(g, x)
  <1>1. /\ Len(h) = Len(g) + 1 /\ Len(g) \in Nat /\ h[Len(g) + 1] = x
        /\ \A i \in 1 .. Len(g) : h[i] = g[i]
    BY AppendProperties, LenProperties
  <1>2. \A t : x # Reply("UNSUBSCRIBED", t)
    BY DEF IsMessage, Reply
  <1>3. ASSUME NEW t \in S PROVE Acked(h, t, Len(h))
    BY <1>1, <1>2, AckedAppend DEF Covered
  <1>4. ASSUME NEW i \in 1 .. Len(h), IsMessage(h[i]) PROVE Acked(h, h[i].topic, i)
    <2>1. CASE i = Len(h)
      BY <1>1, <1>3, <2>1
    <2>2. CASE i # Len(h)
      <3>1. i \in 1 .. Len(g) /\ h[i] = g[i]
        BY <1>1, <2>2
      <3>. QED
        BY <1>4, <3>1, AckedAppend DEF Covered
    <2>. QED
      BY <2>1, <2>2
  <1>. QED
    BY <1>3, <1>4 DEF Covered

\* What deliver appends to the mail of one session, one line at a time.
Given(d, t) == IF d \in TM!Subscribers(t)
               THEN Append(delivered[d], Message(t, sequence_counter)) ELSE delivered[d]

LEMMA ReplyAppended ==
    ASSUME TypeOK, NEW c \in Clients, NEW d \in Clients, NEW note \in Notes
    PROVE  /\ d = c => delivered[d] \o Only(c, note)[d] = Append(delivered[d], note)
           /\ d # c => delivered[d] \o Only(c, note)[d] = delivered[d]
  <1>1. \A g \in Seq(Notes), x \in Notes : g \o <<x>> = Append(g, x)
    BY AppendIsConcat
  <1>2. \A g \in Seq(Notes) : g \o <<>> = g
    BY ConcatEmptySeq
  <1>. QED
    BY <1>1, <1>2 DEF Only, TypeOK

LEMMA PublicationAppended ==
    ASSUME TypeOK, NEW c \in Clients, NEW d \in Clients, NEW t \in Topics
    PROVE  /\ d = c => delivered[d] \o Publication(c, t)[d] =
                       Append(Given(d, t), Reply("PUBLISHED", NoTopic))
           /\ d # c => delivered[d] \o Publication(c, t)[d] = Given(d, t)
  <1>. DEFINE g == delivered[d]
              m == Message(t, sequence_counter)
              r == Reply("PUBLISHED", NoTopic)
              a == IF d \in TM!Subscribers(t) THEN <<m>> ELSE <<>>
              b == IF d = c THEN <<r>> ELSE <<>>
  <1>1. \A u \in Seq(Notes), x \in Notes : u \o <<x>> = Append(u, x)
    BY AppendIsConcat
  <1>2. \A u \in Seq(Notes) : u \o <<>> = u
    BY ConcatEmptySeq
  <1>3. m \in Notes /\ r \in Notes /\ g \in Seq(Notes)
    BY NotesFact DEF TypeOK, TM!TMTypeOK
  <1>4. Publication(c, t)[d] = a \o b
    BY DEF Publication
  <1>. HIDE DEF g, m, r
  <1>5. a \in Seq(Notes) /\ b \in Seq(Notes)
    BY <1>3
  <1>6. g \o a = Given(d, t) /\ g \o a \in Seq(Notes)
    <2>1. g \o a = Given(d, t)
      BY <1>1, <1>2, <1>3 DEF Given, g, m
    <2>. QED
      BY <1>3, <1>5, <2>1, ConcatProperties
  <1>7. /\ d = c => (g \o a) \o b = Append(g \o a, r)
        /\ d # c => (g \o a) \o b = g \o a
    BY <1>1, <1>2, <1>3, <1>6
  <1>8. g \o (a \o b) = (g \o a) \o b
    <2>. HIDE DEF a, b
    <2>1. \A u, v, w \in Seq(Notes) : (u \o v) \o w = u \o (v \o w)
      BY ConcatAssociative
    <2>. QED
      BY <1>3, <1>5, <2>1
  <1>. HIDE DEF a, b
  <1>9. /\ d = c => g \o Publication(c, t)[d] = Append(Given(d, t), r)
        /\ d # c => g \o Publication(c, t)[d] = Given(d, t)
    BY <1>4, <1>6, <1>7, <1>8
  <1>. QED
    BY <1>9 DEF g, r

TopicsOf(c) == {t \in Topics : c \in TM!Subscribers(t)}

\* The order of the messages is tied to the counter, and the right to receive them
\* to the acknowledgements: neither property is inductive without the other state.
MailInv ==
    \A c \in Clients : /\ Ordered(delivered[c], sequence_counter)
                       /\ Covered(delivered[c], TopicsOf(c))

LEMMA GivenMail ==
    ASSUME TypeOK, MailInv, NEW d \in Clients, NEW t \in Topics
    PROVE  /\ Given(d, t) \in Seq(Notes)
           /\ Ordered(Given(d, t), sequence_counter + 1)
           /\ Covered(Given(d, t), TopicsOf(d))
  <1>. DEFINE g == delivered[d]
              n == sequence_counter
              m == Message(t, n)
  <1>1. /\ g \in Seq(Notes) /\ n \in Nat /\ Ordered(g, n) /\ Covered(g, TopicsOf(d))
    BY DEF TypeOK, TM!TMTypeOK, MailInv
  <1>2. m \in Notes /\ IsMessage(m) /\ m.seq = n /\ m.topic = t
    BY <1>1, NotesFact DEF Message, IsMessage
  <1>3. CASE d \in TM!Subscribers(t)
    <2>1. Given(d, t) = Append(g, m) /\ t \in TopicsOf(d)
      BY <1>3 DEF Given, TopicsOf
    <2>. HIDE DEF g, n, m
    <2>2. Append(g, m) \in Seq(Notes)
      BY <1>1, <1>2, AppendProperties
    <2>3. Ordered(Append(g, m), n + 1)
      BY <1>1, <1>2, OrderedMessage
    <2>4. Covered(Append(g, m), TopicsOf(d))
      BY <1>1, <1>2, <2>1, CoveredMessage
    <2>. QED
      BY <2>1, <2>2, <2>3, <2>4 DEF n
  <1>4. CASE d \notin TM!Subscribers(t)
    <2>1. Given(d, t) = g
      BY <1>4 DEF Given
    <2>. QED
      BY <1>1, <2>1, OrderedLater
  <1>. QED
    BY <1>3, <1>4

\* A line that is answered, and publishes nothing.
LEMMA AnswerMail ==
    ASSUME TypeOK, MailInv, NEW c \in Clients, NEW x \in Notes, ~IsMessage(x), Answer(c, x),
           UNCHANGED sequence_counter,
           \A t \in TopicsOf(c)' : \/ t \in TopicsOf(c) /\ x # Reply("UNSUBSCRIBED", t)
                                   \/ x = Reply("SUBSCRIBED", t),
           \A d \in Clients \ {c} : TopicsOf(d)' \subseteq TopicsOf(d)
    PROVE  MailInv'
  <1>. SUFFICES ASSUME NEW d \in Clients
                PROVE  /\ Ordered(delivered'[d], sequence_counter)
                       /\ Covered(delivered'[d], TopicsOf(d)')
    BY DEF MailInv
  <1>1. /\ delivered[d] \in Seq(Notes) /\ sequence_counter \in Nat
        /\ Ordered(delivered[d], sequence_counter) /\ Covered(delivered[d], TopicsOf(d))
    BY DEF TypeOK, TM!TMTypeOK, MailInv
  <1>2. delivered'[d] = delivered[d] \o Only(c, x)[d]
    BY DEF Answer, DeliverAll
  <1>3. CASE d = c
    <2>1. delivered'[d] = Append(delivered[d], x)
      BY <1>2, <1>3, ReplyAppended
    <2>2. Covered(Append(delivered[d], x), TopicsOf(d)')
      <3>. DEFINE T == TopicsOf(d)'
      <3>1. \A t \in T : \/ t \in TopicsOf(d) /\ x # Reply("UNSUBSCRIBED", t)
                         \/ x = Reply("SUBSCRIBED", t)
        BY <1>3
      <3>. HIDE DEF T
      <3>2. Covered(Append(delivered[d], x), T)
        BY <1>1, <3>1, CoveredReply
      <3>. QED
        BY <3>2 DEF T
    <2>. QED
      BY <1>1, <2>1, <2>2, OrderedReply
  <1>4. CASE d # c
    <2>1. delivered'[d] = delivered[d] /\ TopicsOf(d)' \subseteq TopicsOf(d)
      BY <1>2, <1>4, ReplyAppended
    <2>. QED
      BY <1>1, <2>1 DEF Covered
  <1>. QED
    BY <1>3, <1>4

LEMMA ProcessMessageMail ==
    ASSUME TypeOK, MailInv, NEW c \in Clients, NEW line \in Lines, ProcessMessage(c, line)
    PROVE  MailInv'
  <1>0. TM!TMTypeOK
    BY DEF TypeOK
  <1>1. \A k, t : k # "MESSAGE" => ~IsMessage(Reply(k, t))
    BY DEF IsMessage, Reply
  <1>2. \A k, t, u : k # "UNSUBSCRIBED" => Reply(k, t) # Reply("UNSUBSCRIBED", u)
    BY DEF Reply
  <1>3. \A t, u : Reply("UNSUBSCRIBED", t) = Reply("UNSUBSCRIBED", u) => t = u
    BY DEF Reply
  <1>4. ASSUME NEW t \in Topics, DoPublish(c, t) PROVE MailInv'
    <2>. SUFFICES ASSUME NEW d \in Clients
                  PROVE  /\ Ordered(delivered'[d], sequence_counter')
                         /\ Covered(delivered'[d], TopicsOf(d)')
      BY DEF MailInv
    <2>1. TopicsOf(d)' = TopicsOf(d) /\ sequence_counter' = sequence_counter + 1
      BY <1>0, <1>4, SubscribersAfter DEF DoPublish, TM!PublishLocked, TopicsOf
    <2>2. delivered'[d] = delivered[d] \o Publication(c, t)[d]
      BY <1>4 DEF DoPublish, DeliverAll
    <2>3. /\ Given(d, t) \in Seq(Notes) /\ sequence_counter + 1 \in Nat
          /\ Ordered(Given(d, t), sequence_counter + 1)
          /\ Covered(Given(d, t), TopicsOf(d))
      BY <1>0, GivenMail DEF TM!TMTypeOK
    <2>4. CASE d # c
      BY <2>1, <2>2, <2>3, <2>4, PublicationAppended
    <2>5. CASE d = c
      <3>. DEFINE r == Reply("PUBLISHED", NoTopic)
      <3>1. delivered'[d] = Append(Given(d, t), r)
        BY <2>2, <2>5, PublicationAppended
      <3>2. r \in Notes /\ ~IsMessage(r) /\ \A u : r # Reply("UNSUBSCRIBED", u)
        BY <1>1, <1>2, NotesFact
      <3>. HIDE DEF r
      <3>3. Ordered(Append(Given(d, t), r), sequence_counter + 1)
        BY <2>3, <3>2, OrderedReply
      <3>4. Covered(Append(Given(d, t), r), TopicsOf(d))
        BY <2>3, <3>2, CoveredReply
      <3>. QED
        BY <2>1, <3>1, <3>3, <3>4
    <2>. QED
      BY <2>4, <2>5
  <1>5. ASSUME NEW t \in Topics, DoSubscribe(c, t) PROVE MailInv'
    <2>1. \A d \in Clients : TopicsOf(d)' = IF d = c THEN TopicsOf(d) \cup {t} ELSE TopicsOf(d)
      BY <1>0, <1>5, SubscribersAfter DEF DoSubscribe, TopicsOf
    <2>. DEFINE x == Reply("SUBSCRIBED", t)
    <2>2. x \in Notes /\ ~IsMessage(x) /\ \A u : x # Reply("UNSUBSCRIBED", u)
      BY <1>1, <1>2, NotesFact
    <2>3. \A u \in TopicsOf(c)' : u \in TopicsOf(c) \/ x = Reply("SUBSCRIBED", u)
      BY <2>1
    <2>4. Answer(c, x) /\ UNCHANGED sequence_counter
      BY <1>5 DEF DoSubscribe, TM!Subscribe
    <2>. HIDE DEF x
    <2>. QED
      BY <2>1, <2>2, <2>3, <2>4, AnswerMail
  <1>6. ASSUME NEW t \in Topics, DoUnsubscribe(c, t) PROVE MailInv'
    <2>1. \A d \in Clients : TopicsOf(d)' = IF d = c THEN TopicsOf(d) \ {t} ELSE TopicsOf(d)
      BY <1>0, <1>6, SubscribersAfter DEF DoUnsubscribe, TopicsOf
    <2>. DEFINE x == Reply("UNSUBSCRIBED", t)
    <2>2. x \in Notes /\ ~IsMessage(x)
      BY <1>1, NotesFact
    <2>3. \A u \in TopicsOf(c)' : u \in TopicsOf(c) /\ x # Reply("UNSUBSCRIBED", u)
      BY <1>3, <2>1
    <2>4. Answer(c, x) /\ UNCHANGED sequence_counter
      BY <1>6 DEF DoUnsubscribe, TM!Unsubscribe
    <2>. HIDE DEF x
    <2>. QED
      BY <2>1, <2>2, <2>3, <2>4, AnswerMail
  <1>7. ASSUME NEW k \in {"PONG", "ERROR"}, Answer(c, Reply(k, NoTopic)), UNCHANGED topicVars
        PROVE  MailInv'
    <2>1. \A d \in Clients : TopicsOf(d)' = TopicsOf(d)
      BY <1>7 DEF topicVars, TopicsOf, TM!Subscribers
    <2>. DEFINE x == Reply(k, NoTopic)
    <2>2. x \in Notes /\ ~IsMessage(x) /\ \A u : x # Reply("UNSUBSCRIBED", u)
      BY <1>1, <1>2, NotesFact
    <2>3. Answer(c, x) /\ UNCHANGED sequence_counter
      BY <1>7 DEF topicVars
    <2>. HIDE DEF x
    <2>. QED
      BY <2>1, <2>2, <2>3, AnswerMail
  <1>. QED
    BY <1>4, <1>5, <1>6, <1>7 DEF ProcessMessage, Reject, Lines

LEMMA NextMail == TypeInv /\ MailInv /\ [Next]_vars => MailInv'
  <1>. SUFFICES ASSUME TypeInv, MailInv, [Next]_vars PROVE MailInv'
    OBVIOUS
  <1>. USE DEF TypeInv, netVars, sessionVars, topicVars, serverVars
  <1>0. TM!TMTypeOK
    BY DEF TypeOK
  <1>a. ASSUME UNCHANGED <<delivered, sequence_counter>>,
               \A c \in Clients : TopicsOf(c)' \subseteq TopicsOf(c)
        PROVE  MailInv'
    BY <1>a DEF MailInv, Covered
  <1>b. UNCHANGED topicVars => \A c \in Clients : TopicsOf(c)' = TopicsOf(c)
    BY DEF TopicsOf, TM!Subscribers
  <1>c. \A c \in Clients : TM!UnsubscribeAll(c) =>
            \A d \in Clients : TopicsOf(d)' \subseteq TopicsOf(d)
    BY <1>0, SubscribersAfter DEF TopicsOf
  <1>1. ASSUME NEW c \in Clients, ReadLine(c) PROVE MailInv'
    <2>1. PICK line \in Lines : ProcessMessage(c, line)
      BY <1>1, HeadTailProperties DEF ReadLine, TypeOK
    <2>. QED
      BY <2>1, ProcessMessageMail
  <1>2. ASSUME NEW c \in Clients, ReadError(c) \/ WriteError(c) PROVE MailInv'
    BY <1>2, <1>a, <1>c DEF ReadError, WriteError, OnSessionDisconnect, TM!UnsubscribeAll
  <1>3. ASSUME NEW c \in Clients,
               \/ WriteDone(c) \/ InsertSession(c) \/ StartSession(c) \/ Kernel(c) \/ Client(c)
        PROVE  MailInv'
    BY <1>3, <1>a, <1>b DEF WriteDone, InsertSession, StartSession, Kernel, Client,
         BlockedWriteSent, BlockedWriteFailed, AcceptCompletes, Connect, Send, Receive,
         Close, Reset
  <1>4. CASE AcceptAborted \/ Main \/ UNCHANGED vars
    BY <1>4, <1>a, <1>b DEF AcceptAborted, Main, Start, StopBegin, StopCloseAcceptor,
                            StopClearSessions, vars
  <1>. QED
    BY <1>1, <1>2, <1>3, <1>4 DEF Next, IoHandler

LEMMA MailInvariant == Spec => []MailInv
  <1>1. Init => MailInv
    BY DEF Init, TM!TMInit, MailInv, Ordered, Covered, TopicsOf, TM!Subscribers
  <1>. QED
    BY <1>1, NextMail, TypeInvariant, PTL DEF Spec

\* Two subscribers never disagree about the order of two publications, and no
\* session is given a message twice.
THEOREM InPublishOrder == Spec => []DeliveredInPublishOrder
  <1>1. TypeOK /\ MailInv => DeliveredInPublishOrder
    BY LenProperties DEF TypeOK, MailInv, Ordered, DeliveredInPublishOrder
  <1>. QED
    BY <1>1, MailInvariant, TypeInvariant, PTL DEF TypeInv

\* Every MESSAGE a session is given lies between the acknowledgement of a SUBSCRIBE
\* for its topic and that of the next UNSUBSCRIBE.
THEOREM WhileSubscribed == Spec => []OnlyWhileSubscribed
  <1>1. ASSUME TypeOK, MailInv PROVE OnlyWhileSubscribed
    <2>. SUFFICES ASSUME NEW c \in Clients, NEW i \in DOMAIN delivered[c],
                         IsMessage(delivered[c][i])
                  PROVE  \E j \in 1 .. i - 1 :
                            /\ delivered[c][j] = Reply("SUBSCRIBED", delivered[c][i].topic)
                            /\ \A k \in j .. i : delivered[c][k] #
                                    Reply("UNSUBSCRIBED", delivered[c][i].topic)
      BY DEF OnlyWhileSubscribed
    <2>. DEFINE g == delivered[c]
    <2>1. i \in 1 .. Len(g) /\ Len(g) \in Nat
      BY <1>1, LenProperties DEF TypeOK
    <2>2. PICK j \in 1 .. i : /\ g[j] = Reply("SUBSCRIBED", g[i].topic)
                              /\ \A k \in j .. i : g[k] # Reply("UNSUBSCRIBED", g[i].topic)
      BY <1>1, <2>1 DEF MailInv, Covered, Acked
    <2>3. j # i
      BY <2>2 DEF IsMessage, Reply
    <2>. QED
      BY <2>1, <2>2, <2>3
  <1>. QED
    BY <1>1, MailInvariant, TypeInvariant, PTL DEF TypeInv

-------------------------------------------------------------------------------
(***************************************************************************)
(* What the service promises, the broker keeps.                            *)
(***************************************************************************)

SP == INSTANCE PubSubServiceProofs WITH
    members <- [t \in Topics |-> TM!Subscribers(t)],
    log     <- topic_queues,
    next    <- sequence_counter,
    mail    <- delivered,
    taken   <- [c \in Clients |-> Len(received[c])],
    gone    <- {c \in Clients : phase[c] = "ended"}

LEMMA BrokerIsService == Spec => SP!Spec
  <1>1. Service!Init => SP!Init
    BY DEF Service!Init, SP!Init
  <1>2. [Service!Next]_(Service!svcVars) => [SP!Next]_(SP!svcVars)
    BY DEF Service!Next, SP!Next,
           Service!Join, SP!Join,
           Service!Leave, SP!Leave,
           Service!Publish, SP!Publish,
           Service!Respond, SP!Respond,
           Service!Take, SP!Take,
           Service!Drop, SP!Drop,
           Service!Leaves, SP!Leaves,
           Service!Give, SP!Give,
           Service!Only, SP!Only,
           Service!Reply, SP!Reply,
           Service!Message, SP!Message,
           Service!svcVars, SP!svcVars
  <1>. QED
    BY <1>1, <1>2, Refinement, PTL DEF ImplementsService, Service!Spec, SP!Spec

\* While a session is subscribed to a topic it is given every publication of the topic,
\* whatever its own writes and the other sessions do.
THEOREM MissNothing == Spec => []SubscribersMissNothing
  <1>1. SP!Spec => []SP!MissesNothing
    BY SP!ServiceMissesNothing, NoTopicOK, PTL
  <1>2. SP!MissesNothing => SubscribersMissNothing
    BY DEF SP!MissesNothing, SubscribersMissNothing, Service!MissesNothing,
           SP!IsMessage, Service!IsMessage, SP!Reply, Service!Reply,
           SP!Message, Service!Message
  <1>. QED
    BY <1>1, <1>2, BrokerIsService, PTL

\* The numbers that publish gives out are each stored in one place of one queue of
\* topic_queues_, none left out, and each queue has its numbers in order.
Stored ==
    /\ \A t \in Topics : \A i, j \in DOMAIN topic_queues[t] :
          i < j => topic_queues[t][i] < topic_queues[t][j]
    /\ \A n \in Nat : n < sequence_counter =>
          \E t \in Topics : \E i \in DOMAIN topic_queues[t] :
             /\ topic_queues[t][i] = n
             /\ \A u \in Topics : \A j \in DOMAIN topic_queues[u] :
                   topic_queues[u][j] = n => u = t /\ j = i

\* TopicManager::publish takes the next number and stores it in one critical section: no
\* number is given twice, and none is lost or stored out of order.
THEOREM StoredOnceInOrder == Spec => []Stored
  <1>1. SP!Spec => [](SP!LogInOrder /\ SP!LogComplete)
    BY SP!ServiceLogsEachOnce, NoTopicOK, PTL
  <1>2. SP!LogInOrder /\ SP!LogComplete => Stored
    BY Zenon DEF SP!LogInOrder, SP!LogComplete, Stored
  <1>. QED
    BY <1>1, <1>2, BrokerIsService, PTL
===============================================================================
