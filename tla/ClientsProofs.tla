----------------------------- MODULE ClientsProofs -----------------------------
(***************************************************************************)
(* Theorems about Clients, for every set of consumers, producers and       *)
(* topics, whatever is typed and whichever connections break.              *)
(***************************************************************************)
EXTENDS Clients, PubSubServiceProofs, SequenceTheorems, TLAPS

Labels == {"connect", "prompt", "topics", "subscribe", "reply", "listen", "read",
           "disconnect", "ended"}

\* Where a program is after connect, and after a call that reads a reply.
Begins == {"prompt", "topics", "subscribe"}
Calls  == {"prompt", "subscribe"}

Answers == [to : Lines, line : Notes \cup {Broken}]

SvcTypeOK ==
    /\ next \in Nat
    /\ mail \in [Clients -> Seq(Notes)] /\ taken \in [Clients -> Nat]
    /\ \A c \in Clients : taken[c] <= Len(mail[c])

CliTypeOK ==
    /\ request \in [Clients -> Seq(Lines)] /\ asked \in [Clients -> Seq(Lines)]
    /\ socket \in [Clients -> {"new", "open", "lost", "closed"}]
    /\ arrives \in [Clients -> Nat] /\ half \subseteq Clients
    /\ pc \in [Clients -> Labels]
    /\ answer \in [Clients -> Seq(Answers)]
    /\ start \in [Consumers -> Nat] /\ shown \in [Consumers -> Seq(Notes)]
    /\ topics \in [Consumers -> Seq(Topics)]

\* A program that has a request or a loop to get back to has tried to connect before.
PcInv ==
    \A c \in Clients :
        /\ pc[c] = "connect" => socket[c] = "new"
        /\ socket[c] = "new" => pc[c] \in {"connect", "ended"}
        /\ pc[c] = "reply" => asked[c] # <<>>

ClientsTypeInv == SvcTypeOK /\ CliTypeOK /\ PcInv

Asked(c) == asked[c][Len(asked[c])]

-------------------------------------------------------------------------------
(* The steps, and what they leave alone. *)

\* The steps of one client: its program's, and those of the broker and of the network
\* that are about its connection.
ClientStep(c) ==
    \/ \E label \in Begins : Connect(c, label)
    \/ \E label \in Calls : ReadReply(c, label) \/ RequestFails(c, label)
    \/ \E line \in Lines : pc[c] \in Calls /\ Write(c, line)
    \/ c \in Producers /\ Quit(c)
    \/ /\ c \in Consumers
       /\ \/ Enter(c) \/ StartListening(c) \/ ListenTest(c) \/ ListenReads(c)
          \/ ListenFails(c) \/ Disconnect(c) \/ Signal(c)
    \/ Loss(c) \/ Process(c) \/ Notice(c)

LEMMA StepsOfClients ==
    ASSUME ClientsTypeInv, ClientsNext
    PROVE  \E c \in Clients : ClientStep(c)
<1>1. Consumers \subseteq Clients /\ Producers \subseteq Clients
  BY ClientConstantsOK
<1>2. ASSUME NEW p \in Producers, Producer(p)
      PROVE  ClientStep(p)
  BY <1>2, ClientConstantsOK DEF Producer, Type, ClientStep, Begins, Calls
<1>3. ASSUME NEW k \in Consumers, Consumer(k)
      PROVE  ClientStep(k)
  <2>1. ASSUME Subscribe(k)
        PROVE  ClientStep(k)
    <3>1. asked[k] \in Seq(Lines) /\ topics[k] \in Seq(Topics)
      BY <1>1, ClientConstantsOK DEF ClientsTypeInv, CliTypeOK
    <3>2. Len(asked[k]) + 1 \in 1 .. Len(topics[k])
      BY <2>1, <3>1, LenProperties DEF Subscribe, TopicsLeft
    <3>3. topics[k][Len(asked[k]) + 1] \in Topics
      BY <3>1, <3>2, ElementOfSeq
    <3>4. [cmd |-> "SUBSCRIBE", topic |-> topics[k][Len(asked[k]) + 1]] \in Lines
      BY <3>3 DEF Lines
    <3> QED
      BY <2>1, <3>4 DEF Subscribe, ClientStep, Calls
  <2> QED
    BY <1>3, <2>1 DEF Consumer, AfterConnect, ClientStep, Begins, Calls
<1>4. ASSUME NEW k \in Consumers, Enter(k) \/ Signal(k)
      PROVE  ClientStep(k)
  BY <1>4 DEF ClientStep
<1>5. ASSUME NEW c \in Clients, Loss(c) \/ Process(c) \/ Notice(c)
      PROVE  ClientStep(c)
  BY <1>5 DEF ClientStep
<1> QED
  BY <1>1, <1>2, <1>3, <1>4, <1>5 DEF ClientsNext

\* The client's own state is as it was.
Same(d) ==
    /\ request'[d] = request[d] /\ socket'[d] = socket[d] /\ arrives'[d] = arrives[d]
    /\ d \in half' <=> d \in half
    /\ pc'[d] = pc[d] /\ asked'[d] = asked[d] /\ answer'[d] = answer[d]
    /\ taken'[d] = taken[d]
    /\ d \in Consumers => start'[d] = start[d] /\ shown'[d] = shown[d]

\* What a client has been given stays.
MailGrows ==
    \A d \in Clients :
        /\ Len(mail[d]) <= Len(mail'[d])
        /\ \A i \in 1 .. Len(mail[d]) : mail'[d][i] = mail[d][i]

\* To a client that is sent no message, it grows by the reply to its own request.
GrowsByReply(c, line) ==
    \A d \in Clients :
        NoMessages(mail'[d]) =>
            /\ NoMessages(mail[d])
            /\ mail'[d] = IF d = c THEN Append(mail[c], ReplyTo(line)) ELSE mail[d]

LEMMA RepliesAreNotes ==
    ASSUME NEW line \in Lines
    PROVE  ReplyTo(line) \in Notes /\ ReplyTo(line).kind # "MESSAGE"
  BY DEF Lines, ReplyTo, Reply, Notes

\* Appending a batch to what a client has been given.
LEMMA BatchAppended ==
    ASSUME NEW s \in Seq(Notes), NEW b \in Seq(Notes)
    PROVE  /\ s \o b \in Seq(Notes) /\ Len(s) <= Len(s \o b)
           /\ \A i \in 1 .. Len(s) : (s \o b)[i] = s[i]
           /\ NoMessages(s \o b) => NoMessages(s) /\ \A i \in 1 .. Len(b) : ~IsMessage(b[i])
<1> DEFINE v == s \o b
<1>1. /\ v \in Seq(Notes) /\ Len(v) = Len(s) + Len(b)
      /\ \A i \in 1 .. Len(s) + Len(b) : v[i] = IF i <= Len(s) THEN s[i] ELSE b[i - Len(s)]
  BY ConcatProperties
<1>2. /\ Len(s) \in Nat /\ Len(b) \in Nat
      /\ DOMAIN s = 1 .. Len(s) /\ DOMAIN v = 1 .. Len(v)
  BY <1>1, LenProperties
<1> HIDE DEF v
<1>3. \A i \in 1 .. Len(s) : v[i] = s[i] /\ i \in DOMAIN v
  BY <1>1, <1>2
<1>4. \A i \in 1 .. Len(b) : v[i + Len(s)] = b[i] /\ i + Len(s) \in DOMAIN v
  BY <1>1, <1>2
<1>5. ASSUME NoMessages(v)
      PROVE  NoMessages(s)
  BY <1>2, <1>3, <1>5 DEF NoMessages
<1>6. ASSUME NoMessages(v)
      PROVE  \A i \in 1 .. Len(b) : ~IsMessage(b[i])
  BY <1>4, <1>6 DEF NoMessages
<1>7. Len(s) <= Len(v)
  BY <1>1, <1>2
<1> QED
  BY <1>1, <1>3, <1>5, <1>6, <1>7 DEF v

LEMMA GiveEffect ==
    ASSUME SvcTypeOK, NEW batch \in [Clients -> Seq(Notes)], Give(batch)
    PROVE  /\ mail' \in [Clients -> Seq(Notes)] /\ MailGrows
           /\ \A d \in Clients : NoMessages(mail'[d]) => NoMessages(mail[d])
           /\ \A d \in Clients : batch[d] = <<>> => mail'[d] = mail[d]
           /\ \A d \in Clients : \A i \in 1 .. Len(batch[d]) :
                 NoMessages(mail'[d]) => ~IsMessage(batch[d][i])
<1>1. \A d \in Clients :
          mail[d] \in Seq(Notes) /\ batch[d] \in Seq(Notes) /\ mail'[d] = mail[d] \o batch[d]
  BY DEF Give, SvcTypeOK
<1>2. \A d \in Clients : mail'[d] \in Seq(Notes)
  BY <1>1, BatchAppended
<1>3. MailGrows
  BY <1>1, BatchAppended DEF MailGrows
<1>4. ASSUME NEW d \in Clients, NoMessages(mail'[d])
      PROVE  NoMessages(mail[d]) /\ \A i \in 1 .. Len(batch[d]) : ~IsMessage(batch[d][i])
  <2>1. NoMessages(mail[d] \o batch[d])
    BY <1>1, <1>4
  <2> QED
    BY <1>1, <2>1, BatchAppended
<1>5. \A d \in Clients : batch[d] = <<>> => mail'[d] = mail[d]
  BY <1>1, ConcatEmptySeq
<1> QED
  BY <1>2, <1>3, <1>4, <1>5 DEF Give

\* A reply to one client.
LEMMA GiveOnly ==
    ASSUME SvcTypeOK, NEW c \in Clients, NEW line \in Lines, Give(Only(c, ReplyTo(line)))
    PROVE  mail' \in [Clients -> Seq(Notes)] /\ MailGrows /\ GrowsByReply(c, line)
<1>1. ReplyTo(line) \in Notes
  BY RepliesAreNotes
<1>2. <<>> \in Seq(Notes) /\ <<ReplyTo(line)>> \in Seq(Notes)
  BY <1>1
<1>3. Only(c, ReplyTo(line)) \in [Clients -> Seq(Notes)]
  BY <1>2 DEF Only
<1>4. /\ mail' \in [Clients -> Seq(Notes)] /\ MailGrows
      /\ \A d \in Clients : NoMessages(mail'[d]) => NoMessages(mail[d])
      /\ \A d \in Clients : Only(c, ReplyTo(line))[d] = <<>> => mail'[d] = mail[d]
  BY <1>3, GiveEffect
<1>5. \A d \in Clients : d # c => mail'[d] = mail[d]
  BY <1>4 DEF Only
<1>6. mail'[c] = Append(mail[c], ReplyTo(line))
  <2>1. mail'[c] = mail[c] \o <<ReplyTo(line)>> /\ mail[c] \in Seq(Notes)
    BY DEF Give, Only, SvcTypeOK
  <2> QED
    BY <1>1, <2>1, AppendIsConcat
<1> QED
  BY <1>4, <1>5, <1>6 DEF GrowsByReply

\* A publication: its message to the members, its reply to the publisher.
LEMMA PublishEffect ==
    ASSUME SvcTypeOK, NEW c \in Clients, NEW line \in Lines, line.cmd = "PUBLISH",
           Publish(c, line.topic)
    PROVE  mail' \in [Clients -> Seq(Notes)] /\ MailGrows /\ GrowsByReply(c, line)
<1> DEFINE note == Message(line.topic, next)
           reply == ReplyTo(line)
           toMember(d) == IF d \in members[line.topic] THEN <<note>> ELSE <<>>
           toPublisher(d) == IF d = c THEN <<reply>> ELSE <<>>
           batch == [d \in Clients |-> toMember(d) \o toPublisher(d)]
<1>1. note \in Notes /\ IsMessage(note) /\ reply \in Notes
  BY RepliesAreNotes DEF Lines, Message, Notes, IsMessage, SvcTypeOK
<1>2. Give(batch)
  BY DEF Publish, ReplyTo
<1> HIDE DEF note, reply
<1>3. <<>> \in Seq(Notes) /\ <<note>> \in Seq(Notes) /\ <<reply>> \in Seq(Notes)
  BY <1>1
<1>4. \A d \in Clients : toMember(d) \in Seq(Notes) /\ toPublisher(d) \in Seq(Notes)
  BY <1>3
<1>5. \A d \in Clients : d \in members[line.topic] => Len(batch[d]) > 0 /\ batch[d][1] = note
  <2> SUFFICES ASSUME NEW d \in Clients, d \in members[line.topic]
               PROVE  Len(batch[d]) > 0 /\ batch[d][1] = note
    OBVIOUS
  <2>1. batch[d] = <<note>> \o toPublisher(d)
    OBVIOUS
  <2>2. /\ Len(<<note>> \o toPublisher(d)) = Len(<<note>>) + Len(toPublisher(d))
        /\ \A i \in 1 .. Len(<<note>>) + Len(toPublisher(d)) :
              (<<note>> \o toPublisher(d))[i] =
                  IF i <= Len(<<note>>) THEN <<note>>[i] ELSE toPublisher(d)[i - Len(<<note>>)]
    BY <1>3, <1>4, ConcatProperties
  <2>3. Len(<<note>>) = 1 /\ <<note>>[1] = note /\ Len(toPublisher(d)) \in Nat
    BY <1>4, LenProperties
  <2> QED
    BY <2>1, <2>2, <2>3
<1>6. \A d \in Clients : d \notin members[line.topic] => batch[d] = toPublisher(d)
  BY <1>4, ConcatEmptySeq
<1>7. batch \in [Clients -> Seq(Notes)]
  BY <1>4, ConcatProperties
<1> HIDE DEF batch
<1>8. /\ mail' \in [Clients -> Seq(Notes)] /\ MailGrows
      /\ \A d \in Clients : NoMessages(mail'[d]) => NoMessages(mail[d])
      /\ \A d \in Clients : batch[d] = <<>> => mail'[d] = mail[d]
      /\ \A d \in Clients : \A i \in 1 .. Len(batch[d]) :
            NoMessages(mail'[d]) => ~IsMessage(batch[d][i])
  BY <1>2, <1>7, GiveEffect
<1>9. \A d \in Clients : NoMessages(mail'[d]) => d \notin members[line.topic]
  <2> SUFFICES ASSUME NEW d \in Clients, NoMessages(mail'[d]), d \in members[line.topic]
               PROVE  FALSE
    OBVIOUS
  <2>1. Len(batch[d]) \in Nat
    BY <1>7, LenProperties
  <2>2. 1 \in 1 .. Len(batch[d]) /\ batch[d][1] = note
    BY <1>5, <2>1
  <2> QED
    BY <1>1, <1>8, <2>2
<1>10. ASSUME NEW d \in Clients, NoMessages(mail'[d])
       PROVE  mail'[d] = IF d = c THEN Append(mail[c], reply) ELSE mail[d]
  <2>1. batch[d] = toPublisher(d)
    BY <1>6, <1>9, <1>10
  <2>2. CASE d = c
    <3>1. mail'[c] = mail[c] \o <<reply>> /\ mail[c] \in Seq(Notes)
      BY <1>2, <2>1, <2>2 DEF Give, SvcTypeOK
    <3> QED
      BY <1>1, <2>2, <3>1, AppendIsConcat
  <2>3. CASE d # c
    BY <1>8, <2>1, <2>3
  <2> QED
    BY <2>2, <2>3
<1> QED
  BY <1>8, <1>10 DEF GrowsByReply, reply

\* The service answers a request.
LEMMA ServeEffect ==
    ASSUME SvcTypeOK, NEW c \in Clients, NEW line \in Lines, Serve(c, line)
    PROVE  /\ mail' \in [Clients -> Seq(Notes)] /\ MailGrows /\ GrowsByReply(c, line)
           /\ taken' = taken /\ next' \in Nat
<1>1. CASE line.cmd = "PUBLISH" /\ Publish(c, line.topic)
  <2>1. next' \in Nat /\ taken' = taken
    BY <1>1 DEF Publish, SvcTypeOK
  <2> QED
    BY <1>1, <2>1, PublishEffect
<1>2. ASSUME Give(Only(c, ReplyTo(line))), UNCHANGED <<next, taken>>
      PROVE  /\ mail' \in [Clients -> Seq(Notes)] /\ MailGrows /\ GrowsByReply(c, line)
             /\ taken' = taken /\ next' \in Nat
  BY <1>2, GiveOnly DEF SvcTypeOK
<1>3. CASE line.cmd = "SUBSCRIBE" /\ Join(c, line.topic)
  <2>1. ReplyTo(line) = Reply("SUBSCRIBED", line.topic)
    BY <1>3 DEF ReplyTo
  <2> QED
    BY <1>2, <1>3, <2>1 DEF Join
<1>4. CASE line.cmd = "UNSUBSCRIBE" /\ Leave(c, line.topic)
  <2>1. ReplyTo(line) = Reply("UNSUBSCRIBED", line.topic)
    BY <1>4 DEF ReplyTo
  <2> QED
    BY <1>2, <1>4, <2>1 DEF Leave
<1>5. CASE line.cmd \in {"PING", "INVALID"} /\ Respond(c, ReplyTo(line).kind)
  <2>1. ReplyTo(line) = Reply(ReplyTo(line).kind, NoTopic)
    BY <1>5 DEF ReplyTo, Reply
  <2> QED
    BY <1>2, <1>5, <2>1 DEF Respond
<1> QED
  BY <1>1, <1>3, <1>4, <1>5 DEF Serve

-------------------------------------------------------------------------------
(* Types. *)

LEMMA TypesInit == ClientsInit => ClientsTypeInv
<1> SUFFICES ASSUME ClientsInit
             PROVE  ClientsTypeInv
  OBVIOUS
<1>1. <<>> \in Seq(Notes) /\ <<>> \in Seq(Lines) /\ <<>> \in Seq(Answers)
  OBVIOUS
<1>2. SvcTypeOK
  BY <1>1 DEF ClientsInit, Init, SvcTypeOK
<1>3. CliTypeOK
  BY <1>1, ClientConstantsOK DEF ClientsInit, CliTypeOK, Labels
<1>4. PcInv
  BY DEF ClientsInit, PcInv
<1> QED
  BY <1>2, <1>3, <1>4 DEF ClientsTypeInv

\* A line that is taken lies in the stream.
LEMMA IncomingType ==
    ASSUME ClientsTypeInv, NEW c \in Clients, HasLine(c)
    PROVE  /\ taken[c] + 1 \in 1 .. Len(mail[c])
           /\ c \notin half => Incoming(c) \in Notes /\ Incoming(c) = mail[c][taken[c] + 1]
           /\ Incoming(c) \in Notes \cup {Broken}
<1>1. mail[c] \in Seq(Notes) /\ taken[c] \in Nat /\ Len(mail[c]) \in Nat
  BY LenProperties DEF ClientsTypeInv, SvcTypeOK
<1>2. taken[c] + 1 \in 1 .. Len(mail[c])
  BY <1>1 DEF HasLine
<1>3. mail[c][taken[c] + 1] \in Notes
  BY <1>1, <1>2, ElementOfSeq
<1> QED
  BY <1>2, <1>3 DEF Incoming

\* The line whose reply is awaited is the last one asked.
LEMMA AskedType ==
    ASSUME ClientsTypeInv, NEW c \in Clients, pc[c] = "reply"
    PROVE  asked[c] \in Seq(Lines) /\ Asked(c) \in Lines
<1>1. asked[c] \in Seq(Lines) /\ asked[c] # <<>>
  BY DEF ClientsTypeInv, CliTypeOK, PcInv
<1>2. Len(asked[c]) \in 1 .. Len(asked[c])
  BY <1>1, EmptySeq
<1> QED
  BY <1>1, <1>2, ElementOfSeq DEF Asked

\* A buffer is dropped: the stream is taken further, and no further than it goes.
LEMMA DropEffect ==
    ASSUME ClientsTypeInv, NEW c \in Clients, TakeLineAndDrop(c), UNCHANGED mail
    PROVE  /\ taken' \in [Clients -> Nat] /\ half' \subseteq Clients
           /\ \A d \in Clients : taken'[d] <= Len(mail'[d])
           /\ \A d \in Clients : d # c => taken'[d] = taken[d] /\ (d \in half' <=> d \in half)
           /\ taken'[c] \in taken[c] + 1 .. Len(mail[c])
           /\ socket[c] = "open" \/ taken'[c] <= arrives[c]
           /\ c \in half' => taken'[c] < Len(mail[c])
<1>1. PICK n \in taken[c] + 1 .. Len(mail[c]) :
          /\ socket[c] = "open" \/ n <= arrives[c]
          /\ taken' = [taken EXCEPT ![c] = n]
          /\ half' = half \ {c} \/ (n < Len(mail[c]) /\ half' = half \cup {c})
  BY DEF TakeLineAndDrop
<1>2. /\ taken \in [Clients -> Nat] /\ Len(mail[c]) \in Nat /\ half \subseteq Clients
      /\ \A d \in Clients : taken[d] <= Len(mail[d])
  BY LenProperties DEF ClientsTypeInv, SvcTypeOK, CliTypeOK
<1>3. n \in Nat /\ n <= Len(mail[c])
  BY <1>1, <1>2
<1>4. /\ taken' \in [Clients -> Nat] /\ taken'[c] = n
      /\ \A d \in Clients : d # c => taken'[d] = taken[d]
  BY <1>1, <1>2, <1>3
<1>5. half' \subseteq Clients /\ (c \in half' => n < Len(mail[c]))
      /\ \A d \in Clients : d # c => (d \in half' <=> d \in half)
  BY <1>1, <1>2
<1>6. \A d \in Clients : taken'[d] <= Len(mail'[d])
  BY <1>2, <1>3, <1>4
<1> QED
  BY <1>1, <1>4, <1>5, <1>6

LEMMA WriteTypes ==
    ASSUME ClientsTypeInv, NEW c \in Clients, NEW line \in Lines, Write(c, line),
           pc[c] \in Calls
    PROVE  ClientsTypeInv'
<1>1. request[c] \in Seq(Lines) /\ asked[c] \in Seq(Lines)
  BY DEF ClientsTypeInv, CliTypeOK
<1>2. /\ Append(request[c], line) \in Seq(Lines) /\ Append(asked[c], line) \in Seq(Lines)
      /\ Append(asked[c], line) # <<>>
  BY <1>1, AppendProperties
<1>3. SvcTypeOK'
  BY DEF Write, svcVars, ClientsTypeInv, SvcTypeOK
<1>4. CliTypeOK'
  BY <1>2 DEF Write, Goto, ClientsTypeInv, CliTypeOK, Labels
<1>5. PcInv'
  BY <1>2 DEF Write, Goto, ClientsTypeInv, CliTypeOK, PcInv, Calls
<1> QED
  BY <1>3, <1>4, <1>5 DEF ClientsTypeInv

LEMMA ReadReplyTypes ==
    ASSUME ClientsTypeInv, NEW c \in Clients, NEW label \in Calls,
           ReadReply(c, label)
    PROVE  ClientsTypeInv'
<1>1. Asked(c) \in Lines /\ Incoming(c) \in Notes \cup {Broken}
  BY AskedType, IncomingType DEF ReadReply
<1>2. [to |-> Asked(c), line |-> Incoming(c)] \in Answers /\ answer[c] \in Seq(Answers)
  BY <1>1 DEF Answers, ClientsTypeInv, CliTypeOK
<1>3. Append(answer[c], [to |-> Asked(c), line |-> Incoming(c)]) \in Seq(Answers)
  BY <1>2, AppendProperties
<1>4. answer' \in [Clients -> Seq(Answers)]
  BY <1>3 DEF ReadReply, Asked, ClientsTypeInv, CliTypeOK
<1>5. /\ taken' \in [Clients -> Nat] /\ half' \subseteq Clients
      /\ \A d \in Clients : taken'[d] <= Len(mail'[d])
  BY DropEffect DEF ReadReply
<1>6. SvcTypeOK'
  BY <1>5 DEF ReadReply, ClientsTypeInv, SvcTypeOK
<1>7. CliTypeOK'
  BY <1>4, <1>5 DEF ReadReply, Goto, ClientsTypeInv, CliTypeOK, Labels, Calls
<1>8. PcInv'
  BY DEF ReadReply, Goto, ClientsTypeInv, CliTypeOK, PcInv, Calls
<1> QED
  BY <1>6, <1>7, <1>8 DEF ClientsTypeInv

LEMMA ListenReadsTypes ==
    ASSUME ClientsTypeInv, NEW k \in Consumers, ListenReads(k)
    PROVE  ClientsTypeInv'
<1>0. k \in Clients
  BY ClientConstantsOK
<1>1. /\ taken[k] + 1 \in 1 .. Len(mail[k])
      /\ k \notin half => Incoming(k) \in Notes
  BY <1>0, IncomingType DEF ListenReads
<1>2. Len(mail[k]) \in Nat /\ taken[k] \in Nat
  BY <1>0, LenProperties DEF ClientsTypeInv, SvcTypeOK
<1>3. SvcTypeOK'
  BY <1>0, <1>1, <1>2 DEF ListenReads, TakeLine, ClientsTypeInv, SvcTypeOK
<1>4. shown' \in [Consumers -> Seq(Notes)]
  <2>1. CASE k \in half
    BY <2>1 DEF ListenReads, ClientsTypeInv, CliTypeOK
  <2>2. CASE k \notin half
    <3>1. shown[k] \in Seq(Notes) /\ Incoming(k) \in Notes
      BY <1>1, <2>2 DEF ClientsTypeInv, CliTypeOK
    <3>2. Append(shown[k], Incoming(k)) \in Seq(Notes)
      BY <3>1, AppendProperties
    <3> QED
      BY <2>2, <3>2 DEF ListenReads, ClientsTypeInv, CliTypeOK
  <2> QED
    BY <2>1, <2>2
<1>5. CliTypeOK'
  BY <1>0, <1>4 DEF ListenReads, TakeLine, Goto, ClientsTypeInv, CliTypeOK, Labels
<1>6. PcInv'
  BY <1>0 DEF ListenReads, Goto, ClientsTypeInv, CliTypeOK, PcInv
<1> QED
  BY <1>3, <1>5, <1>6 DEF ClientsTypeInv

LEMMA ProcessTypes ==
    ASSUME ClientsTypeInv, NEW c \in Clients, Process(c)
    PROVE  /\ ClientsTypeInv' /\ MailGrows /\ UNCHANGED <<taken, socket, arrives, half, cliVars>>
           /\ \E line \in Lines : GrowsByReply(c, line) /\ line = Head(request[c])
           /\ request' = [request EXCEPT ![c] = Tail(request[c])]
<1>1. request[c] \in Seq(Lines) /\ request[c] # <<>>
  BY DEF Process, ClientsTypeInv, CliTypeOK
<1>2. Head(request[c]) \in Lines /\ Tail(request[c]) \in Seq(Lines)
  BY <1>1, HeadTailProperties
<1>3. Serve(c, Head(request[c]))
  BY DEF Process
<1>4. /\ mail' \in [Clients -> Seq(Notes)] /\ MailGrows /\ GrowsByReply(c, Head(request[c]))
      /\ taken' = taken /\ next' \in Nat
  BY <1>2, <1>3, ServeEffect DEF ClientsTypeInv
<1>5. \A d \in Clients : Len(mail[d]) \in Nat /\ Len(mail'[d]) \in Nat
  BY <1>4, LenProperties DEF ClientsTypeInv, SvcTypeOK
<1>6. SvcTypeOK'
  BY <1>4, <1>5 DEF ClientsTypeInv, SvcTypeOK, MailGrows
<1>7. CliTypeOK'
  BY <1>2 DEF Process, cliVars, ClientsTypeInv, CliTypeOK
<1>8. PcInv'
  BY DEF Process, cliVars, ClientsTypeInv, PcInv
<1> QED
  BY <1>2, <1>4, <1>6, <1>7, <1>8 DEF Process, ClientsTypeInv

\* The steps that change only where a client is, its connection, and what has come of it.
LEMMA OtherTypes ==
    ASSUME ClientsTypeInv, NEW c \in Clients,
           \/ \E label \in Begins : Connect(c, label)
           \/ \E label \in Calls : RequestFails(c, label)
           \/ Quit(c)
           \/ /\ c \in Consumers
              /\ \/ Enter(c) \/ StartListening(c) \/ ListenTest(c) \/ ListenFails(c)
                 \/ Disconnect(c) \/ Signal(c)
           \/ Loss(c) \/ Notice(c)
    PROVE  ClientsTypeInv' /\ mail' = mail
<1>1. Len(mail[c]) \in Nat /\ taken[c] \in Nat
  BY LenProperties DEF ClientsTypeInv, SvcTypeOK
<1> USE DEF Goto, ClientsTypeInv, CliTypeOK, PcInv, Labels, Begins, Calls, svcVars, netVars,
            cliVars
<1>2. CASE Loss(c) \/ Notice(c)
  <2>1. <<>> \in Seq(Lines)
    OBVIOUS
  <2>2. UNCHANGED <<next, mail, taken>>
    BY <1>2 DEF Loss, Notice, Leaves
  <2>3. SvcTypeOK'
    BY <2>2 DEF SvcTypeOK
  <2>4. CliTypeOK' /\ PcInv'
    BY <1>1, <1>2, <2>1 DEF Loss, Notice, Disconnected
  <2> QED
    BY <2>2, <2>3, <2>4
<1>3. CASE \/ \E label \in Begins : Connect(c, label)
           \/ \E label \in Calls : RequestFails(c, label)
           \/ Quit(c)
  <2>1. UNCHANGED svcVars
    BY <1>3 DEF Connect, RequestFails, Quit
  <2>2. SvcTypeOK'
    BY <2>1 DEF SvcTypeOK
  <2>3. /\ UNCHANGED <<request, half, asked, answer, start, shown, topics>>
        /\ socket' \in {socket, [socket EXCEPT ![c] = "open"], [socket EXCEPT ![c] = "closed"]}
        /\ arrives' \in {arrives, [arrives EXCEPT ![c] = taken[c]]}
        /\ \E label \in Begins \cup {"ended"} :
              /\ pc' = [pc EXCEPT ![c] = label]
              /\ socket'[c] = "new" => label = "ended"
    BY <1>3 DEF Connect, RequestFails, Quit
  <2>4. /\ socket' \in [Clients -> {"new", "open", "lost", "closed"}]
        /\ arrives' \in [Clients -> Nat] /\ pc' \in [Clients -> Labels]
    BY <1>1, <2>3
  <2>5. CliTypeOK'
    BY <2>3, <2>4
  <2>6. PcInv'
    BY <2>3
  <2> QED
    BY <2>1, <2>2, <2>5, <2>6
<1>4. CASE c \in Consumers /\ (StartListening(c) \/ ListenTest(c) \/ ListenFails(c))
  <2>1. UNCHANGED <<svcVars, netVars, asked, answer>>
    BY <1>4 DEF StartListening, ListenTest, ListenFails
  <2>2. SvcTypeOK'
    BY <2>1 DEF SvcTypeOK
  <2>3. /\ UNCHANGED <<shown, topics>> /\ start' \in [Consumers -> Nat]
        /\ \E label \in {"listen", "read", "disconnect"} : pc' = [pc EXCEPT ![c] = label]
        /\ pc[c] \in {"subscribe", "listen", "read"}
    BY <1>1, <1>4 DEF StartListening, ListenTest, ListenFails
  <2>4. CliTypeOK'
    BY <2>1, <2>3
  <2>5. PcInv'
    BY <2>1, <2>3
  <2> QED
    BY <2>1, <2>2, <2>4, <2>5
<1>5. CASE c \in Consumers /\ (Disconnect(c) \/ Signal(c))
  <2>1. UNCHANGED svcVars
    BY <1>5 DEF Disconnect, Signal
  <2>2. SvcTypeOK'
    BY <2>1 DEF SvcTypeOK
  <2>3. /\ UNCHANGED <<request, half, asked, answer, start, shown, topics>>
        /\ pc' \in {pc, [pc EXCEPT ![c] = "ended"]}
    BY <1>5 DEF Disconnect, Signal
  <2>4. \/ socket[c] = "new" /\ UNCHANGED <<socket, arrives>>
        \/ /\ socket[c] # "new" /\ socket' = [socket EXCEPT ![c] = "closed"]
           /\ arrives' \in {arrives, [arrives EXCEPT ![c] = Len(mail[c])]}
    BY <1>5 DEF Disconnect, Signal, Stop, Disconnected
  <2>5. CliTypeOK'
    <3>1. socket' \in [Clients -> {"new", "open", "lost", "closed"}]
      BY <2>4
    <3>2. arrives' \in [Clients -> Nat]
      BY <1>1, <2>4
    <3> QED
      BY <2>3, <3>1, <3>2
  <2>6. PcInv'
    BY <2>3, <2>4
  <2> QED
    BY <2>1, <2>2, <2>5, <2>6
<1>6. CASE c \in Consumers /\ Enter(c)
  <2>1. UNCHANGED svcVars /\ UNCHANGED <<request, half, asked, answer, start, shown>>
    BY <1>6 DEF Enter, EnterTopic, EnterNothing, GiveUp
  <2>2. SvcTypeOK'
    BY <2>1 DEF SvcTypeOK
  <2>3. /\ pc[c] = "topics" /\ socket[c] # "new"
        /\ pc' \in {pc, [pc EXCEPT ![c] = "subscribe"], [pc EXCEPT ![c] = "ended"]}
        /\ socket' \in {socket, [socket EXCEPT ![c] = "closed"]}
        /\ arrives' \in {arrives, [arrives EXCEPT ![c] = Len(mail[c])]}
    BY <1>6 DEF Enter, EnterTopic, EnterNothing, GiveUp, Disconnected
  <2>4. topics' \in [Consumers -> Seq(Topics)]
    <3>1. \A t \in Entries : Append(topics[c], t) \in Seq(Topics)
      BY <1>6, ClientConstantsOK, AppendProperties
    <3>2. CASE EnterTopic(c)
      BY <3>1, <3>2 DEF EnterTopic
    <3>3. CASE EnterNothing(c) \/ GiveUp(c)
      BY <3>3 DEF EnterNothing, GiveUp
    <3> QED
      BY <1>6, <3>2, <3>3 DEF Enter
  <2>5. CliTypeOK'
    <3>1. socket' \in [Clients -> {"new", "open", "lost", "closed"}]
      BY <2>3
    <3>2. arrives' \in [Clients -> Nat]
      BY <1>1, <2>3
    <3>3. pc' \in [Clients -> Labels]
      BY <2>3
    <3> QED
      BY <2>1, <2>4, <3>1, <3>2, <3>3
  <2>6. PcInv'
    BY <2>1, <2>3
  <2> QED
    BY <2>1, <2>2, <2>5, <2>6
<1> QED
  BY <1>2, <1>3, <1>4, <1>5, <1>6

LEMMA MailStays ==
    ASSUME SvcTypeOK, mail' = mail
    PROVE  MailGrows
<1>1. \A d \in Clients : Len(mail[d]) \in Nat
  BY LenProperties DEF SvcTypeOK
<1> QED
  BY <1>1 DEF MailGrows

\* A step of one client leaves the others alone, but for the messages they are sent.
LEMMA StepFrame ==
    ASSUME ClientsTypeInv, NEW c \in Clients, ClientStep(c)
    PROVE  /\ ClientsTypeInv' /\ MailGrows
           /\ Process(c) \/ mail' = mail
           /\ \A d \in Clients : d # c => Same(d) /\ (NoMessages(mail'[d]) => mail'[d] = mail[d])
<1>1. ASSUME NEW line \in Lines, pc[c] \in Calls, Write(c, line)
      PROVE  /\ ClientsTypeInv' /\ mail' = mail /\ \A d \in Clients : d # c => Same(d)
  <2>1. \A d \in Clients : d # c => Same(d)
    BY <1>1 DEF Write, Goto, Same, svcVars, ClientsTypeInv, CliTypeOK
  <2>2. mail' = mail
    BY <1>1 DEF Write, svcVars
  <2> QED
    BY <1>1, <2>1, <2>2, WriteTypes
<1>2. ASSUME NEW label \in Calls, ReadReply(c, label)
      PROVE  /\ ClientsTypeInv' /\ mail' = mail /\ \A d \in Clients : d # c => Same(d)
  <2>1. mail' = mail /\ TakeLineAndDrop(c)
    BY <1>2 DEF ReadReply
  <2>2. \A d \in Clients : d # c => taken'[d] = taken[d] /\ (d \in half' <=> d \in half)
    BY <2>1, DropEffect
  <2>3. \A d \in Clients : d # c => Same(d)
    BY <1>2, <2>2 DEF ReadReply, Goto, Same, ClientsTypeInv, CliTypeOK
  <2> QED
    BY <1>2, <2>1, <2>3, ReadReplyTypes
<1>3. ASSUME c \in Consumers, ListenReads(c)
      PROVE  /\ ClientsTypeInv' /\ mail' = mail /\ \A d \in Clients : d # c => Same(d)
  <2>1. \A d \in Consumers : d # c => shown'[d] = shown[d]
    BY <1>3 DEF ListenReads, ClientsTypeInv, CliTypeOK
  <2>2. \A d \in Clients : d # c => Same(d)
    BY <1>3, <2>1 DEF ListenReads, TakeLine, Goto, Same, ClientsTypeInv, SvcTypeOK, CliTypeOK
  <2>3. mail' = mail
    BY <1>3 DEF ListenReads
  <2> QED
    BY <1>3, <2>2, <2>3, ListenReadsTypes
<1>4. ASSUME \/ \E label \in Begins : Connect(c, label)
             \/ \E label \in Calls : RequestFails(c, label)
             \/ Quit(c)
             \/ /\ c \in Consumers
                /\ \/ Enter(c) \/ StartListening(c) \/ ListenTest(c) \/ ListenFails(c)
                   \/ Disconnect(c) \/ Signal(c)
             \/ Loss(c) \/ Notice(c)
      PROVE  /\ ClientsTypeInv' /\ mail' = mail /\ \A d \in Clients : d # c => Same(d)
  <2> USE DEF Goto, Same, ClientsTypeInv, SvcTypeOK, CliTypeOK, Begins, Calls, svcVars,
              netVars, cliVars
  <2>1. CASE Loss(c) \/ Notice(c)
    <3>1. \A d \in Clients : d # c => Same(d)
      BY <2>1 DEF Loss, Notice, Leaves, Disconnected
    <3> QED
      BY <1>4, <3>1, OtherTypes
  <2>2. CASE \/ \E label \in Begins : Connect(c, label)
             \/ \E label \in Calls : RequestFails(c, label)
             \/ Quit(c)
    <3>1. \A d \in Clients : d # c => Same(d)
      BY <2>2 DEF Connect, RequestFails, Quit
    <3> QED
      BY <1>4, <3>1, OtherTypes
  <2>3. CASE c \in Consumers /\ (StartListening(c) \/ ListenTest(c) \/ ListenFails(c))
    <3>1. \A d \in Clients : d # c => Same(d)
      BY <2>3 DEF StartListening, ListenTest, ListenFails
    <3> QED
      BY <1>4, <3>1, OtherTypes
  <2>4. CASE c \in Consumers /\ (Disconnect(c) \/ Signal(c))
    <3>1. \A d \in Clients : d # c => Same(d)
      BY <2>4 DEF Disconnect, Signal, Stop, Disconnected
    <3> QED
      BY <1>4, <3>1, OtherTypes
  <2>5. CASE c \in Consumers /\ Enter(c)
    <3>1. \A d \in Clients : d # c => Same(d)
      BY <2>5 DEF Enter, EnterTopic, EnterNothing, GiveUp, Disconnected
    <3> QED
      BY <1>4, <3>1, OtherTypes
  <2> QED
    BY <1>4, <2>1, <2>2, <2>3, <2>4, <2>5
<1>5. CASE Process(c)
  <2>1. /\ ClientsTypeInv' /\ MailGrows /\ UNCHANGED <<taken, socket, arrives, half, cliVars>>
        /\ request' = [request EXCEPT ![c] = Tail(request[c])]
    BY <1>5, ProcessTypes
  <2>2. \A d \in Clients : d # c => Same(d)
    BY <2>1 DEF Same, cliVars, ClientsTypeInv, CliTypeOK
  <2>3. PICK line \in Lines : GrowsByReply(c, line)
    BY <1>5, ProcessTypes
  <2>4. \A d \in Clients : d # c => (NoMessages(mail'[d]) => mail'[d] = mail[d])
    BY <2>3 DEF GrowsByReply
  <2> QED
    BY <1>5, <2>1, <2>2, <2>4
<1>6. ASSUME mail' = mail
      PROVE  MailGrows
  BY <1>6, MailStays DEF ClientsTypeInv
<1> QED
  BY <1>1, <1>2, <1>3, <1>4, <1>5, <1>6 DEF ClientStep

-------------------------------------------------------------------------------
(* What the consumer shows. *)

Listening == {"listen", "read", "disconnect", "ended"}

NothingSent == {"connect", "topics"}

\* ShownIsStream of one consumer, with where it began to listen: after the line in whose
\* middle the last dropped buffer ended, if that line is still to come.
Shows(k) ==
    /\ pc[k] \in Listening =>
          /\ shown[k] = SubSeq(mail[k], start[k] + 1, taken[k])
          /\ IF k \in half THEN start[k] = taken[k] + 1 ELSE start[k] <= taken[k]
    /\ pc[k] \notin Listening => shown[k] = <<>>
    /\ pc[k] \in NothingSent => start[k] = 0 /\ taken[k] = 0 /\ k \notin half

\* A part of a stream is the same when the stream has grown.
LEMMA PartStays ==
    ASSUME NEW s \in Seq(Notes), NEW v \in Seq(Notes), Len(s) <= Len(v),
           \A i \in 1 .. Len(s) : v[i] = s[i],
           NEW m \in Nat, NEW n \in Nat, n <= Len(s)
    PROVE  SubSeq(v, m + 1, n) = SubSeq(s, m + 1, n)
<1>1. Len(s) \in Nat /\ Len(v) \in Nat
  BY LenProperties
<1>2. \A i \in m + 1 .. n : v[i] = s[i] /\ v[i] \in Notes
  BY <1>1, ElementOfSeq
<1>3. /\ SubSeq(s, m + 1, n) \in Seq(Notes)
      /\ Len(SubSeq(s, m + 1, n)) = IF m + 1 <= n THEN n - (m + 1) + 1 ELSE 0
      /\ \A i \in 1 .. n - (m + 1) + 1 : SubSeq(s, m + 1, n)[i] = s[(m + 1) + i - 1]
  BY <1>2, SubSeqProperties
<1>4. /\ SubSeq(v, m + 1, n) \in Seq(Notes)
      /\ Len(SubSeq(v, m + 1, n)) = IF m + 1 <= n THEN n - (m + 1) + 1 ELSE 0
      /\ \A i \in 1 .. n - (m + 1) + 1 : SubSeq(v, m + 1, n)[i] = v[(m + 1) + i - 1]
  BY <1>2, SubSeqProperties
<1>5. \A i \in 1 .. Len(SubSeq(s, m + 1, n)) : SubSeq(v, m + 1, n)[i] = SubSeq(s, m + 1, n)[i]
  BY <1>2, <1>3, <1>4
<1>6. Len(SubSeq(s, m + 1, n)) = Len(SubSeq(v, m + 1, n))
  BY <1>3, <1>4
<1> QED
  BY <1>3, <1>4, <1>5, <1>6, SeqEqual

\* One more line of the stream.
LEMMA PartGrows ==
    ASSUME NEW s \in Seq(Notes), NEW m \in Nat, NEW n \in Nat, m <= n, n + 1 <= Len(s)
    PROVE  SubSeq(s, m + 1, n + 1) = Append(SubSeq(s, m + 1, n), s[n + 1])
<1>1. Len(s) \in Nat
  BY LenProperties
<1>2. \A i \in m + 1 .. n + 1 : s[i] \in Notes
  BY <1>1, ElementOfSeq
<1> DEFINE a == SubSeq(s, m + 1, n)
           b == SubSeq(s, m + 1, n + 1)
<1>3. a \in Seq(Notes) /\ Len(a) = n - m /\ \A i \in 1 .. n - m : a[i] = s[m + i]
  <2>1. /\ a \in Seq(Notes) /\ Len(a) = IF m + 1 <= n THEN n - (m + 1) + 1 ELSE 0
        /\ \A i \in 1 .. n - (m + 1) + 1 : a[i] = s[(m + 1) + i - 1]
    BY <1>2, SubSeqProperties
  <2> QED
    BY <2>1
<1>4. b \in Seq(Notes) /\ Len(b) = n + 1 - m /\ \A i \in 1 .. n + 1 - m : b[i] = s[m + i]
  <2>1. /\ b \in Seq(Notes) /\ Len(b) = IF m + 1 <= n + 1 THEN (n + 1) - (m + 1) + 1 ELSE 0
        /\ \A i \in 1 .. (n + 1) - (m + 1) + 1 : b[i] = s[(m + 1) + i - 1]
    BY <1>2, SubSeqProperties
  <2> QED
    BY <2>1
<1>5. s[n + 1] \in Notes
  BY <1>2
<1> HIDE DEF a, b
<1>6. /\ Append(a, s[n + 1]) \in Seq(Notes) /\ Len(Append(a, s[n + 1])) = n - m + 1
      /\ \A i \in 1 .. n - m : Append(a, s[n + 1])[i] = a[i]
      /\ Append(a, s[n + 1])[n - m + 1] = s[n + 1]
  BY <1>3, <1>5, AppendProperties
<1>7. \A i \in 1 .. Len(b) : b[i] = Append(a, s[n + 1])[i]
  BY <1>3, <1>4, <1>6
<1>8. b = Append(a, s[n + 1])
  BY <1>4, <1>6, <1>7, SeqEqual
<1> QED
  BY <1>8 DEF a, b

\* A step that is not a read of the consumer.
LEMMA ShowsStays ==
    ASSUME ClientsTypeInv, ClientsTypeInv', MailGrows, NEW k \in Consumers, Shows(k),
           taken'[k] = taken[k], k \in half' <=> k \in half,
           start'[k] = start[k], shown'[k] = shown[k],
           \/ pc'[k] = pc[k]
           \/ pc[k] \in Listening /\ pc'[k] \in Listening
           \/ pc[k] \notin Listening /\ pc'[k] \notin Listening \cup NothingSent
           \/ pc[k] \in NothingSent
    PROVE  Shows(k)'
<1>1. /\ k \in Clients /\ mail[k] \in Seq(Notes) /\ mail'[k] \in Seq(Notes)
      /\ taken[k] \in Nat /\ taken[k] <= Len(mail[k]) /\ start[k] \in Nat
  BY ClientConstantsOK DEF ClientsTypeInv, SvcTypeOK, CliTypeOK
<1>2. SubSeq(mail'[k], start[k] + 1, taken[k]) = SubSeq(mail[k], start[k] + 1, taken[k])
  BY <1>1, PartStays DEF MailGrows
<1>3. CASE pc[k] \in NothingSent
  <2>1. SubSeq(mail[k], start[k] + 1, taken[k]) = <<>>
    BY <1>3, SubSeqEmpty DEF Shows
  <2>2. shown[k] = <<>> /\ start[k] = 0 /\ taken[k] = 0 /\ k \notin half
    BY <1>3 DEF Shows, Listening, NothingSent
  <2> QED
    BY <1>2, <2>1, <2>2 DEF Shows
<1>4. CASE pc[k] \notin NothingSent
  BY <1>2, <1>4 DEF Shows, Listening, NothingSent
<1> QED
  BY <1>3, <1>4

\* A call of subscribe shows nothing.
LEMMA ShowsNothingYet ==
    ASSUME NEW k \in Consumers, Shows(k), shown'[k] = shown[k],
           pc[k] \notin Listening, pc'[k] \notin Listening \cup NothingSent
    PROVE  Shows(k)'
  BY DEF Shows

\* start_listening reads a line.
LEMMA ShowsALine ==
    ASSUME ClientsTypeInv, NEW k \in Consumers, Shows(k), ListenReads(k)
    PROVE  Shows(k)'
<1>1. k \in Clients
  BY ClientConstantsOK
<1>2. /\ mail[k] \in Seq(Notes) /\ taken[k] \in Nat /\ start[k] \in Nat
      /\ taken[k] + 1 \in 1 .. Len(mail[k])
      /\ k \notin half => Incoming(k) = mail[k][taken[k] + 1]
  BY <1>1, IncomingType DEF ListenReads, ClientsTypeInv, SvcTypeOK, CliTypeOK
<1>3. /\ mail'[k] = mail[k] /\ taken'[k] = taken[k] + 1 /\ start'[k] = start[k]
      /\ k \notin half' /\ pc[k] = "read" /\ pc'[k] = "listen"
  BY <1>1 DEF ListenReads, TakeLine, Goto, ClientsTypeInv, SvcTypeOK, CliTypeOK
<1>4. CASE k \in half
  <2>1. shown'[k] = shown[k] /\ start[k] = taken[k] + 1
    BY <1>3, <1>4 DEF ListenReads, Shows, Listening
  <2>2. /\ SubSeq(mail[k], start[k] + 1, taken[k]) = <<>>
        /\ SubSeq(mail[k], start[k] + 1, taken[k] + 1) = <<>>
    BY <1>2, <2>1, SubSeqEmpty
  <2> QED
    BY <1>2, <1>3, <2>1, <2>2 DEF Shows, Listening, NothingSent
<1>5. CASE k \notin half
  <2>1. start[k] <= taken[k] /\ shown[k] = SubSeq(mail[k], start[k] + 1, taken[k])
    BY <1>3, <1>5 DEF Shows, Listening, NothingSent
  <2>2. shown'[k] = Append(shown[k], mail[k][taken[k] + 1])
    BY <1>2, <1>5 DEF ListenReads, ClientsTypeInv, CliTypeOK
  <2>3. taken[k] + 1 <= Len(mail[k])
    BY <1>2, LenProperties
  <2>4. SubSeq(mail[k], start[k] + 1, taken[k] + 1)
            = Append(SubSeq(mail[k], start[k] + 1, taken[k]), mail[k][taken[k] + 1])
    BY <1>2, <2>1, <2>3, PartGrows
  <2>5. shown'[k] = SubSeq(mail[k], start[k] + 1, taken[k] + 1)
    BY <2>1, <2>2, <2>4
  <2> QED
    BY <1>2, <1>3, <2>1, <2>5 DEF Shows, Listening, NothingSent
<1> QED
  BY <1>4, <1>5

LEMMA ShowsBegins ==
    ASSUME ClientsTypeInv, NEW k \in Consumers, Shows(k), StartListening(k)
    PROVE  Shows(k)'
<1>1. k \in Clients /\ taken[k] \in Nat
  BY ClientConstantsOK DEF ClientsTypeInv, SvcTypeOK
<1>2. /\ mail' = mail /\ taken' = taken /\ half' = half /\ shown' = shown
      /\ start'[k] = taken[k] + (IF k \in half THEN 1 ELSE 0)
      /\ pc[k] = "subscribe" /\ pc'[k] = "listen"
  BY <1>1 DEF StartListening, Goto, svcVars, netVars, ClientsTypeInv, CliTypeOK
<1>3. shown[k] = <<>>
  BY <1>2 DEF Shows, Listening, NothingSent
<1>4. SubSeq(mail[k], start'[k] + 1, taken[k]) = <<>>
  BY <1>1, <1>2, SubSeqEmpty
<1> QED
  BY <1>1, <1>2, <1>3, <1>4 DEF Shows, Listening, NothingSent

LEMMA ShowsStep ==
    ASSUME ClientsTypeInv, NEW c \in Clients, ClientStep(c), NEW k \in Consumers, Shows(k)
    PROVE  Shows(k)'
<1>1. /\ ClientsTypeInv' /\ MailGrows /\ k \in Clients
      /\ \A d \in Clients : d # c => Same(d)
  BY StepFrame, ClientConstantsOK
<1>2. CASE k # c
  BY <1>1, <1>2, ShowsStays DEF Same
<1>3. CASE k = c
  <2> USE <1>3
  <2>1. ASSUME NEW line \in Lines, pc[k] \in Calls, Write(k, line)
        PROVE  Shows(k)'
    BY <1>1, <2>1, ShowsNothingYet DEF Write, Goto, Listening, NothingSent, Calls,
       ClientsTypeInv, CliTypeOK
  <2>2. ASSUME NEW label \in Calls, ReadReply(k, label) \/ RequestFails(k, label)
        PROVE  Shows(k)'
    <3>1. shown' = shown /\ pc[k] = "reply" /\ pc'[k] = label
      BY <1>1, <2>2 DEF ReadReply, RequestFails, Goto, ClientsTypeInv, CliTypeOK
    <3> QED
      BY <3>1, ShowsNothingYet DEF Listening, NothingSent, Calls
  <2>3. ASSUME NEW label \in Begins, Connect(k, label)
        PROVE  Shows(k)'
    <3>1. UNCHANGED <<taken, half, start, shown>> /\ pc[k] = "connect"
      BY <2>3 DEF Connect, svcVars
    <3> QED
      BY <1>1, <3>1, ShowsStays DEF NothingSent
  <2>4. CASE StartListening(k)
    BY <2>4, ShowsBegins
  <2>5. CASE ListenReads(k)
    BY <2>5, ShowsALine
  <2>6. CASE ListenTest(k) \/ ListenFails(k) \/ Disconnect(k)
    <3>1. UNCHANGED <<taken, half, start, shown>>
      BY <2>6 DEF ListenTest, ListenFails, Disconnect, svcVars, netVars
    <3>2. pc[k] \in Listening /\ pc'[k] \in Listening
      BY <1>1, <2>6 DEF ListenTest, ListenFails, Disconnect, Goto, Listening, ClientsTypeInv,
         CliTypeOK
    <3> QED
      BY <1>1, <3>1, <3>2, ShowsStays
  <2>7. CASE Signal(k) \/ Loss(k) \/ Notice(k)
    <3>1. UNCHANGED <<taken, half, start, shown, pc>>
      BY <2>7 DEF Signal, Loss, Notice, Leaves, svcVars, cliVars
    <3> QED
      BY <1>1, <3>1, ShowsStays
  <2>8. CASE Process(k)
    <3>1. UNCHANGED <<taken, half, cliVars>>
      BY <2>8, ProcessTypes
    <3> QED
      BY <1>1, <3>1, ShowsStays DEF cliVars
  <2>9. CASE Enter(k)
    <3>1. UNCHANGED <<taken, half, start, shown>> /\ pc[k] = "topics"
      BY <2>9 DEF Enter, EnterTopic, EnterNothing, GiveUp, svcVars, netVars
    <3> QED
      BY <1>1, <3>1, ShowsStays DEF NothingSent
  <2>10. k \notin Producers
    BY ClientConstantsOK
  <2> QED
    BY <2>1, <2>2, <2>3, <2>4, <2>5, <2>6, <2>7, <2>8, <2>9,
       <2>10 DEF ClientStep
<1> QED
  BY <1>2, <1>3

-------------------------------------------------------------------------------
(* Which lines are taken for replies. *)

\* No request is on its way and no line.
Quiet(c) == request[c] = <<>> /\ taken[c] = Len(mail[c])

\* The last request is on its way, or the reply to it and nothing else.
Waits(c)    == request[c] = <<Asked(c)>> /\ taken[c] = Len(mail[c])
Answered(c) == /\ request[c] = <<>>
               /\ Len(mail[c]) = taken[c] + 1
               /\ mail[c][taken[c] + 1] = ReplyTo(Asked(c))

\* As long as it is sent no message, a client has at most one request under way.  Of a
\* connection that is gone, at most the reply awaited may still come.
Replies(c) ==
    NoMessages(mail[c]) =>
        /\ c \notin half
        /\ \A n \in DOMAIN answer[c] : answer[c][n].line = ReplyTo(answer[c][n].to)
        /\ socket[c] \in {"new", "open"} =>
              /\ arrives[c] = 0
              /\ pc[c] = "reply" => Waits(c) \/ Answered(c)
              /\ pc[c] # "reply" => Quiet(c)
        /\ socket[c] \in {"lost", "closed"} =>
              \/ arrives[c] <= taken[c]
              \/ pc[c] = "reply" /\ Answered(c) /\ arrives[c] = taken[c] + 1

\* What the steps of a client may assume of it.
LEMMA OwnTypes ==
    ASSUME ClientsTypeInv, NEW c \in Clients
    PROVE  /\ request[c] \in Seq(Lines) /\ asked[c] \in Seq(Lines) /\ answer[c] \in Seq(Answers)
           /\ mail[c] \in Seq(Notes) /\ Len(mail[c]) \in Nat /\ taken[c] \in Nat
           /\ taken[c] <= Len(mail[c]) /\ arrives[c] \in Nat
           /\ socket[c] \in {"new", "open", "lost", "closed"}
  BY LenProperties DEF ClientsTypeInv, SvcTypeOK, CliTypeOK

LEMMA RepliesWrite ==
    ASSUME ClientsTypeInv, NEW c \in Clients, NEW line \in Lines, Write(c, line),
           pc[c] \in Calls, Replies(c)
    PROVE  Replies(c)'
<1> SUFFICES ASSUME NoMessages(mail'[c])
             PROVE  /\ c \notin half'
                    /\ \A n \in DOMAIN answer'[c] : answer'[c][n].line = ReplyTo(answer'[c][n].to)
                    /\ socket'[c] = "open" => arrives'[c] = 0 /\ Waits(c)'
                    /\ socket'[c] \in {"lost", "closed"} => arrives'[c] <= taken'[c]
                    /\ socket'[c] # "new" /\ pc'[c] = "reply"
  BY DEF Replies
<1>1. /\ mail' = mail /\ taken' = taken /\ half' = half /\ answer' = answer
      /\ socket' = socket /\ arrives' = arrives
      /\ pc'[c] = "reply" /\ asked'[c] = Append(asked[c], line)
      /\ socket[c] = "open" => request'[c] = Append(request[c], line)
  BY DEF Write, Goto, svcVars, ClientsTypeInv, CliTypeOK
<1>2. socket[c] # "new"
  BY DEF ClientsTypeInv, PcInv, Calls
<1>3. Asked(c)' = line
  <2>1. asked[c] \in Seq(Lines)
    BY OwnTypes
  <2>2. Len(asked'[c]) = Len(asked[c]) + 1 /\ asked'[c][Len(asked[c]) + 1] = line
    BY <1>1, <2>1, AppendProperties
  <2> QED
    BY <2>2 DEF Asked
<1>4. socket[c] = "open" => Waits(c)'
  <2>1. ASSUME socket[c] = "open"
        PROVE  request[c] = <<>> /\ taken[c] = Len(mail[c])
    BY <1>1, <2>1 DEF Replies, Quiet, Calls
  <2>2. Append(<<>>, line) = <<line>>
    OBVIOUS
  <2> QED
    BY <1>1, <1>3, <2>1, <2>2 DEF Waits
<1> QED
  BY <1>1, <1>2, <1>4 DEF Replies, Calls

\* The line that is taken for a reply is the one.
LEMMA RepliesRead ==
    ASSUME ClientsTypeInv, NEW c \in Clients, NEW label \in Calls,
           ReadReply(c, label), Replies(c)
    PROVE  Replies(c)'
<1> SUFFICES ASSUME NoMessages(mail'[c])
             PROVE  /\ c \notin half'
                    /\ \A n \in DOMAIN answer'[c] : answer'[c][n].line = ReplyTo(answer'[c][n].to)
                    /\ socket'[c] = "open" => arrives'[c] = 0 /\ Quiet(c)'
                    /\ socket'[c] \in {"lost", "closed"} => arrives'[c] <= taken'[c]
                    /\ socket'[c] # "new" /\ pc'[c] # "reply"
  BY DEF Replies
<1> DEFINE entry == [to |-> Asked(c), line |-> Incoming(c)]
<1>1. /\ mail' = mail /\ request' = request /\ socket' = socket /\ arrives' = arrives
      /\ answer'[c] = Append(answer[c], entry)
      /\ HasLine(c) /\ TakeLineAndDrop(c) /\ pc[c] = "reply" /\ pc'[c] # "reply"
  BY DEF ReadReply, Goto, Asked, ClientsTypeInv, CliTypeOK, Calls
<1>2. socket[c] \in {"open", "lost", "closed"}
  BY <1>1 DEF ClientsTypeInv, CliTypeOK, PcInv
<1>3. Answered(c) /\ (socket[c] = "open" \/ arrives[c] = taken[c] + 1)
  <2>1. /\ taken[c] < Len(mail[c]) /\ (socket[c] = "open" \/ taken[c] < arrives[c])
        /\ taken[c] \in Nat /\ arrives[c] \in Nat /\ Len(mail[c]) \in Nat
    BY <1>1, OwnTypes DEF HasLine
  <2>2. ~Quiet(c) /\ ~Waits(c)
    BY <2>1 DEF Quiet, Waits
  <2>3. socket[c] # "open" => ~(arrives[c] <= taken[c])
    BY <2>1
  <2> QED
    BY <1>1, <1>2, <2>2, <2>3 DEF Replies
<1>4. /\ taken'[c] \in taken[c] + 1 .. Len(mail[c]) /\ (c \in half' => taken'[c] < Len(mail[c]))
      /\ taken[c] \in Nat /\ Len(mail[c]) \in Nat
  BY <1>1, OwnTypes, DropEffect
<1>5. taken'[c] = Len(mail[c]) /\ taken'[c] = taken[c] + 1 /\ c \notin half'
  BY <1>3, <1>4 DEF Answered
<1>6. entry.line = ReplyTo(entry.to)
  <2>1. Incoming(c) = mail[c][taken[c] + 1]
    BY <1>1, IncomingType DEF Replies
  <2> QED
    BY <1>3, <2>1 DEF Answered
<1>7. \A n \in DOMAIN answer'[c] : answer'[c][n].line = ReplyTo(answer'[c][n].to)
  <2>1. /\ answer[c] \in Seq(Answers) /\ entry \in Answers
    BY <1>1, AskedType, IncomingType, OwnTypes DEF Answers
  <2>2. Len(answer[c]) \in Nat /\ DOMAIN answer[c] = 1 .. Len(answer[c])
    BY <2>1, LenProperties
  <2> HIDE DEF entry
  <2>3. /\ DOMAIN answer'[c] = 1 .. Len(answer[c]) + 1
        /\ \A n \in 1 .. Len(answer[c]) : answer'[c][n] = answer[c][n]
        /\ answer'[c][Len(answer[c]) + 1] = entry
    <3>1. /\ Append(answer[c], entry) \in Seq(Answers)
          /\ Len(Append(answer[c], entry)) = Len(answer[c]) + 1
          /\ \A n \in 1 .. Len(answer[c]) : Append(answer[c], entry)[n] = answer[c][n]
          /\ Append(answer[c], entry)[Len(answer[c]) + 1] = entry
      BY <2>1, AppendProperties
    <3> QED
      BY <1>1, <3>1, LenProperties
  <2>4. \A n \in 1 .. Len(answer[c]) : answer[c][n].line = ReplyTo(answer[c][n].to)
    BY <1>1, <2>2 DEF Replies
  <2>5. \A n \in DOMAIN answer'[c] : n \in 1 .. Len(answer[c]) \/ n = Len(answer[c]) + 1
    BY <2>2, <2>3
  <2> QED
    BY <1>6, <2>3, <2>4, <2>5
<1>8. socket'[c] = "open" => arrives'[c] = 0 /\ Quiet(c)'
  BY <1>1, <1>3, <1>5 DEF Replies, Answered, Quiet
<1>9. socket'[c] \in {"lost", "closed"} => arrives'[c] <= taken'[c]
  <2>1. taken[c] + 1 \in Nat
    BY <1>4
  <2> QED
    BY <1>1, <1>3, <1>5, <2>1
<1> QED
  BY <1>1, <1>2, <1>5, <1>7, <1>8, <1>9

\* The broker answers.
LEMMA RepliesProcess ==
    ASSUME ClientsTypeInv, NEW c \in Clients, Process(c), Replies(c)
    PROVE  Replies(c)'
<1> SUFFICES ASSUME NoMessages(mail'[c])
             PROVE  Replies(c)'
  BY DEF Replies
<1>1. /\ UNCHANGED <<taken, socket, arrives, half, pc, asked, answer>>
      /\ request' = [request EXCEPT ![c] = Tail(request[c])]
      /\ \E line \in Lines : GrowsByReply(c, line) /\ line = Head(request[c])
      /\ request[c] # <<>>
  BY ProcessTypes DEF Process, cliVars
<1>2. NoMessages(mail[c]) /\ mail'[c] = Append(mail[c], ReplyTo(Head(request[c])))
  BY <1>1 DEF GrowsByReply
<1>3. /\ mail[c] \in Seq(Notes) /\ Len(mail[c]) \in Nat /\ taken[c] \in Nat
      /\ socket[c] \in {"new", "open", "lost", "closed"}
  BY OwnTypes
<1>4. CASE socket[c] \in {"lost", "closed"}
  <2>1. arrives[c] <= taken[c]
    BY <1>1, <1>2, <1>4 DEF Replies, Answered
  <2> QED
    BY <1>1, <1>2, <1>4, <2>1 DEF Replies
<1>5. CASE socket[c] \in {"new", "open"}
  <2>1. pc[c] = "reply" /\ Waits(c)
    BY <1>1, <1>2, <1>5 DEF Replies, Quiet, Answered
  <2>2. request[c] = <<Asked(c)>> /\ taken[c] = Len(mail[c])
    BY <2>1 DEF Waits
  <2>3. Head(request[c]) = Asked(c) /\ Tail(request[c]) = <<>>
    BY <2>2
  <2>4. request'[c] = <<>>
    BY <1>1, <2>3 DEF ClientsTypeInv, CliTypeOK
  <2>5. Len(mail'[c]) = taken[c] + 1 /\ mail'[c][taken[c] + 1] = ReplyTo(Asked(c))
    <3>1. ReplyTo(Head(request[c])) \in Notes
      BY <1>1, RepliesAreNotes
    <3> QED
      BY <1>2, <1>3, <2>2, <2>3, <3>1, AppendProperties
  <2>6. Answered(c)'
    BY <1>1, <2>4, <2>5 DEF Answered, Asked
  <2> QED
    BY <1>1, <1>2, <1>5, <2>1, <2>6 DEF Replies
<1> QED
  BY <1>3, <1>4, <1>5

\* The connection is lost or closed: only what has come can still be read.
LEMMA RepliesDisconnected ==
    ASSUME ClientsTypeInv, NEW c \in Clients, NEW state \in {"lost", "closed"},
           Disconnected(c, state), Replies(c), socket[c] # "new",
           UNCHANGED <<mail, taken, half, request, asked, answer>>,
           pc'[c] = pc[c] \/ (pc[c] # "reply" /\ pc'[c] # "reply")
    PROVE  Replies(c)'
<1>1. /\ socket'[c] = state
      /\ arrives'[c] = IF socket[c] = "open" THEN Len(mail[c]) ELSE arrives[c]
  BY DEF Disconnected, ClientsTypeInv, CliTypeOK
<1>2. Asked(c)' = Asked(c)
  BY DEF Asked
<1>3. /\ Len(mail[c]) \in Nat /\ taken[c] \in Nat
      /\ socket[c] \in {"open", "lost", "closed"}
  BY OwnTypes
<1>4. CASE socket[c] = "open"
  BY <1>1, <1>2, <1>3, <1>4 DEF Replies, Quiet, Waits, Answered
<1>5. CASE socket[c] \in {"lost", "closed"}
  BY <1>1, <1>2, <1>3, <1>5 DEF Replies, Answered
<1> QED
  BY <1>3, <1>4, <1>5

\* Nothing of the connection changes, and no call begins or ends.
LEMMA RepliesStays ==
    ASSUME ClientsTypeInv, NEW c \in Clients, Replies(c), mail'[c] = mail[c],
           taken'[c] = taken[c], c \in half' <=> c \in half, request'[c] = request[c],
           asked'[c] = asked[c], answer'[c] = answer[c],
           socket'[c] = socket[c] \/ (socket[c] = "new" /\ socket'[c] = "open"),
           arrives'[c] = arrives[c],
           pc'[c] = pc[c] \/ (pc[c] # "reply" /\ pc'[c] # "reply")
    PROVE  Replies(c)'
<1>1. Asked(c)' = Asked(c)
  BY DEF Asked
<1>2. Quiet(c)' = Quiet(c) /\ Waits(c)' = Waits(c) /\ Answered(c)' = Answered(c)
  BY <1>1 DEF Quiet, Waits, Answered
<1>3. socket[c] \in {"new", "open", "lost", "closed"}
  BY OwnTypes
<1> QED
  BY <1>1, <1>2, <1>3 DEF Replies

\* A request that fails, and the end of a connection.
LEMMA RepliesFail ==
    ASSUME ClientsTypeInv, NEW c \in Clients, Replies(c),
           \/ \E label \in Calls : RequestFails(c, label)
           \/ Quit(c)
           \/ Notice(c)
    PROVE  Replies(c)'
<1>1. CASE \E label \in Calls : RequestFails(c, label)
  <2>1. /\ UNCHANGED <<mail, socket, half, answer, taken>>
        /\ arrives'[c] = taken[c] /\ pc[c] = "reply" /\ pc'[c] # "reply" /\ socket[c] # "open"
    BY <1>1 DEF RequestFails, Goto, svcVars, ClientsTypeInv, CliTypeOK, Calls
  <2>2. socket[c] \in {"lost", "closed"} /\ taken[c] \in Nat
    BY <2>1, OwnTypes DEF ClientsTypeInv, PcInv
  <2> QED
    BY <2>1, <2>2 DEF Replies
<1>2. CASE Quit(c)
  <2>1. /\ UNCHANGED <<mail, arrives, half, answer, taken>>
        /\ pc[c] = "prompt" /\ pc'[c] = "ended" /\ socket'[c] = "closed"
    BY <1>2 DEF Quit, Goto, svcVars, ClientsTypeInv, CliTypeOK
  <2>2. socket[c] \in {"new", "open", "lost", "closed"} /\ taken[c] \in Nat
    BY OwnTypes
  <2>3. NoMessages(mail[c]) => arrives[c] <= taken[c]
    BY <2>1, <2>2 DEF Replies
  <2> QED
    BY <2>1, <2>3 DEF Replies
<1>3. CASE Notice(c)
  <2>1. /\ UNCHANGED <<mail, arrives, half, answer, taken, socket, pc, asked>>
        /\ request'[c] = <<>> /\ socket[c] \in {"lost", "closed"}
    BY <1>3 DEF Notice, Leaves, cliVars, ClientsTypeInv, CliTypeOK
  <2> QED
    BY <2>1 DEF Replies, Answered, Asked
<1> QED
  BY <1>1, <1>2, <1>3

LEMMA RepliesStep ==
    ASSUME ClientsTypeInv, NEW c \in Clients, ClientStep(c), NEW d \in Clients, Replies(d)
    PROVE  Replies(d)'
<1>1. /\ ClientsTypeInv' /\ MailGrows /\ (Process(c) \/ mail' = mail)
      /\ d # c => Same(d) /\ (NoMessages(mail'[d]) => mail'[d] = mail[d])
  BY StepFrame
<1>2. CASE d # c
  <2>1. CASE mail'[d] = mail[d]
    BY <1>1, <1>2, <2>1, RepliesStays DEF Same
  <2>2. CASE mail'[d] # mail[d]
    BY <1>1, <1>2, <2>2 DEF Replies
  <2> QED
    BY <2>1, <2>2
<1>3. CASE d = c
  <2> USE <1>3 DEF Goto
  <2>1. ASSUME NEW line \in Lines, pc[c] \in Calls, Write(c, line)
        PROVE  Replies(c)'
    BY <2>1, RepliesWrite
  <2>2. ASSUME NEW label \in Calls, ReadReply(c, label)
        PROVE  Replies(c)'
    BY <2>2, RepliesRead
  <2>3. ASSUME NEW label \in Begins, Connect(c, label)
        PROVE  Replies(c)'
    <3>1. /\ UNCHANGED <<mail, taken, half, request, asked, answer, arrives>>
          /\ socket'[c] = socket[c] \/ (socket[c] = "new" /\ socket'[c] = "open")
          /\ pc[c] # "reply" /\ pc'[c] # "reply"
      BY <2>3 DEF Connect, svcVars, ClientsTypeInv, CliTypeOK, PcInv, Begins
    <3> QED
      BY <3>1, RepliesStays
  <2>4. CASE StartListening(c) \/ ListenTest(c) \/ ListenFails(c)
    <3>1. /\ UNCHANGED <<mail, taken, half, request, asked, answer, arrives, socket>>
          /\ pc[c] # "reply" /\ pc'[c] # "reply"
      BY <2>4 DEF StartListening, ListenTest, ListenFails, svcVars, netVars, ClientsTypeInv,
         CliTypeOK
    <3> QED
      BY <3>1, RepliesStays
  <2>5. CASE ListenReads(c)
    <3>1. mail' = mail /\ pc[c] = "read" /\ HasLine(c)
      BY <2>5 DEF ListenReads
    <3>2. ASSUME NoMessages(mail[c])
          PROVE  FALSE
      <4>1. /\ taken[c] < Len(mail[c]) /\ (socket[c] = "open" \/ taken[c] < arrives[c])
            /\ taken[c] \in Nat /\ arrives[c] \in Nat /\ Len(mail[c]) \in Nat
            /\ socket[c] \in {"new", "open", "lost", "closed"} /\ socket[c] # "new"
        BY <3>1, OwnTypes DEF HasLine, ClientsTypeInv, PcInv
      <4> QED
        BY <3>1, <3>2, <4>1 DEF Replies, Quiet
    <3> QED
      BY <3>1, <3>2 DEF Replies
  <2>6. CASE c \in Consumers /\ (Disconnect(c) \/ Signal(c))
    <3>1. /\ UNCHANGED <<mail, taken, half, request, asked, answer>>
          /\ pc'[c] = pc[c] \/ (pc[c] # "reply" /\ pc'[c] # "reply")
          /\ Stop(c)
      BY <2>6 DEF Disconnect, Signal, svcVars, ClientsTypeInv, CliTypeOK
    <3>2. CASE socket[c] = "new"
      BY <3>1, <3>2, RepliesStays DEF Stop
    <3>3. CASE socket[c] # "new"
      BY <3>1, <3>3, RepliesDisconnected DEF Stop
    <3> QED
      BY <3>2, <3>3
  <2>7. CASE Loss(c)
    BY <2>7, RepliesDisconnected DEF Loss, svcVars, cliVars
  <2>8. CASE Process(c)
    BY <2>8, RepliesProcess
  <2>9. CASE c \in Consumers /\ Enter(c)
    <3>1. /\ UNCHANGED <<mail, taken, half, request, asked, answer>>
          /\ pc[c] = "topics" /\ pc'[c] # "reply" /\ socket[c] # "new"
          /\ UNCHANGED <<socket, arrives>> \/ Disconnected(c, "closed")
      BY <2>9 DEF Enter, EnterTopic, EnterNothing, GiveUp, svcVars, netVars, ClientsTypeInv,
         CliTypeOK, PcInv
    <3> QED
      BY <3>1, RepliesStays, RepliesDisconnected
  <2> QED
    BY <2>1, <2>2, <2>3, <2>4, <2>5, <2>6, <2>7, <2>8, <2>9, RepliesFail DEF ClientStep
<1> QED
  BY <1>2, <1>3

-------------------------------------------------------------------------------

ClientsInv ==
    /\ ClientsTypeInv
    /\ \A k \in Consumers : Shows(k)
    /\ \A c \in Clients : Replies(c)

LEMMA InvInit == ClientsInit => ClientsInv
<1> SUFFICES ASSUME ClientsInit
             PROVE  ClientsInv
  OBVIOUS
<1>1. ClientsTypeInv
  BY TypesInit
<1>2. \A k \in Consumers : Shows(k)
  BY ClientConstantsOK DEF ClientsInit, Init, Shows, Listening, NothingSent
<1>3. \A c \in Clients : Replies(c)
  BY DEF ClientsInit, Init, Replies, Quiet
<1> QED
  BY <1>1, <1>2, <1>3 DEF ClientsInv

LEMMA InvStep == ClientsInv /\ [ClientsNext]_clientVars => ClientsInv'
<1> SUFFICES ASSUME ClientsInv, [ClientsNext]_clientVars
             PROVE  ClientsInv'
  OBVIOUS
<1>1. CASE ClientsNext
  <2>1. PICK c \in Clients : ClientStep(c)
    BY <1>1, StepsOfClients DEF ClientsInv
  <2> QED
    BY <2>1, StepFrame, ShowsStep, RepliesStep DEF ClientsInv
<1>2. CASE UNCHANGED clientVars
  <2> USE DEF clientVars, svcVars, netVars, cliVars
  <2>1. ClientsTypeInv'
    BY <1>2 DEF ClientsInv, ClientsTypeInv, SvcTypeOK, CliTypeOK, PcInv
  <2>2. \A k \in Consumers : Shows(k)'
    BY <1>2 DEF ClientsInv, Shows
  <2>3. \A c \in Clients : Replies(c)'
    BY <1>2 DEF ClientsInv, Replies, Quiet, Waits, Answered, Asked
  <2> QED
    BY <2>1, <2>2, <2>3 DEF ClientsInv
<1> QED
  BY <1>1, <1>2

-------------------------------------------------------------------------------
(* The service underneath. *)

\* Every step of the clients is one of the service or leaves alone what it keeps.
LEMMA ServiceStep ==
    ASSUME ClientsTypeInv, ServiceInv, NEW c \in Clients, ClientStep(c)
    PROVE  ServiceInv'
<1>1. CASE Process(c)
  <2>1. request[c] \in Seq(Lines) /\ request[c] # <<>>
    BY <1>1 DEF Process, ClientsTypeInv, CliTypeOK
  <2>2. PICK line \in Lines : Serve(c, line)
    BY <1>1, <2>1, HeadTailProperties DEF Process
  <2>3. line.cmd \in {"SUBSCRIBE", "UNSUBSCRIBE", "PUBLISH"} => line.topic \in Topics
    BY DEF Lines
  <2>4. line.cmd \in {"PING", "INVALID"} => ReplyTo(line).kind \in {"PONG", "ERROR"}
    BY DEF ReplyTo, Reply
  <2> QED
    BY <2>2, <2>3, <2>4, JoinKeepsInv, PublishKeepsInv, RespondKeepsInv DEF Serve
<1>2. CASE Notice(c)
  BY <1>2, OtherKeepsInv DEF Notice
<1>3. CASE ~Process(c) /\ ~Notice(c)
  <2>1. UNCHANGED <<members, log, next, mail>>
    BY <1>3 DEF ClientStep, Connect, ReadReply, RequestFails, Write, Quit, Enter,
       EnterTopic, EnterNothing, GiveUp, StartListening, ListenTest, ListenReads,
       ListenFails, Disconnect, Signal, Loss, svcVars
  <2> QED
    BY <2>1, OtherKeepsInv
<1> QED
  BY <1>1, <1>2, <1>3

\* Where the lines of a part of a stream are in the stream.
LEMMA PartIndex ==
    ASSUME NEW s \in Seq(Notes), NEW m \in Nat, NEW n \in Nat, n <= Len(s),
           SubSeq(s, m + 1, n) # <<>>
    PROVE  /\ m < n /\ Len(SubSeq(s, m + 1, n)) = n - m
           /\ \A i \in 1 .. Len(SubSeq(s, m + 1, n)) : SubSeq(s, m + 1, n)[i] = s[m + i]
<1> DEFINE v == SubSeq(s, m + 1, n)
<1>1. Len(s) \in Nat
  BY LenProperties
<1>2. \A i \in m + 1 .. n : s[i] \in Notes
  BY <1>1, ElementOfSeq
<1>3. /\ v \in Seq(Notes)
      /\ Len(v) = IF m + 1 <= n THEN n - (m + 1) + 1 ELSE 0
      /\ \A i \in 1 .. n - (m + 1) + 1 : v[i] = s[(m + 1) + i - 1]
  BY <1>2, SubSeqProperties
<1> HIDE DEF v
<1>4. Len(v) # 0
  BY <1>3, EmptySeq DEF v
<1>5. m < n /\ Len(v) = n - m
  BY <1>3, <1>4
<1>6. ASSUME NEW i \in 1 .. Len(v)
      PROVE  v[i] = s[m + i]
  <2>1. i \in 1 .. n - (m + 1) + 1 /\ (m + 1) + i - 1 = m + i
    BY <1>5
  <2> QED
    BY <1>3, <2>1
<1> QED
  BY <1>5, <1>6 DEF v

\* What is shown is a part of the mail, and the rest of the mail is on its way.
LEMMA ShownHasNoGap ==
    ASSUME ClientsInv, ServiceInv
    PROVE  ShownWithoutGap
<1> SUFFICES ASSUME NEW k \in Consumers, NEW t \in Topics, k \in members[t],
                    NEW i \in DOMAIN shown[k], IsMessage(shown[k][i]),
                    \A j \in start[k] + i .. Len(mail[k]) : mail[k][j] # Reply("SUBSCRIBED", t),
                    NEW m \in DOMAIN log[t], log[t][m] >= shown[k][i].seq
             PROVE  \/ \E j \in i .. Len(shown[k]) : shown[k][j] = Message(t, log[t][m])
                    \/ \E j \in taken[k] + 1 .. Len(mail[k]) :
                           mail[k][j] = Message(t, log[t][m])
  BY DEF ShownWithoutGap
<1> DEFINE from == start[k] + i
<1>1. /\ k \in Clients /\ ClientsTypeInv /\ Shows(k)
      /\ mail[k] \in Seq(Notes) /\ taken[k] \in Nat /\ taken[k] <= Len(mail[k])
      /\ start[k] \in Nat /\ shown[k] \in Seq(Notes) /\ Len(mail[k]) \in Nat
  BY ClientConstantsOK, LenProperties DEF ClientsInv, ClientsTypeInv, SvcTypeOK, CliTypeOK
<1>2. shown[k] = SubSeq(mail[k], start[k] + 1, taken[k])
  <2>1. shown[k] # <<>>
    OBVIOUS
  <2> QED
    BY <1>1, <2>1 DEF Shows
<1>3. /\ Len(shown[k]) = taken[k] - start[k] /\ start[k] < taken[k]
      /\ i \in 1 .. Len(shown[k])
      /\ \A n \in 1 .. Len(shown[k]) : shown[k][n] = mail[k][start[k] + n]
  <2>1. i \in 1 .. Len(shown[k]) /\ shown[k] # <<>>
    BY <1>1, LenProperties
  <2> DEFINE v == SubSeq(mail[k], start[k] + 1, taken[k])
  <2>2. v # <<>>
    BY <1>2, <2>1
  <2>3. /\ start[k] < taken[k] /\ Len(v) = taken[k] - start[k]
        /\ \A n \in 1 .. Len(v) : v[n] = mail[k][start[k] + n]
    BY <1>1, <2>2, PartIndex
  <2> HIDE DEF v
  <2> QED
    BY <1>2, <2>1, <2>3 DEF v
<1>4. from \in DOMAIN mail[k] /\ mail[k][from] = shown[k][i]
  BY <1>1, <1>3, LenProperties
<1>5. PICK j \in from .. Len(mail[k]) : mail[k][j] = Message(t, log[t][m])
  <2>1. MissesNothing
    BY DEF ServiceInv
  <2> HIDE DEF from
  <2>2. \A j \in from .. Len(mail[k]) : mail[k][j] # Reply("SUBSCRIBED", t)
    BY DEF from
  <2> QED
    BY <1>4, <2>1, <2>2 DEF MissesNothing
<1>6. CASE j <= taken[k]
  <2>1. j - start[k] \in i .. Len(shown[k]) /\ j - start[k] \in 1 .. Len(shown[k])
    BY <1>1, <1>3, <1>6
  <2>2. start[k] + (j - start[k]) = j
    BY <1>1, <1>3, <1>6
  <2>3. shown[k][j - start[k]] = Message(t, log[t][m])
    BY <1>3, <1>5, <2>1, <2>2
  <2> QED
    BY <2>1, <2>3
<1>7. CASE ~(j <= taken[k])
  <2>1. j \in taken[k] + 1 .. Len(mail[k])
    BY <1>1, <1>3, <1>7
  <2> QED
    BY <1>5, <2>1
<1> QED
  BY <1>6, <1>7

-------------------------------------------------------------------------------

\* The buffer that start_listening keeps between its reads loses no line and shows none
\* twice, whatever came before and however the connection ends.
THEOREM ConsumerShowsStream == ClientsSpec => []ShownIsStream
<1>1. ClientsInv => ShownIsStream
  BY DEF ClientsInv, Shows, Listening, ShownIsStream
<1> QED
  BY <1>1, InvInit, InvStep, PTL DEF ClientsSpec

\* Taking the next line for the reply is right for a client that is sent no MESSAGE.
THEOREM RepliesAnswerRequests == ClientsSpec => []RepliesMatchWithoutMessages
<1>1. ClientsInv => RepliesMatchWithoutMessages
  BY DEF ClientsInv, Replies, RepliesMatchWithoutMessages
<1> QED
  BY <1>1, InvInit, InvStep, PTL DEF ClientsSpec

\* What subscribe, publish and start_listening do with their buffers, and a connection
\* that breaks, make no gap in what a consumer shows: the broker's publications of a topic
\* reach the screen in one piece.
THEOREM ConsumerMissesNothing == ClientsSpec => []ShownWithoutGap
<1>1. ClientsInit => ServiceInv
  BY ServiceInit DEF ClientsInit
<1>2. ClientsInv /\ ServiceInv /\ [ClientsNext]_clientVars => ServiceInv'
  <2> SUFFICES ASSUME ClientsInv, ServiceInv, [ClientsNext]_clientVars
               PROVE  ServiceInv'
    OBVIOUS
  <2>1. CASE ClientsNext
    BY <2>1, StepsOfClients, ServiceStep DEF ClientsInv
  <2>2. CASE UNCHANGED clientVars
    BY <2>2, OtherKeepsInv DEF clientVars, svcVars
  <2> QED
    BY <2>1, <2>2
<1>3. ClientsInv /\ ServiceInv => ShownWithoutGap
  BY ShownHasNoGap
<1> QED
  BY <1>1, <1>2, <1>3, InvInit, InvStep, PTL DEF ClientsSpec
===============================================================================
