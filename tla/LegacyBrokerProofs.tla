-------------------------- MODULE LegacyBrokerProofs --------------------------
(***************************************************************************)
(* Theorems about LegacyBroker, for every set of clients and descriptors,  *)
(* every socket capacity and every bound.                                  *)
(***************************************************************************)
EXTENDS LegacyBroker, SequenceTheorems, TLAPS

\* clients_mtx_ is held by the one thread that broadcasts, and it still has only
\* sockets to serve that are connected; a thread exists only for a connection, and
\* has a descriptor of the kernel's.
LockInv ==
    /\ \A c \in Clients : pc[c] = "send" <=> clientsLock = c
    /\ \A c \in Clients : pc[c] = "send" => todo[c] \subseteq connected_clients
    /\ \A c \in Clients : conn[c] = "absent" => pc[c] = "none"
    /\ \A c \in Clients : HasFd(c) => fd[c] \in Fds

\* The sockets: what HandledSockets needs to be inductive.
SocketInv == LegacyTypeOK /\ ConnectedAreHandled /\ LockInv

-------------------------------------------------------------------------------

\* A step that changes no socket, and no thread's part in the set, keeps the set right.
LEMMA SocketsStay ==
    ASSUME ConnectedAreHandled, UNCHANGED <<connected_clients, fd>>,
           \A c \in Clients : pc'[c] \in Handling <=> pc[c] \in Handling,
           \A c \in Clients : HasFd(c)' => HasFd(c)
    PROVE  ConnectedAreHandled'
<1>1. {d \in Clients : pc'[d] \in Handling} = {d \in Clients : pc[d] \in Handling}
  BY DEF HasFd
<1>2. connected_clients' = {fd'[d] : d \in {e \in Clients : pc'[e] \in Handling}}
  BY <1>1 DEF ConnectedAreHandled
<1>3. \A c, d \in Clients : c # d /\ HasFd(c)' /\ HasFd(d)' => fd'[c] # fd'[d]
  BY DEF ConnectedAreHandled, HasFd
<1> QED
  BY <1>2, <1>3 DEF ConnectedAreHandled

\* The sockets are right when the broker has started.
LEMMA SocketInit == LegacyInit => SocketInv
  BY LegacyConstantsOK DEF LegacyInit, SocketInv, LegacyTypeOK, ConnectedAreHandled,
     LockInv, HasFd, Handling

\* The pieces of one publication: all of them are its, and what follows the first is
\* its tail.
LEMMA Pieces ==
    ASSUME NEW m \in Nat, NEW parts \in Arrivals, NEW p,
           p = [i \in DOMAIN parts |-> [of |-> m, part |-> parts[i]]]
    PROVE  /\ p \in Seq(Segments)
           /\ \A i \in 1 .. Len(p) : p[i].of = m /\ (i # 1 => p[i].part = "tail")
<1>1. PICK h \in {"head", "cut"} : parts = <<h>> \/ parts = <<h, "tail">>
  BY DEF Arrivals
<1>2. CASE parts = <<h>>
  <2>1. p = <<[of |-> m, part |-> h]>>
    BY <1>2
  <2> QED
    BY <2>1 DEF Segments
<1>3. CASE parts = <<h, "tail">>
  <2>1. p = <<[of |-> m, part |-> h], [of |-> m, part |-> "tail"]>>
    BY <1>3
  <2> QED
    BY <2>1 DEF Segments
<1> QED
  BY <1>1, <1>2, <1>3

\* recv takes the first n segments and leaves the others.
LEMMA Received ==
    ASSUME NEW s \in Seq(Segments), NEW n \in 1 .. Len(s)
    PROVE  /\ s[1] \in Segments /\ SubSeq(s, 1, n)[1] = s[1]
           /\ SubSeq(s, n + 1, Len(s)) \in Seq(Segments)
           /\ Len(SubSeq(s, n + 1, Len(s))) = Len(s) - n
           /\ \A i \in 1 .. Len(s) - n : SubSeq(s, n + 1, Len(s))[i] = s[n + i]
<1>1. Len(s) \in Nat /\ \A i \in 1 .. Len(s) : s[i] \in Segments
  BY LenProperties, ElementOfSeq
<1>2. SubSeq(s, 1, n)[1] = s[1]
  <2>1. \A i \in 1 .. n : s[i] \in Segments
    BY <1>1
  <2> QED
    BY <2>1, SubSeqProperties
<1>3. \A i \in n + 1 .. Len(s) : s[i] \in Segments
  BY <1>1
<1>4. /\ SubSeq(s, n + 1, Len(s)) \in Seq(Segments)
      /\ Len(SubSeq(s, n + 1, Len(s))) =
            IF n + 1 <= Len(s) THEN Len(s) - (n + 1) + 1 ELSE 0
      /\ \A i \in 1 .. Len(s) - (n + 1) + 1 :
            SubSeq(s, n + 1, Len(s))[i] = s[n + 1 + i - 1]
  BY <1>1, <1>3, SubSeqProperties
<1>5. /\ Len(s) - (n + 1) + 1 = Len(s) - n /\ \A i \in Int : n + 1 + i - 1 = n + i
      /\ (IF n + 1 <= Len(s) THEN Len(s) - (n + 1) + 1 ELSE 0) = Len(s) - n
  BY <1>1
<1>6. \A i \in 1 .. Len(s) - n : SubSeq(s, n + 1, Len(s))[i] = s[n + i]
  <2>1. ASSUME NEW i \in 1 .. Len(s) - n
        PROVE  SubSeq(s, n + 1, Len(s))[i] = s[n + i]
    <3>1. i \in 1 .. Len(s) - (n + 1) + 1 /\ n + 1 + i - 1 = n + i
      BY <1>1
    <3>2. SubSeq(s, n + 1, Len(s))[i] = s[n + 1 + i - 1]
      BY <1>4, <3>1
    <3> QED
      BY <3>1, <3>2
  <2> QED
    BY <2>1
<1>7. Len(SubSeq(s, n + 1, Len(s))) = Len(s) - n
  BY <1>4, <1>5
<1>8. s[1] \in Segments
  BY <1>1
<1> QED
  BY <1>2, <1>4, <1>6, <1>7, <1>8

\* One step per action: the types, the set of sockets, and the mutex.
LEMMA SocketStep == SocketInv /\ [LegacyNext]_vars => SocketInv'
<1> SUFFICES ASSUME SocketInv, [LegacyNext]_vars
             PROVE  SocketInv'
  OBVIOUS
<1> USE LegacyConstantsOK DEF SocketInv, HasFd, Handling
<1>1. CASE AcceptTest
  <2>1. LegacyTypeOK'
    BY <1>1 DEF AcceptTest, clientVars, threadVars, topicVars, LegacyTypeOK, LockInv
  <2>2. ConnectedAreHandled'
    BY <1>1 DEF AcceptTest, clientVars, threadVars, topicVars, LegacyTypeOK,
       ConnectedAreHandled
  <2>3. LockInv'
    BY <1>1 DEF AcceptTest, clientVars, threadVars, topicVars, LegacyTypeOK, LockInv
  <2> QED
    BY <2>1, <2>2, <2>3
<1>2. ASSUME NEW c \in Clients, AcceptReturns(c)
     PROVE  SocketInv'
  <2>1. LegacyTypeOK'
    <3>1. PICK n \in Fds : fd' = [fd EXCEPT ![c] = n]
      BY <1>2 DEF AcceptReturns
    <3>2. fd' \in [Clients -> Nat]
      BY <3>1 DEF LegacyTypeOK
    <3>3. pc' \in [Clients -> Handling \cup {"none", "accepted", "close", "done"}]
      BY <1>2 DEF AcceptReturns, LegacyTypeOK
    <3> QED
      BY <1>2, <3>2, <3>3 DEF AcceptReturns, clientVars, topicVars, LegacyTypeOK
  <2>2. ConnectedAreHandled'
    <3>1. PICK n \in Fds : Lowest(n, Fds \ OpenFds) /\ fd' = [fd EXCEPT ![c] = n]
      BY <1>2 DEF AcceptReturns
    <3>2. n \notin OpenFds
      BY <3>1 DEF Lowest
    <3>3. \A d \in Clients : HasFd(d) => fd[d] # n
      BY <3>2 DEF OpenFds
    <3>4. pc[c] = "none" /\ pc' = [pc EXCEPT ![c] = "accepted"] /\ UNCHANGED connected_clients
      BY <1>2 DEF AcceptReturns
    <3>5. {d \in Clients : pc'[d] \in Handling} = {d \in Clients : pc[d] \in Handling}
      BY <3>4 DEF LegacyTypeOK
    <3>6. \A d \in Clients : pc[d] \in Handling => fd'[d] = fd[d]
      BY <3>1, <3>4 DEF LegacyTypeOK
    <3>7. connected_clients' = {fd'[d] : d \in {e \in Clients : pc'[e] \in Handling}}
      BY <3>4, <3>5, <3>6 DEF ConnectedAreHandled
    <3>8. \A d, e \in Clients : d # e /\ HasFd(d)' /\ HasFd(e)' => fd'[d] # fd'[e]
      BY <3>1, <3>3, <3>4 DEF ConnectedAreHandled, LegacyTypeOK
    <3> QED
      BY <3>7, <3>8 DEF ConnectedAreHandled
  <2>3. LockInv'
    BY <1>2 DEF AcceptReturns, Lowest, OpenFds, clientVars, topicVars, LegacyTypeOK,
       LockInv
  <2> QED
    BY <2>1, <2>2, <2>3
<1>3. ASSUME NEW c \in Clients, AcceptInserts(c)
     PROVE  SocketInv'
  <2>1. LegacyTypeOK'
    BY <1>3 DEF AcceptInserts, clientVars, threadVars, topicVars, LegacyTypeOK,
       LockInv
  <2>2. ConnectedAreHandled'
    <3>1. /\ pc[c] = "accepted" /\ pc' = [pc EXCEPT ![c] = "test"]
          /\ connected_clients' = connected_clients \cup {fd[c]} /\ fd' = fd
      BY <1>3 DEF AcceptInserts, threadVars
    <3>2. {d \in Clients : pc'[d] \in Handling} = {d \in Clients : pc[d] \in Handling} \cup {c}
      BY <3>1 DEF LegacyTypeOK
    <3>3. connected_clients' = {fd'[d] : d \in {e \in Clients : pc'[e] \in Handling}}
      BY <3>1, <3>2 DEF ConnectedAreHandled
    <3>4. \A d \in Clients : HasFd(d)' => HasFd(d)
      BY <3>1 DEF LegacyTypeOK
    <3> QED
      BY <3>1, <3>3, <3>4 DEF ConnectedAreHandled
  <2>3. LockInv'
    BY <1>3 DEF AcceptInserts, clientVars, threadVars, topicVars, LegacyTypeOK,
       LockInv
  <2> QED
    BY <2>1, <2>2, <2>3
<1>4. ASSUME NEW c \in Clients, Connect(c)
     PROVE  SocketInv'
  <2>1. LegacyTypeOK'
    BY <1>4 DEF Connect, threadVars, topicVars, serverVars, LegacyTypeOK, LockInv
  <2>2. ConnectedAreHandled'
    BY <1>4, SocketsStay DEF Connect, threadVars, LegacyTypeOK
  <2>3. LockInv'
    BY <1>4 DEF Connect, threadVars, topicVars, serverVars, LegacyTypeOK, LockInv
  <2> QED
    BY <2>1, <2>2, <2>3
<1>5. ASSUME NEW c \in Clients, Send(c)
     PROVE  SocketInv'
  <2>1. LegacyTypeOK'
    <3>1. PICK parts \in Arrivals :
             toBroker' = [toBroker EXCEPT ![c] = @ \o
                             [i \in DOMAIN parts |-> [of |-> sent'[c], part |-> parts[i]]]]
      BY <1>5 DEF Send
    <3>2. sent' \in [Clients -> Nat] /\ sent'[c] \in Nat
      <4>1. sent' = [sent EXCEPT ![c] = sent[c] + 1] /\ sent \in [Clients -> Nat]
        BY <1>5 DEF Send, LegacyTypeOK
      <4> QED
        BY <4>1
    <3> DEFINE p == [i \in DOMAIN parts |-> [of |-> sent'[c], part |-> parts[i]]]
    <3>3. p \in Seq(Segments)
      BY <3>2, Pieces
    <3>4. toBroker[c] \o p \in Seq(Segments)
      BY <3>3, ConcatProperties DEF LegacyTypeOK
    <3>5. toBroker' \in [Clients -> Seq(Segments)]
      BY <3>1, <3>4 DEF LegacyTypeOK
    <3>6. UNCHANGED <<conn, toClient, got, pc, fd, number, todo, data, connected_clients,
                      clientsLock, topics, sequence_counter, acceptPc, running,
                      serverOpen, mainPc, order>>
      BY <1>5 DEF Send, threadVars, topicVars, serverVars
    <3> QED
      BY <3>2, <3>5, <3>6 DEF LegacyTypeOK
  <2>2. ConnectedAreHandled'
    BY <1>5, SocketsStay DEF Send, threadVars, LegacyTypeOK
  <2>3. LockInv'
    BY <1>5 DEF Send, threadVars, topicVars, serverVars, LegacyTypeOK, LockInv
  <2> QED
    BY <2>1, <2>2, <2>3
<1>6. ASSUME NEW c \in Clients, Receive(c)
     PROVE  SocketInv'
  <2>1. LegacyTypeOK'
    <3>1. /\ Head(toClient[c]) \in Nat /\ Tail(toClient[c]) \in Seq(Nat)
          /\ Append(got[c], Head(toClient[c])) \in Seq(Nat)
      BY <1>6, HeadTailProperties, AppendProperties DEF Receive, LegacyTypeOK
    <3>2. got' \in [Clients -> Seq(Nat)] /\ toClient' \in [Clients -> Seq(Nat)]
      BY <1>6, <3>1 DEF Receive, LegacyTypeOK
    <3> QED
      BY <1>6, <3>2 DEF Receive, threadVars, topicVars, serverVars, LegacyTypeOK
  <2>2. ConnectedAreHandled'
    BY <1>6, SocketsStay DEF Receive, threadVars, LegacyTypeOK
  <2>3. LockInv'
    BY <1>6 DEF Receive, threadVars, topicVars, serverVars, LegacyTypeOK, LockInv
  <2> QED
    BY <2>1, <2>2, <2>3
<1>7. ASSUME NEW c \in Clients, Close(c)
     PROVE  SocketInv'
  <2>1. LegacyTypeOK'
    BY <1>7 DEF Close, threadVars, topicVars, serverVars, LegacyTypeOK, LockInv
  <2>2. ConnectedAreHandled'
    BY <1>7, SocketsStay DEF Close, threadVars, LegacyTypeOK
  <2>3. LockInv'
    BY <1>7 DEF Close, threadVars, topicVars, serverVars, LegacyTypeOK, LockInv
  <2> QED
    BY <2>1, <2>2, <2>3
<1>8. ASSUME NEW c \in Clients, HandlerTest(c)
     PROVE  SocketInv'
  <2>1. LegacyTypeOK'
    BY <1>8 DEF HandlerTest, At, Goto, clientVars, threadVars, topicVars, serverVars,
       LegacyTypeOK, LockInv
  <2>2. ConnectedAreHandled'
    BY <1>8, SocketsStay DEF HandlerTest, At, Goto, threadVars, LegacyTypeOK
  <2>3. LockInv'
    BY <1>8 DEF HandlerTest, At, Goto, clientVars, threadVars, topicVars, serverVars,
       LegacyTypeOK, LockInv
  <2> QED
    BY <2>1, <2>2, <2>3
<1>9. ASSUME NEW c \in Clients, HandlerRecv(c)
     PROVE  SocketInv'
  <2>1. PICK n \in 1 .. Len(toBroker[c]) :
           /\ toBroker' = [toBroker EXCEPT ![c] = SubSeq(@, n + 1, Len(@))]
           /\ \/ data' = [data EXCEPT ![c] = SubSeq(toBroker[c], 1, n)[1].of]
              \/ data' = data
    BY <1>9 DEF HandlerRecv
  <2>2. PICK label \in {"publish", "test"} : pc' = [pc EXCEPT ![c] = label]
    BY <1>9 DEF HandlerRecv, Goto
  <2>3. /\ pc[c] = "recv"
        /\ UNCHANGED <<conn, toClient, got, sent, fd, number, todo, connected_clients,
                       clientsLock, topicVars, serverVars, order>>
    BY <1>9 DEF HandlerRecv, At
  <2>4. LegacyTypeOK'
    <3>1. /\ SubSeq(toBroker[c], n + 1, Len(toBroker[c])) \in Seq(Segments)
          /\ SubSeq(toBroker[c], 1, n)[1].of \in Nat
      <4>1. toBroker[c] \in Seq(Segments)
        BY DEF LegacyTypeOK
      <4> QED
        BY <4>1, Received DEF Segments
    <3>2. toBroker' \in [Clients -> Seq(Segments)]
      BY <2>1, <3>1 DEF LegacyTypeOK
    <3>3. data' \in [Clients -> Nat]
      BY <2>1, <3>1 DEF LegacyTypeOK
    <3>4. pc' \in [Clients -> Handling \cup {"none", "accepted", "close", "done"}]
      BY <2>2 DEF LegacyTypeOK
    <3> QED
      BY <2>3, <3>2, <3>3, <3>4 DEF topicVars, serverVars, LegacyTypeOK
  <2>5. ConnectedAreHandled'
    BY <2>2, <2>3, SocketsStay DEF LegacyTypeOK
  <2>6. LockInv'
    BY <2>2, <2>3 DEF LegacyTypeOK, LockInv
  <2> QED
    BY <2>4, <2>5, <2>6
<1>10. ASSUME NEW c \in Clients, HandlerEnds(c)
     PROVE  SocketInv'
  <2>1. LegacyTypeOK'
    BY <1>10 DEF HandlerEnds, At, Goto, clientVars, threadVars, topicVars,
       serverVars, LegacyTypeOK, LockInv
  <2>2. ConnectedAreHandled'
    BY <1>10, SocketsStay DEF HandlerEnds, At, Goto, threadVars, LegacyTypeOK
  <2>3. LockInv'
    BY <1>10 DEF HandlerEnds, At, Goto, clientVars, threadVars, topicVars,
       serverVars, LegacyTypeOK, LockInv
  <2> QED
    BY <2>1, <2>2, <2>3
<1>11. ASSUME NEW c \in Clients, Publish(c)
     PROVE  SocketInv'
  <2>1. LegacyTypeOK'
    <3>1. [seq |-> sequence_counter, by |-> c, of |-> data[c]] \in Stored
      BY DEF Stored, LegacyTypeOK
    <3>2. topics' \in Seq(Stored)
      BY <1>11, <3>1, AppendProperties DEF Publish, LegacyTypeOK
    <3> QED
      BY <1>11, <3>2, SMTT(30) DEF Publish, At, Goto, clientVars, serverVars, LegacyTypeOK
  <2>2. ConnectedAreHandled'
    BY <1>11, SocketsStay DEF Publish, At, Goto, LegacyTypeOK
  <2>3. LockInv'
    BY <1>11 DEF Publish, At, Goto, clientVars, serverVars, LegacyTypeOK, LockInv
  <2> QED
    BY <2>1, <2>2, <2>3
<1>12. ASSUME NEW c \in Clients, BroadcastBegin(c)
     PROVE  SocketInv'
  <2>1. LegacyTypeOK'
    BY <1>12 DEF BroadcastBegin, At, Goto, clientVars, topicVars, serverVars,
       LegacyTypeOK, LockInv
  <2>2. ConnectedAreHandled'
    BY <1>12, SocketsStay DEF BroadcastBegin, At, Goto, LegacyTypeOK
  <2>3. LockInv'
    BY <1>12 DEF BroadcastBegin, At, Goto, clientVars, topicVars, serverVars,
       LegacyTypeOK, LockInv
  <2> QED
    BY <2>1, <2>2, <2>3
<1>13. ASSUME NEW c \in Clients, BroadcastSend(c)
     PROVE  SocketInv'
  <2>1. LegacyTypeOK'
    <3>1. toClient' \in [Clients -> Seq(Nat)]
      <4>1. \A d \in Clients : Append(toClient[d], number[c]) \in Seq(Nat)
        BY AppendProperties DEF LegacyTypeOK
      <4>2. PICK d \in Clients :
               \/ UNCHANGED toClient
               \/ toClient' = [toClient EXCEPT ![d] = Append(@, number[c])]
        BY <1>13 DEF BroadcastSend
      <4> QED
        BY <4>1, <4>2 DEF LegacyTypeOK
    <3>2. todo' \in [Clients -> SUBSET Fds]
      <4>1. PICK d \in Clients : todo' = [todo EXCEPT ![c] = todo[c] \ {fd[d]}]
        BY <1>13 DEF BroadcastSend, LegacyTypeOK
      <4>2. todo[c] \ {fd[d]} \subseteq Fds /\ todo \in [Clients -> SUBSET Fds]
        BY DEF LegacyTypeOK
      <4> QED
        BY <4>1, <4>2
    <3> QED
      BY <1>13, <3>1, <3>2 DEF BroadcastSend, clientVars, topicVars, serverVars,
         LegacyTypeOK
  <2>2. ConnectedAreHandled'
    BY <1>13, SocketsStay DEF BroadcastSend, At, LegacyTypeOK
  <2>3. LockInv'
    BY <1>13 DEF BroadcastSend, Lowest, At, clientVars, topicVars, serverVars,
       LegacyTypeOK, LockInv
  <2> QED
    BY <2>1, <2>2, <2>3
<1>14. ASSUME NEW c \in Clients, BroadcastEnd(c)
     PROVE  SocketInv'
  <2>1. LegacyTypeOK'
    BY <1>14 DEF BroadcastEnd, At, Goto, clientVars, threadVars, topicVars,
       serverVars, LegacyTypeOK, LockInv
  <2>2. ConnectedAreHandled'
    BY <1>14, SocketsStay DEF BroadcastEnd, At, Goto, threadVars, LegacyTypeOK
  <2>3. LockInv'
    BY <1>14 DEF BroadcastEnd, At, Goto, clientVars, threadVars, topicVars,
       serverVars, LegacyTypeOK, LockInv
  <2> QED
    BY <2>1, <2>2, <2>3
<1>15. ASSUME NEW c \in Clients, HandlerExit(c)
      PROVE  SocketInv'
  <2>1. CASE pc[c] = "remove"
    <3>1. /\ connected_clients' = connected_clients \ {fd[c]}
          /\ pc' = [pc EXCEPT ![c] = "close"]
          /\ clientsLock = NoOne
          /\ UNCHANGED <<clientVars, toClient, threadVars, clientsLock, topicVars,
                         serverVars, order>>
      BY <1>15, <2>1 DEF HandlerExit, At, Goto
    <3>2. LegacyTypeOK'
      BY <3>1 DEF clientVars, threadVars, topicVars, serverVars, LegacyTypeOK
    <3>3. {d \in Clients : pc'[d] \in Handling} = {d \in Clients : pc[d] \in Handling} \ {c}
      BY <2>1, <3>1 DEF LegacyTypeOK
    <3>4. \A d \in Clients : pc[d] \in Handling /\ fd[d] = fd[c] => d = c
      BY <2>1 DEF ConnectedAreHandled
    <3>5. connected_clients' = {fd[d] : d \in {e \in Clients : pc'[e] \in Handling}}
      BY <2>1, <3>1, <3>3, <3>4 DEF ConnectedAreHandled
    <3>6. ConnectedAreHandled'
      <4>1. fd' = fd /\ \A d \in Clients : HasFd(d)' => HasFd(d)
        BY <2>1, <3>1 DEF threadVars, LegacyTypeOK
      <4> QED
        BY <3>5, <4>1 DEF ConnectedAreHandled
    <3>7. LockInv'
      BY <2>1, <3>1 DEF LockInv, clientVars, threadVars, LegacyTypeOK
    <3> QED
      BY <3>2, <3>6, <3>7
  <2>2. CASE pc[c] = "close"
    <3>1. /\ pc' = [pc EXCEPT ![c] = "done"]
          /\ UNCHANGED <<clientVars, toClient, threadVars, connected_clients, clientsLock,
                         topicVars, serverVars, order>>
      BY <1>15, <2>2 DEF HandlerExit, At, Goto
    <3>2. LegacyTypeOK'
      BY <3>1 DEF clientVars, threadVars, topicVars, serverVars, LegacyTypeOK
    <3>3. ConnectedAreHandled'
      BY <2>2, <3>1, SocketsStay DEF threadVars, LegacyTypeOK
    <3>4. LockInv'
      BY <2>2, <3>1 DEF LockInv, clientVars, threadVars, LegacyTypeOK
    <3> QED
      BY <3>2, <3>3, <3>4
  <2> QED
    BY <1>15, <2>1, <2>2 DEF HandlerExit, At
<1>16. CASE Stop
  <2>1. LegacyTypeOK'
    BY <1>16 DEF Stop, StopBegin, StopCloses, StopJoins, clientVars, threadVars,
       topicVars, LegacyTypeOK, LockInv
  <2>2. ConnectedAreHandled'
    BY <1>16, SocketsStay DEF Stop, StopBegin, StopCloses, StopJoins, threadVars
  <2>3. LockInv'
    BY <1>16 DEF Stop, StopBegin, StopCloses, StopJoins, clientVars, threadVars,
       topicVars, LegacyTypeOK, LockInv
  <2> QED
    BY <2>1, <2>2, <2>3
<1>17. CASE UNCHANGED vars
  <2>1. LegacyTypeOK'
    BY <1>17 DEF vars, clientVars, threadVars, topicVars, serverVars, LegacyTypeOK,
       LockInv
  <2>2. ConnectedAreHandled'
    BY <1>17, SocketsStay DEF vars, threadVars
  <2>3. LockInv'
    BY <1>17 DEF vars, clientVars, threadVars, topicVars, serverVars, LegacyTypeOK,
       LockInv
  <2> QED
    BY <2>1, <2>2, <2>3
<1> QED
  BY <1>1, <1>2, <1>3, <1>4, <1>5, <1>6, <1>7, <1>8, <1>9, <1>10, <1>11, <1>12,
     <1>13, <1>14, <1>15, <1>16, <1>17 DEF LegacyNext, AcceptConnections,
     HandleClient

\* The set of connected sockets and the threads that serve them agree, at every
\* interleaving of the accept thread, the handlers, the broadcasts and stop.
THEOREM HandledSockets == LegacySpec => []ConnectedAreHandled
<1>1. SocketInv => ConnectedAreHandled
  BY DEF SocketInv
<1> QED
  BY <1>1, SocketInit, SocketStep, PTL DEF LegacySpec

\* Every reachable state is well typed.
THEOREM LegacyTypeCorrect == LegacySpec => []LegacyTypeOK
<1>1. SocketInv => LegacyTypeOK
  BY DEF SocketInv
<1> QED
  BY <1>1, SocketInit, SocketStep, PTL DEF LegacySpec

-------------------------------------------------------------------------------
(* The publications that the clients are sent. *)

\* s is what o has at the places n + 1, n + 2 ...
Within(s, o, n) ==
    /\ n \in 0 .. Len(o) - Len(s)
    /\ \A i \in 1 .. Len(s) : s[i] = o[n + i]

\* How many publications a connected client has been sent: all of them, or all but
\* the one whose broadcast has still to come to it.
Waiting(c) == clientsLock \in Clients /\ fd[c] \in todo[clientsLock]

Upto(c) == IF Waiting(c) THEN Len(order) - 1 ELSE Len(order)

Live(c) == conn[c] = "open" /\ pc[c] \in Handling

\* The client that holds the mutex broadcasts the last publication of the order; a
\* client that was not let in has been sent nothing; one that is served is where the
\* broadcasts have come to; one that has left keeps what it was sent.
StreamInv ==
    /\ clientsLock \in Clients =>
          order # <<>> /\ order[Len(order)] = number[clientsLock]
    /\ \A c \in Clients : pc[c] \in {"none", "accepted"} => Wire(c) = <<>>
    /\ \A c \in Clients : Live(c) => Within(Wire(c), order, Upto(c) - Len(Wire(c)))
    /\ \A c \in Clients : \E n \in Nat : Within(Wire(c), order, n)

\* A publication more in the order moves nothing.
LEMMA WithinGrows ==
    ASSUME NEW s \in Seq(Nat), NEW o \in Seq(Nat), NEW x \in Nat, NEW n, Within(s, o, n)
    PROVE  Within(s, Append(o, x), n)
<1>1. Len(s) \in Nat /\ Len(o) \in Nat /\ Len(Append(o, x)) = Len(o) + 1
  BY LenProperties, AppendProperties
<1>2. \A i \in 1 .. Len(o) : Append(o, x)[i] = o[i]
  BY AppendProperties
<1> QED
  BY <1>1, <1>2 DEF Within

\* The next publication of the order continues a client's sequence.
LEMMA WithinAppends ==
    ASSUME NEW s \in Seq(Nat), NEW o \in Seq(Nat), NEW n, Within(s, o, n),
           n + Len(s) < Len(o)
    PROVE  Within(Append(s, o[n + Len(s) + 1]), o, n)
<1>1. Len(s) \in Nat /\ Len(o) \in Nat
  BY LenProperties
<1>2. n \in Nat /\ n + Len(s) + 1 \in 1 .. Len(o)
  BY <1>1 DEF Within
<1>3. o[n + Len(s) + 1] \in Nat
  BY <1>2, ElementOfSeq
<1>4. /\ Len(Append(s, o[n + Len(s) + 1])) = Len(s) + 1
      /\ \A i \in 1 .. Len(s) : Append(s, o[n + Len(s) + 1])[i] = s[i]
      /\ Append(s, o[n + Len(s) + 1])[Len(s) + 1] = o[n + Len(s) + 1]
  BY <1>3, AppendProperties
<1>5. \A i \in 1 .. Len(s) + 1 : i \in 1 .. Len(s) \/ i = Len(s) + 1
  BY <1>1
<1>6. \A i \in 1 .. Len(s) + 1 : Append(s, o[n + Len(s) + 1])[i] = o[n + i]
  BY <1>1, <1>2, <1>4, <1>5 DEF Within
<1>7. n \in 0 .. Len(o) - (Len(s) + 1)
  BY <1>1, <1>2
<1> QED
  BY <1>4, <1>6, <1>7 DEF Within

\* What a client was sent is a sequence of publications.
LEMMA WireType == ASSUME LegacyTypeOK, NEW c \in Clients PROVE Wire(c) \in Seq(Nat)
  BY ConcatProperties DEF LegacyTypeOK, Wire

\* What is appended to the socket buffers is appended to Wire.
LEMMA WireAppend ==
    ASSUME NEW g \in Seq(Nat), NEW t \in Seq(Nat), NEW x \in Nat
    PROVE  g \o Append(t, x) = Append(g \o t, x)
<1>1. <<x>> \in Seq(Nat)
  OBVIOUS
<1>2. Append(t, x) = t \o <<x>> /\ g \o t \in Seq(Nat)
  BY AppendIsConcat, ConcatProperties
<1>3. Append(g \o t, x) = (g \o t) \o <<x>>
  BY <1>2, AppendIsConcat
<1> QED
  BY <1>1, <1>2, <1>3, ConcatAssociative

\* A client that reads moves a publication from one part of Wire to the other.
LEMMA WireMoves ==
    ASSUME NEW g \in Seq(Nat), NEW t \in Seq(Nat), t # <<>>
    PROVE  Append(g, Head(t)) \o Tail(t) = g \o t
<1>1. Head(t) \in Nat /\ Tail(t) \in Seq(Nat) /\ t = <<Head(t)>> \o Tail(t)
  BY HeadTailProperties, HeadTailAppend, ConcatSimplifications
<1>2. <<Head(t)>> \in Seq(Nat)
  BY <1>1
<1>3. Append(g, Head(t)) = g \o <<Head(t)>>
  BY <1>1, AppendIsConcat
<1>4. (g \o <<Head(t)>>) \o Tail(t) = g \o (<<Head(t)>> \o Tail(t))
  BY <1>1, <1>2, ConcatAssociative
<1> QED
  BY <1>1, <1>3, <1>4

\* A step that sends nothing and lets nobody in keeps every client's place.
LEMMA StreamStays ==
    ASSUME SocketInv, StreamInv, UNCHANGED <<order, clientsLock, todo>>,
           clientsLock \in Clients => number'[clientsLock] = number[clientsLock],
           \A d \in Clients : Wire(d)' = Wire(d),
           \A d \in Clients : Live(d)' => Live(d) /\ fd'[d] = fd[d],
           \A d \in Clients : pc'[d] \in {"none", "accepted"} => pc[d] \in {"none", "accepted"}
    PROVE  StreamInv'
<1>1. \A d \in Clients : Live(d)' => Upto(d)' = Upto(d)
  BY DEF Upto, Waiting
<1>2. (clientsLock \in Clients =>
          order # <<>> /\ order[Len(order)] = number[clientsLock])'
  BY DEF StreamInv
<1>3. \A d \in Clients : Live(d)' => Within(Wire(d)', order', Upto(d)' - Len(Wire(d)'))
  BY <1>1 DEF StreamInv
<1>4. \A d \in Clients : \E n \in Nat : Within(Wire(d)', order', n)
  BY DEF StreamInv
<1> QED
  BY <1>2, <1>3, <1>4 DEF StreamInv, Within

\* Nobody has been sent anything when the broker has started.
LEMMA StreamInit == LegacyInit => StreamInv
<1> SUFFICES ASSUME LegacyInit
             PROVE  StreamInv
  OBVIOUS
<1>1. \A c \in Clients : Wire(c) = <<>> /\ pc[c] = "none"
  <2>1. <<>> \in Seq(Nat) /\ <<>> \o <<>> = <<>>
    BY ConcatEmptySeq
  <2> QED
    BY <2>1 DEF LegacyInit, Wire
<1>2. Within(<<>>, order, 0)
  BY DEF LegacyInit, Within
<1> QED
  BY <1>1, <1>2, LegacyConstantsOK DEF LegacyInit, StreamInv, Live, Handling

\* A thread that takes the mutex announces a publication, which is now to come for
\* every client.
LEMMA StreamBegins ==
    ASSUME SocketInv, StreamInv, NEW c \in Clients, BroadcastBegin(c)
    PROVE  StreamInv'
<1> USE LegacyConstantsOK DEF SocketInv
<1>1. /\ clientsLock = NoOne /\ clientsLock' = c
      /\ todo' = [todo EXCEPT ![c] = connected_clients]
      /\ order' = Append(order, number[c])
      /\ pc[c] = "lock" /\ pc' = [pc EXCEPT ![c] = "send"]
      /\ UNCHANGED <<conn, got, toClient, fd, number>>
  BY DEF BroadcastBegin, At, Goto, clientVars
<1>2. /\ number[c] \in Nat /\ order \in Seq(Nat) /\ order' \in Seq(Nat)
      /\ Len(order) \in Nat /\ Len(order') = Len(order) + 1
      /\ order'[Len(order')] = number[c]
  BY <1>1, AppendProperties, LenProperties DEF LegacyTypeOK
<1>3. (clientsLock \in Clients =>
          order # <<>> /\ order[Len(order)] = number[clientsLock])'
  BY <1>1, <1>2, EmptySeq
<1>4. \A d \in Clients : Wire(d)' = Wire(d) /\ Wire(d) \in Seq(Nat)
  BY <1>1, WireType DEF Wire
<1>5. \A d \in Clients : pc'[d] \in {"none", "accepted"} => Wire(d)' = <<>>
  BY <1>1, <1>4 DEF StreamInv, LegacyTypeOK
<1>6. ASSUME NEW d \in Clients, Live(d)'
      PROVE  Within(Wire(d)', order', Upto(d)' - Len(Wire(d)'))
  <2>1. Live(d)
    BY <1>1, <1>6 DEF Live, Handling, LegacyTypeOK
  <2>2. fd[d] \in connected_clients
    BY <2>1 DEF Live, ConnectedAreHandled
  <2>3. Upto(d) = Len(order)
    BY <1>1 DEF Upto, Waiting
  <2>4. Upto(d)' = Len(order)
    BY <1>1, <1>2, <2>2 DEF Upto, Waiting, LegacyTypeOK
  <2>5. Within(Wire(d), order, Upto(d) - Len(Wire(d)))
    BY <2>1 DEF StreamInv
  <2> QED
    BY <1>1, <1>2, <1>4, <2>3, <2>4, <2>5, WithinGrows
<1>7. \A d \in Clients : \E n \in Nat : Within(Wire(d)', order', n)
  <2>1. \A d \in Clients : \E n \in Nat : Within(Wire(d), order, n)
    BY DEF StreamInv
  <2> QED
    BY <1>1, <1>2, <1>4, <2>1, WithinGrows
<1> QED
  BY <1>3, <1>5, <1>6, <1>7 DEF StreamInv, Within

\* A send brings a client up to the publication that is broadcast.
LEMMA StreamSends ==
    ASSUME SocketInv, StreamInv, NEW c \in Clients, BroadcastSend(c)
    PROVE  StreamInv'
<1> USE LegacyConstantsOK DEF SocketInv
<1>1. PICK d \in Clients :
         /\ HasFd(d) /\ fd[d] \in todo[c]
         /\ \/ conn[d] = "closed" /\ UNCHANGED toClient
            \/ conn[d] = "open" /\ toClient' = [toClient EXCEPT ![d] = Append(@, number[c])]
         /\ todo' = [todo EXCEPT ![c] = @ \ {fd[d]}]
  BY DEF BroadcastSend, Lowest
<1>2. /\ pc[c] = "send" /\ clientsLock = c
      /\ UNCHANGED <<conn, got, pc, fd, number, clientsLock, order>>
  BY DEF BroadcastSend, At, clientVars, LockInv
<1>3. /\ order # <<>> /\ order[Len(order)] = number[c]
      /\ order \in Seq(Nat) /\ Len(order) \in Nat /\ number[c] \in Nat
  BY <1>2, LenProperties DEF StreamInv, LegacyTypeOK
<1>4. pc[d] \in Handling
  <2>1. fd[d] \in connected_clients
    BY <1>1, <1>2 DEF LockInv
  <2>2. PICK e \in Clients : pc[e] \in Handling /\ fd[e] = fd[d]
    BY <2>1 DEF ConnectedAreHandled
  <2>3. e = d
    BY <1>1, <2>2 DEF ConnectedAreHandled, HasFd
  <2> QED
    BY <2>2, <2>3
<1>5. \A e \in Clients : Live(e) /\ e # d => Upto(e)' = Upto(e)
  <2>1. \A e \in Clients : Live(e) /\ e # d => fd[e] # fd[d]
    BY <1>1 DEF Live, ConnectedAreHandled, HasFd
  <2> QED
    BY <1>1, <1>2, <2>1 DEF Upto, Waiting, LegacyTypeOK
<1>6. \A e \in Clients : e # d => Wire(e)' = Wire(e)
  BY <1>1, <1>2 DEF Wire, LegacyTypeOK
<1>7. \A e \in Clients : Live(e)' <=> Live(e)
  BY <1>2 DEF Live
<1>8. CASE UNCHANGED toClient /\ conn[d] = "closed"
  <2>1. \A e \in Clients : Wire(e)' = Wire(e)
    BY <1>2, <1>8 DEF Wire
  <2>2. ~Live(d)
    BY <1>8 DEF Live
  <2>3. \A e \in Clients : Live(e) => Within(Wire(e), order, Upto(e)' - Len(Wire(e)))
    BY <1>5, <2>2 DEF StreamInv
  <2>4. /\ \A e \in Clients : pc[e] \in {"none", "accepted"} => Wire(e) = <<>>
        /\ \A e \in Clients : \E n \in Nat : Within(Wire(e), order, n)
    BY DEF StreamInv
  <2>5. \A e \in Clients : Live(e)' => Within(Wire(e)', order', Upto(e)' - Len(Wire(e)'))
    BY <1>2, <1>7, <2>1, <2>3
  <2>6. \A e \in Clients : \E n \in Nat : Within(Wire(e)', order', n)
    BY <1>2, <2>1, <2>4
  <2>7. \A e \in Clients : pc'[e] \in {"none", "accepted"} => Wire(e)' = <<>>
    BY <1>2, <2>1, <2>4
  <2> QED
    BY <1>2, <1>3, <2>5, <2>6, <2>7 DEF StreamInv, Within
<1>9. CASE conn[d] = "open" /\ toClient' = [toClient EXCEPT ![d] = Append(@, number[c])]
  <2>1. Live(d)
    BY <1>4, <1>9 DEF Live
  <2>2. Upto(d) = Len(order) - 1 /\ Upto(d)' = Len(order)
    BY <1>1, <1>2 DEF Upto, Waiting, LegacyTypeOK
  <2>3. Wire(d) \in Seq(Nat) /\ Len(Wire(d)) \in Nat
    BY WireType, LenProperties
  <2>4. Wire(d)' = Append(Wire(d), number[c])
    <3>1. got[d] \in Seq(Nat) /\ toClient[d] \in Seq(Nat)
      BY DEF LegacyTypeOK
    <3>2. got'[d] = got[d] /\ toClient'[d] = Append(toClient[d], number[c])
      BY <1>2, <1>9 DEF LegacyTypeOK
    <3>3. got[d] \o Append(toClient[d], number[c]) = Append(got[d] \o toClient[d], number[c])
      BY <1>3, <3>1, WireAppend
    <3> QED
      BY <3>2, <3>3 DEF Wire
  <2>5. Within(Wire(d), order, Len(order) - 1 - Len(Wire(d)))
    BY <2>1, <2>2 DEF StreamInv
  <2> DEFINE n == Len(order) - 1 - Len(Wire(d))
  <2>6. n \in Nat /\ n + Len(Wire(d)) + 1 = Len(order) /\ n + Len(Wire(d)) < Len(order)
    BY <1>3, <2>3, <2>5 DEF Within
  <2>7. Within(Wire(d)', order, n)
    BY <1>3, <2>3, <2>4, <2>5, <2>6, WithinAppends
  <2>8. Len(Wire(d)') = Len(Wire(d)) + 1
    BY <1>3, <2>3, <2>4, AppendProperties
  <2>9. Within(Wire(d)', order', Upto(d)' - Len(Wire(d)'))
    BY <1>2, <1>3, <2>2, <2>3, <2>7, <2>8
  <2>10. \A e \in Clients : Live(e)' => Within(Wire(e)', order', Upto(e)' - Len(Wire(e)'))
    BY <1>2, <1>5, <1>6, <1>7, <2>9 DEF StreamInv
  <2>11. \A e \in Clients : \E k \in Nat : Within(Wire(e)', order', k)
    BY <1>2, <1>6, <2>6, <2>7 DEF StreamInv
  <2>12. \A e \in Clients : pc'[e] \in {"none", "accepted"} => Wire(e)' = <<>>
    BY <1>2, <1>4, <1>6 DEF StreamInv, Handling
  <2> QED
    BY <1>2, <1>3, <2>10, <2>11, <2>12 DEF StreamInv, Within
<1> QED
  BY <1>1, <1>8, <1>9

\* Once the mutex is free, nobody waits for a publication.
LEMMA StreamEnds ==
    ASSUME SocketInv, StreamInv, NEW c \in Clients, BroadcastEnd(c)
    PROVE  StreamInv'
<1> USE LegacyConstantsOK DEF SocketInv
<1>1. /\ pc[c] = "send" /\ clientsLock = c /\ todo[c] = {} /\ clientsLock' = NoOne
      /\ pc' = [pc EXCEPT ![c] = "test"]
      /\ UNCHANGED <<conn, got, toClient, fd, order>>
  BY DEF BroadcastEnd, At, Goto, clientVars, threadVars, LockInv
<1>2. \A d \in Clients : Upto(d)' = Upto(d) /\ Wire(d)' = Wire(d)
  BY <1>1 DEF Upto, Waiting, Wire
<1>3. \A d \in Clients : /\ Live(d)' => Live(d)
                         /\ pc'[d] \in {"none", "accepted"} => pc[d] \in {"none", "accepted"}
  BY <1>1 DEF Live, Handling, LegacyTypeOK
<1>4. \A d \in Clients : Live(d)' => Within(Wire(d)', order', Upto(d)' - Len(Wire(d)'))
  BY <1>1, <1>2, <1>3 DEF StreamInv
<1>5. \A d \in Clients : \E n \in Nat : Within(Wire(d)', order', n)
  BY <1>1, <1>2 DEF StreamInv
<1>6. \A d \in Clients : pc'[d] \in {"none", "accepted"} => Wire(d)' = <<>>
  BY <1>2, <1>3 DEF StreamInv
<1> QED
  BY <1>1, <1>4, <1>5, <1>6 DEF StreamInv, Within

\* A client that is let in has been sent nothing and has missed everything so far.
LEMMA StreamAdmits ==
    ASSUME SocketInv, StreamInv, NEW c \in Clients, AcceptInserts(c)
    PROVE  StreamInv'
<1> USE LegacyConstantsOK DEF SocketInv
<1>1. /\ pc[c] = "accepted" /\ clientsLock = NoOne
      /\ pc' = [pc EXCEPT ![c] = "test"]
      /\ UNCHANGED <<conn, got, toClient, fd, number, clientsLock, order>>
  BY DEF AcceptInserts, clientVars, threadVars
<1>2. \A d \in Clients : Upto(d)' = Len(order) /\ Upto(d) = Len(order) /\ Wire(d)' = Wire(d)
  BY <1>1 DEF Upto, Waiting, Wire
<1>3. Wire(c) = <<>> /\ Within(<<>>, order, Len(order) - 0)
  BY <1>1, LenProperties DEF StreamInv, Within, LegacyTypeOK
<1>4. \A d \in Clients : d # c /\ Live(d)' => Live(d)
  BY <1>1 DEF Live, LegacyTypeOK
<1>5. \A d \in Clients : Live(d)' => Within(Wire(d)', order', Upto(d)' - Len(Wire(d)'))
  BY <1>1, <1>2, <1>3, <1>4 DEF StreamInv
<1>6. \A d \in Clients : \E n \in Nat : Within(Wire(d)', order', n)
  BY <1>1, <1>2 DEF StreamInv
<1>7. \A d \in Clients : pc'[d] \in {"none", "accepted"} => Wire(d)' = <<>>
  BY <1>1, <1>2 DEF StreamInv, LegacyTypeOK
<1> QED
  BY <1>1, <1>5, <1>6, <1>7 DEF StreamInv, Within

\* The broadcast and the admission have lemmas of their own; the rest is StreamStays.
LEMMA StreamStep == SocketInv /\ StreamInv /\ [LegacyNext]_vars => StreamInv'
<1> SUFFICES ASSUME SocketInv, StreamInv, [LegacyNext]_vars
             PROVE  StreamInv'
  OBVIOUS
<1> USE LegacyConstantsOK DEF Handling
<1>1. CASE AcceptTest
  BY <1>1, StreamStays DEF AcceptTest, clientVars, threadVars, Wire, Live, SocketInv,
     LegacyTypeOK, LockInv
<1>2. ASSUME NEW c \in Clients, AcceptReturns(c)
     PROVE  StreamInv'
  BY <1>2, StreamStays DEF AcceptReturns, clientVars, Wire, Live, SocketInv,
     LegacyTypeOK, LockInv
<1>3. ASSUME NEW c \in Clients, Connect(c)
     PROVE  StreamInv'
  BY <1>3, StreamStays DEF Connect, threadVars, Wire, Live, SocketInv, LegacyTypeOK,
     LockInv
<1>4. ASSUME NEW c \in Clients, Send(c)
     PROVE  StreamInv'
  BY <1>4, StreamStays DEF Send, threadVars, Wire, Live, SocketInv, LegacyTypeOK,
     LockInv
<1>5. ASSUME NEW c \in Clients, Close(c)
     PROVE  StreamInv'
  BY <1>5, StreamStays DEF Close, threadVars, Wire, Live, SocketInv, LegacyTypeOK,
     LockInv
<1>6. ASSUME NEW c \in Clients, HandlerTest(c)
     PROVE  StreamInv'
  BY <1>6, StreamStays DEF HandlerTest, At, Goto, clientVars, threadVars, Wire, Live,
     SocketInv, LegacyTypeOK, LockInv
<1>7. ASSUME NEW c \in Clients, HandlerRecv(c)
     PROVE  StreamInv'
  BY <1>7, StreamStays DEF HandlerRecv, At, Goto, threadVars, Wire, Live, SocketInv,
     LegacyTypeOK, LockInv
<1>8. ASSUME NEW c \in Clients, HandlerEnds(c)
     PROVE  StreamInv'
  BY <1>8, StreamStays DEF HandlerEnds, At, Goto, clientVars, threadVars, Wire, Live,
     SocketInv, LegacyTypeOK, LockInv
<1>9. ASSUME NEW c \in Clients, Publish(c)
     PROVE  StreamInv'
  BY <1>9, StreamStays DEF Publish, At, Goto, clientVars, Wire, Live, SocketInv,
     LegacyTypeOK, LockInv
<1>10. ASSUME NEW c \in Clients, HandlerExit(c)
     PROVE  StreamInv'
  <2>1. /\ UNCHANGED <<got, toClient, conn, order, clientsLock, fd, number, todo>>
        /\ \E p \in {"close", "done"} : pc' = [pc EXCEPT ![c] = p]
    BY <1>10 DEF HandlerExit, At, Goto, clientVars, threadVars
  <2>2. \A d \in Clients : pc'[d] \in Handling \cup {"none", "accepted"} => pc'[d] = pc[d]
    BY <2>1 DEF SocketInv, LegacyTypeOK, Handling
  <2>3. \A d \in Clients : Wire(d)' = Wire(d) /\ (Live(d)' => Live(d))
    BY <2>1, <2>2 DEF Wire, Live
  <2> QED
    BY <2>1, <2>2, <2>3, StreamStays
<1>11. CASE Stop
  BY <1>11, StreamStays DEF Stop, StopBegin, StopCloses, StopJoins, clientVars,
     threadVars, Wire, Live, SocketInv, LegacyTypeOK, LockInv
<1>12. CASE UNCHANGED vars
  BY <1>12, StreamStays DEF vars, clientVars, threadVars, Wire, Live, SocketInv,
     LegacyTypeOK, LockInv
<1>13. ASSUME NEW c \in Clients, Receive(c)
      PROVE  StreamInv'
  <2>1. \A d \in Clients : Wire(d)' = Wire(d)
    <3>1. /\ got \in [Clients -> Seq(Nat)] /\ toClient \in [Clients -> Seq(Nat)]
          /\ toClient[c] # <<>>
          /\ got' = [got EXCEPT ![c] = Append(got[c], Head(toClient[c]))]
          /\ toClient' = [toClient EXCEPT ![c] = Tail(toClient[c])]
      BY <1>13 DEF Receive, SocketInv, LegacyTypeOK
    <3>2. got'[c] \o toClient'[c] = got[c] \o toClient[c]
      BY <3>1, WireMoves
    <3>3. \A d \in Clients : d # c => got'[d] = got[d] /\ toClient'[d] = toClient[d]
      BY <3>1
    <3> QED
      BY <3>2, <3>3 DEF Wire
  <2> QED
    BY <1>13, <2>1, StreamStays DEF Receive, threadVars, Live
<1> QED
  BY <1>1, <1>2, <1>3, <1>4, <1>5, <1>6, <1>7, <1>8, <1>9, <1>10, <1>11, <1>12,
     <1>13, StreamBegins, StreamSends, StreamEnds,
     StreamAdmits DEF LegacyNext, AcceptConnections, HandleClient

\* A number is given out once and broadcast once: what has been broadcast, and what
\* waits for the mutex, are different numbers below the counter.
OrderInv ==
    /\ \A i \in 1 .. Len(order) : order[i] < sequence_counter
    /\ \A i, j \in 1 .. Len(order) : order[i] = order[j] => i = j
    /\ \A c \in Clients : pc[c] = "lock" =>
          number[c] < sequence_counter /\ \A i \in 1 .. Len(order) : order[i] # number[c]
    /\ \A c, d \in Clients : c # d /\ pc[c] = "lock" /\ pc[d] = "lock" =>
          number[c] # number[d]

\* A step that gives out no number and broadcasts none.
LEMMA OrderStays ==
    ASSUME OrderInv, UNCHANGED <<order, sequence_counter>>,
           \A d \in Clients : pc'[d] = "lock" => pc[d] = "lock" /\ number'[d] = number[d]
    PROVE  OrderInv'
  BY DEF OrderInv

\* Only publish and the begin of a broadcast concern the numbers.
LEMMA OrderStep == SocketInv /\ OrderInv /\ [LegacyNext]_vars => OrderInv'
<1> SUFFICES ASSUME SocketInv, OrderInv, [LegacyNext]_vars
             PROVE  OrderInv'
  OBVIOUS
<1> USE DEF SocketInv
<1>1. ASSUME NEW c \in Clients, Publish(c)
     PROVE  OrderInv'
  <2>1. /\ number' = [number EXCEPT ![c] = sequence_counter]
        /\ sequence_counter' = sequence_counter + 1 /\ order' = order
        /\ pc' = [pc EXCEPT ![c] = "lock"]
    BY <1>1 DEF Publish, Goto
  <2>2. /\ sequence_counter \in Nat /\ Len(order) \in Nat
        /\ \A i \in 1 .. Len(order) : order[i] \in Nat
        /\ \A d \in Clients : number[d] \in Nat
    BY LenProperties, ElementOfSeq DEF LegacyTypeOK
  <2>3. \A d \in Clients : d # c => number'[d] = number[d] /\ pc'[d] = pc[d]
    BY <2>1 DEF LegacyTypeOK
  <2>4. number'[c] = sequence_counter
    BY <2>1 DEF LegacyTypeOK
  <2>5. \A i \in 1 .. Len(order) : order[i] < sequence_counter'
    BY <2>1, <2>2 DEF OrderInv
  <2>6. \A d \in Clients : pc'[d] = "lock" =>
           number'[d] < sequence_counter' /\ \A i \in 1 .. Len(order) : order[i] # number'[d]
    BY <2>1, <2>2, <2>3, <2>4 DEF OrderInv
  <2>7. \A d, e \in Clients : d # e /\ pc'[d] = "lock" /\ pc'[e] = "lock" =>
           number'[d] # number'[e]
    BY <2>2, <2>3, <2>4 DEF OrderInv
  <2> QED
    BY <2>1, <2>5, <2>6, <2>7 DEF OrderInv
<1>2. ASSUME NEW c \in Clients, BroadcastBegin(c)
     PROVE  OrderInv'
  <2>1. /\ pc[c] = "lock" /\ pc' = [pc EXCEPT ![c] = "send"]
        /\ order' = Append(order, number[c])
        /\ UNCHANGED <<number, sequence_counter>>
    BY <1>2 DEF BroadcastBegin, At, Goto, topicVars
  <2>2. /\ Len(order) \in Nat /\ Len(order') = Len(order) + 1
        /\ \A i \in 1 .. Len(order) : order'[i] = order[i]
        /\ order'[Len(order) + 1] = number[c]
    BY <2>1, LenProperties, AppendProperties DEF LegacyTypeOK
  <2>3. \A i \in 1 .. Len(order') : i \in 1 .. Len(order) \/ i = Len(order) + 1
    BY <2>2
  <2>4. \A d \in Clients : pc'[d] = "lock" => d # c /\ pc[d] = "lock"
    BY <2>1 DEF LegacyTypeOK
  <2>5. \A i \in 1 .. Len(order') : order'[i] < sequence_counter'
    BY <2>1, <2>2, <2>3 DEF OrderInv
  <2>6. \A i, j \in 1 .. Len(order') : order'[i] = order'[j] => i = j
    BY <2>1, <2>2, <2>3 DEF OrderInv
  <2>7. \A d \in Clients : pc'[d] = "lock" =>
           /\ number'[d] < sequence_counter'
           /\ \A i \in 1 .. Len(order') : order'[i] # number'[d]
    BY <2>1, <2>2, <2>3, <2>4 DEF OrderInv
  <2>8. \A d, e \in Clients : d # e /\ pc'[d] = "lock" /\ pc'[e] = "lock" =>
           number'[d] # number'[e]
    BY <2>1, <2>4 DEF OrderInv
  <2> QED
    BY <2>5, <2>6, <2>7, <2>8 DEF OrderInv
<1>3. CASE AcceptConnections
  BY <1>3, OrderStays DEF AcceptConnections, AcceptTest, AcceptReturns, AcceptInserts,
     threadVars, topicVars, LegacyTypeOK
<1>4. ASSUME NEW c \in Clients, Connect(c) \/ Send(c) \/ Receive(c) \/ Close(c)
     PROVE  OrderInv'
  BY <1>4, OrderStays DEF Connect, Send, Receive, Close, threadVars, topicVars
<1>5. ASSUME NEW c \in Clients,
            HandlerTest(c) \/ HandlerRecv(c) \/ HandlerEnds(c) \/ BroadcastEnd(c)
     PROVE  OrderInv'
  BY <1>5, OrderStays DEF HandlerTest, HandlerRecv, HandlerEnds, BroadcastEnd, Goto,
     threadVars, topicVars, LegacyTypeOK
<1>6. ASSUME NEW c \in Clients, BroadcastSend(c)
     PROVE  OrderInv'
  BY <1>6, OrderStays DEF BroadcastSend, topicVars
<1>7. ASSUME NEW c \in Clients, HandlerExit(c)
     PROVE  OrderInv'
  BY <1>7, OrderStays DEF HandlerExit, Goto, threadVars, topicVars, LegacyTypeOK
<1>8. CASE Stop
  BY <1>8, OrderStays DEF Stop, StopBegin, StopCloses, StopJoins, threadVars, topicVars
<1>9. CASE UNCHANGED vars
  BY <1>9, OrderStays DEF vars, threadVars, topicVars
<1> QED
  BY <1>1, <1>2, <1>3, <1>4, <1>5, <1>6, <1>7, <1>8, <1>9 DEF LegacyNext, HandleClient

\* A client that was sent a stretch of the order agrees with it: its places in the two
\* differ by a constant, and no number has two places.
LEMMA StretchAgrees ==
    ASSUME SocketInv, OrderInv, NEW c \in Clients, NEW n, Within(Wire(c), order, n)
    PROVE  \A i, j \in 1 .. Len(Wire(c)) :
              /\ i < j => Precedes(Wire(c)[i], Wire(c)[j])
              /\ \A k \in 1 .. Len(order) :
                    Precedes(Wire(c)[i], order[k]) /\ Precedes(order[k], Wire(c)[j])
                    => \E l \in 1 .. Len(Wire(c)) : Wire(c)[l] = order[k]
<1>1. /\ Len(order) \in Nat /\ DOMAIN order = 1 .. Len(order) /\ Len(Wire(c)) \in Nat
  BY WireType, LenProperties DEF SocketInv, LegacyTypeOK
<1>2. /\ n \in Nat /\ n + Len(Wire(c)) <= Len(order)
      /\ \A i \in 1 .. Len(Wire(c)) : Wire(c)[i] = order[n + i]
  BY <1>1 DEF Within
<1>3. ASSUME NEW i \in 1 .. Len(Wire(c)), NEW j \in 1 .. Len(Wire(c)), i < j
      PROVE  Precedes(Wire(c)[i], Wire(c)[j])
  <2>1. n + i \in DOMAIN order /\ n + j \in DOMAIN order /\ n + i < n + j
    BY <1>1, <1>2, <1>3
  <2> QED
    BY <1>2, <2>1 DEF Precedes
<1>4. ASSUME NEW i \in 1 .. Len(Wire(c)), NEW j \in 1 .. Len(Wire(c)),
             NEW k \in 1 .. Len(order),
             Precedes(Wire(c)[i], order[k]), Precedes(order[k], Wire(c)[j])
      PROVE  \E l \in 1 .. Len(Wire(c)) : Wire(c)[l] = order[k]
  <2>1. n + i \in 1 .. Len(order) /\ n + j \in 1 .. Len(order)
    BY <1>1, <1>2
  <2>2. n + i < k /\ k < n + j
    BY <1>1, <1>2, <1>4, <2>1 DEF Precedes, OrderInv
  <2>3. k - n \in 1 .. Len(Wire(c)) /\ n + (k - n) = k
    BY <1>1, <1>2, <2>2
  <2> QED
    BY <1>2, <2>3
<1> QED
  BY <1>3, <1>4

\* Whatever the clients do and however many publish at once, all are sent stretches of
\* one order, in which no publication stands twice.
THEOREM OneOrder == LegacySpec => []AgreeOnOrder
<1>1. SocketInv /\ StreamInv /\ OrderInv => AgreeOnOrder
  <2> SUFFICES ASSUME SocketInv, StreamInv, OrderInv
               PROVE  AgreeOnOrder
    OBVIOUS
  <2>1. /\ DOMAIN order = 1 .. Len(order)
        /\ \A c \in Clients : DOMAIN Wire(c) = 1 .. Len(Wire(c))
    BY WireType, LenProperties DEF SocketInv, LegacyTypeOK
  <2>2. \A c \in Clients : \E n \in Nat : Within(Wire(c), order, n)
    BY DEF StreamInv
  <2> QED
    BY <2>1, <2>2, StretchAgrees DEF AgreeOnOrder, OrderInv
<1>2. LegacyInit => OrderInv
  BY DEF LegacyInit, OrderInv
<1> QED
  BY <1>1, <1>2, SocketInit, SocketStep, StreamInit, StreamStep, OrderStep,
     PTL DEF LegacySpec

-------------------------------------------------------------------------------
(* The publications that recv finds. *)

\* seg comes after what has been taken of publication m: it is of a later one, or is
\* the tail of m.
Follows(m, seg) == m < seg.of \/ (m = seg.of /\ seg.part = "tail")

\* The segments of a client come in the order of its publications, and what it has
\* stored or is about to store is older than what its thread has still to receive.
StoreInv ==
    /\ \A c \in Clients : \A i \in 1 .. Len(toBroker[c]) :
          /\ toBroker[c][i].of <= sent[c]
          /\ \A j \in 1 .. Len(toBroker[c]) :
                i < j => Follows(toBroker[c][i].of, toBroker[c][j])
    /\ \A c \in Clients : pc[c] = "publish" =>
          /\ data[c] <= sent[c]
          /\ \A i \in 1 .. Len(toBroker[c]) : Follows(data[c], toBroker[c][i])
          /\ \A k \in 1 .. Len(topics) : topics[k].by = c => topics[k].of < data[c]
    /\ \A c \in Clients : \A k \in 1 .. Len(topics) : topics[k].by = c =>
          /\ topics[k].of <= sent[c]
          /\ \A i \in 1 .. Len(toBroker[c]) : Follows(topics[k].of, toBroker[c][i])
    /\ \A k, l \in 1 .. Len(topics) :
          k < l /\ topics[k].by = topics[l].by => topics[k].of < topics[l].of

\* A step that neither sends, receives nor stores.
LEMMA StoreStays ==
    ASSUME StoreInv, UNCHANGED <<toBroker, sent, topics>>,
           \A d \in Clients : pc'[d] = "publish" => pc[d] = "publish" /\ data'[d] = data[d]
    PROVE  StoreInv'
  BY DEF StoreInv

\* What a client sends is a new publication, which follows everything.
LEMMA StoreSends ==
    ASSUME SocketInv, StoreInv, NEW c \in Clients, Send(c)
    PROVE  StoreInv'
<1> USE DEF SocketInv
<1>1. /\ sent' = [sent EXCEPT ![c] = @ + 1]
      /\ UNCHANGED <<pc, data, topics>>
  BY DEF Send, threadVars, topicVars
<1>2. PICK parts \in Arrivals :
         toBroker' = [toBroker EXCEPT ![c] = @ \o
                         [i \in DOMAIN parts |-> [of |-> sent'[c], part |-> parts[i]]]]
  BY DEF Send
<1>3. sent[c] \in Nat /\ sent'[c] = sent[c] + 1 /\ \A d \in Clients : d # c => sent'[d] = sent[d]
  BY <1>1 DEF LegacyTypeOK
<1>4. PICK p : p = [i \in DOMAIN parts |-> [of |-> sent[c] + 1, part |-> parts[i]]]
  OBVIOUS
<1>5. /\ p \in Seq(Segments) /\ Len(p) \in Nat
      /\ \A i \in 1 .. Len(p) : p[i].of = sent[c] + 1 /\ (i # 1 => p[i].part = "tail")
  <2>1. sent[c] + 1 \in Nat
    BY <1>3
  <2>2. /\ p \in Seq(Segments)
        /\ \A i \in 1 .. Len(p) : p[i].of = sent[c] + 1 /\ (i # 1 => p[i].part = "tail")
    BY <1>4, <2>1, Pieces
  <2> QED
    BY <2>2, LenProperties
<1>6. /\ toBroker'[c] = toBroker[c] \o p
      /\ \A d \in Clients : d # c => toBroker'[d] = toBroker[d]
  BY <1>2, <1>3, <1>4 DEF LegacyTypeOK
<1> DEFINE n == Len(toBroker[c])
<1>7. toBroker[c] \in Seq(Segments) /\ n \in Nat
      /\ \A i \in 1 .. n : toBroker[c][i] \in Segments
  BY LenProperties, ElementOfSeq DEF LegacyTypeOK
<1>8. /\ Len(toBroker'[c]) = n + Len(p)
      /\ \A i \in 1 .. n : toBroker'[c][i] = toBroker[c][i]
      /\ \A i \in n + 1 .. n + Len(p) : toBroker'[c][i] = p[i - n]
  BY <1>5, <1>6, <1>7, ConcatProperties
<1>9. \A i \in 1 .. n : toBroker[c][i].of \in Nat /\ toBroker[c][i].of <= sent[c]
  BY <1>7 DEF StoreInv, Segments
<1>10. \A i \in n + 1 .. n + Len(p) :
          toBroker'[c][i].of = sent[c] + 1 /\ (i # n + 1 => toBroker'[c][i].part = "tail")
  <2>1. \A i \in n + 1 .. n + Len(p) : i - n \in 1 .. Len(p) /\ (i # n + 1 => i - n # 1)
    BY <1>5, <1>7
  <2> QED
    BY <1>5, <1>8, <2>1
<1>11. ASSUME NEW m \in Nat, m <= sent[c], NEW i \in n + 1 .. n + Len(p)
       PROVE  Follows(m, toBroker'[c][i])
  BY <1>3, <1>10, <1>11 DEF Follows
<1>12. \A i \in 1 .. Len(toBroker'[c]) : i \in 1 .. n \/ i \in n + 1 .. n + Len(p)
  BY <1>5, <1>7, <1>8
<1>13. \A i \in 1 .. Len(toBroker'[c]) : toBroker'[c][i].of <= sent'[c]
  <2>1. \A i \in 1 .. n : toBroker'[c][i].of <= sent'[c]
    BY <1>3, <1>8, <1>9
  <2>2. \A i \in n + 1 .. n + Len(p) : toBroker'[c][i].of <= sent'[c]
    BY <1>3, <1>10
  <2> QED
    BY <1>12, <2>1, <2>2
<1>14. ASSUME NEW i \in 1 .. Len(toBroker'[c]), NEW j \in 1 .. Len(toBroker'[c]), i < j
       PROVE  Follows(toBroker'[c][i].of, toBroker'[c][j])
  <2>1. CASE j \in 1 .. n
    BY <1>7, <1>8, <1>12, <1>14, <2>1 DEF StoreInv
  <2>2. CASE i \in 1 .. n /\ j \in n + 1 .. n + Len(p)
    BY <1>8, <1>9, <1>11, <2>2
  <2>3. CASE i \in n + 1 .. n + Len(p) /\ j \in n + 1 .. n + Len(p)
    BY <1>7, <1>10, <1>14, <2>3 DEF Follows
  <2> QED
    BY <1>12, <2>1, <2>2, <2>3
<1>15. ASSUME NEW m \in Nat, m <= sent[c],
              \A i \in 1 .. n : Follows(m, toBroker[c][i])
       PROVE  \A i \in 1 .. Len(toBroker'[c]) : Follows(m, toBroker'[c][i])
  <2>1. ASSUME NEW i \in 1 .. Len(toBroker'[c])
        PROVE  Follows(m, toBroker'[c][i])
    <3>1. CASE i \in 1 .. n
      BY <1>8, <1>15, <3>1
    <3>2. CASE i \in n + 1 .. n + Len(p)
      BY <1>11, <1>15, <3>2
    <3> QED
      BY <1>12, <3>1, <3>2
  <2> QED
    BY <2>1
<1>16. Len(topics) \in Nat /\ \A k \in 1 .. Len(topics) : topics[k].of \in Nat
  <2>1. topics \in Seq(Stored)
    BY DEF LegacyTypeOK
  <2>2. Len(topics) \in Nat /\ \A k \in 1 .. Len(topics) : topics[k] \in Stored
    BY <2>1, LenProperties, ElementOfSeq
  <2> QED
    BY <2>2 DEF Stored
<1>17. ASSUME NEW d \in Clients, pc'[d] = "publish"
       PROVE  /\ data[d] <= sent'[d]
              /\ \A i \in 1 .. Len(toBroker'[d]) : Follows(data[d], toBroker'[d][i])
              /\ \A k \in 1 .. Len(topics) : topics[k].by = d => topics[k].of < data[d]
  <2>1. data[d] \in Nat /\ pc[d] = "publish"
    BY <1>1, <1>17 DEF LegacyTypeOK
  <2>2. CASE d = c
    BY <1>3, <1>15, <2>1, <2>2 DEF StoreInv
  <2>3. CASE d # c
    BY <1>3, <1>6, <2>1, <2>3 DEF StoreInv
  <2> QED
    BY <2>2, <2>3
<1>18. ASSUME NEW d \in Clients, NEW k \in 1 .. Len(topics), topics[k].by = d
       PROVE  /\ topics[k].of <= sent'[d]
              /\ \A i \in 1 .. Len(toBroker'[d]) : Follows(topics[k].of, toBroker'[d][i])
  <2>1. CASE d = c
    <3>1. /\ topics[k].of \in Nat /\ topics[k].of <= sent[c]
          /\ \A i \in 1 .. n : Follows(topics[k].of, toBroker[c][i])
      BY <1>16, <1>18, <2>1 DEF StoreInv
    <3>2. \A i \in 1 .. Len(toBroker'[c]) : Follows(topics[k].of, toBroker'[c][i])
      BY <1>15, <3>1
    <3> QED
      BY <1>3, <2>1, <3>1, <3>2
  <2>2. CASE d # c
    BY <1>3, <1>6, <1>18, <2>2 DEF StoreInv
  <2> QED
    BY <2>1, <2>2
<1>19. \A d \in Clients : \A i \in 1 .. Len(toBroker'[d]) :
          /\ toBroker'[d][i].of <= sent'[d]
          /\ \A j \in 1 .. Len(toBroker'[d]) :
                i < j => Follows(toBroker'[d][i].of, toBroker'[d][j])
  BY <1>3, <1>6, <1>13, <1>14 DEF StoreInv
<1> QED
  BY <1>1, <1>17, <1>18, <1>19 DEF StoreInv

\* What recv takes is older than what it leaves, and a publication it finds is newer
\* than those that are stored.
LEMMA StoreReceives ==
    ASSUME SocketInv, StoreInv, NEW c \in Clients, HandlerRecv(c)
    PROVE  StoreInv'
<1> USE DEF SocketInv
<1>1. PICK n \in 1 .. Len(toBroker[c]) :
         /\ toBroker' = [toBroker EXCEPT ![c] = SubSeq(@, n + 1, Len(@))]
         /\ \/ /\ IsPublication(SubSeq(toBroker[c], 1, n))
               /\ data' = [data EXCEPT ![c] = SubSeq(toBroker[c], 1, n)[1].of]
               /\ pc' = [pc EXCEPT ![c] = "publish"]
            \/ pc' = [pc EXCEPT ![c] = "test"] /\ data' = data
  BY DEF HandlerRecv, Goto
<1>2. UNCHANGED <<sent, topics>>
  BY DEF HandlerRecv, topicVars
<1> DEFINE s == toBroker[c]
           r == toBroker'[c]
<1>3. s \in Seq(Segments) /\ Len(s) \in Nat
  BY LenProperties DEF LegacyTypeOK
<1>4. r = SubSeq(s, n + 1, Len(s)) /\ \A d \in Clients : d # c => toBroker'[d] = toBroker[d]
  BY <1>1 DEF LegacyTypeOK
<1>5. /\ s[1] \in Segments /\ SubSeq(s, 1, n)[1] = s[1]
      /\ Len(r) = Len(s) - n /\ \A i \in 1 .. Len(r) : r[i] = s[n + i]
  BY <1>3, <1>4, Received
<1>6. 1 \in 1 .. Len(s) /\ \A i \in 1 .. Len(r) : n + i \in 1 .. Len(s) /\ 1 < n + i
  BY <1>3, <1>5
<1>7. \A i \in 1 .. Len(r) :
         /\ r[i].of <= sent[c]
         /\ \A j \in 1 .. Len(r) : i < j => Follows(r[i].of, r[j])
  <2>1. \A i \in 1 .. Len(r) : \A j \in 1 .. Len(r) : i < j => n + i < n + j
    BY <1>3, <1>5
  <2> QED
    BY <1>5, <1>6, <2>1 DEF StoreInv
<1>8. \A k \in 1 .. Len(topics) : topics[k].by = c =>
         /\ topics[k].of <= sent[c]
         /\ \A i \in 1 .. Len(r) : Follows(topics[k].of, r[i])
  BY <1>5, <1>6 DEF StoreInv
<1>9. ASSUME pc'[c] = "publish"
      PROVE  /\ data'[c] <= sent[c]
             /\ \A i \in 1 .. Len(r) : Follows(data'[c], r[i])
             /\ \A k \in 1 .. Len(topics) : topics[k].by = c => topics[k].of < data'[c]
  <2>1. data'[c] = s[1].of /\ s[1].part # "tail"
    <3>1. pc' # [pc EXCEPT ![c] = "test"]
      BY <1>9 DEF LegacyTypeOK
    <3>2. data' = [data EXCEPT ![c] = s[1].of]
      BY <1>1, <1>5, <3>1
    <3>3. s[1].part = "head" \/ s[1].part = "cut"
      BY <1>1, <1>5, <3>1 DEF IsPublication
    <3> QED
      BY <3>2, <3>3 DEF LegacyTypeOK
  <2>2. s[1].of <= sent[c] /\ \A i \in 1 .. Len(r) : Follows(s[1].of, r[i])
    BY <1>5, <1>6 DEF StoreInv
  <2>3. \A k \in 1 .. Len(topics) : topics[k].by = c => Follows(topics[k].of, s[1])
    BY <1>6 DEF StoreInv
  <2> QED
    BY <2>1, <2>2, <2>3 DEF Follows
<1>10. \A d \in Clients : d # c => data'[d] = data[d] /\ pc'[d] = pc[d]
  BY <1>1 DEF LegacyTypeOK
<1>11. \A d \in Clients : \A i \in 1 .. Len(toBroker'[d]) :
          /\ toBroker'[d][i].of <= sent[d]
          /\ \A j \in 1 .. Len(toBroker'[d]) :
                i < j => Follows(toBroker'[d][i].of, toBroker'[d][j])
  BY <1>4, <1>7 DEF StoreInv
<1>12. \A d \in Clients : pc'[d] = "publish" =>
          /\ data'[d] <= sent[d]
          /\ \A i \in 1 .. Len(toBroker'[d]) : Follows(data'[d], toBroker'[d][i])
          /\ \A k \in 1 .. Len(topics) : topics[k].by = d => topics[k].of < data'[d]
  BY <1>4, <1>9, <1>10 DEF StoreInv
<1>13. \A d \in Clients : \A k \in 1 .. Len(topics) : topics[k].by = d =>
          /\ topics[k].of <= sent[d]
          /\ \A i \in 1 .. Len(toBroker'[d]) : Follows(topics[k].of, toBroker'[d][i])
  BY <1>4, <1>8 DEF StoreInv
<1> QED
  BY <1>2, <1>11, <1>12, <1>13 DEF StoreInv

\* The publication that is stored is newer than those of its client that are.
LEMMA StorePublishes ==
    ASSUME SocketInv, StoreInv, NEW c \in Clients, Publish(c)
    PROVE  StoreInv'
<1> USE DEF SocketInv
<1>1. /\ pc[c] = "publish" /\ pc' = [pc EXCEPT ![c] = "lock"]
      /\ topics' = Append(topics, [seq |-> sequence_counter, by |-> c, of |-> data[c]])
      /\ UNCHANGED <<toBroker, sent, data>>
  BY DEF Publish, At, Goto, clientVars
<1> DEFINE n == Len(topics)
<1>2. [seq |-> sequence_counter, by |-> c, of |-> data[c]] \in Stored
  BY DEF Stored, LegacyTypeOK
<1>3. /\ n \in Nat /\ Len(topics') = n + 1
      /\ \A k \in 1 .. n : topics'[k] = topics[k]
      /\ topics'[n + 1].by = c /\ topics'[n + 1].of = data[c]
  BY <1>1, <1>2, LenProperties, AppendProperties DEF LegacyTypeOK
<1>4. \A k \in 1 .. Len(topics') : k \in 1 .. n \/ k = n + 1
  BY <1>3
<1>5. \A d \in Clients : pc'[d] = "publish" => d # c /\ pc[d] = "publish"
  BY <1>1 DEF LegacyTypeOK
<1>6. \A d \in Clients : pc'[d] = "publish" =>
         /\ data[d] <= sent[d]
         /\ \A i \in 1 .. Len(toBroker[d]) : Follows(data[d], toBroker[d][i])
         /\ \A k \in 1 .. Len(topics') : topics'[k].by = d => topics'[k].of < data[d]
  BY <1>3, <1>4, <1>5 DEF StoreInv
<1>7. \A d \in Clients : \A k \in 1 .. Len(topics') : topics'[k].by = d =>
         /\ topics'[k].of <= sent[d]
         /\ \A i \in 1 .. Len(toBroker[d]) : Follows(topics'[k].of, toBroker[d][i])
  BY <1>1, <1>3, <1>4 DEF StoreInv
<1>8. \A k, l \in 1 .. Len(topics') :
         k < l /\ topics'[k].by = topics'[l].by => topics'[k].of < topics'[l].of
  BY <1>1, <1>3, <1>4 DEF StoreInv
<1>9. \A d \in Clients : \A i \in 1 .. Len(toBroker[d]) :
         /\ toBroker[d][i].of <= sent[d]
         /\ \A j \in 1 .. Len(toBroker[d]) : i < j => Follows(toBroker[d][i].of, toBroker[d][j])
  BY DEF StoreInv
<1> QED
  BY <1>1, <1>6, <1>7, <1>8, <1>9 DEF StoreInv

\* Sending, receiving and storing have lemmas of their own.
LEMMA StoreStep == SocketInv /\ StoreInv /\ [LegacyNext]_vars => StoreInv'
<1> SUFFICES ASSUME SocketInv, StoreInv, [LegacyNext]_vars
             PROVE  StoreInv'
  OBVIOUS
<1> USE DEF SocketInv
<1>1. CASE AcceptConnections
  BY <1>1, StoreStays DEF AcceptConnections, AcceptTest, AcceptReturns, AcceptInserts,
     clientVars, threadVars, topicVars, LegacyTypeOK
<1>2. ASSUME NEW c \in Clients, Connect(c) \/ Receive(c) \/ Close(c)
     PROVE  StoreInv'
  BY <1>2, StoreStays DEF Connect, Receive, Close, threadVars, topicVars
<1>3. ASSUME NEW c \in Clients, HandlerTest(c) \/ HandlerEnds(c) \/ BroadcastEnd(c)
     PROVE  StoreInv'
  BY <1>3, StoreStays DEF HandlerTest, HandlerEnds, BroadcastEnd, Goto, clientVars,
     threadVars, topicVars, LegacyTypeOK
<1>4. ASSUME NEW c \in Clients, BroadcastBegin(c) \/ BroadcastSend(c)
     PROVE  StoreInv'
  BY <1>4, StoreStays DEF BroadcastBegin, BroadcastSend, Goto, clientVars, topicVars,
     LegacyTypeOK
<1>5. ASSUME NEW c \in Clients, HandlerExit(c)
     PROVE  StoreInv'
  BY <1>5, StoreStays DEF HandlerExit, Goto, clientVars, threadVars, topicVars, LegacyTypeOK
<1>6. CASE Stop
  BY <1>6, StoreStays DEF Stop, StopBegin, StopCloses, StopJoins, clientVars, threadVars,
     topicVars
<1>7. CASE UNCHANGED vars
  BY <1>7, StoreStays DEF vars, clientVars, threadVars, topicVars
<1> QED
  BY <1>1, <1>2, <1>3, <1>4, <1>5, <1>6, <1>7, StoreSends, StoreReceives,
     StorePublishes DEF LegacyNext, HandleClient

\* However the bytes of the publications are cut and joined on their way, each client's
\* are stored in the order it sent them, and none of them twice.
THEOREM StoredInSendOrder == LegacySpec => []StoredAsSent
<1>1. SocketInv /\ StoreInv => StoredAsSent
  <2> SUFFICES ASSUME SocketInv, StoreInv
               PROVE  StoredAsSent
    OBVIOUS
  <2>1. DOMAIN topics = 1 .. Len(topics)
    BY LenProperties DEF SocketInv, LegacyTypeOK
  <2> QED
    BY <2>1 DEF StoredAsSent, StoreInv
<1>2. LegacyInit => StoreInv
  BY DEF LegacyInit, StoreInv
<1> QED
  BY <1>1, <1>2, SocketInit, SocketStep, StoreStep, PTL DEF LegacySpec
===============================================================================
