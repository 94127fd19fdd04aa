-------------------------- MODULE PubSubServiceProofs --------------------------
(***************************************************************************)
(* Theorems about PubSubService, for every set of clients and topics.      *)
(***************************************************************************)
EXTENDS PubSubService, SequenceTheorems, TLAPS

ServiceTypeOK ==
    /\ members \in [Topics -> SUBSET Clients]
    /\ log \in [Topics -> Seq(Nat)]
    /\ next \in Nat
    /\ mail \in [Clients -> Seq(Notes)]

\* The numbers in the log of a topic go up, and the next one is greater than all.
LogInOrder ==
    \A t \in Topics :
        /\ \A i \in DOMAIN log[t] : log[t][i] < next
        /\ \A i, j \in DOMAIN log[t] : i < j => log[t][i] < log[t][j]

\* Every number that has been given is in the log of one topic.
LogComplete ==
    \A n \in Nat : n < next =>
        \E t \in Topics : \E i \in DOMAIN log[t] :
            /\ log[t][i] = n
            /\ \A u \in Topics : \A j \in DOMAIN log[u] : log[u][j] = n => u = t /\ j = i

ServiceInv == ServiceTypeOK /\ LogInOrder /\ LogComplete /\ MissesNothing

\* MissesNothing of one client and one topic.
Complete(given, stored, t) ==
    \A i \in DOMAIN given :
        /\ IsMessage(given[i])
        /\ \A k \in i .. Len(given) : given[k] # Reply("SUBSCRIBED", t)
        => \A m \in DOMAIN stored :
               stored[m] >= given[i].seq =>
                   \E k \in i .. Len(given) : given[k] = Message(t, stored[m])

-------------------------------------------------------------------------------
(* One line more in the mail. *)

\* A reply takes nothing away, and a SUBSCRIBED begins anew.
LEMMA CompleteReply ==
    ASSUME NEW given \in Seq(Notes), NEW stored, NEW t, NEW x \in Notes, ~IsMessage(x),
           Complete(given, stored, t) \/ x = Reply("SUBSCRIBED", t)
    PROVE  Complete(Append(given, x), stored, t)
<1> DEFINE h == Append(given, x)
<1>1. /\ Len(h) = Len(given) + 1 /\ Len(given) \in Nat /\ h[Len(given) + 1] = x
      /\ DOMAIN h = 1 .. Len(h) /\ DOMAIN given = 1 .. Len(given)
      /\ \A i \in 1 .. Len(given) : h[i] = given[i]
  BY AppendProperties, LenProperties
<1> HIDE DEF h
<1>2. SUFFICES ASSUME NEW i \in DOMAIN h, IsMessage(h[i]),
                      \A k \in i .. Len(h) : h[k] # Reply("SUBSCRIBED", t),
                      NEW m \in DOMAIN stored, stored[m] >= h[i].seq
               PROVE  \E k \in i .. Len(h) : h[k] = Message(t, stored[m])
  BY DEF Complete, h
<1>3. i \in 1 .. Len(given) /\ h[i] = given[i]
  BY <1>1, <1>2
<1>4. Complete(given, stored, t)
  <2>1. Len(h) \in i .. Len(h)
    BY <1>1, <1>3
  <2> QED
    BY <1>1, <1>2, <2>1
<1>5. \A k \in i .. Len(given) : k \in i .. Len(h) /\ h[k] = given[k]
  BY <1>1, <1>3
<1>6. \E k \in i .. Len(given) : given[k] = Message(t, stored[m])
  BY <1>1, <1>2, <1>3, <1>4, <1>5 DEF Complete
<1> QED
  BY <1>5, <1>6

\* A message of another topic takes nothing away either, and is newer than the log.
LEMMA CompleteOther ==
    ASSUME NEW given \in Seq(Notes), NEW stored, NEW t, NEW n \in Nat, NEW u \in Topics,
           Complete(given, stored, t), \A m \in DOMAIN stored : stored[m] \in Nat /\ stored[m] < n
    PROVE  Complete(Append(given, Message(u, n)), stored, t)
<1> DEFINE x == Message(u, n)
           h == Append(given, x)
<1>1. x \in Notes /\ x.seq = n
  BY DEF Notes, Message
<1> HIDE DEF x
<1>2. /\ Len(h) = Len(given) + 1 /\ Len(given) \in Nat /\ h[Len(given) + 1] = x
      /\ DOMAIN h = 1 .. Len(h) /\ DOMAIN given = 1 .. Len(given)
      /\ \A i \in 1 .. Len(given) : h[i] = given[i]
  BY <1>1, AppendProperties, LenProperties
<1> HIDE DEF h
<1>3. SUFFICES ASSUME NEW i \in DOMAIN h, IsMessage(h[i]),
                      \A k \in i .. Len(h) : h[k] # Reply("SUBSCRIBED", t),
                      NEW m \in DOMAIN stored, stored[m] >= h[i].seq
               PROVE  \E k \in i .. Len(h) : h[k] = Message(t, stored[m])
  BY DEF Complete, h, x
<1>4. i \in 1 .. Len(given) /\ h[i] = given[i]
  BY <1>1, <1>2, <1>3
<1>5. \A k \in i .. Len(given) : k \in i .. Len(h) /\ h[k] = given[k]
  BY <1>2, <1>4
<1>6. \E k \in i .. Len(given) : given[k] = Message(t, stored[m])
  BY <1>2, <1>3, <1>4, <1>5 DEF Complete
<1> QED
  BY <1>5, <1>6

\* The message of the topic is the one that the log has more.
LEMMA CompleteMessage ==
    ASSUME NEW given \in Seq(Notes), NEW stored \in Seq(Nat), NEW t \in Topics, NEW n \in Nat,
           Complete(given, stored, t), \A m \in DOMAIN stored : stored[m] < n
    PROVE  Complete(Append(given, Message(t, n)), Append(stored, n), t)
<1> DEFINE x == Message(t, n)
           h == Append(given, x)
           s == Append(stored, n)
<1>1. x \in Notes /\ x.seq = n
  BY DEF Notes, Message
<1> HIDE DEF x
<1>2. /\ Len(h) = Len(given) + 1 /\ Len(given) \in Nat /\ h[Len(given) + 1] = x
      /\ DOMAIN h = 1 .. Len(h) /\ DOMAIN given = 1 .. Len(given)
      /\ \A i \in 1 .. Len(given) : h[i] = given[i]
  BY <1>1, AppendProperties, LenProperties
<1>3. /\ Len(s) = Len(stored) + 1 /\ Len(stored) \in Nat /\ s[Len(stored) + 1] = n
      /\ DOMAIN s = 1 .. Len(s) /\ DOMAIN stored = 1 .. Len(stored)
      /\ \A i \in 1 .. Len(stored) : s[i] = stored[i] /\ stored[i] \in Nat
  BY AppendProperties, LenProperties
<1> HIDE DEF h, s
<1>4. SUFFICES ASSUME NEW i \in DOMAIN h, IsMessage(h[i]),
                      \A k \in i .. Len(h) : h[k] # Reply("SUBSCRIBED", t),
                      NEW m \in DOMAIN s, s[m] >= h[i].seq
               PROVE  \E k \in i .. Len(h) : h[k] = Message(t, s[m])
  BY DEF Complete, h, x, s
<1>5. CASE m = Len(s)
  <2>1. Len(h) \in i .. Len(h) /\ h[Len(h)] = Message(t, s[m])
    BY <1>2, <1>3, <1>5 DEF x
  <2> QED
    BY <2>1
<1>6. CASE m # Len(s)
  <2>1. m \in DOMAIN stored /\ s[m] = stored[m] /\ stored[m] < n /\ stored[m] \in Nat
    BY <1>3, <1>6
  <2>2. i \in 1 .. Len(given) /\ h[i] = given[i]
    BY <1>1, <1>2, <1>4, <2>1
  <2>3. \A k \in i .. Len(given) : k \in i .. Len(h) /\ h[k] = given[k]
    BY <1>2, <2>2
  <2>4. \E k \in i .. Len(given) : given[k] = Message(t, stored[m])
    BY <1>2, <1>4, <2>1, <2>2, <2>3 DEF Complete
  <2> QED
    BY <2>1, <2>3, <2>4
<1> QED
  BY <1>5, <1>6

LEMMA MissesNothingOfEach ==
    MissesNothing <=> \A t \in Topics : \A c \in members[t] : Complete(mail[c], log[t], t)
  BY Zenon DEF MissesNothing, Complete

\* MissesNothing is of the members, the log and the mail only.
LEMMA CompleteStays ==
    ASSUME ServiceInv, UNCHANGED <<log, next, mail>>, members' \in [Topics -> SUBSET Clients],
           \A t \in Topics : members'[t] \subseteq members[t]
    PROVE  ServiceInv'
<1>1. \A t \in Topics : \A c \in members[t] : Complete(mail[c], log[t], t)
  BY MissesNothingOfEach DEF ServiceInv
<1>2. \A t \in Topics : \A c \in members'[t] : Complete(mail[c], log[t], t)
  BY <1>1
<1>3. (\A t \in Topics : \A c \in members[t] : Complete(mail[c], log[t], t))'
  BY <1>2
<1>4. MissesNothing'
  BY <1>3, Zenon DEF MissesNothing, Complete
<1>5. ServiceTypeOK' /\ LogInOrder' /\ LogComplete'
  BY DEF ServiceInv, ServiceTypeOK, LogInOrder, LogComplete
<1> QED
  BY <1>4, <1>5 DEF ServiceInv

\* One reply to c, which may have joined t or left it.
LEMMA ReplyKeepsInv ==
    ASSUME ServiceInv, NEW c \in Clients, NEW x \in Notes, ~IsMessage(x), Give(Only(c, x)),
           UNCHANGED <<log, next>>, members' \in [Topics -> SUBSET Clients],
           \A t \in Topics : \A d \in members'[t] :
              d \in members[t] \/ (d = c /\ x = Reply("SUBSCRIBED", t))
    PROVE  ServiceInv'
<1>0. ServiceTypeOK
  BY DEF ServiceInv
<1>1. \A d \in Clients : mail'[d] = IF d = c THEN Append(mail[d], x) ELSE mail[d]
  <2> SUFFICES ASSUME NEW d \in Clients
               PROVE  mail'[d] = IF d = c THEN Append(mail[d], x) ELSE mail[d]
    OBVIOUS
  <2>1. mail[d] \in Seq(Notes)
    BY <1>0 DEF ServiceTypeOK
  <2>2. mail[d] \o <<x>> = Append(mail[d], x) /\ mail[d] \o <<>> = mail[d]
    BY <2>1, AppendIsConcat, ConcatEmptySeq
  <2>3. mail'[d] = mail[d] \o (IF d = c THEN <<x>> ELSE <<>>)
    BY DEF Give, Only
  <2> QED
    BY <2>2, <2>3
<1>2. mail' \in [Clients -> Seq(Notes)]
  <2>1. mail' = [d \in Clients |-> mail'[d]]
    BY DEF Give
  <2>2. \A d \in Clients : mail'[d] \in Seq(Notes)
    <3>1. \A s \in Seq(Notes) : Append(s, x) \in Seq(Notes)
      BY AppendProperties
    <3> QED
      BY <1>0, <1>1, <3>1 DEF ServiceTypeOK
  <2> QED
    BY <2>1, <2>2
<1>3. ASSUME NEW t \in Topics, NEW d \in members'[t]
      PROVE  Complete(mail'[d], log[t], t)
  <2>1. d \in Clients /\ mail[d] \in Seq(Notes)
    BY <1>0 DEF ServiceTypeOK
  <2>2. d \in members[t] => Complete(mail[d], log[t], t)
    BY MissesNothingOfEach DEF ServiceInv
  <2>3. CASE d = c
    BY <1>1, <2>1, <2>2, <2>3, CompleteReply
  <2>4. CASE d # c
    BY <1>1, <2>1, <2>2, <2>4
  <2> QED
    BY <2>3, <2>4
<1>4. MissesNothing'
  <2>1. (\A t \in Topics : \A d \in members[t] : Complete(mail[d], log[t], t))'
    BY <1>3
  <2> QED
    BY <2>1, Zenon DEF MissesNothing, Complete
<1>5. ServiceTypeOK' /\ LogInOrder' /\ LogComplete'
  BY <1>2 DEF ServiceInv, ServiceTypeOK, LogInOrder, LogComplete
<1> QED
  BY <1>4, <1>5 DEF ServiceInv

\* A number more in the log of one topic.
LEMMA LogGrows ==
    ASSUME ServiceInv, NEW t \in Topics,
           log' = [log EXCEPT ![t] = Append(@, next)], next' = next + 1
    PROVE  /\ log' \in [Topics -> Seq(Nat)] /\ LogInOrder' /\ LogComplete'
           /\ \A u \in Topics : log'[u] = IF u = t THEN Append(log[u], next) ELSE log[u]
<1>0. log \in [Topics -> Seq(Nat)] /\ next \in Nat /\ LogInOrder /\ LogComplete
  BY DEF ServiceInv, ServiceTypeOK
<1>1. \A u \in Topics : log'[u] = IF u = t THEN Append(log[u], next) ELSE log[u]
  BY <1>0
<1>2. \A u \in Topics : log[u] \in Seq(Nat) /\ log'[u] \in Seq(Nat)
  BY <1>0, <1>1, AppendProperties
<1>3. log' \in [Topics -> Seq(Nat)]
  <2>1. log' = [u \in Topics |-> log'[u]]
    BY <1>0
  <2> QED
    BY <1>2, <2>1
<1>4. \A u \in Topics : /\ DOMAIN log[u] = 1 .. Len(log[u]) /\ Len(log[u]) \in Nat
                        /\ DOMAIN log'[u] = 1 .. Len(log'[u])
                        /\ \A i \in DOMAIN log[u] : log[u][i] \in Nat
  BY <1>2, LenProperties, ElementOfSeq
<1>5. /\ Len(log'[t]) = Len(log[t]) + 1 /\ log'[t][Len(log[t]) + 1] = next
      /\ \A i \in 1 .. Len(log[t]) : log'[t][i] = log[t][i]
  BY <1>0, <1>1, <1>2, AppendProperties
<1>6. \A u \in Topics : \A i : i \in DOMAIN log'[u] <=>
          i \in DOMAIN log[u] \/ (u = t /\ i = Len(log[t]) + 1)
  BY <1>1, <1>4, <1>5
<1>7. \A u \in Topics : \A i \in DOMAIN log[u] : log'[u][i] = log[u][i]
  BY <1>1, <1>4, <1>5
<1>8. LogInOrder'
  <2>1. \A u \in Topics : \A i \in DOMAIN log'[u] : log'[u][i] < next + 1
    BY <1>0, <1>4, <1>5, <1>6, <1>7 DEF LogInOrder
  <2>2. ASSUME NEW u \in Topics, NEW i \in DOMAIN log'[u], NEW j \in DOMAIN log'[u], i < j
        PROVE  log'[u][i] < log'[u][j]
    <3>1. i \in DOMAIN log[u]
      BY <1>4, <1>6, <2>2
    <3>2. CASE j \in DOMAIN log[u]
      BY <1>0, <1>7, <2>2, <3>1, <3>2 DEF LogInOrder
    <3>3. CASE u = t /\ j = Len(log[t]) + 1
      BY <1>0, <1>5, <1>7, <3>1, <3>3 DEF LogInOrder
    <3> QED
      BY <1>6, <3>2, <3>3
  <2>3. LogInOrder' <=> \A u \in Topics :
            /\ \A i \in DOMAIN log'[u] : log'[u][i] < next'
            /\ \A i, j \in DOMAIN log'[u] : i < j => log'[u][i] < log'[u][j]
    BY DEF LogInOrder
  <2> QED
    BY <2>1, <2>2, <2>3
<1>9. LogComplete'
  <2> SUFFICES ASSUME NEW n \in Nat, n < next + 1
               PROVE  \E u \in Topics : \E i \in DOMAIN log'[u] :
                         /\ log'[u][i] = n
                         /\ \A v \in Topics : \A j \in DOMAIN log'[v] :
                               log'[v][j] = n => v = u /\ j = i
    BY DEF LogComplete
  <2>1. CASE n = next
    <3>1. \A v \in Topics : \A j \in DOMAIN log'[v] :
             log'[v][j] = n => v = t /\ j = Len(log[t]) + 1
      BY <1>0, <1>4, <1>6, <1>7, <2>1 DEF LogInOrder
    <3>2. Len(log[t]) + 1 \in DOMAIN log'[t] /\ log'[t][Len(log[t]) + 1] = n
      BY <1>5, <1>6, <2>1
    <3> QED
      BY <3>1, <3>2
  <2>2. CASE n # next
    <3>1. n < next
      BY <1>0, <2>2
    <3>2. PICK u \in Topics : \E i \in DOMAIN log[u] :
             /\ log[u][i] = n
             /\ \A v \in Topics : \A j \in DOMAIN log[v] : log[v][j] = n => v = u /\ j = i
      BY <1>0, <3>1 DEF LogComplete
    <3>3. PICK i \in DOMAIN log[u] :
             /\ log[u][i] = n
             /\ \A v \in Topics : \A j \in DOMAIN log[v] : log[v][j] = n => v = u /\ j = i
      BY <3>2
    <3>4. i \in DOMAIN log'[u] /\ log'[u][i] = n
      BY <1>6, <1>7, <3>3
    <3>5. \A v \in Topics : \A j \in DOMAIN log'[v] : log'[v][j] = n => v = u /\ j = i
      BY <1>5, <1>6, <1>7, <2>2, <3>3
    <3> QED
      BY <3>4, <3>5
  <2> QED
    BY <2>1, <2>2
<1> QED
  BY <1>1, <1>3, <1>8, <1>9

\* A publication: the log grows by what the members are given.
LEMMA PublishKeepsInv ==
    ASSUME ServiceInv, NEW c \in Clients, NEW t \in Topics, Publish(c, t)
    PROVE  ServiceInv'
<1> DEFINE r == Reply("PUBLISHED", NoTopic)
           m == Message(t, next)
           a(d) == IF d \in members[t] THEN <<m>> ELSE <<>>
           b(d) == IF d = c THEN <<r>> ELSE <<>>
<1>0. ServiceTypeOK /\ LogInOrder
  BY DEF ServiceInv
<1>1. /\ log' = [log EXCEPT ![t] = Append(@, next)] /\ next' = next + 1
      /\ members' = members
      /\ mail' = [d \in Clients |-> mail[d] \o (a(d) \o b(d))]
  BY DEF Publish, Give
<1>2. r \in Notes /\ m \in Notes /\ ~IsMessage(r)
  BY <1>0 DEF Reply, Message, Notes, IsMessage, ServiceTypeOK
<1>3. /\ log' \in [Topics -> Seq(Nat)] /\ LogInOrder' /\ LogComplete'
      /\ \A u \in Topics : log'[u] = IF u = t THEN Append(log[u], next) ELSE log[u]
  BY <1>1, LogGrows
<1>4. ASSUME NEW d \in Clients
      PROVE  /\ mail[d] \in Seq(Notes) /\ mail[d] \o a(d) \in Seq(Notes)
             /\ d \in members[t] => mail[d] \o a(d) = Append(mail[d], m)
             /\ d \notin members[t] => mail[d] \o a(d) = mail[d]
             /\ d = c => mail'[d] = Append(mail[d] \o a(d), r)
             /\ d # c => mail'[d] = mail[d] \o a(d)
  <2>1. mail[d] \in Seq(Notes)
    BY <1>0 DEF ServiceTypeOK
  <2> HIDE DEF m, r
  <2>2. a(d) \in Seq(Notes) /\ b(d) \in Seq(Notes)
    BY <1>2
  <2>3. /\ d \in members[t] => mail[d] \o a(d) = Append(mail[d], m)
        /\ d \notin members[t] => mail[d] \o a(d) = mail[d]
    BY <1>2, <2>1, AppendIsConcat, ConcatEmptySeq
  <2>4. mail'[d] = mail[d] \o (a(d) \o b(d))
    BY <1>1
  <2>5. mail'[d] = (mail[d] \o a(d)) \o b(d) /\ mail[d] \o a(d) \in Seq(Notes)
    <3> HIDE DEF a, b
    <3>1. mail[d] \o a(d) \in Seq(Notes)
      BY <2>1, <2>2, ConcatProperties
    <3>2. (mail[d] \o a(d)) \o b(d) = mail[d] \o (a(d) \o b(d))
      <4>1. \A u, v, w \in Seq(Notes) : (u \o v) \o w = u \o (v \o w)
        BY ConcatAssociative
      <4> QED
        BY <2>1, <2>2, <4>1
    <3> QED
      BY <2>4, <3>1, <3>2
  <2>6. /\ d = c => mail'[d] = Append(mail[d] \o a(d), r)
        /\ d # c => mail'[d] = mail[d] \o a(d)
    <3> HIDE DEF a
    <3>1. d = c => b(d) = <<r>>
      OBVIOUS
    <3>2. d # c => b(d) = <<>>
      OBVIOUS
    <3> HIDE DEF b
    <3>3. \A s \in Seq(Notes) : s \o <<r>> = Append(s, r) /\ s \o <<>> = s
      BY <1>2, AppendIsConcat, ConcatEmptySeq
    <3> QED
      BY <2>5, <3>1, <3>2, <3>3
  <2> QED
    BY <2>1, <2>3, <2>5, <2>6
<1> HIDE DEF a, b
<1>5. mail' \in [Clients -> Seq(Notes)]
  <2>1. \A d \in Clients : mail'[d] \in Seq(Notes)
    <3> HIDE DEF r
    <3>1. \A s \in Seq(Notes) : Append(s, r) \in Seq(Notes)
      BY <1>2, AppendProperties
    <3> QED
      BY <1>4, <3>1
  <2>2. mail' = [d \in Clients |-> mail'[d]]
    BY <1>1
  <2> QED
    BY <2>1, <2>2
<1>6. ASSUME NEW u \in Topics, NEW d \in members[u]
      PROVE  Complete(mail'[d], log'[u], u)
  <2>1. /\ d \in Clients /\ mail[d] \in Seq(Notes) /\ log[u] \in Seq(Nat) /\ next \in Nat
        /\ Complete(mail[d], log[u], u)
    BY <1>0, MissesNothingOfEach DEF ServiceInv, ServiceTypeOK
  <2>2. \A i \in DOMAIN log[u] : log[u][i] \in Nat /\ log[u][i] < next
    BY <1>0, <2>1, ElementOfSeq, LenProperties DEF LogInOrder
  <2>3. Complete(mail[d] \o a(d), log'[u], u)
    <3>1. CASE u = t
      BY <1>3, <1>4, <2>1, <2>2, <3>1, CompleteMessage
    <3>2. CASE u # t /\ d \in members[t]
      BY <1>3, <1>4, <2>1, <2>2, <3>2, CompleteOther
    <3>3. CASE u # t /\ d \notin members[t]
      BY <1>3, <1>4, <2>1, <3>3
    <3> QED
      BY <3>1, <3>2, <3>3
  <2> HIDE DEF r
  <2>4. CASE d = c
    BY <1>2, <1>4, <2>1, <2>3, <2>4, CompleteReply
  <2>5. CASE d # c
    BY <1>4, <2>1, <2>3, <2>5
  <2> QED
    BY <2>4, <2>5
<1>7. MissesNothing'
  <2>1. (\A u \in Topics : \A d \in members[u] : Complete(mail[d], log[u], u))'
    BY <1>1, <1>6
  <2> QED
    BY <2>1, Zenon DEF MissesNothing, Complete
<1>8. ServiceTypeOK'
  BY <1>0, <1>1, <1>3, <1>5 DEF ServiceTypeOK
<1> QED
  BY <1>3, <1>7, <1>8 DEF ServiceInv

LEMMA ServiceInit ==
    ASSUME Init
    PROVE  ServiceInv
<1>1. ServiceTypeOK /\ LogInOrder /\ LogComplete
  BY DEF Init, ServiceTypeOK, LogInOrder, LogComplete
<1>2. MissesNothing
  BY DEF Init, MissesNothing
<1> QED
  BY <1>1, <1>2 DEF ServiceInv

\* One step for each request; a step of the connections only takes members away.
LEMMA JoinKeepsInv ==
    ASSUME ServiceInv, NEW c \in Clients, NEW t \in Topics, Join(c, t) \/ Leave(c, t)
    PROVE  ServiceInv'
<1> DEFINE x(k) == Reply(k, t)
<1>1. \A k \in {"SUBSCRIBED", "UNSUBSCRIBED"} : x(k) \in Notes /\ ~IsMessage(x(k))
  BY DEF Reply, Notes, IsMessage
<1>2. members \in [Topics -> SUBSET Clients]
  BY DEF ServiceInv, ServiceTypeOK
<1>3. CASE Join(c, t)
  <2>1. /\ Give(Only(c, x("SUBSCRIBED"))) /\ UNCHANGED <<log, next>>
        /\ members' = [members EXCEPT ![t] = @ \cup {c}]
    BY <1>3 DEF Join
  <2>2. /\ members' \in [Topics -> SUBSET Clients]
        /\ \A u \in Topics : \A d \in members'[u] :
              d \in members[u] \/ (d = c /\ x("SUBSCRIBED") = Reply("SUBSCRIBED", u))
    BY <1>2, <2>1
  <2> HIDE DEF x
  <2> QED
    BY <1>1, <2>1, <2>2, ReplyKeepsInv
<1>4. CASE Leave(c, t)
  <2>1. /\ Give(Only(c, x("UNSUBSCRIBED"))) /\ UNCHANGED <<log, next>>
        /\ members' = [members EXCEPT ![t] = @ \ {c}]
    BY <1>4 DEF Leave
  <2>2. /\ members' \in [Topics -> SUBSET Clients]
        /\ \A u \in Topics : \A d \in members'[u] : d \in members[u]
    BY <1>2, <2>1
  <2> HIDE DEF x
  <2> QED
    BY <1>1, <2>1, <2>2, ReplyKeepsInv
<1> QED
  BY <1>3, <1>4

LEMMA RespondKeepsInv ==
    ASSUME ServiceInv, NEW c \in Clients, NEW kind \in {"PONG", "ERROR"}, Respond(c, kind)
    PROVE  ServiceInv'
<1> DEFINE x == Reply(kind, NoTopic)
<1>1. x \in Notes /\ ~IsMessage(x)
  BY DEF Reply, Notes, IsMessage
<1>2. Give(Only(c, x)) /\ members' = members /\ UNCHANGED <<log, next>>
  BY DEF Respond
<1>3. members \in [Topics -> SUBSET Clients]
  BY DEF ServiceInv, ServiceTypeOK
<1> HIDE DEF x
<1> QED
  BY <1>1, <1>2, <1>3, ReplyKeepsInv

LEMMA OtherKeepsInv ==
    ASSUME ServiceInv,
           \/ \E c \in Clients : Drop(c) \/ Leaves(c)
           \/ UNCHANGED <<members, log, next, mail>>
    PROVE  ServiceInv'
<1>1. members \in [Topics -> SUBSET Clients]
  BY DEF ServiceInv, ServiceTypeOK
<1>2. /\ UNCHANGED <<log, next, mail>> /\ members' \in [Topics -> SUBSET Clients]
      /\ \A t \in Topics : members'[t] \subseteq members[t]
  BY <1>1 DEF Drop, Leaves
<1> QED
  BY <1>2, CompleteStays

LEMMA ServiceInvariant == Spec => []ServiceInv
<1>1. Init => ServiceInv
  BY ServiceInit
<1>2. ServiceInv /\ [Next]_svcVars => ServiceInv'
  <2> SUFFICES ASSUME ServiceInv, [Next]_svcVars
               PROVE  ServiceInv'
    OBVIOUS
  <2>1. ASSUME NEW c \in Clients, NEW t \in Topics, Join(c, t) \/ Leave(c, t)
        PROVE  ServiceInv'
    BY <2>1, JoinKeepsInv
  <2>2. ASSUME NEW c \in Clients, NEW t \in Topics, Publish(c, t)
        PROVE  ServiceInv'
    BY <2>2, PublishKeepsInv
  <2>3. ASSUME NEW c \in Clients, Respond(c, "PONG") \/ Respond(c, "ERROR")
        PROVE  ServiceInv'
    BY <2>3, RespondKeepsInv
  <2>4. ASSUME NEW c \in Clients, Drop(c) \/ Leaves(c)
        PROVE  ServiceInv'
    BY <2>4, OtherKeepsInv
  <2>5. ASSUME NEW c \in Clients, Take(c)
        PROVE  ServiceInv'
    BY <2>5, OtherKeepsInv DEF Take
  <2>6. CASE UNCHANGED svcVars
    BY <2>6, OtherKeepsInv DEF svcVars
  <2> QED
    BY <2>1, <2>2, <2>3, <2>4, <2>5, <2>6 DEF Next
<1> QED
  BY <1>1, <1>2, PTL DEF Spec

\* A member of a topic misses no publication of it: what is given and what is logged
\* come from one step, and the members are those of that step.
THEOREM ServiceMissesNothing == Spec => []MissesNothing
<1>1. ServiceInv => MissesNothing
  BY DEF ServiceInv
<1> QED
  BY <1>1, ServiceInvariant, PTL

\* Every number that TopicManager::publish has given out is stored in one place, and the
\* numbers of a topic are stored in their order.
THEOREM ServiceLogsEachOnce == Spec => [](LogInOrder /\ LogComplete)
<1>1. ServiceInv => LogInOrder /\ LogComplete
  BY DEF ServiceInv
<1> QED
  BY <1>1, ServiceInvariant, PTL
===============================================================================
