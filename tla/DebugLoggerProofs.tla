--------------------------- MODULE DebugLoggerProofs ---------------------------
(***************************************************************************)
(* Theorems about DebugLogger, for every set of threads, of callers that   *)
(* ask first or reconnect, of connections, and every size of the socket    *)
(* buffers.                                                                *)
(***************************************************************************)
EXTENDS DebugLogger, SequenceTheorems, TLAPS

\* A thread in a call has a line to send; the mutex is held in the critical sections.
PcInv ==
    /\ \A t \in Threads : pc[t] \in {"test", "retest", "lock", "send", "rest"} => left[t] > 0
    /\ \A t \in Threads : pc[t] \in {"connect", "send", "rest"} <=> socket_mutex = t

\* OneConnection, connection by connection.
FdInv == \A c \in Conns : link[c] \in {"open", "gone", "reset"} <=> c = socket_fd

\* The socket is closed while a thread connects, and otherwise there is one if the
\* logger calls itself connected.
ConnectedInv ==
    /\ \A t \in Threads : pc[t] = "connect" => socket_fd = NoConn
    /\ connected =>
          \/ socket_fd # NoConn
          \/ \E t \in Threads : pc[t] = "connect"
          \/ \A t \in Threads : pc[t] = "destroyed"

ControlInv == LoggerTypeOK /\ PcInv /\ FdInv /\ ConnectedInv

-------------------------------------------------------------------------------
(* Types. *)

\* Every call that an application makes sends at least one line.
LEMMA CallsHaveLines == RobustApp \subseteq Nat \ {0} /\ SimpleApp \subseteq Nat \ {0}
  BY DEF RobustApp, ProcessOrder, PrintStats, ThreadWorker, MainLoop, SimpleApp,
     info, metric, warn, error

LEMMA PieceTypes ==
    ASSUME NEW t \in Threads
    PROVE  /\ <<Head_(t), Tail_(t)>> \in Seq(Pieces)
           /\ <<Head_(t)>> \in Seq(Pieces) /\ <<Tail_(t)>> \in Seq(Pieces)
  BY DEF Pieces, Head_, Tail_

LEMMA PutType ==
    ASSUME LoggerTypeOK, NEW pieces \in Seq(Pieces), Put(pieces), socket_fd \in Conns
    PROVE  wire' \in [Conns -> Seq(Pieces)]
<1>1. wire[socket_fd] \o pieces \in Seq(Pieces)
  BY ConcatProperties DEF LoggerTypeOK
<1> QED
  BY <1>1 DEF Put, LoggerTypeOK

\* What a close does to the connections.
LEMMA CloseEffect ==
    ASSUME LoggerTypeOK, FdInv, CloseSocket
    PROVE  /\ link' \in [Conns -> {"free", "open", "closing", "gone", "reset"}]
           /\ wire' \in [Conns -> Seq(Pieces)] /\ unread' \subseteq Conns
           /\ \A c \in Conns : link'[c] \notin {"open", "gone", "reset"}
<1>1. wire' \in [Conns -> Seq(Pieces)]
  <2>1. CASE socket_fd \in unread
    <3>1. PICK n \in 0 .. Len(wire[socket_fd]) :
              wire' = [wire EXCEPT ![socket_fd] = SubSeq(@, 1, n)]
      BY <2>1 DEF CloseSocket
    <3>2. socket_fd \in Conns /\ wire[socket_fd] \in Seq(Pieces)
      BY <2>1 DEF LoggerTypeOK
    <3>3. n \in Nat /\ Len(wire[socket_fd]) \in Nat
      BY <3>2, LenProperties
    <3>4. \A i \in 1 .. n : wire[socket_fd][i] \in Pieces
      BY <3>2, <3>3, ElementOfSeq
    <3>5. SubSeq(wire[socket_fd], 1, n) \in Seq(Pieces)
      BY <3>3, <3>4, SubSeqProperties
    <3> QED
      BY <3>1, <3>5 DEF LoggerTypeOK
  <2>2. CASE socket_fd \notin unread
    BY <2>2 DEF CloseSocket, LoggerTypeOK
  <2> QED
    BY <2>1, <2>2
<1>2. link' \in [Conns -> {"free", "open", "closing", "gone", "reset"}]
  BY DEF CloseSocket, LoggerTypeOK
<1>3. \A c \in Conns : link'[c] \notin {"open", "gone", "reset"}
  BY DEF CloseSocket, FdInv, LoggerTypeOK
<1> QED
  BY <1>1, <1>2, <1>3 DEF CloseSocket, LoggerTypeOK

-------------------------------------------------------------------------------
(* The mutex and the socket. *)

\* The constructor leaves one connection or none.
LEMMA ControlInit == LoggerInit => ControlInv
<1> SUFFICES ASSUME LoggerInit
             PROVE  ControlInv
  OBVIOUS
<1> USE LoggerConstantsOK DEF LoggerInit
<1>1. LoggerTypeOK
  <2>1. <<>> \in Seq(Pieces)
    OBVIOUS
  <2> QED
    BY <2>1 DEF LoggerTypeOK
<1>2. PcInv
  BY DEF PcInv
<1>3. FdInv
  BY DEF FdInv
<1>4. ConnectedInv
  BY DEF ConnectedInv
<1> QED
  BY <1>1, <1>2, <1>3, <1>4 DEF ControlInv

\* A thread goes on to its next line, or its calls have returned.
LEMMA NextLineEffect ==
    ASSUME LoggerTypeOK, PcInv, NEW t \in Threads, NextLine(t),
           pc[t] \in {"test", "retest", "lock", "send", "rest"}
    PROVE  /\ left' \in [Threads -> Nat]
           /\ \E p \in {"idle", "test"} :
                 pc' = [pc EXCEPT ![t] = p] /\ (p = "test" => left'[t] > 0)
           /\ \A u \in Threads : u # t => left'[u] = left[u]
<1>1. left[t] \in Nat /\ left[t] > 0
  BY DEF LoggerTypeOK, PcInv
<1>2. left' = [left EXCEPT ![t] = left[t] - 1]
  BY DEF NextLine
<1>3. left[t] - 1 \in Nat
  BY <1>1
<1>4. left' \in [Threads -> Nat] /\ left'[t] = left[t] - 1
  BY <1>2, <1>3 DEF LoggerTypeOK
<1>5. CASE left[t] = 1
  BY <1>2, <1>4, <1>5 DEF NextLine, LoggerTypeOK
<1>6. CASE left[t] # 1
  <2>1. left'[t] > 0
    BY <1>1, <1>4, <1>6
  <2> QED
    BY <1>2, <1>4, <1>6, <2>1 DEF NextLine, LoggerTypeOK
<1> QED
  BY <1>5, <1>6

\* Whoever returns from a send has had the mutex and leaves it free.
LEMMA SendReturnsControl ==
    ASSUME LoggerTypeOK, PcInv, NEW t \in Threads, SendReturns(t), pc[t] \in {"send", "rest"}
    PROVE  /\ PcInv' /\ left' \in [Threads -> Nat]
           /\ pc' \in [Threads -> {"idle", "test", "reconnect", "connect", "retest", "lock",
                                   "send", "rest", "destroyed"}]
           /\ socket_mutex' = NoOne
           /\ \A u \in Threads : pc'[u] # "connect" /\ pc[u] # "connect"
<1>1. PICK p \in {"idle", "test"} :
          pc' = [pc EXCEPT ![t] = p] /\ (p = "test" => left'[t] > 0)
  BY NextLineEffect DEF SendReturns
<1>2. left' \in [Threads -> Nat] /\ \A u \in Threads : u # t => left'[u] = left[u]
  BY NextLineEffect DEF SendReturns
<1>3. socket_mutex = t /\ socket_mutex' = NoOne
  BY DEF PcInv, SendReturns
<1>4. \A u \in Threads : pc[u] # "connect"
  BY <1>3 DEF PcInv
<1>5. PcInv'
  BY <1>1, <1>2, <1>3, LoggerConstantsOK DEF PcInv, LoggerTypeOK
<1> QED
  BY <1>1, <1>2, <1>3, <1>4, <1>5 DEF LoggerTypeOK

\* A send that has left the connections as they are, but for what is in their buffers.
LEMMA SendKeepsControl ==
    ASSUME ControlInv, NEW t \in Threads, SendReturns(t), pc[t] \in {"send", "rest"},
           wire' \in [Conns -> Seq(Pieces)], connected' \in {connected, FALSE},
           UNCHANGED <<socket_fd, link, unread, up>>
    PROVE  ControlInv'
<1>1. /\ PcInv' /\ left' \in [Threads -> Nat] /\ socket_mutex' = NoOne
      /\ pc' \in [Threads -> {"idle", "test", "reconnect", "connect", "retest", "lock",
                              "send", "rest", "destroyed"}]
      /\ \A u \in Threads : pc'[u] # "connect" /\ pc[u] # "connect"
  BY SendReturnsControl DEF ControlInv
<1>2. LoggerTypeOK'
  BY <1>1 DEF ControlInv, LoggerTypeOK
<1>3. FdInv'
  BY DEF ControlInv, FdInv
<1>4. ConnectedInv'
  <2>1. connected => socket_fd # NoConn
    BY <1>1 DEF ControlInv, ConnectedInv
  <2>2. CASE connected' = FALSE
    BY <1>1, <2>2 DEF ConnectedInv
  <2>3. CASE connected' = connected
    BY <1>1, <2>1, <2>3 DEF ConnectedInv
  <2> QED
    BY <2>2, <2>3
<1> QED
  BY <1>1, <1>2, <1>3, <1>4 DEF ControlInv

\* A step of one thread outside the critical sections that changes only where it is and
\* how much it has to send.
LEMMA ThreadStepControl ==
    ASSUME ControlInv, NEW t \in Threads,
           NEW p \in {"idle", "test", "reconnect", "retest", "lock"},
           pc' = [pc EXCEPT ![t] = p],
           pc[t] \notin {"connect", "send", "rest", "destroyed"},
           left' \in [Threads -> Nat], \A u \in Threads : u # t => left'[u] = left[u],
           p \in {"test", "retest", "lock"} => left'[t] > 0,
           UNCHANGED <<socket_fd, connected, socket_mutex, connVars, up>>
    PROVE  ControlInv'
<1>1. LoggerTypeOK'
  BY DEF ControlInv, LoggerTypeOK, connVars
<1>2. PcInv'
  BY DEF ControlInv, PcInv, LoggerTypeOK
<1>3. FdInv'
  BY DEF ControlInv, FdInv, connVars
<1>4. ConnectedInv'
  BY DEF ControlInv, ConnectedInv, LoggerTypeOK
<1> QED
  BY <1>1, <1>2, <1>3, <1>4 DEF ControlInv

\* A step of the broker or the kernel, which opens no connection and closes none of the
\* logger's.
LEMMA OutsideControl ==
    ASSUME ControlInv, UNCHANGED <<socket_fd, connected, socket_mutex, threadVars>>,
           link' \in [Conns -> {"free", "open", "closing", "gone", "reset"}],
           wire' \in [Conns -> Seq(Pieces)], unread' \subseteq Conns, up' \in BOOLEAN,
           \A c \in Conns : link'[c] \in {"open", "gone", "reset"}
                               <=> link[c] \in {"open", "gone", "reset"}
    PROVE  ControlInv'
<1>1. LoggerTypeOK'
  BY DEF ControlInv, LoggerTypeOK, threadVars
<1>2. PcInv'
  BY DEF ControlInv, PcInv, threadVars
<1>3. FdInv'
  BY DEF ControlInv, FdInv
<1>4. ConnectedInv'
  BY DEF ControlInv, ConnectedInv, threadVars
<1> QED
  BY <1>1, <1>2, <1>3, <1>4 DEF ControlInv

\* connect_to_broker.
LEMMA ConnectControl ==
    ASSUME ControlInv, NEW t \in Threads,
           ConnectBegins(t) \/ Connected(t) \/ ConnectFails(t)
    PROVE  ControlInv'
<1> USE LoggerConstantsOK DEF ControlInv
<1>1. CASE ConnectBegins(t)
  <2>1. /\ link' \in [Conns -> {"free", "open", "closing", "gone", "reset"}]
        /\ wire' \in [Conns -> Seq(Pieces)] /\ unread' \subseteq Conns
        /\ \A c \in Conns : link'[c] \notin {"open", "gone", "reset"}
    BY <1>1, CloseEffect DEF ConnectBegins
  <2>2. LoggerTypeOK'
    BY <1>1, <2>1 DEF ConnectBegins, LoggerTypeOK
  <2>3. PcInv'
    BY <1>1 DEF ConnectBegins, LoggerTypeOK, PcInv
  <2>4. FdInv'
    BY <1>1, <2>1 DEF ConnectBegins, FdInv
  <2>5. ConnectedInv'
    BY <1>1 DEF ConnectBegins, LoggerTypeOK, PcInv, ConnectedInv
  <2> QED
    BY <2>2, <2>3, <2>4, <2>5
<1>2. CASE Connected(t)
  <2>1. PICK c \in Conns : link[c] = "free" /\ link' = [link EXCEPT ![c] = "open"]
                          /\ socket_fd' = c
    BY <1>2 DEF Connected
  <2>2. LoggerTypeOK'
    BY <1>2, <2>1 DEF Connected, ConnectReturns, LoggerTypeOK
  <2>3. PcInv'
    BY <1>2 DEF Connected, ConnectReturns, LoggerTypeOK, PcInv
  <2>4. socket_fd = NoConn
    BY <1>2 DEF Connected, ConnectedInv
  <2>5. FdInv'
    BY <2>1, <2>4 DEF FdInv, LoggerTypeOK
  <2>6. \A u \in Threads : pc'[u] # "connect"
    BY <1>2 DEF Connected, ConnectReturns, LoggerTypeOK, PcInv
  <2>7. ConnectedInv'
    BY <2>1, <2>6 DEF ConnectedInv
  <2> QED
    BY <2>2, <2>3, <2>5, <2>7
<1>3. CASE ConnectFails(t)
  <2>1. LoggerTypeOK'
    BY <1>3 DEF ConnectFails, ConnectReturns, LoggerTypeOK, connVars
  <2>2. PcInv'
    BY <1>3 DEF ConnectFails, ConnectReturns, LoggerTypeOK, PcInv
  <2>3. FdInv'
    BY <1>3 DEF ConnectFails, FdInv, connVars
  <2>4. \A u \in Threads : pc'[u] # "connect"
    BY <1>3 DEF ConnectFails, ConnectReturns, LoggerTypeOK, PcInv
  <2>5. ConnectedInv'
    BY <1>3, <2>4 DEF ConnectFails, ConnectedInv
  <2> QED
    BY <2>1, <2>2, <2>3, <2>5
<1> QED
  BY <1>1, <1>2, <1>3

\* The calls, and send_message before its critical section.
LEMMA TestControl ==
    ASSUME ControlInv, NEW t \in Threads,
           Log(t) \/ Reconnect(t) \/ Test(t) \/ Retest(t)
    PROVE  ControlInv'
<1> USE DEF ControlInv
<1>1. CASE Log(t)
  <2>1. PICK n \in Nat \ {0} : left' = [left EXCEPT ![t] = n]
    BY <1>1, CallsHaveLines DEF Log
  <2>2. /\ left' \in [Threads -> Nat] /\ left'[t] > 0
        /\ \A u \in Threads : u # t => left'[u] = left[u]
    BY <2>1 DEF LoggerTypeOK
  <2> QED
    BY <1>1, <2>2, ThreadStepControl DEF Log
<1>2. CASE Reconnect(t)
  BY <1>2, ThreadStepControl DEF Reconnect, LoggerTypeOK
<1>3. CASE Test(t)
  <2>1. left[t] > 0
    BY <1>3 DEF Test, PcInv
  <2> QED
    BY <1>3, <2>1, ThreadStepControl DEF Test, LoggerTypeOK
<1>4. CASE Retest(t)
  <2>1. left[t] > 0 /\ pc[t] = "retest"
    BY <1>4 DEF Retest, PcInv
  <2>2. CASE connected
    BY <1>4, <2>1, <2>2, ThreadStepControl DEF Retest, LoggerTypeOK
  <2>3. CASE ~connected
    <3>1. /\ left' \in [Threads -> Nat]
          /\ \A u \in Threads : u # t => left'[u] = left[u]
      BY <1>4, <2>1, <2>3, NextLineEffect DEF Retest
    <3>2. PICK p \in {"idle", "test"} :
              pc' = [pc EXCEPT ![t] = p] /\ (p = "test" => left'[t] > 0)
      BY <1>4, <2>1, <2>3, NextLineEffect DEF Retest
    <3> QED
      BY <1>4, <2>1, <3>1, <3>2, ThreadStepControl DEF Retest
  <2> QED
    BY <2>2, <2>3
<1> QED
  BY <1>1, <1>2, <1>3, <1>4

\* send_message in its critical section.
LEMMA SendControl ==
    ASSUME ControlInv, NEW t \in Threads,
           \/ SendBegins(t) \/ SendWhole(t) \/ SendPart(t) \/ SendRest(t)
           \/ SendCut(t) \/ SendVanishes(t) \/ SendFails(t)
    PROVE  ControlInv'
<1> USE LoggerConstantsOK DEF ControlInv
<1>1. CASE SendBegins(t)
  <2>1. LoggerTypeOK'
    BY <1>1 DEF SendBegins, LoggerTypeOK, connVars
  <2>2. PcInv'
    BY <1>1 DEF SendBegins, LoggerTypeOK, PcInv
  <2>3. FdInv'
    BY <1>1 DEF SendBegins, FdInv, connVars
  <2>4. ConnectedInv'
    BY <1>1 DEF SendBegins, LoggerTypeOK, ConnectedInv
  <2> QED
    BY <2>1, <2>2, <2>3, <2>4
<1>2. CASE SendPart(t)
  <2>1. wire' \in [Conns -> Seq(Pieces)]
    <3>1. socket_fd \in Conns
      BY <1>2 DEF SendPart, Linked, LoggerTypeOK
    <3> QED
      BY <1>2, <3>1, PieceTypes, PutType DEF SendPart
  <2>2. LoggerTypeOK'
    BY <1>2, <2>1 DEF SendPart, LoggerTypeOK
  <2>3. PcInv'
    BY <1>2 DEF SendPart, LoggerTypeOK, PcInv
  <2>4. FdInv'
    BY <1>2 DEF SendPart, FdInv
  <2>5. ConnectedInv'
    BY <1>2 DEF SendPart, LoggerTypeOK, ConnectedInv
  <2> QED
    BY <2>2, <2>3, <2>4, <2>5
<1>3. CASE SendWhole(t)
  <2>1. socket_fd \in Conns
    BY <1>3 DEF SendWhole, Linked, LoggerTypeOK
  <2>2. wire' \in [Conns -> Seq(Pieces)]
    BY <1>3, <2>1, PieceTypes, PutType DEF SendWhole
  <2> QED
    BY <1>3, <2>2, SendKeepsControl DEF SendWhole
<1>4. CASE SendRest(t)
  <2>1. socket_fd \in Conns
    BY <1>4 DEF SendRest, Linked, LoggerTypeOK
  <2>2. wire' \in [Conns -> Seq(Pieces)]
    BY <1>4, <2>1, PieceTypes, PutType DEF SendRest
  <2> QED
    BY <1>4, <2>2, SendKeepsControl DEF SendRest
<1>5. CASE SendCut(t)
  BY <1>5, SendKeepsControl DEF SendCut, connVars, LoggerTypeOK
<1>6. CASE SendVanishes(t)
  BY <1>6, SendKeepsControl DEF SendVanishes, connVars, LoggerTypeOK
<1>7. CASE SendFails(t)
  BY <1>7, SendKeepsControl DEF SendFails, connVars, LoggerTypeOK
<1> QED
  BY <1>1, <1>2, <1>3, <1>4, <1>5, <1>6, <1>7

\* The destructor.
LEMMA DestroyControl ==
    ASSUME ControlInv, Destroy
    PROVE  ControlInv'
<1> USE LoggerConstantsOK DEF ControlInv
<1>1. /\ link' \in [Conns -> {"free", "open", "closing", "gone", "reset"}]
      /\ wire' \in [Conns -> Seq(Pieces)] /\ unread' \subseteq Conns
      /\ \A c \in Conns : link'[c] \notin {"open", "gone", "reset"}
  BY CloseEffect DEF Destroy
<1>2. LoggerTypeOK'
  BY <1>1 DEF Destroy, LoggerTypeOK
<1>3. PcInv'
  BY DEF Destroy, LoggerTypeOK, PcInv
<1>4. FdInv'
  BY <1>1 DEF Destroy, FdInv
<1>5. ConnectedInv'
  BY DEF Destroy, ConnectedInv
<1> QED
  BY <1>2, <1>3, <1>4, <1>5

\* What the broker has read leaves the rest of the buffer.
LEMMA ServeType ==
    ASSUME LoggerTypeOK, NEW c \in Conns, NEW n \in DOMAIN wire[c]
    PROVE  SubSeq(wire[c], n + 1, Len(wire[c])) \in Seq(Pieces)
<1>1. wire[c] \in Seq(Pieces)
  BY DEF LoggerTypeOK
<1>2. Len(wire[c]) \in Nat /\ n \in 1 .. Len(wire[c])
  BY <1>1, LenProperties
<1>3. \A i \in n + 1 .. Len(wire[c]) : wire[c][i] \in Pieces
  BY <1>1, <1>2, ElementOfSeq
<1> QED
  BY <1>2, <1>3, SubSeqProperties

\* The broker and the kernel.
LEMMA BrokerControl ==
    ASSUME ControlInv,
           \/ \E c \in Conns : Serve(c) \/ EndOfFile(c) \/ ResetArrives(c)
           \/ Crash \/ Restart
    PROVE  ControlInv'
<1> USE DEF ControlInv
<1>1. ASSUME NEW c \in Conns, Serve(c)
      PROVE  ControlInv'
  <2>1. PICK n \in DOMAIN wire[c] :
            wire' = [wire EXCEPT ![c] = SubSeq(wire[c], n + 1, Len(wire[c]))]
    BY <1>1 DEF Serve
  <2>2. wire' \in [Conns -> Seq(Pieces)]
    BY <2>1, ServeType DEF LoggerTypeOK
  <2> QED
    BY <1>1, <2>2, OutsideControl DEF Serve, LoggerTypeOK
<1>2. ASSUME NEW c \in Conns, EndOfFile(c)
      PROVE  ControlInv'
  <2>1. <<>> \in Seq(Pieces)
    OBVIOUS
  <2>2. wire' \in [Conns -> Seq(Pieces)]
    BY <1>2, <2>1 DEF EndOfFile, LoggerTypeOK
  <2> QED
    BY <1>2, <2>2, OutsideControl DEF EndOfFile, LoggerTypeOK
<1>3. ASSUME NEW c \in Conns, ResetArrives(c)
      PROVE  ControlInv'
  BY <1>3, OutsideControl DEF ResetArrives, LoggerTypeOK
<1>4. CASE Crash
  <2>1. <<>> \in Seq(Pieces)
    OBVIOUS
  <2>2. wire' \in [Conns -> Seq(Pieces)]
    BY <1>4, <2>1 DEF Crash
  <2>3. /\ link' \in [Conns -> {"free", "open", "closing", "gone", "reset"}]
        /\ \A c \in Conns : link'[c] \in {"open", "gone", "reset"}
                               <=> link[c] \in {"open", "gone", "reset"}
    BY <1>4 DEF Crash, LoggerTypeOK
  <2> QED
    BY <1>4, <2>2, <2>3, OutsideControl DEF Crash, LoggerTypeOK
<1>5. CASE Restart
  BY <1>5, OutsideControl DEF Restart, connVars, LoggerTypeOK
<1> QED
  BY <1>1, <1>2, <1>3, <1>4, <1>5

LEMMA ControlStep == ControlInv /\ [LoggerNext]_vars => ControlInv'
<1> SUFFICES ASSUME ControlInv, [LoggerNext]_vars
             PROVE  ControlInv'
  OBVIOUS
<1>1. CASE UNCHANGED vars
  BY <1>1 DEF vars, threadVars, connVars, ControlInv, LoggerTypeOK, PcInv, FdInv, ConnectedInv
<1>2. ASSUME NEW t \in Threads, Log(t) \/ Reconnect(t) \/ Lock(t) \/ Step(t)
      PROVE  ControlInv'
  BY <1>2, ConnectControl, TestControl, SendControl DEF Lock, Step
<1> QED
  BY <1>1, <1>2, DestroyControl, BrokerControl DEF LoggerNext

\* The bookkeeping of the logger is consistent, with the types of its variables.
THEOREM LoggerControl == LoggerSpec => []ControlInv
<1> QED
  BY ControlInit, ControlStep, PTL DEF LoggerSpec

\* No descriptor of connect_to_broker is leaked, and none is used after its close.
THEOREM LoggerHoldsOneConnection == LoggerSpec => []OneConnection
<1>1. ControlInv => OneConnection
  BY LoggerConstantsOK DEF ControlInv, FdInv, LoggerTypeOK, OneConnection
<1> QED
  BY <1>1, LoggerControl, PTL

\* is_connected tells the truth whenever no thread is inside a critical section.
THEOREM LoggerConnectedHasSocket == LoggerSpec => []ConnectedHasSocket
<1>1. ControlInv => ConnectedHasSocket
  BY LoggerConstantsOK DEF ControlInv, PcInv, ConnectedInv, ConnectedHasSocket
<1> QED
  BY <1>1, LoggerControl, PTL

-------------------------------------------------------------------------------
(* What is on the wire. *)

\* NoInterleaving of one connection.
Whole(w) == \A n \in DOMAIN w :
    w[n].part = "tail" => n > 1 /\ w[n - 1] = Head_(w[n].by)

EndsWith(w, piece) == w # <<>> /\ w[Len(w)] = piece

WholeInv == \A c \in Conns : Whole(wire[c])

\* Why it holds: while a thread waits with a part of its line sent, that part is still the
\* last on the wire.
RestInv == \A t \in Threads :
    pc[t] = "rest" /\ Linked({"open"}) => EndsWith(wire[socket_fd], Head_(t))

WireInv == WholeInv /\ RestInv

\* The kernel drops what it has not transmitted.
LEMMA WholePrefix ==
    ASSUME NEW w \in Seq(Pieces), Whole(w), NEW n \in 0 .. Len(w)
    PROVE  Whole(SubSeq(w, 1, n))
<1> DEFINE v == SubSeq(w, 1, n)
<1>1. Len(w) \in Nat /\ n \in Nat /\ n <= Len(w) /\ DOMAIN w = 1 .. Len(w)
  BY LenProperties
<1>2. \A i \in 1 .. n : w[i] \in Pieces
  BY <1>1, ElementOfSeq
<1>3. v \in Seq(Pieces) /\ Len(v) = n /\ \A i \in 1 .. n : v[i] = w[i]
  BY <1>1, <1>2, SubSeqProperties
<1>4. DOMAIN v = 1 .. n
  BY <1>3, LenProperties
<1> HIDE DEF v
<1>5. Whole(v)
  BY <1>1, <1>3, <1>4 DEF Whole
<1> QED
  BY <1>5 DEF v

\* The broker reads up to a newline.
LEMMA WholeSuffix ==
    ASSUME NEW w \in Seq(Pieces), Whole(w), NEW n \in DOMAIN w, w[n].part = "tail"
    PROVE  /\ Whole(SubSeq(w, n + 1, Len(w)))
           /\ \A t : EndsWith(w, Head_(t)) => EndsWith(SubSeq(w, n + 1, Len(w)), Head_(t))
<1> DEFINE v == SubSeq(w, n + 1, Len(w))
<1>1. Len(w) \in Nat /\ n \in 1 .. Len(w) /\ DOMAIN w = 1 .. Len(w)
  BY LenProperties
<1>2. \A i \in n + 1 .. Len(w) : w[i] \in Pieces
  BY <1>1, ElementOfSeq
<1>3. /\ v \in Seq(Pieces) /\ Len(v) = Len(w) - n
      /\ \A i \in 1 .. Len(w) - n : v[i] = w[i + n]
  BY <1>1, <1>2, SubSeqProperties
<1>4. DOMAIN v = 1 .. Len(w) - n
  BY <1>3, LenProperties
<1> HIDE DEF v
<1>5. Whole(v)
  <2> SUFFICES ASSUME NEW i \in 1 .. Len(w) - n, v[i].part = "tail"
               PROVE  i > 1 /\ v[i - 1] = Head_(v[i].by)
    BY <1>4 DEF Whole
  <2>1. i + n \in 1 .. Len(w) /\ v[i] = w[i + n] /\ (i + n) - 1 = (i - 1) + n
    BY <1>1, <1>3
  <2>2. w[(i - 1) + n] = Head_(v[i].by)
    BY <1>1, <2>1 DEF Whole
  <2>3. i # 1
    <3>1. Head_(v[i].by).part = "head"
      BY DEF Head_
    <3> QED
      BY <1>1, <2>2, <3>1
  <2> QED
    BY <1>1, <1>3, <2>2, <2>3
<1>6. ASSUME NEW t, EndsWith(w, Head_(t))
      PROVE  EndsWith(v, Head_(t))
  <2>1. w[Len(w)].part = "head"
    BY <1>6 DEF EndsWith, Head_
  <2>2. n < Len(w)
    BY <1>1, <2>1
  <2>3. v[Len(v)] = w[Len(w)] /\ Len(v) > 0
    BY <1>1, <1>3, <2>2
  <2> QED
    BY <1>6, <2>3 DEF EndsWith
<1> QED
  BY <1>5, <1>6 DEF v

\* A part of a line is sent.
LEMMA WholeHead ==
    ASSUME NEW w \in Seq(Pieces), Whole(w), NEW t \in Threads
    PROVE  Whole(w \o <<Head_(t)>>) /\ EndsWith(w \o <<Head_(t)>>, Head_(t))
<1> DEFINE v == w \o <<Head_(t)>>
<1>1. Len(w) \in Nat /\ DOMAIN w = 1 .. Len(w)
  BY LenProperties
<1>2. <<Head_(t)>> \in Seq(Pieces)
  BY PieceTypes
<1>3. /\ v \in Seq(Pieces) /\ Len(v) = Len(w) + 1
      /\ \A i \in 1 .. Len(w) + 1 :
            v[i] = IF i <= Len(w) THEN w[i] ELSE <<Head_(t)>>[i - Len(w)]
  BY <1>2, ConcatProperties
<1>4. DOMAIN v = 1 .. Len(w) + 1
  BY <1>1, <1>3, LenProperties
<1> HIDE DEF v
<1>5. (\A i \in 1 .. Len(w) : v[i] = w[i]) /\ v[Len(w) + 1] = Head_(t)
  BY <1>1, <1>3
<1>6. Head_(t).part = "head"
  BY DEF Head_
<1>7. Whole(v)
  BY <1>1, <1>4, <1>5, <1>6 DEF Whole
<1>8. EndsWith(v, Head_(t))
  BY <1>1, <1>3, <1>5 DEF EndsWith
<1> QED
  BY <1>7, <1>8 DEF v

\* The rest of the line that is last on the wire is sent.
LEMMA WholeTail ==
    ASSUME NEW w \in Seq(Pieces), Whole(w), NEW t \in Threads, EndsWith(w, Head_(t))
    PROVE  Whole(w \o <<Tail_(t)>>)
<1> DEFINE v == w \o <<Tail_(t)>>
<1>1. Len(w) \in Nat /\ DOMAIN w = 1 .. Len(w) /\ Len(w) > 0
  BY LenProperties, EmptySeq DEF EndsWith
<1>2. <<Tail_(t)>> \in Seq(Pieces)
  BY PieceTypes
<1>3. /\ v \in Seq(Pieces) /\ Len(v) = Len(w) + 1
      /\ \A i \in 1 .. Len(w) + 1 :
            v[i] = IF i <= Len(w) THEN w[i] ELSE <<Tail_(t)>>[i - Len(w)]
  BY <1>2, ConcatProperties
<1>4. DOMAIN v = 1 .. Len(w) + 1
  BY <1>1, <1>3, LenProperties
<1> HIDE DEF v
<1>5. (\A i \in 1 .. Len(w) : v[i] = w[i]) /\ v[Len(w) + 1] = Tail_(t)
  BY <1>1, <1>3
<1>6. Tail_(t).by = t
  BY DEF Tail_
<1>7. v[Len(w)] = Head_(v[Len(w) + 1].by)
  BY <1>1, <1>5, <1>6 DEF EndsWith
<1> SUFFICES ASSUME NEW i \in 1 .. Len(w) + 1, v[i].part = "tail"
             PROVE  i > 1 /\ v[i - 1] = Head_(v[i].by)
  BY <1>4 DEF Whole, v
<1>8. CASE i <= Len(w)
  BY <1>1, <1>5, <1>8 DEF Whole
<1>9. CASE i = Len(w) + 1
  BY <1>1, <1>7, <1>9
<1> QED
  BY <1>1, <1>8, <1>9

\* A line is sent at once.
LEMMA WholeLine ==
    ASSUME NEW w \in Seq(Pieces), Whole(w), NEW t \in Threads
    PROVE  Whole(w \o <<Head_(t), Tail_(t)>>)
<1> DEFINE line == <<Head_(t), Tail_(t)>>
           v == w \o line
<1>1. Len(w) \in Nat /\ DOMAIN w = 1 .. Len(w)
  BY LenProperties
<1>2. line \in Seq(Pieces) /\ Len(line) = 2 /\ line[1] = Head_(t) /\ line[2] = Tail_(t)
  BY PieceTypes
<1> HIDE DEF line
<1>3. /\ v \in Seq(Pieces) /\ Len(v) = Len(w) + 2
      /\ \A i \in 1 .. Len(w) + 2 : v[i] = IF i <= Len(w) THEN w[i] ELSE line[i - Len(w)]
  BY <1>2, ConcatProperties, SMTT(30)
<1>4. DOMAIN v = 1 .. Len(w) + 2
  BY <1>1, <1>3, LenProperties
<1> HIDE DEF v
<1>5. /\ \A i \in 1 .. Len(w) : v[i] = w[i]
      /\ v[Len(w) + 1] = Head_(t) /\ v[Len(w) + 2] = Tail_(t)
  BY <1>1, <1>2, <1>3
<1>6. Tail_(t).by = t /\ Head_(t).part = "head"
  BY DEF Tail_, Head_
<1>7. Whole(v)
  <2> SUFFICES ASSUME NEW i \in 1 .. Len(w) + 2, v[i].part = "tail"
               PROVE  i > 1 /\ v[i - 1] = Head_(v[i].by)
    BY <1>4 DEF Whole
  <2>1. CASE i <= Len(w)
    BY <1>1, <1>5, <2>1 DEF Whole
  <2>2. CASE i = Len(w) + 1
    BY <1>5, <1>6, <2>2
  <2>3. CASE i = Len(w) + 2
    BY <1>1, <1>5, <1>6, <2>3
  <2> QED
    BY <1>1, <2>1, <2>2, <2>3
<1> QED
  BY <1>7 DEF v, line

\* A close leaves the pieces of a line together.
LEMMA CloseWhole ==
    ASSUME LoggerTypeOK, WholeInv, CloseSocket
    PROVE  WholeInv'
<1>1. CASE socket_fd \in unread
  <2>1. PICK n \in 0 .. Len(wire[socket_fd]) :
            wire' = [wire EXCEPT ![socket_fd] = SubSeq(wire[socket_fd], 1, n)]
    BY <1>1 DEF CloseSocket
  <2>2. socket_fd \in Conns /\ wire[socket_fd] \in Seq(Pieces) /\ Whole(wire[socket_fd])
    BY <1>1 DEF LoggerTypeOK, WholeInv
  <2>3. Whole(SubSeq(wire[socket_fd], 1, n))
    BY <2>2, WholePrefix
  <2> QED
    BY <2>1, <2>3 DEF WholeInv, LoggerTypeOK
<1>2. CASE socket_fd \notin unread
  BY <1>2 DEF CloseSocket, WholeInv
<1> QED
  BY <1>1, <1>2

\* A step that puts nothing on a wire and moves no thread to the rest of a line.
LEMMA QuietWire ==
    ASSUME LoggerTypeOK, WireInv, UNCHANGED <<wire, socket_fd>>,
           \A t \in Threads : pc'[t] = "rest" => pc[t] = "rest",
           \A c \in Conns : link'[c] = "open" => link[c] = "open"
    PROVE  WireInv'
<1>1. WholeInv'
  BY DEF WireInv, WholeInv
<1>2. RestInv'
  BY DEF WireInv, RestInv, Linked, EndsWith, LoggerTypeOK
<1> QED
  BY <1>1, <1>2 DEF WireInv

\* connect_to_broker: nobody else is in its critical section.
LEMMA ConnectWire ==
    ASSUME ControlInv, ControlInv', WireInv, NEW t \in Threads,
           ConnectBegins(t) \/ Connected(t) \/ ConnectFails(t)
    PROVE  WireInv'
<1> USE DEF ControlInv
<1>1. CASE ConnectBegins(t)
  <2>1. WholeInv'
    BY <1>1, CloseWhole DEF ConnectBegins, WireInv
  <2>2. socket_mutex' = t /\ pc'[t] # "rest"
    BY <1>1 DEF ConnectBegins, LoggerTypeOK
  <2>3. RestInv'
    BY <2>2 DEF PcInv, RestInv
  <2> QED
    BY <2>1, <2>3 DEF WireInv
<1>2. CASE Connected(t)
  <2>1. WholeInv'
    BY <1>2 DEF Connected, WireInv, WholeInv
  <2>2. socket_mutex' = NoOne
    BY <1>2 DEF Connected, ConnectReturns
  <2>3. RestInv'
    BY <2>2, LoggerConstantsOK DEF PcInv, RestInv
  <2> QED
    BY <2>1, <2>3 DEF WireInv
<1>3. CASE ConnectFails(t)
  BY <1>3, QuietWire DEF ConnectFails, ConnectReturns, connVars, LoggerTypeOK
<1> QED
  BY <1>1, <1>2, <1>3

\* The calls, and send_message before its critical section.
LEMMA TestWire ==
    ASSUME ControlInv, WireInv, NEW t \in Threads,
           Log(t) \/ Reconnect(t) \/ Test(t) \/ Retest(t)
    PROVE  WireInv'
<1> USE DEF ControlInv
<1>1. UNCHANGED <<wire, socket_fd, link>>
  BY DEF Log, Reconnect, Test, Retest, connVars
<1>2. \E p \in {"idle", "test", "reconnect", "lock"} : pc' = [pc EXCEPT ![t] = p]
  <2>1. CASE Log(t) \/ Reconnect(t) \/ Test(t)
    BY <2>1 DEF Log, Reconnect, Test
  <2>2. CASE Retest(t)
    BY <2>2 DEF Retest, NextLine
  <2> QED
    BY <2>1, <2>2
<1>3. \A u \in Threads : pc'[u] = "rest" => pc[u] = "rest"
  BY <1>2 DEF LoggerTypeOK
<1> QED
  BY <1>1, <1>3, QuietWire

\* send_message in its critical section: the one thread that may put something on a wire.
LEMMA SendWire ==
    ASSUME ControlInv, ControlInv', WireInv, NEW t \in Threads,
           \/ SendBegins(t) \/ SendWhole(t) \/ SendPart(t) \/ SendRest(t)
           \/ SendCut(t) \/ SendVanishes(t) \/ SendFails(t)
    PROVE  WireInv'
<1> USE DEF ControlInv
<1> DEFINE w == wire[socket_fd]
<1>1. ASSUME Linked({"open"})
      PROVE  socket_fd \in Conns /\ w \in Seq(Pieces) /\ Whole(w)
  BY <1>1 DEF Linked, LoggerTypeOK, WireInv, WholeInv
<1>2. ASSUME SendReturns(t) PROVE RestInv'
  BY <1>2, LoggerConstantsOK DEF SendReturns, PcInv, RestInv
<1>3. ASSUME NEW pieces, Put(pieces), Whole(w \o pieces), socket_fd \in Conns
      PROVE  WholeInv'
  BY <1>3 DEF Put, WireInv, WholeInv, LoggerTypeOK
<1>4. CASE SendWhole(t)
  <2>1. Whole(w \o <<Head_(t), Tail_(t)>>)
    BY <1>1, <1>4, WholeLine DEF SendWhole
  <2> QED
    BY <1>1, <1>2, <1>3, <1>4, <2>1 DEF SendWhole, WireInv
<1>5. CASE SendPart(t)
  <2>1. Whole(w \o <<Head_(t)>>) /\ EndsWith(w \o <<Head_(t)>>, Head_(t))
    BY <1>1, <1>5, WholeHead DEF SendPart
  <2>2. WholeInv'
    BY <1>1, <1>3, <1>5, <2>1 DEF SendPart
  <2>3. EndsWith(wire'[socket_fd'], Head_(t))
    BY <1>1, <1>5, <2>1 DEF SendPart, Put, LoggerTypeOK
  <2>4. \A u \in Threads : pc'[u] = "rest" => u = t
    BY <1>5 DEF SendPart, PcInv
  <2>5. RestInv'
    BY <2>3, <2>4 DEF RestInv
  <2> QED
    BY <2>2, <2>5 DEF WireInv
<1>6. CASE SendRest(t)
  <2>1. Whole(w \o <<Tail_(t)>>)
    <3>1. EndsWith(w, Head_(t))
      BY <1>6 DEF SendRest, WireInv, RestInv
    <3> QED
      BY <1>1, <1>6, <3>1, WholeTail DEF SendRest
  <2> QED
    BY <1>1, <1>2, <1>3, <1>6, <2>1 DEF SendRest, WireInv
<1>7. CASE SendBegins(t)
  BY <1>7, QuietWire DEF SendBegins, connVars, LoggerTypeOK
<1>8. CASE SendCut(t) \/ SendVanishes(t) \/ SendFails(t)
  <2>1. UNCHANGED wire /\ SendReturns(t)
    BY <1>8 DEF SendCut, SendVanishes, SendFails, connVars
  <2> QED
    BY <1>2, <2>1 DEF WireInv, WholeInv
<1> QED
  BY <1>4, <1>5, <1>6, <1>7, <1>8

\* The broker reads whole lines, and at most all but what is last on the wire.
LEMMA ServeWire ==
    ASSUME LoggerTypeOK, WireInv, NEW c \in Conns, Serve(c)
    PROVE  WireInv'
<1>1. PICK n \in DOMAIN wire[c] :
          /\ wire[c][n].part = "tail"
          /\ wire' = [wire EXCEPT ![c] = SubSeq(wire[c], n + 1, Len(wire[c]))]
  BY DEF Serve, FirstLine
<1>2. wire[c] \in Seq(Pieces) /\ Whole(wire[c])
  BY DEF LoggerTypeOK, WireInv, WholeInv
<1>3. /\ Whole(wire'[c])
      /\ \A t : EndsWith(wire[c], Head_(t)) => EndsWith(wire'[c], Head_(t))
  <2>1. wire'[c] = SubSeq(wire[c], n + 1, Len(wire[c]))
    BY <1>1 DEF LoggerTypeOK
  <2> QED
    BY <1>1, <1>2, <2>1, WholeSuffix
<1>4. \A d \in Conns : d # c => wire'[d] = wire[d]
  BY <1>1 DEF LoggerTypeOK
<1>5. WholeInv'
  BY <1>3, <1>4 DEF WireInv, WholeInv
<1>6. RestInv'
  <2> SUFFICES ASSUME NEW t \in Threads, (pc[t] = "rest" /\ Linked({"open"}))'
               PROVE  EndsWith(wire'[socket_fd'], Head_(t))
    BY DEF RestInv
  <2>1. UNCHANGED <<pc, socket_fd, link>>
    BY DEF Serve, threadVars
  <2>2. EndsWith(wire[socket_fd], Head_(t)) /\ socket_fd \in Conns
    BY <2>1 DEF WireInv, RestInv, Linked, LoggerTypeOK
  <2> QED
    BY <1>3, <1>4, <2>1, <2>2
<1> QED
  BY <1>5, <1>6 DEF WireInv

\* The broker and the kernel.
LEMMA BrokerWire ==
    ASSUME ControlInv, WireInv,
           \/ \E c \in Conns : Serve(c) \/ EndOfFile(c) \/ ResetArrives(c)
           \/ Crash \/ Restart
    PROVE  WireInv'
<1> USE DEF ControlInv
<1>0. Whole(<<>>)
  BY DEF Whole
<1>1. ASSUME NEW c \in Conns, EndOfFile(c)
      PROVE  WireInv'
  <2>1. WholeInv'
    BY <1>0, <1>1 DEF EndOfFile, LoggerTypeOK, WireInv, WholeInv
  <2>2. RestInv'
    BY <1>1 DEF EndOfFile, threadVars, Linked, LoggerTypeOK, WireInv, RestInv
  <2> QED
    BY <2>1, <2>2 DEF WireInv
<1>2. ASSUME NEW c \in Conns, ResetArrives(c)
      PROVE  WireInv'
  BY <1>2, QuietWire DEF ResetArrives, threadVars, LoggerTypeOK
<1>3. CASE Crash
  <2>1. WholeInv'
    BY <1>0, <1>3 DEF Crash, WholeInv
  <2>2. \A c \in Conns : link'[c] # "open"
    BY <1>3 DEF Crash, LoggerTypeOK
  <2>3. RestInv'
    BY <1>3, <2>2 DEF Crash, RestInv, Linked, LoggerTypeOK
  <2> QED
    BY <2>1, <2>3 DEF WireInv
<1>4. CASE Restart
  BY <1>4, QuietWire DEF Restart, threadVars, connVars, LoggerTypeOK
<1> QED
  BY <1>1, <1>2, <1>3, <1>4, ServeWire

LEMMA WireStep == ControlInv /\ ControlInv' /\ WireInv /\ [LoggerNext]_vars => WireInv'
<1> SUFFICES ASSUME ControlInv, ControlInv', WireInv, [LoggerNext]_vars
             PROVE  WireInv'
  OBVIOUS
<1>1. CASE UNCHANGED vars
  BY <1>1, QuietWire DEF vars, threadVars, connVars, ControlInv
<1>2. ASSUME NEW t \in Threads, Log(t) \/ Reconnect(t) \/ Lock(t) \/ Step(t)
      PROVE  WireInv'
  BY <1>2, ConnectWire, TestWire, SendWire DEF Lock, Step
<1>3. CASE Destroy
  <2>1. WholeInv'
    BY <1>3, CloseWhole DEF Destroy, ControlInv, WireInv
  <2>2. RestInv'
    BY <1>3 DEF Destroy, RestInv
  <2> QED
    BY <2>1, <2>2 DEF WireInv
<1> QED
  BY <1>1, <1>2, <1>3, BrokerWire DEF LoggerNext

\* socket_mutex_ keeps the pieces of a line together, whatever send cuts short and
\* whichever close throws away.
THEOREM LoggerDoesNotInterleave == LoggerSpec => []NoInterleaving
<1>1. LoggerInit => WireInv
  BY DEF LoggerInit, WireInv, WholeInv, Whole, RestInv
<1>2. WireInv => NoInterleaving
  BY DEF WireInv, WholeInv, Whole, NoInterleaving
<1> QED
  BY <1>1, <1>2, LoggerControl, WireStep, PTL DEF LoggerSpec
===============================================================================
