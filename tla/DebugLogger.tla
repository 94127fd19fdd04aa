------------------------------ MODULE DebugLogger ------------------------------
(***************************************************************************)
(* The logging library, lib/debug_logger.cpp: one DebugLogger shared by    *)
(* the threads of an application, over connections to a broker that may    *)
(* crash, come back or stop reading.  The applications of examples/ are    *)
(* its callers, reduced to how many lines they send and whether they ask   *)
(* is_connected first.                                                     *)
(*                                                                         *)
(* A line is two pieces, because send can be cut short: "head", and "tail" *)
(* with the newline.  What a line says plays no part; its thread does.     *)
(***************************************************************************)
EXTENDS Naturals, Sequences

CONSTANTS Threads,
          Guarded,      \* threads that log only while is_connected: robust_app
          Reconnecting, \* threads that call reconnect(), too
          Conns,        \* bound: connections that the kernel and the broker hold
          WireCap,      \* pieces the socket buffers of a connection hold
          NoConn,       \* socket_fd_ = -1
          NoOne         \* nobody holds socket_mutex_

ASSUME LoggerConstantsOK ==
    /\ Guarded \subseteq Threads /\ Reconnecting \subseteq Threads
    /\ WireCap \in Nat \ {0}
    /\ NoConn \notin Conns /\ NoOne \notin Threads

VARIABLES
    socket_fd, connected, socket_mutex,
    pc,     \* thread -> where it is in send_message, idle if not in a call
    left,   \* thread -> lines its calls have still to send
    link,   \* connection -> free, open, closing (closed by the logger), gone (the
            \* broker is dead), reset (and the logger's kernel knows)
    wire,   \* connection -> pieces sent and not yet read by the broker
    unread, \* connections with a reply of the broker that the logger never reads
    up      \* the broker is running

threadVars == <<pc, left>>
connVars   == <<link, wire, unread>>
vars == <<socket_fd, connected, socket_mutex, threadVars, connVars, up>>

Pieces == [by : Threads, part : {"head", "tail"}]
Head_(t) == [by |-> t, part |-> "head"]
Tail_(t) == [by |-> t, part |-> "tail"]

LoggerTypeOK ==
    /\ socket_fd \in Conns \cup {NoConn}
    /\ connected \in BOOLEAN
    /\ socket_mutex \in Threads \cup {NoOne}
    /\ pc \in [Threads -> {"idle", "test", "reconnect", "connect", "retest", "lock",
                           "send", "rest", "destroyed"}]
    /\ left \in [Threads -> Nat]
    /\ link \in [Conns -> {"free", "open", "closing", "gone", "reset"}]
    /\ wire \in [Conns -> Seq(Pieces)]
    /\ unread \subseteq Conns
    /\ up \in BOOLEAN

\* The constructor has tried to connect, with or without success.
LoggerInit ==
    /\ \E c \in Conns :
          \/ /\ up = TRUE /\ connected = TRUE /\ socket_fd = c
             /\ link = [d \in Conns |-> IF d = c THEN "open" ELSE "free"]
          \/ /\ up = FALSE /\ connected = FALSE /\ socket_fd = NoConn
             /\ link = [d \in Conns |-> "free"]
    /\ socket_mutex = NoOne
    /\ pc = [t \in Threads |-> "idle"] /\ left = [t \in Threads |-> 0]
    /\ wire = [c \in Conns |-> <<>>] /\ unread = {}

-------------------------------------------------------------------------------
(***************************************************************************)
(* The applications: how many lines a logging call sends, and the calls an *)
(* application makes one after the other.                                  *)
(***************************************************************************)

\* info, debug, metric and publish send one line, warn and error two.
info   == 1
metric == 1
warn   == 2
error  == 2

\* What robust_app.cpp logs after one test of is_connected, function by function.
ProcessOrder == {info, info + metric + metric, error}
PrintStats   == {metric + metric}
ThreadWorker == {info}
MainLoop     == {warn, metric + metric + metric}
RobustApp    == ProcessOrder \cup PrintStats \cup ThreadWorker \cup MainLoop

\* simple_app.cpp never asks; it makes one call at a time, for ever.
SimpleApp == {info, metric, warn, error}

Log(t) ==
    /\ pc[t] = "idle"
    /\ t \in Guarded => connected
    /\ \E n \in IF t \in Guarded THEN RobustApp ELSE SimpleApp :
          left' = [left EXCEPT ![t] = n]
    /\ pc' = [pc EXCEPT ![t] = "test"]
    /\ UNCHANGED <<socket_fd, connected, socket_mutex, connVars, up>>

\* reconnect(): connect_to_broker whether connected or not.
Reconnect(t) ==
    /\ t \in Reconnecting /\ pc[t] = "idle"
    /\ pc' = [pc EXCEPT ![t] = "reconnect"]
    /\ UNCHANGED <<socket_fd, connected, socket_mutex, left, connVars, up>>

-------------------------------------------------------------------------------
(***************************************************************************)
(* connect_to_broker, under socket_mutex_ from beginning to end.           *)
(***************************************************************************)

\* close(socket_fd_).  With unread replies it resets the connection, and the kernel
\* drops what it has not transmitted yet; otherwise the broker still gets it all.
CloseSocket ==
    LET c == socket_fd IN
    /\ link' = [d \in Conns |-> IF d # c THEN link[d]
                                ELSE IF link[c] = "open" THEN "closing" ELSE "free"]
    /\ IF c \in unread
       THEN \E n \in 0 .. Len(wire[c]) : wire' = [wire EXCEPT ![c] = SubSeq(@, 1, n)]
       ELSE UNCHANGED wire
    /\ unread' = unread \ {c}

\* Wrong: the old connection is not closed.
ConnectBeginsLeaks(t) ==
    /\ pc[t] = "reconnect" /\ socket_mutex = NoOne
    /\ socket_mutex' = t
    /\ socket_fd' = NoConn
    /\ pc' = [pc EXCEPT ![t] = "connect"]
    /\ UNCHANGED <<connected, left, connVars, up>>

ConnectBegins(t) ==
    /\ pc[t] = "reconnect" /\ socket_mutex = NoOne
    /\ socket_mutex' = t
    /\ CloseSocket
    /\ socket_fd' = NoConn
    /\ pc' = [pc EXCEPT ![t] = "connect"]
    /\ UNCHANGED <<connected, left, up>>

\* Back in reconnect, which returns, or in send_message, which tests again.
ConnectReturns(t) ==
    /\ socket_mutex' = NoOne
    /\ pc' = [pc EXCEPT ![t] = IF left[t] = 0 THEN "idle" ELSE "retest"]

Connected(t) ==
    /\ pc[t] = "connect" /\ up
    /\ \E c \in Conns :
          /\ link[c] = "free"
          /\ link' = [link EXCEPT ![c] = "open"]
          /\ socket_fd' = c
    /\ connected' = TRUE
    /\ ConnectReturns(t)
    /\ UNCHANGED <<left, wire, unread, up>>

\* Wrong: connected_ is left as it was.
ConnectFailsSilently(t) ==
    /\ pc[t] = "connect"
    /\ ~up \/ \A c \in Conns : link[c] # "free"
    /\ ConnectReturns(t)
    /\ UNCHANGED <<connected, socket_fd, left, connVars, up>>

\* The broker refuses, or does not accept within the two seconds of SO_SNDTIMEO.  The
\* failures of socket() and inet_pton() end in the same state.
ConnectFails(t) ==
    /\ pc[t] = "connect"
    /\ ~up \/ \A c \in Conns : link[c] # "free"
    /\ connected' = FALSE
    /\ ConnectReturns(t)
    /\ UNCHANGED <<socket_fd, left, connVars, up>>

-------------------------------------------------------------------------------
(***************************************************************************)
(* send_message.                                                           *)
(***************************************************************************)

\* The line is sent or given up; the next line of the calls is next.
NextLine(t) ==
    /\ left' = [left EXCEPT ![t] = @ - 1]
    /\ pc' = [pc EXCEPT ![t] = IF left[t] = 1 THEN "idle" ELSE "test"]

\* connected_ is read without the mutex, before and after reconnecting.
Test(t) ==
    /\ pc[t] = "test"
    /\ pc' = [pc EXCEPT ![t] = IF connected THEN "lock" ELSE "reconnect"]
    /\ UNCHANGED <<socket_fd, connected, socket_mutex, left, connVars, up>>

Retest(t) ==
    /\ pc[t] = "retest"
    /\ IF connected THEN pc' = [pc EXCEPT ![t] = "lock"] /\ UNCHANGED left
                    ELSE NextLine(t)
    /\ UNCHANGED <<socket_fd, connected, socket_mutex, connVars, up>>

\* Wrong: nobody waits for the mutex.
SendBeginsUnlocked(t) ==
    /\ pc[t] = "lock"
    /\ pc' = [pc EXCEPT ![t] = "send"]
    /\ UNCHANGED <<socket_fd, connected, socket_mutex, left, connVars, up>>

SendBegins(t) ==
    /\ pc[t] = "lock" /\ socket_mutex = NoOne
    /\ socket_mutex' = t
    /\ pc' = [pc EXCEPT ![t] = "send"]
    /\ UNCHANGED <<socket_fd, connected, left, connVars, up>>

\* send returns, and the mutex is released.
SendReturns(t) == socket_mutex' = NoOne /\ NextLine(t)

\* The state of the connection that send is called on.
Linked(states) == socket_fd # NoConn /\ link[socket_fd] \in states

Room == WireCap - Len(wire[socket_fd])

Put(pieces) == wire' = [wire EXCEPT ![socket_fd] = @ \o pieces]

SendWhole(t) ==
    /\ pc[t] = "send" /\ Linked({"open"}) /\ Room > 1
    /\ Put(<<Head_(t), Tail_(t)>>)
    /\ SendReturns(t)
    /\ UNCHANGED <<socket_fd, connected, link, unread, up>>

\* Only a part of the line fits: send waits, with the mutex.
SendPart(t) ==
    /\ pc[t] = "send" /\ Linked({"open"}) /\ Room = 1
    /\ Put(<<Head_(t)>>)
    /\ pc' = [pc EXCEPT ![t] = "rest"]
    /\ UNCHANGED <<socket_fd, connected, socket_mutex, left, link, unread, up>>

SendRest(t) ==
    /\ pc[t] = "rest" /\ Linked({"open"}) /\ Room > 0
    /\ Put(<<Tail_(t)>>)
    /\ SendReturns(t)
    /\ UNCHANGED <<socket_fd, connected, link, unread, up>>

\* SO_SNDTIMEO, or the end of the connection: send returns how much it has sent, which
\* send_message takes for success.
SendCut(t) ==
    /\ pc[t] = "rest"
    /\ Linked({"gone", "reset"}) \/ (Linked({"open"}) /\ Room = 0)
    /\ SendReturns(t)
    /\ UNCHANGED <<socket_fd, connected, connVars, up>>

\* The broker is dead and the kernel does not know yet: the line is lost.
SendVanishes(t) ==
    /\ pc[t] = "send" /\ Linked({"gone"})
    /\ SendReturns(t)
    /\ UNCHANGED <<socket_fd, connected, connVars, up>>

\* Wrong: connected_ stays set, and nobody reconnects.
SendFailsSilently(t) ==
    /\ pc[t] = "send"
    /\ socket_fd = NoConn \/ Linked({"reset"}) \/ (Linked({"open"}) /\ Room = 0)
    /\ SendReturns(t)
    /\ UNCHANGED <<socket_fd, connected, connVars, up>>

\* Wrong: the socket has no SO_SNDTIMEO.
SendFailsWithoutTimeout(t) ==
    /\ pc[t] = "send"
    /\ socket_fd = NoConn \/ Linked({"reset"})
    /\ connected' = FALSE
    /\ SendReturns(t)
    /\ UNCHANGED <<socket_fd, connVars, up>>

\* send returns -1: there is no socket, the connection is reset, or nothing was sent
\* within two seconds.  The line is not sent again.
SendFails(t) ==
    /\ pc[t] = "send"
    /\ socket_fd = NoConn \/ Linked({"reset"}) \/ (Linked({"open"}) /\ Room = 0)
    /\ connected' = FALSE
    /\ SendReturns(t)
    /\ UNCHANGED <<socket_fd, connVars, up>>

\* The destructor, when no thread uses the logger any more.
Destroy ==
    /\ \A t \in Threads : pc[t] = "idle"
    /\ CloseSocket
    /\ socket_fd' = NoConn
    /\ pc' = [t \in Threads |-> "destroyed"]
    /\ UNCHANGED <<connected, socket_mutex, left, up>>

-------------------------------------------------------------------------------
(***************************************************************************)
(* The broker and the kernel.                                              *)
(***************************************************************************)

\* The first n pieces of connection c end with its first newline.
FirstLine(c, n) ==
    /\ n \in DOMAIN wire[c] /\ wire[c][n].part = "tail"
    /\ \A m \in 1 .. n - 1 : wire[c][m].part = "head"

\* The broker reads up to a newline and answers; the logger never reads that.
Serve(c) ==
    /\ up /\ link[c] \in {"open", "closing"}
    /\ \E n \in DOMAIN wire[c] :
          /\ FirstLine(c, n)
          /\ wire' = [wire EXCEPT ![c] = SubSeq(@, n + 1, Len(@))]
    /\ unread' = IF link[c] = "open" THEN unread \cup {c} ELSE unread
    /\ UNCHANGED <<socket_fd, connected, socket_mutex, threadVars, link, up>>

\* No newline is left and the logger has closed: the broker drops the rest.
EndOfFile(c) ==
    /\ up /\ link[c] = "closing"
    /\ \A n \in DOMAIN wire[c] : wire[c][n].part = "head"
    /\ link' = [link EXCEPT ![c] = "free"]
    /\ wire' = [wire EXCEPT ![c] = <<>>]
    /\ UNCHANGED <<socket_fd, connected, socket_mutex, threadVars, unread, up>>

Crash ==
    /\ up
    /\ up' = FALSE
    /\ link' = [c \in Conns |-> CASE link[c] = "open"    -> "gone"
                                  [] link[c] = "closing" -> "free"
                                  [] OTHER               -> link[c]]
    /\ wire' = [c \in Conns |-> <<>>]
    /\ UNCHANGED <<socket_fd, connected, socket_mutex, threadVars, unread>>

Restart ==
    /\ ~up
    /\ up' = TRUE
    /\ UNCHANGED <<socket_fd, connected, socket_mutex, threadVars, connVars>>

ResetArrives(c) ==
    /\ link[c] = "gone"
    /\ link' = [link EXCEPT ![c] = "reset"]
    /\ UNCHANGED <<socket_fd, connected, socket_mutex, threadVars, wire, unread, up>>

-------------------------------------------------------------------------------

Lock(t) == ConnectBegins(t) \/ SendBegins(t)

Step(t) ==
    \/ Connected(t) \/ ConnectFails(t) \/ Test(t) \/ Retest(t)
    \/ SendWhole(t) \/ SendPart(t) \/ SendRest(t) \/ SendCut(t)
    \/ SendVanishes(t) \/ SendFails(t)

LoggerNext ==
    \/ \E t \in Threads : Log(t) \/ Reconnect(t) \/ Lock(t) \/ Step(t)
    \/ Destroy
    \/ \E c \in Conns : Serve(c) \/ EndOfFile(c) \/ ResetArrives(c)
    \/ Crash \/ Restart

LoggerSpec == LoggerInit /\ [][LoggerNext]_vars

\* The threads get on and go on logging.  Whoever holds the mutex gives it back and
\* its thread works between two calls, so nobody waits for the mutex for ever.  The
\* broker need not read, nor come back.
FairLoggerSpec ==
    /\ LoggerSpec
    /\ \A t \in Threads : WF_vars(Log(t)) /\ WF_vars(Step(t)) /\ SF_vars(Lock(t))
    /\ \A c \in Conns : WF_vars(ResetArrives(c))

\* The broker is up for good and reads what it is sent.
Serving ==
    /\ <>[]up
    /\ \A c \in Conns : WF_vars(Serve(c)) /\ WF_vars(EndOfFile(c))

-------------------------------------------------------------------------------

\* The logger holds at most one connection, the one socket_fd_ names: whatever fails
\* and whichever threads reconnect one after the other, no descriptor is leaked and
\* none is used after its close.
OneConnection ==
    {c \in Conns : link[c] \in {"open", "gone", "reset"}} = {socket_fd} \ {NoConn}

\* is_connected says the truth between two critical sections: there is a socket.
ConnectedHasSocket ==
    socket_mutex = NoOne /\ connected =>
        socket_fd # NoConn \/ \A t \in Threads : pc[t] = "destroyed"

\* "Thread-safe" (debug_logger.hpp): no thread's bytes get between the two parts of
\* another's line, however long the first waits for the broker with only a part sent.
NoInterleaving ==
    \A c \in Conns : \A n \in DOMAIN wire[c] :
        wire[c][n].part = "tail" => n > 1 /\ wire[c][n - 1] = Head_(wire[c][n].by)

\* "Continues running even if broker is unavailable" (robust_app.cpp): every logging
\* call returns, also while the broker is dead, or alive and not reading.
CallsReturn == \A t \in Threads : pc[t] # "idle" ~> pc[t] \in {"idle", "destroyed"}

\* "Auto-reconnects when broker becomes available" (robust_app.cpp), "automatic
\* reconnection" (debug_logger.hpp): once the broker is up for good and reads, the logger
\* has a connection to it again and again, or has been destroyed.
LoggerComesBack ==
    Serving => []<>(Linked({"open"}) \/ \A t \in Threads : pc[t] = "destroyed")
===============================================================================
