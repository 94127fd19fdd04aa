------------------------------ MODULE BrokerMain ------------------------------
(***************************************************************************)
(* How the Asio broker starts and ends: main and the signal handler of     *)
(* src/broker.cpp.  Three actors: the main thread, the io thread it starts *)
(* and a handler that interrupts either of them when a signal arrives.     *)
(*                                                                         *)
(* AsioBroker models what the io thread does for its sessions; here only   *)
(* counts what keeps io_context::run from returning: an outstanding        *)
(* async_accept and the sessions, each with a read outstanding.            *)
(***************************************************************************)
EXTENDS Naturals, TLAPS

CONSTANTS Clients,     \* TCP connections
          MaxSignals   \* bound: signals that arrive

ASSUME MaxSignalsOK == MaxSignals \in Nat

VARIABLES
    mainPc,         \* what the main thread does next
    running,        \* the atomic flag
    contextSet,     \* global_io_context points to the io_context
    contextStopped, \* io_context::stop was called
    serverRunning,  \* BrokerServer::running_
    acceptorOpen,
    acceptPending,  \* an async_accept, or its handler, is outstanding
    io,             \* none, run (inside io_context::run) or ended: the io thread
    handler,        \* none, or the thread a signal handler interrupts
    handlerPc,      \* entered, flagged
    signals,        \* signals that arrived so far
    backlog,        \* connections not accepted yet
    sessions        \* connections with a session

contextVars == <<contextSet, contextStopped>>
serverVars  == <<serverRunning, acceptorOpen, acceptPending>>
clientVars  == <<backlog, sessions>>
signalVars  == <<running, handler, handlerPc, signals>>
vars == <<mainPc, contextVars, serverVars, io, signalVars, clientVars>>

MainTypeOK ==
    /\ mainPc \in {"starting", "binding", "accepting", "spawning", "monitoring",
                   "stopping", "joining", "leaving", "exited"}
    /\ running \in BOOLEAN /\ contextSet \in BOOLEAN /\ contextStopped \in BOOLEAN
    /\ serverRunning \in BOOLEAN /\ acceptorOpen \in BOOLEAN /\ acceptPending \in BOOLEAN
    /\ io \in {"none", "run", "ended"}
    /\ handler \in {"none", "main", "io"}
    /\ handlerPc \in {"entered", "flagged"}
    /\ signals \in Nat
    /\ backlog \subseteq Clients /\ sessions \subseteq Clients

\* From here on the two signal handlers are installed; before, a signal kills the
\* process by default.
MainInit ==
    /\ mainPc = "starting"
    /\ running = TRUE
    /\ contextSet = FALSE /\ contextStopped = FALSE
    /\ serverRunning = FALSE /\ acceptorOpen = FALSE /\ acceptPending = FALSE
    /\ io = "none"
    /\ handler = "none" /\ handlerPc = "entered" /\ signals = 0
    /\ backlog = {} /\ sessions = {}

\* A thread goes on when no signal handler interrupts it.
MainAt(pc) == mainPc = pc /\ handler # "main"
IoRuns     == io = "run" /\ handler # "io"

-------------------------------------------------------------------------------
(* The main thread. *)

CreateContext ==
    /\ MainAt("starting")
    /\ contextSet' = TRUE
    /\ mainPc' = "binding"
    /\ UNCHANGED <<contextStopped, serverVars, io, signalVars, clientVars>>

\* The constructor of BrokerServer throws when the port is taken: main returns 1.
Bind ==
    /\ MainAt("binding")
    /\ \/ mainPc' = "accepting" /\ acceptorOpen' = TRUE
       \/ mainPc' = "exited" /\ UNCHANGED acceptorOpen
    /\ UNCHANGED <<contextVars, serverRunning, acceptPending, io, signalVars, clientVars>>

StartServer ==
    /\ MainAt("accepting")
    /\ serverRunning' = TRUE /\ acceptPending' = TRUE
    /\ mainPc' = "spawning"
    /\ UNCHANGED <<contextVars, acceptorOpen, io, signalVars, clientVars>>

SpawnIo ==
    /\ MainAt("spawning")
    /\ io' = "run"
    /\ mainPc' = "monitoring"
    /\ UNCHANGED <<contextVars, serverVars, signalVars, clientVars>>

\* The statistics loop: it looks at running before and after every sleep.
Monitor ==
    /\ MainAt("monitoring")
    /\ ~running
    /\ mainPc' = "stopping"
    /\ UNCHANGED <<contextVars, serverVars, io, signalVars, clientVars>>

\* Wrong: the acceptor is left open.
StopServerKeepsAcceptor ==
    /\ MainAt("stopping")
    /\ serverRunning' = FALSE
    /\ mainPc' = "joining"
    /\ UNCHANGED <<contextVars, acceptorOpen, acceptPending, io, signalVars, clientVars>>

\* BrokerServer::stop.  Clearing sessions_ ends no session: each is kept by its
\* read handler.  Closing the acceptor resets what waits in the backlog.
StopServer ==
    /\ MainAt("stopping")
    /\ serverRunning' = FALSE /\ acceptorOpen' = FALSE
    /\ backlog' = {}
    /\ mainPc' = "joining"
    /\ UNCHANGED <<contextVars, acceptPending, io, signalVars, sessions>>

\* Wrong: the io thread is not waited for.
JoinIoDetaches ==
    /\ MainAt("joining")
    /\ mainPc' = "leaving"
    /\ UNCHANGED <<contextVars, serverVars, io, signalVars, clientVars>>

JoinIo ==
    /\ MainAt("joining")
    /\ io = "ended"
    /\ mainPc' = "leaving"
    /\ UNCHANGED <<contextVars, serverVars, io, signalVars, clientVars>>

\* The broker and then the io_context, with every handler it still holds, are
\* destroyed at the end of the block, and main returns.  A signal in between finds
\* a dangling global_io_context: undefined, and outside this model.
LeaveMain ==
    /\ MainAt("leaving")
    /\ mainPc' = "exited"
    /\ sessions' = {} /\ acceptPending' = FALSE
    /\ UNCHANGED <<contextVars, serverRunning, acceptorOpen, io, signalVars, backlog>>

-------------------------------------------------------------------------------
(* The signal handler: set the flag, then stop the context if there is one. *)

\* The kernel runs the handler on the main thread or on the io thread; the same
\* signal is blocked meanwhile.
SignalArrives(t) ==
    /\ signals < MaxSignals /\ handler = "none"
    /\ t = "main" => mainPc # "exited"
    /\ t = "io" => io = "run"
    /\ signals' = signals + 1
    /\ handler' = t /\ handlerPc' = "entered"
    /\ UNCHANGED <<mainPc, contextVars, serverVars, io, running, clientVars>>

HandlerFlags ==
    /\ handler # "none" /\ handlerPc = "entered"
    /\ running' = FALSE
    /\ handlerPc' = "flagged"
    /\ UNCHANGED <<mainPc, contextVars, serverVars, io, handler, signals, clientVars>>

\* Wrong: the handler leaves the io_context alone.
HandlerOnlyFlags ==
    /\ handler # "none" /\ handlerPc = "flagged"
    /\ handler' = "none" /\ handlerPc' = "entered"
    /\ UNCHANGED <<mainPc, contextVars, serverVars, io, running, signals, clientVars>>

HandlerStops ==
    /\ handler # "none" /\ handlerPc = "flagged"
    /\ contextStopped' = (contextStopped \/ contextSet)
    /\ handler' = "none" /\ handlerPc' = "entered"
    /\ UNCHANGED <<mainPc, contextSet, serverVars, io, running, signals, clientVars>>

-------------------------------------------------------------------------------
(* The io thread and the clients. *)

Connect(c) ==
    /\ acceptorOpen /\ mainPc # "exited"
    /\ c \notin backlog \cup sessions
    /\ backlog' = backlog \cup {c}
    /\ UNCHANGED <<mainPc, contextVars, serverVars, io, signalVars, sessions>>

\* The accept handler: a new session, and another async_accept while running_.
Accept(c) ==
    /\ IoRuns /\ ~contextStopped
    /\ acceptPending /\ c \in backlog
    /\ backlog' = backlog \ {c}
    /\ sessions' = sessions \cup {c}
    /\ acceptPending' = serverRunning
    /\ UNCHANGED <<mainPc, contextVars, serverRunning, acceptorOpen, io, signalVars>>

\* The accept handler with an error, once the acceptor is closed.
AcceptFails ==
    /\ IoRuns /\ ~contextStopped
    /\ acceptPending /\ ~acceptorOpen
    /\ acceptPending' = serverRunning
    /\ UNCHANGED <<mainPc, contextVars, serverRunning, acceptorOpen, io, signalVars,
                   clientVars>>

\* A client disconnects and the session's read handler ends.
Disconnect(c) ==
    /\ IoRuns /\ ~contextStopped
    /\ c \in sessions
    /\ sessions' = sessions \ {c}
    /\ UNCHANGED <<mainPc, contextVars, serverVars, io, signalVars, backlog>>

\* io_context::run returns when the context is stopped or has no work left.
RunReturns ==
    /\ IoRuns
    /\ contextStopped \/ (~acceptPending /\ sessions = {})
    /\ io' = "ended"
    /\ UNCHANGED <<mainPc, contextVars, serverVars, signalVars, clientVars>>

-------------------------------------------------------------------------------

Main ==
    \/ CreateContext \/ Bind \/ StartServer \/ SpawnIo \/ Monitor
    \/ StopServer \/ JoinIo \/ LeaveMain

Handler == HandlerFlags \/ HandlerStops

Io == RunReturns \/ AcceptFails \/ \E c \in Clients : Accept(c)

MainNext ==
    \/ Main \/ Handler \/ Io
    \/ \E t \in {"main", "io"} : SignalArrives(t)
    \/ \E c \in Clients : Connect(c) \/ Disconnect(c)

MainSpec == MainInit /\ [][MainNext]_vars

\* The two threads and the handler get on; a client need not disconnect.
FairMainSpec == MainSpec /\ WF_vars(Main) /\ WF_vars(Handler) /\ WF_vars(Io)

-------------------------------------------------------------------------------

\* The broker and the io_context are destroyed only after the io thread has left
\* them for good: no handler runs on a destroyed object, whenever the signal
\* comes and whichever thread it interrupts.
NoHandlerOnDeadBroker == mainPc \in {"leaving", "exited"} => io # "run"

\* A signal whose handler finds the io_context ends the process, whoever is connected
\* and stays connected.
SignalEndsBroker == handlerPc = "flagged" /\ contextSet ~> mainPc = "exited"

\* Every client that is connected leaves in the end.
ClientsLeave == \A c \in Clients : WF_vars(Disconnect(c))

\* "Setup signal handlers for graceful shutdown" (src/broker.cpp): a signal ends the
\* process, even one that comes before there is an io_context to stop, if all clients
\* leave in the end: stop closes the acceptor, so run returns with the last session.
GracefulShutdown == ClientsLeave => (signals > 0 ~> mainPc = "exited")

-------------------------------------------------------------------------------

\* The io thread is started once, after the start-up that can fail.
IoStartedOnce ==
    mainPc \in {"starting", "binding", "accepting", "spawning"} => io = "none"

\* For any clients and any number of signals, nothing is destroyed under the io
\* thread.
THEOREM DestroyedAfterIo == MainSpec => []NoHandlerOnDeadBroker
<1> DEFINE Inv == IoStartedOnce /\ NoHandlerOnDeadBroker
<1> USE DEF IoStartedOnce, NoHandlerOnDeadBroker
<1>1. MainInit => Inv
  BY DEF MainInit
<1>2. Inv /\ [MainNext]_vars => Inv'
  <2> SUFFICES ASSUME Inv, [MainNext]_vars
               PROVE  Inv'
    OBVIOUS
  <2>1. CASE Main
    BY <2>1 DEF Main, MainAt, CreateContext, Bind, StartServer, SpawnIo, Monitor,
                StopServer, JoinIo, LeaveMain
  <2>2. CASE Handler
    BY <2>2 DEF Handler, HandlerFlags, HandlerStops
  <2>3. CASE Io
    BY <2>3 DEF Io, IoRuns, RunReturns, AcceptFails, Accept
  <2>4. ASSUME NEW t \in {"main", "io"}, SignalArrives(t)
        PROVE  Inv'
    BY <2>4 DEF SignalArrives
  <2>5. ASSUME NEW c \in Clients, Connect(c) \/ Disconnect(c)
        PROVE  Inv'
    BY <2>5 DEF Connect, Disconnect
  <2>6. CASE UNCHANGED vars
    BY <2>6 DEF vars
  <2> QED
    BY <2>1, <2>2, <2>3, <2>4, <2>5, <2>6 DEF MainNext
<1>3. Inv => NoHandlerOnDeadBroker
  OBVIOUS
<1> QED
  BY <1>1, <1>2, <1>3, PTL DEF MainSpec
===============================================================================
