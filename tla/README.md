# NeuroPipe in TLA+

NeuroPipe is a publish/subscribe broker over TCP, with a client library for
logging and a few programs around it. This directory holds TLA+ modules that
model its core, TLC configurations that check them on small instances, and
proofs, checked by TLAPS, that the most important properties hold for every
value of the parameters.

Paths below are relative to the repository (`src/asio_server.cpp` and so on).

## 1. Inventory

### The Asio broker (`src/asio_server.{hpp,cpp}`, `src/broker.cpp`)

| component | state | operations | interacts with |
|---|---|---|---|
| `Session` | socket, `read_buffer_`, `write_queue_` (under `write_mutex_`), `client_id_` | `start`, `deliver`, `do_read`, `do_write`, `process_message` | calls `BrokerServer::publish/subscribe/unsubscribe/on_session_disconnect`; `deliver` is called by `TopicManager::publish` and by itself; handlers are called by the `io_context` |
| `TopicManager` | `subscriptions_`, `topic_queues_`, `sequence_counter_`, all under `mutex_` | `subscribe`, `unsubscribe`, `unsubscribe_all`, `publish`; `store_message`, `consume_message` and the `get_*` readers | calls `Session::deliver` outside its lock |
| `BrokerServer` | `acceptor_`, `sessions_` (under `sessions_mutex_`), `running_` (a plain `bool`) | `start`, `stop`, `do_accept`, `on_session_disconnect`, `get_active_sessions`, `get_topic_count` | `start`, `stop` and the counters are called by the main thread, the rest by the io thread |
| `main` | `running` (atomic), `global_io_context` | the signal handler, the statistics loop, the shutdown sequence | signals, the io thread |

One io thread runs every handler (`broker.cpp:51`), and the main thread calls
`start`, the counters and `stop`. What is hard:

* **Asynchronous writes.** `deliver` queues a line and starts a write only if the
  queue was empty; the write handler starts the next one. Exactly one of the two
  must do it each time. A write can block on a full socket, fail at once, or fail
  later.
* **Two handlers of one session.** A failed read and a failed write both call
  `on_session_disconnect`. A failed write does not end the read loop, so lines
  that are still buffered go on being processed and can subscribe the session
  again after it was removed.
* **Publication.** The subscribers are copied under the lock, the delivery
  happens outside it, and the publisher's own `OK:PUBLISHED` comes after the
  `MESSAGE` it may be given itself.
* **Shutdown.** `stop` runs in another thread than the handlers: it can come
  between any two steps of the accept handler.
* **Object lifetimes.** A session lives as long as a handler or a table holds its
  `shared_ptr`; a buffer given to `async_write` must live until the handler runs.

What makes each part correct: a session's client reads exactly what was delivered
to its session, in order, once (`Session`); a publication reaches exactly the
sessions subscribed when it is numbered, and every session sees publications in
the order of their numbers (`TopicManager`); no table keeps a session that is
gone and the counts miss none that is served (`BrokerServer`); a signal ends the
process, and nothing else does (`main`).

### The rest

| component | state | what is hard |
|---|---|---|
| `ThreadSafeQueue` (`src/utils.hpp`) | queue, mutex, condition variable | lost and spurious wake-ups, `try_pop` and `clear` stealing what a waiter was woken for |
| legacy broker (`src/server.cpp`, `src/server.hpp`, `src/broker_legacy.cpp`) | `topics_`, `connected_clients_`, `server_socket_`, `running_`, one detached thread per client | blocking `send` under `clients_mtx_`, descriptors reused after `close`, `close` not waking `accept`, no framing of lines |
| consumer and producer (`src/consumer.cpp`, `src/producer.cpp`) | a socket, a read buffer | a reply is the next line read, whatever it is; what is read beyond it is dropped |
| legacy clients (`src/*_legacy.cpp`) | a socket | no framing |
| `DebugLogger` (`lib/debug_logger.*`) | `socket_fd_` and `connected_`, several threads | check-then-act on `connected_`, partial sends, replies that nobody reads |
| examples (`examples/*.cpp`) | a `DebugLogger` | callers that only log while `is_connected`, so nothing ever reconnects |
| dashboards, test scripts | none | shell around `nc` |
| Asio (`third_party/`) | | external: modelled from how the broker uses it |

What makes these correct: no thread sleeps in `wait_and_pop` beside an item and items
leave in order (`ThreadSafeQueue`); all broadcasts go out in one order, and
a descriptor is served and removed by its own thread only (legacy broker); a request is
answered by the reply to it (clients); a line is sent whole or not at all, and a
logger comes back with its broker (`DebugLogger`).

## 2. Plan

In the order of importance; all but the last are done.

1. `BrokerLines`, `TopicManager`, `AsioBroker`: sessions, topics, server, sockets.
2. `PubSubService`: what the broker promises; `AsioBroker` implements it.
   `PubSubServiceProofs`: what follows for whatever implements it.
3. `MCAsioBroker` and its configurations.
4. `AsioBrokerProofs`: the safety properties and the refinement, for every instance.
5. `ThreadSafeQueue` and `ThreadSafeQueueProofs`: blocking pops, notification, spurious
   wake-ups; no lost wake-up, first in first out.
6. `BrokerMain`: the signal handler, the main thread and the io thread of
   `broker.cpp`; nothing is destroyed under the io thread, a signal ends the process.
7. `LegacyBroker` and `LegacyBrokerProofs`: threads, locks, blocking sends and
   descriptors; one order for all clients; its shutdown.
8. `Clients` and `ClientsProofs`: consumer and producer on top of `PubSubService`:
   which line is taken for a reply, what a dropped buffer takes with it, the signal.
9. `DebugLogger` and `DebugLoggerProofs`: the logger's threads, its reconnection,
   partial sends, lines lost with a connection.
10. `Protocol` and `ProtocolProofs`: the senders, `process_message` and the consumer as
    operators on text, against the grammar the comments state.
11. Not done: the topic manager called by several threads step by step (lock, copy,
    deliver outside the lock). No program does that (section 6).

How they are composed: `AsioBroker` extends `TopicManager`, which extends
`BrokerLines`, and implements `PubSubService`; `Clients` runs the client programs on
`PubSubService` and so needs none of the broker's queues. `Protocol` justifies the
abstraction of `BrokerLines`: a line is a command and a topic, and is read as it was meant.
The other three stand alone, as their programs do.

## 3. The modules

### The Asio broker

**`BrokerLines`** has the lines exchanged. A request is its command and its topic;
any line that `process_message` answers with an `ERROR` is one value. A
notification is its topic and sequence number (the number is not on the wire:
it stands for the payload and tells publications apart). `Garbage` is a line
whose bytes came from a freed buffer. `IsMessage` tells notifications from replies.

**`TopicManager`** is the class of that name. Every operation holds `mutex_` for
all the state it touches, so each is one action. The keys of `subscriptions_` are
the function's domain, because `unsubscribe` removes the key of a topic that has no
subscriber left and `unsubscribe_all` does not.

**`AsioBroker`** adds sessions, server, sockets and clients.

| code | specification |
|---|---|
| a TCP connection, its socket buffers, its client | `peer`, `inbox`, `net`, `received` |
| `write_queue_` | `write_queue` |
| the outstanding `async_write` | `writeOp`: idle, sent (the handler is due), blocked, failed, dead (the error handler ran) |
| the read loop of a session, or where its accept handler is | `phase` |
| `sessions_`, `acceptor_` and its `async_accept`, `running_` | `sessions`, `mainPc`, `acceptPending` |
| read handler | `ReadLine` (with all of `process_message`), `ReadError` |
| write handler | `WriteDone`, `WriteError` |
| `deliver` + the start of `do_write` | `DeliverAll` (one publication delivers to several sessions) |
| accept handler | `InsertSession`, then `StartSession`; `AcceptAborted` |
| `start`, `stop` | `Start`; `StopBegin`, `StopCloseAcceptor`, `StopClearSessions` |
| an exception that leaves the io thread | `aborted` |

A handler is one action: the single io thread runs one at a time, and the state
it shares with the main thread is only `running_`, the acceptor and `sessions_`.
The accept handler touches all three, so it is split between the insertion and
the rest, and `stop` is split at each of its three steps. `delivered` and
`received` are history variables: no action reads them.

**`PubSubService`** is the promise: requests take effect at once, each publication
goes to exactly the members of its topic, each client is given everything in one
order and takes it in that order, a client that is gone gets nothing. `Drop` lets
the service forget a client's topics at any time, because a failed write does.
`MissesNothing` is what this amounts to for a subscriber: from its first message on it has
every publication of its topic. **`PubSubServiceProofs`** proves it for the service;
`SubscribersMissNothing` is the same of the broker, through the refinement mapping.

**`MCAsioBroker`** defines the request sets and the symmetry for TLC.
**`AsioBrokerProofs`** holds the theorems.

### Its process

**`BrokerMain`** is `broker.cpp` from the installation of the signal handlers to the
end of `main`. Of the broker it keeps what holds `io_context::run` up: an outstanding
`async_accept` and the sessions.

| code | specification |
|---|---|
| where `main` is | `mainPc`; one action per statement with an effect, `Monitor` for the loop |
| `running`, `global_io_context`, `io_context::stop` | `running`, `contextSet`, `contextStopped` |
| a signal, on either thread, and the handler's two steps | `SignalArrives`, `HandlerFlags`, `HandlerStops`; the interrupted thread stands still meanwhile |
| `io_thread` | `io`; `Accept`, `AcceptFails`, `Disconnect`, `RunReturns` |

### The queue

**`ThreadSafeQueue`** is the class template, called by any threads. Each operation holds
`mutex_` for all it does, so it is one action; `cond_.wait` splits `wait_and_pop`: `Sleep`
ends one critical section, `WakeUp` is the next. `NotifyOne` wakes any sleeper, and
`SpuriousWake` needs no notification. `popped` and `cleared` are history.
**`ThreadSafeQueueProofs`** has the theorems.

### The legacy broker

**`LegacyBroker`** is `server.cpp`: an accept thread, one thread per client, the
main thread that stops it.

| code | specification |
|---|---|
| a thread of `handleClient`, and its descriptor from `accept` on | `pc`, `fd` |
| `connected_clients_`, `clients_mtx_` | `connected_clients`, `clientsLock` (only a broadcast holds it over several steps) |
| `accept`, the insertion | `AcceptTest`, `AcceptReturns`, `AcceptInserts` |
| the loop of `handleClient`, `recv`, `publish` | `HandlerTest`, `HandlerRecv`, `HandlerEnds`, `Publish` |
| `broadcastMessage`, one `send` at a time in the order of the set | `BroadcastBegin`, `BroadcastSend`, `BroadcastEnd`; `todo` is what is left to serve |
| `removeClient`, then `close` | the two alternatives of `HandlerExit` |
| `stop` | `StopBegin`, `StopCloses`, `StopJoins` |

The kernel gives out the lowest free descriptor, so a number comes back as soon as
its socket is closed. A client outside `Readers` never reads, as `producer_legacy.cpp`.
With two `Fragments` the bytes of a publication arrive in two `Segments`, cut
before its second colon, be it inside "PUBLISH:" (a "cut" and a "tail") or behind it (a "head" and a "tail").
`recv` returns any number of them together, and `IsPublication` says whether
`handleClient` finds a publication in what it got: a cut alone is ignored, a head alone
is stored and broadcast truncated, and what is joined with it goes along. `topics` says of each
stored message who sent it, and as the how many-th. **`MCLegacyBroker`** has the descriptors
and the symmetry, **`LegacyBrokerProofs`** the theorems.

### The clients

**`Clients`** is `consumer.cpp` and `producer.cpp`, connected to the service that
`AsioBroker` implements: `mail[c]` is all that a client is given, `taken[c]` how much of it
the program has read.

| code | specification |
|---|---|
| `subscribe`, `publish`, `send_command`: a write, then `read_until` into a buffer of their own | `Write`, then `ReadReply` or `RequestFails`; `pc` is "reply" in between |
| what `read_until` fetched beyond the line, dropped with that buffer | `TakeLineAndDrop`: any number of lines that have come, and perhaps the first half (`half`) of one more |
| `start_listening` and the buffer it keeps | `ListenTest`, `ListenReads` with `TakeLine`, `ListenFails` |
| the prompt for topics of a consumer that was started without; its exit if none is typed | `AfterConnect`, `EnterTopic`, `EnterNothing`; `GiveUp` |
| `stop`, called by the signal handler at any moment and by `disconnect` | `Stop` in `Signal` and `Disconnect` |
| the loop over the topics; the console of the producer | `Subscribe`, `TopicsLeft`; `Type`, `Quit` |
| the connection: the requests on their way, its state, what came before it was gone | `request`, `socket`, `arrives`; `Loss`, `Notice` |
| the broker | `Process`, one action of `PubSubService` for each request |

A reply carries nothing that says what it answers, so `ReadReply` takes whatever line
comes next, as the code does. The prompt comes after `connect` and waits for the user: a signal
there closes the socket, but `std::signal` restarts the `getline`, so that only the user gets
the program on; its subscriptions then fail, and it ends. `SignalEnds` makes that
exception. (The promise "Press Ctrl+C to stop" is printed later, by `start_listening`, and is
kept there.) **`MCClients`** has the topics and what is typed,
**`ClientsProofs`** the theorems. `ShownWithoutGap` is `MissesNothing` seen on a
consumer's screen, so it spans the broker's service and the client.

### The logger

**`DebugLogger`** is `lib/debug_logger.cpp`, shared by threads, with its connections and a
broker that may crash and come back. Its callers in `examples/` are how many lines they
send and whether they ask `is_connected` first.

| code | specification |
|---|---|
| `socket_fd_`, `connected_`, `socket_mutex_` | the variables of these names |
| the two unguarded tests of `connected_` in `send_message` | `Test`, `Retest` |
| `connect_to_broker`, one critical section | `ConnectBegins` (with `close`), `Connected`, `ConnectFails` |
| the critical section around `send` | `SendBegins`, then `SendWhole`, or `SendPart` and `SendRest` or `SendCut`, or `SendVanishes`, or `SendFails` |
| the destructor | `Destroy` |
| `info`, `metric`, `warn`, `error`; the loops of the two applications | `Log`, with the lines of one call or of the calls after one test |
| the kernel and the broker | `link`, `wire`, `unread`; `Serve`, `EndOfFile`, `ResetArrives`, `Crash`, `Restart` |

A line is two pieces, because `SO_SNDTIMEO` can cut `send` short between any two bytes; the
second has the newline. The logger never reads the broker's replies: a `close` with
unread bytes resets the connection, and what the kernel has not transmitted yet is gone
(`CloseSocket`). **`DebugLoggerProofs`** has the theorems.

### The text

**`Protocol`** follows one request from the program that writes it to the screen of the
consumer. Text is a sequence of characters; a command word is one character with a
width, because the length tests of `process_message` count it.

| code | specification |
|---|---|
| `process_message` | `Parse`, `ParsePublish`, `ParseTopic` |
| `TopicManager::publish`'s line | `Notification` |
| `escape_message`, `format_log_message`, `publish_to_topic` of the logger | operators of the first two names; `Log`, `PublishRaw` |
| the producer's console and its own parser | `Sends`, `ConsoleLine`, `Type` |
| a line sent by hand, with `echo` and `nc` | `TypeByHand` |
| the loop of `do_read`, and `start_listening` | `ReadLine`, `Show` with `ShowLine` |

**`ProtocolProofs`** has the theorems.

## 4. The runs

Deadlock is not checked in any run: when the clients have nothing left to send, the
systems rest, and that is no error.

### The Asio broker

Every instance has two connections and socket buffers of one line, so a second
line to a client that is not reading blocks. `MaxLines` bounds the requests sent by all
the clients together, and `Disturbances` says which of close, reset and stop may
happen. Two connections are enough for a publisher and a subscriber, for two
subscribers that must agree, and for a failure of one while the other goes on;
three lines are enough to subscribe two and publish, to subscribe, publish and
publish again, and to have requests buffered behind a failed write.

| run | checks | bounds, and what it shows |
|---|---|---|
| `Broker` | `OneWriteWhileQueued`, `StreamMatchesDelivered`, `DeliveredInPublishOrder`, `OnlyWhileSubscribed`, `SubscribersMissNothing`, `NoLeakedSession`, `ActiveSessionsCounted`, `SilentAfterDisconnect`, `ImplementsService` | subscriptions and publications of one topic, 3 lines, close, reset and stop: the write chain never stalls or doubles; who is given what in which order; a failed write, then buffered lines that subscribe again, then the failed read; `stop` between any two steps |
| `BrokerLiveness` | `TypeOK`, `DeliveredIsReceived`, `RequestsAreTaken`, `DisconnectedIsForgotten` | `FairSpec`, 2 topics, 2 lines (all but UNSUBSCRIBE, which `Broker` has), close and reset: what must happen in the end, with a second topic |
| `BrokerAborts` | `BrokerSurvivesConnections`, violated | `Session`'s constructor calls the throwing `remote_endpoint()` on a connection that may already be reset; nothing catches it in the io thread |
| `BrokerGarbles` | `LinesArriveIntact`, violated | `do_write` lends `async_write` a local string |

The other properties hold with these two defects in the model:
`StreamMatchesDelivered` says that a line keeps its place even if its bytes are
spoiled, and the liveness properties except a broker that has aborted. A session
also goes on being served after `stop` has "closed all sessions"; that, too, is in the
model, and `GracefulShutdown` has its consequence.

### Process, queue and legacy broker

| run | checks | bounds, and what it shows |
|---|---|---|
| `MainShutdown` | `NoHandlerOnDeadBroker`, `SignalEndsBroker`, `GracefulShutdown` | 2 clients, 2 signals at any time on either thread. A signal that comes before the `io_context` exists ends the process only if the clients leave, so `GracefulShutdown` assumes that (`ClientsLeave`) |
| `Queue` | `NoLostWakeup`, `FirstInFirstOut`, `SleepersAreServed` | 4 threads, 4 items: two may sleep while two others push, pop and clear |
| `Legacy` | `ConnectedAreHandled`, `AgreeOnOrder`, `StoredAsSent`, `StoredIsBroadcast`, `ClosedIsReleased`, `StopReturnsOnConnection` | 2 clients that read, on 2 descriptors, one of which closes its connection, so that its number is reused; 2 publications at once, each in two segments that are received together or apart; stop |
| `LegacyStalls` | `StoredIsBroadcast`, violated | with clients that never read, the blocking `send` under `clients_mtx_` freezes the broker |

The comment at `server.cpp:126` says "Broadcast the message to all other connected clients",
and `broadcastMessage` serves the publisher too. The model does as the code does:
`StoredIsBroadcast` is about that broadcast, and `AgreeOnOrder` leaves open whether a client
sees its own publications. A publisher that never reads so fills its own buffers and stops
the broker even if it is alone, which `LegacyStalls` includes. That a client misses nothing
between two publications needs a third to show; the run has two, and this part of
`AgreeOnOrder` rests on the theorem `OneOrder`.

`StopReturnsOnConnection` assumes a connection after `stop`: `close` does not wake
the thread in `accept`, which `stop` joins, so without one `stop` does not return.

### Clients and logger

| run | checks | bounds, and what it shows |
|---|---|---|
| `Clients` | `RepliesMatchWithoutMessages`, `ShownIsStream`, `ShownWithoutGap`, `CallsAreAnswered`, `AllSubscribed`, `SignalEnds` | a consumer of 3 topics, or one that asks and whose user types up to 2, and a producer whose user types 2 lines of any kind, a signal at any moment, and a connection that may be lost: a message can come between two subscriptions and be taken for the reply to the second, whose own reply then waits for the third |
| `Protocol` | `GrammarAgrees`, `LogIsOneLine`, `ShownAsPublished`, `TypedIsRead` | topics of up to 2 of 3 characters and texts of up to 2 of 7, one request: every shortest request, an empty topic, a colon or an escape at either end, two lines in one text |
| `Logger` | `OneConnection`, `ConnectedHasSocket`, `NoInterleaving`, `CallsReturn`, `LoggerComesBack` | 2 threads, one that logs unasked and reconnects, one that asks first; 2 connections, so that the next can be opened while the broker still has the last one; buffers of 3 pieces, so that a line can be cut in two; crashes and restarts without number. `LoggerComesBack` holds here because one thread does not ask first |
| `LoggerGuarded` | `LoggerComesBack`, violated | a caller that asks `is_connected` first, as all of `robust_app.cpp`, never calls `send_message` again once a send has failed, and only `send_message` reconnects |

What the conditions in these properties leave open is so in the code, and the
model shows it when they are taken away. Once a client is sent a
MESSAGE, its replies may be matched with the wrong requests from then on
(`RepliesMatchWithoutMessages` is conditional), and a message that is read together with
the `OK:SUBSCRIBED` before `start_listening` is never shown (`ShownIsStream` counts from
there). Metrics and `publish` of the logger escape nothing, so a newline in them is a
second line for the broker, and a topic with a colon reaches no subscriber of that
topic (the conditions of `ShownAsPublished`). `GrammarAgrees` asks that every publication with a
payload be accepted and leaves an empty payload open, because the code and its comment
differ there: `asio_server.cpp:103` says "need at least "PUBLISH:t:p" (11 chars minimum)", and
the test below it accepts "PUBLISH:t:", which the logger's `publish` can send. `LogIsOneLine` assumes a service name without special
characters: `format_log_message` does not escape it, and `Prefix` is a constant. A line of the logger can be lost without
notice, or cut off, when the broker dies or does not read (`SendVanishes`, `SendCut`,
`CloseSocket`); `NoInterleaving` says that no line is mixed with another all the same.

### Fairness

`FairSpec` assumes weak fairness of each handler of each session, because
`io_context` runs completion handlers in the order they became ready and no
handler of the broker waits for anything; of the reactor (`AcceptCompletes`,
`BlockedWriteSent`, `BlockedWriteFailed`), because epoll reports a ready
descriptor; of `Start`, because `main` calls it; and of `Receive`, because
`DeliveredIsReceived` is about clients that go on reading. Nothing is assumed of
clients sending, closing or resetting, nor of `stop`.

`FairMainSpec` assumes that the two threads and a signal handler get on; not that a
signal comes, nor that a client leaves. `FairQueueSpec` assumes that a woken thread
gets the mutex in the end; not that anybody calls the queue. `FairLegacySpec` assumes
that the broker's threads get on when they can and that the `Readers` read. A mutex
promises no order among those that wait for it; there each holder lets go, and the
bound on the publications makes the mutex free for good in the end.

`FairClientsSpec` assumes that the consumer and a call in progress get on, and that the
broker processes what it is sent, which is `RequestsAreTaken`; not that anybody types, at the producer's prompt or
the consumer's, and
not that a lost connection is noticed. `FairLoggerSpec` assumes that the threads get on
and go on logging, and that the kernel learns of a dead connection in the end. It
assumes strong fairness of `Lock`: whoever holds `socket_mutex_` gives it back, by its
time-outs if need be, and its thread works between two calls (the examples sleep
there), so nobody waits for ever although the mutex promises no order. `CallsReturn`
assumes nothing of the broker, but rests on the two-second time-outs: the header calls the
logger "non-blocking", and a call may take that long. `LoggerComesBack` has its fairness as an antecedent
(`Serving`). The safety runs `Broker` and `Protocol` assume none.

## 5. What is proved

`AsioBrokerProofs` proves, for all sets of clients and topics, all request
sets, all bounds and all disturbances allowed by `ConstantsOK` and `NoTopicOK`:

| theorem | property |
|---|---|
| `TypeCorrect` | `TypeOK` |
| `OneWrite` | `OneWriteWhileQueued` |
| `NoLeak` | `NoLeakedSession` |
| `Counted` | `ActiveSessionsCounted` |
| `Silent` | `SilentAfterDisconnect` |
| `StreamIntact` | `StreamMatchesDelivered` |
| `InPublishOrder` | `DeliveredInPublishOrder` |
| `WhileSubscribed` | `OnlyWhileSubscribed` |
| `Refinement` | `ImplementsService` |
| `MissNothing` | `SubscribersMissNothing` |
| `StoredOnceInOrder` | `Stored`: every number given out is in one place of one topic's queue, in order |

The argument goes in four layers, each an inductive invariant on top of the
previous ones.

1. `TypeInv` is `TypeOK /\ OneWriteWhileQueued`. The second conjunct is needed for
   types as well: `WriteDone` takes the tail of a queue that is only known not to
   be empty because a write is outstanding.
2. `TablesInv` says which sessions the tables may hold in each `phase`. It needs
   both halves of `NoLeakedSession` and a fact about failed writes (`writeOp` stays
   "dead" once it is, so the session is excused from the count for ever).
   `NoLeak`, `Counted` and `Silent` follow.
3. `StreamMatchesDelivered` is inductive given `TypeInv`. The lemmas `StreamGrows`
   and `StreamMoves` say what appending to the queue and moving its head to the
   wire do to the match; every action is one of the two or neither.
4. `MailInv` relates the history to the present: every message delivered has a
   number below `sequence_counter`, and a session is subscribed to a topic only if
   the last acknowledgement it was given for that topic is for a SUBSCRIBE.
   The order and the subscription property follow.

`Refinement` uses `TypeInv` and `TablesInv`: a session that processes a line is in
phase "reading", so it is not `gone`. Each action maps to one step of the
service or to a stutter. The last two theorems are the service's own, which
`AsioBrokerProofs` instantiates through the same mapping: what a proof about the
service shows, it shows of the broker.

`PubSubServiceProofs`, for any clients and topics:

| theorem | property |
|---|---|
| `ServiceMissesNothing` | `MissesNothing` |
| `ServiceLogsEachOnce` | `LogInOrder` and `LogComplete` |

`ServiceInv` joins them with the types. `MissesNothing` is kept by a publication because
what it adds to a member's mail is what it adds to the log, and is newer than all of the
log; a message of another topic is newer too, so nothing is due after it (`LogInOrder`);
and a SUBSCRIBED begins anew. A client that leaves a topic and joins it again misses what
is published in between, which is why the property asks for no SUBSCRIBED after the message.

`ThreadSafeQueueProofs`, for any finite set of threads and any bound:

| theorem | property |
|---|---|
| `QueueTypeCorrect` | `QueueTypeOK` |
| `WakeUpsKept` | `NoLostWakeup` |
| `QueueOrder` | `FirstInFirstOut` |

`NoLostWakeup` is inductive with the types. The cases that matter are a push with a
sleeper, which makes one more woken thread for one more item, and a pop by a woken
thread, which takes one of each; a woken thread only sleeps again on an empty queue.

`BrokerMain` holds its own theorem, `DestroyedAfterIo`, for `NoHandlerOnDeadBroker`:
the strengthening is that the io thread is started once, before the monitor loop.

`LegacyBrokerProofs`, for all sets of clients and descriptors and all bounds:

| theorem | property |
|---|---|
| `LegacyTypeCorrect` | `LegacyTypeOK` |
| `HandledSockets` | `ConnectedAreHandled` |
| `OneOrder` | `AgreeOnOrder` |
| `StoredInSendOrder` | `StoredAsSent` |

`SocketInv` adds to the two properties the lock discipline: the thread that
broadcasts holds the mutex, and all it has still to serve is connected.
`StreamInv` says how far each client has come: to the last publication of the
order, or to the one before if the broadcast under way has not reached it. A client
that is let in starts at the end of the order, which is why the insertion must
take the same mutex as the broadcast. So what a client was sent is a stretch of the order
(`Within`), of which `AgreeOnOrder` says what a client can count on (`StretchAgrees`);
`OrderInv` adds that no number is broadcast twice. `StoreInv` is the argument of `StoredInSendOrder`:
the segments on their way go up, with a tail after its own head or cut (`Follows`), and what has
been stored or is about to be is older than all of them. It needs that a tail alone is never
taken for a publication.

`DebugLoggerProofs`, for any threads, guarded and reconnecting callers, connections and
buffer sizes:

| theorem | property |
|---|---|
| `LoggerControl` | `ControlInv`, with `LoggerTypeOK` |
| `LoggerHoldsOneConnection` | `OneConnection` |
| `LoggerConnectedHasSocket` | `ConnectedHasSocket` |
| `LoggerDoesNotInterleave` | `NoInterleaving` |

`ControlInv` joins what the other properties need of each other: a thread is in a
critical section exactly if it holds the mutex (`PcInv`), so a thread that connects has
closed the old socket and no other thread has opened one (`ConnectedInv`), so there is
one connection at most (`FdInv`). `NoInterleaving` is not inductive: a thread that waits with a
part of its line sent must find that part still the last on the wire. `RestInv` says so;
it needs the mutex, and that the broker, which reads up to a newline, cannot have read it.

`ClientsProofs`, for any consumers, producers, topics and input, whichever connections
break:

| theorem | property |
|---|---|
| `ConsumerShowsStream` | `ShownIsStream` |
| `RepliesAnswerRequests` | `RepliesMatchWithoutMessages` |
| `ConsumerMissesNothing` | `ShownWithoutGap` |

`ClientsInv` is proved client by client. `StepFrame` says that a step of one client
leaves the others alone, but that their mail may grow (`MailGrows`), and by nothing but
messages (`GrowsByReply`). `Shows` adds to `ShownIsStream` where a consumer stands when
the last buffer it dropped ended in the middle of a line. `Replies` says why the next
line is the right one: as long as no message comes, a client has at most one
request on its way or one reply, and of a connection that is gone at most that reply.

`ConsumerMissesNothing` adds `ServiceInv`, which every step of the clients keeps because it is
a step of the service or leaves members, log and mail alone (`ServiceStep`); with `Shows`, the
screen is a part of the mail up to `taken`, and the rest of the mail is still on its way.

`ProtocolProofs`, for any alphabet of texts and of topics, and any bound on their length:

| theorem | property |
|---|---|
| `ProtocolTypeCorrect` | `ProtocolTypeOK` |
| `ProtocolGrammarAgrees` | `GrammarAgrees` |
| `ProtocolLogIsOneLine` | `LogIsOneLine` |
| `ProtocolShownAsPublished` | `ShownAsPublished` |
| `ProtocolTypedIsRead` | `TypedIsRead` |

The inductive invariant is `ProtocolInv`: the types; `ReadRight`, that each processed
request is what `Parse` makes of its line; and `Progress`, which says of each kind of
sender what of its lines is on the wire, processed, or shown. What the operators on text
compute is where the work is, and it goes by induction, which the provers have
no theorem for here. `LeastNumber` (a set of numbers that is not empty has a least one, by
the library's facts on well-founded orders) replaces it: a claim about all prefixes is
refuted at a least counterexample, or climbed from 0 (`Climb`). So the fold in
`escape_message` is unfolded one character at a time (`FoldExists`, `EscapesInTurn`), and
since no escape begins another, two texts with one escaped form are equal
(`EscapeIsInjective`). `SplitAtColon` and `JoinAtColon` are the two directions of taking a
line apart at its first colon, which `process_message` and the producer each do in their way
(`ParseIsGrammatical`, `SendsOneLine`). `ProtocolConstantsOK` assumes that a command word is no
character of a text, which is the module's abstraction: it writes a word as one character.

Only model-checked: the liveness properties (fairness and ENABLED are out of the
prover's reach) and the four violations. Every safety invariant of a passing run is
proved.

## 6. What is not modelled, and why

* Bytes, outside `Protocol`. The Asio broker's requests arrive as whole lines
  (`async_read_until` reassembles them), reduced to the command that `process_message`
  selects. The legacy broker, which does not reassemble, has segments; the logger, whose
  `send` may be cut short, pieces.
* `TopicManager::store_message` and `consume_message`, `consume` and `subscribe` of the
  legacy broker: no code calls them. The topic manager called by several threads:
  one io thread calls it. The counters have no effect on state; `get_active_sessions` is
  what `ActiveSessionsCounted` is about.
* The rest of `asio::error` cases: an accept that fails for lack of descriptors is
  logged and retried, as `AcceptAborted` is, without a state change.
* What the code does once it uses a destroyed object: the legacy broker's detached
  threads after `main` has returned, a signal after the `io_context` has gone, the
  logging in the signal handler.
* Of the clients: the arguments of `main` but for the consumer's topics, and the console
  loops of the legacy clients. A legacy payload that has "PUBLISH:" in it, whose rest could
  be taken for a publication of its own. A failed write of the
  broker to a client (`Drop`) shows the client nothing that its lost connection does not.
* Of the logger: what a line says (`Protocol` has its escapes), the time stamp, and the
  statistics and sleeps of the examples.
* Everything that `PROJECT.json` marks `not_modelled`: output and time stamps, the tests,
  the scripts and the build. Asio is vendored, and modelled as far as the broker uses it.
