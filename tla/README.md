# lsf in TLA+

`lsf` is a small C++ framework (`src/dev/lsf`: event loop, sockets, containers) and a family of
game-server processes built on it (`src/dev/svr`: connection, game, data, proxy, config, HTTP
servers). This directory specifies the parts of it whose correctness depends on the order of
events, model-checks them with TLC on small instances and proves the most important results with
TLAPS for every instance. Every path below is relative to `src/dev/svr` unless it starts with
`lsf/` (`src/dev/lsf`).

## The system

A client's connection ends in a **connection server** (connsvrd), which forwards its messages to a
**game server** (gamesvrd) and the game server's responses back. Servers talk to each other through
**proxies** (proxysvrd): each server connects to every proxy, registers its type and id, and sends
each message over the next proxy in turn; the proxy picks the receiver by type, id or hash. The
**data server** (datasvrd) keeps records in LevelDB. The **config center** (confsvrd) hands every
server its configuration. Every process is one event loop
(`lsf/asio/async/proactor_service.hpp`): a handler runs to completion, so two handlers of one
process never interleave; the concurrency is between processes, and between the events of one
process that come in an order nobody chose. The only threads are those of `CurlThread`.

| component | state | operations | hard behaviour | correct when |
|---|---|---|---|---|
| Data server (`datasvrd/handler_common.cpp`) | per record: version, lock id, lock time, data | query (with lock), update, delete, insert, unlock | locks expire while their holder works; ids are random; messages lost and reordered; each database call may fail | no update is lost; a lock excludes others; a version names one value |
| Session state machine (`common/basic_handler.cpp`) | per session: state, one handle per record, timer | client request, server request, response, timeout, finish | responses are matched by session id and server type only; timeouts race answers | a response is taken only by the call it answers |
| Session and timer managers (`common/session_manager.cpp`, `timer_manager.cpp`) | two maps of bounded size, two id counters, a heap | create, release, OnTick, leak check, recover | ids wrap; released timers stay until due; full maps; restart | a timer ends only the wait it was set for; one response per request; every session ends |
| Snapshot (`common/basic_manager.h`) | a shared memory segment per manager | save at exit, recover at start | saved inside the signal handler | a restart brings back what was there |
| Event loop (`lsf/asio/async`) | per descriptor: completions, unused bytes; the events of one wait | accept, connect, read, write, cancel, timers, run | callbacks close the connection being handled, or another; descriptors are reused within one batch | an open socket is registered under its own descriptor; a connection ends for its own reasons |
| Framing (`common/common_func.cpp`, `lsf/asio/async/read_data_buffer.hpp`) | bytes kept between reads | cut, put | messages split and joined arbitrarily | the messages cut are the messages sent |
| Connections to servers (`common/basic_service.cpp`) | one socket slot per address | connect, check every 10 s, send by index or in turn | connects that answer late | every slot comes to hold a connection that is registered at the other end |
| Connection server (`connsvrd`) | per client connection: logged in, heart beat, last message | accept, login, forward, response, close | forwarding while the game server is away; descriptors reused | the game server knows exactly the open connections |
| Client connections of the game server (`common/client_conn_manager.cpp`) | map by connection id (a second map, by uid, is switched off by every server) | create, release, save, recover | notices lost, a full map, restart | it has the connections it was told of and no others |
| Proxy (`proxysvrd`) | one socket per (type, id) | register, route by random, hash, id, broadcast, exception | servers that reconnect, sockets that are no longer connected | a message reaches the servers it is for, once |
| Curl thread (`lsf/asio/curl_thread.hpp`) | request and result lists under two mutexes, callbacks | add, perform, collect | threads, lost notifications | every request has its callback once, in order |
| Containers (`lsf/container`) | red-black tree, circular queue, lists and pool in one memory block | insert, erase, push, pop | rebalancing, full and empty | they are the sets and sequences they claim to be |
| Config center (`confsvrd`) | what it has loaded of its files | two requests of a server | restarts and failures between the two | a server holds one version of what the center has |
| HTTP service (`httpsvrd`) | none of its own | `/test` | none | |

Vendored code (`3rd`), generated protobuf code, HTTP parsing, csv and JSON conversion, the word
filter, logging and the release scripts hold no state whose order matters and are left out; the
last section says so part by part.

## Modules

| module | models |
|---|---|
| `DataServer` | the data server's five handlers over LevelDB |
| `DataSession` | EXTENDS it with the sessions that use it, so composes server, network and sessions |
| `RecordLease` | what the data server promises, with no ids, versions, clocks or messages |
| `SessionTimer` | session manager, timer manager, wait/response/timeout, snapshot |
| `ClientConn` | connection server, the game server's connection map, the connection between both |
| `EventLoop` | the proactor with its epoll driver, completion queue, read buffer and framing, under an accepting service |
| `Proxy` | servers and proxies: the connections, the registration, the routing |
| `CurlThread` | the worker threads, their lists and the loop's tick |
| `ConfigCenter` | the center and the servers that ask it |
| `RedBlackTree`, `CircularQueue`, `NodeList` | `Set` and `Map`; `Queue`; `List` and `Pool` |
| `Loops` | a loop over links, as turns of a function; `RedBlackTree` uses it |
| `OrderedSet`, `Deque` | what those promise: a bounded set, a bounded sequence |
| `MCDataSession`, `MCSessionTimer`, `MCProxy`, `MCNet`, `MCContainers` | instances for TLC. `MCNet` and `MCContainers` choose at the start which of several independent parts runs |
| `DataSessionProofs`, `DataLeaseProofs`, `SessionTimerProofs`, `ClientConnProofs`, `EventLoopProofs`, `NetProofs` (curl, links, config center and `MCNet`), `ContainerProofs` (queue and list), `TreeProofs` (tree and `MCContainers`) | theorems |

The modules meet at what one assumes and another shows. `DataSession` and `SessionTimer` look at
the same `BasicHandler` from two sides: the first has what a session does with records and abstracts
ids and timers (a session has a fresh id and its timer may fire whenever it waits); the second has
ids and timers and abstracts records. What the first assumes of ids, that a response finds its own
session or none, is what the second checks (`ResponseIsOwn`); it holds while the server runs and
fails over a restart. `DataSession` and `ClientConn` take connections as given that `Proxy` shows to
come back (`Settles`), and those take a loop that reads every message and reports the end after
them, which is `EventLoop`. `ClientConn` lets every session end, which is `EverySessionEnds`.

### DataServer, DataSession

| state | code |
|---|---|
| `ctl[k]` | `DBControlInfo` of record k in LevelDB: `data_version`, `lock_id`, `lock_time` |
| `data[k]` | `DB` of record k; a value is the session that wrote it |
| `clock` | `ClockTime()`, in ticks |
| `req`, `rsp` | messages of `proto/msg_ss.proto` on their way, sets since order is not kept (below) |
| `state[s]`, `handle[s]`, `cur[s]` | `session_state`, the `DBHandle`s, the handle `db_process_index` points at |
| `grant`, `inc`, and `base`, `inc` of messages | history: for whom a lock id was drawn, how often a record began anew, what a session read |

Actions: `Query`, `Update`, `Delete`, `Insert`, `Unlock` are the `OnServerRequest` of the five
handlers of `datasvrd/handler_common.cpp`, each whole, with `UpdateTimeoutLock` before and the reply
after it; `DbOutcome` lets a LevelDB call fail where `DbMayFail`. `QueryRequest` and `DirectRequest`
are a client request whose handler begins with reads or with a write; `ServerResponse` is
`GetServerResponse` with the DBSVR states of `RunStateMachine` after it; `WaitResponseTimeout` is the
timer callback. The machine runs until it waits or is finished, so what lies between is one action.
`Proceed` is what a concrete handler may do when its data is there: any operation of `Ops` on any
handle left, or the end.

Messages are in sets and handled in any order, or never: a server sends over its proxies in turn
(`common_service.cpp:297`), so two messages to one server take different ways, and a message
dropped or a process gone loses them. None is duplicated: nothing in the code sends twice, and
`Proxy` shows that no way from sender to receiver doubles one (`AtMostOnce`). Requests for one record
go to one data server, chosen by hash, and one is modelled.

### SessionTimer

| state | code |
|---|---|
| `session[i]` | `SessionManager`'s map by id: the request it is for, the kind of server it waits for, calls not yet answered, `timer_id`, age, whether the response was sent |
| `timer[t]` | `TimerManager`'s map by id: session, time left, `is_delete` |
| `maxSession`, `maxTimer` | `_cur_max_id` of both, masked |
| `saved` | the shared memory segments, from the signal to the restart |
| `net` | responses on their way to this server, and curl results |

Actions: `GetRequest` (`OnConnectionMessage` of the client service, `CreateSession`), `GetResponse`
(`OnConnectionMessage` of the server service, `GetServerResponse`, `GetCurlResult`), both with
`RunStateMachine`, `SetSessionTimer` and `Finish` after them; `OnTick` and `LeakCheck` are the two
timer callbacks; `Stop`, `Restart` and `Crash` are `OnExit`, the recovery in `Init`, and a start
from nothing. `FirstSession` and `FirstTimer` start the counters near the end of their range:
every value is one a server that has run for long can have.

`ReleaseTimer(0)` is called for a session without a timer (`common/basic_handler.cpp:60`), and 0 is a
valid id once the timer ids have wrapped: then a response deletes the timer of another session.
`TimersMatch` therefore says nothing of a session whose timer is timer 0; that such a session still ends is
`EverySessionEnds`, by the leak check. Time does not pass between a stop and the start, so recovered
timers do not run down meanwhile; the code compares clock times, and more of them would be due at once.

### ClientConn

| state | code |
|---|---|
| `peer[c]` | the client's end of its connection |
| `sock[f]` | `_sock_map` of `AcceptClientMsgService`: `is_login`, `is_new_conn`, heart beat age, and whether the socket is still connected |
| `conns[f]` | `ClientConnManager`'s map by connection id |
| `link` | the one connection between the servers: is it there, and does each side think so |
| `up`, `down` | what is on its way on it, in order |
| `sessions` | requests whose session has not answered yet |
| `saved` | the game server's shared memory segments |
| `lost`, `asked`, `answered` | history; `failures` counts against the bound |

Actions of the connection server: `Accept` (`OnConnectionCreate`), `Login`, `BadLogin`, `HeartBeat`,
`Other` (the four handlers; time sync changes nothing), `ReadEnd` (`OnSocketPeerClose`), `ReadError`
(the error branch of `OnReadEvent`, which calls no callback), `HeartBeatCheck`, `ConnMessage`. Of
the game server: `GameMessage` (`OnConnectionMessage` with `CreateClientConn` or
`ReleaseClientConn`), `Respond` (`TransferResponse`), `GameStop`, `GameRestart`, `GameCrash`. Of the
connection between them: `Break`, `ConnNotices`, `GameNotices`, `Reconnect` (the check of
`BasicConnectService`, and `OnConnectionCreate` on the other side, in one step; `Proxy` has the steps).

There is always a free session (`SessionTimer` has the other case). `Relogin` lets a client send a
login without uid on a connection in use: `HandleLogin` closes it and tells nobody, and the game
server keeps its `ClientConn` until the descriptor is used again. `ViewsAgree` counts that as a
missed message, and so does `LeftIsForgotten`. Data and the end of the stream read at once, when the data
was a bad login, make a notice with connection id 0, which the game server ignores; it is left out.
So is the half frame a send leaves when its socket times out.

### EventLoop

| state | code |
|---|---|
| `io.fd[c]` | the descriptor of connection c's `Socket` |
| `io.reading[f]` | the read completion of descriptor f in `CompletionQueue`, and its registration with epoll: whose socket it holds |
| `io.unused[f]` | `ReadDataBuffer`, keyed by descriptor |
| `io.held` | sockets the service refers to (`_conn_scok`, `_sock_map`); one nobody refers to closes its descriptor (`Release`) |
| `io.taken`, `io.end`, `io.delivered` | what was received, why a socket was shut down, and, history, the messages handled |
| `backlog`, `batch` | connections to be accepted; the events of the last `WaitEvent` still to be handled |
| `peer`, `sent` | the other ends |

Actions: `WaitEvent` fetches all that is ready, level triggered; then the loop of `Run` handles the
events in any order: `OnAcceptEvent`, with the service's `OnSocketAccept`; `OnTimerEvent`, whose
callback may close a connection; `OnConnEvent`, which is `OnReadEvent` (`CheckUnusedData`, receive,
`OnSocketRead` with `GetSingleMessageFromStream` and the handlers, the rest saved, then the end of
the stream) and `OnErrorEvent`. The handler of any message may close its own connection or another.
A message is two cells, so that one can be cut; a descriptor's unused bytes of a former
connection can stand before the next one's (`inherited`), and messages are then cut wrongly.

### Proxy

| state | code |
|---|---|
| `conn[s][p]`, `index[s]` | `_conn_scok` and `_last_random_send_index` of server s |
| `sock[p][s]` | `_sock_map` of proxy p |
| `link[s, p, i]` | a TCP connection: `near`, the server's socket, `far`, the proxy's, what is under way each way, whether it is cut, whether it has registered |
| `message[m]` | how it is to be routed, and, history, how often each server got it |
| `bounds`, `last`, `calm` | the bounds on faults and slow connects; history |

Actions: `OnConnectionCheck` replaces every socket that is not connected, also one whose connect is
under way, which goes on; `OnSocketConnect` registers at once; `ConnectionSendBySequence` with the
`Transfer...` calls above it; `ServerReads`, `ServerSeesEnd`; at the proxy `ProxyAccepts`,
`ProxyReads` (`HandleRegisterRequest`, `HandleMessageTransfer`) and `ProxySeesEnd`, which leaves the
table as it is. Faults: `OnSocketConnectFail`, `Cut`, `RestartProxy`.

### CurlThread

`input`, `output`, `funcMap` are `_input_list`, `_output_list`, `_func_map`; `worker[w]` is where a
thread is in `ProcessWorker`, `loop` where the event loop is in `ProcessOnTick`, `finished` the list it
took. The mutexes are not variables: `InputFree` and `OutputFree` say from where the workers are
who holds them. A worker keeps the input mutex while it performs a request, so there is never more
than one request at work: that is what keeps the callbacks in order. `CheckInput` and `CheckOutput` look
at the lists before they lock them; that read is not synchronized and may fall anywhere.

### ConfigCenter

| state | code |
|---|---|
| `files` | `deploy.cfg` and the tables as edited; a configuration is the edit it came with |
| `center` | `_deploy_config` and `_game_config` of `ConfigCenter`, and whether the process is there |
| `asker[a]` | `_server_config` and `_game_config` of a server's `ConfigManager`, and where it is: down, in the first or the second blocking call of `OnConnectionCreate`, in its loop |
| `wire[a]` | its connection to the center, the question and the answer under way |
| `counts` | the bounds |

Actions: `Edit`; `CenterStart` (`InitFromFile` with `ReloadGameConfig`, whose failure is ignored) and
`CenterEnd`; `HandleGetConfig`; `AskerStart`, `AskAgain` (the connection check), `AskerEnd`;
`InitServerConfig` and `InitGameConfig` take the answers, `CallFails` and `CallTimesOut` are the two
ways `SendAndRecv` fails, `SeesEnd` is the loop's notice that the connection is gone; `CutWire`.

### Containers

`RedBlackTree` has the nodes of `impl_red_black_tree.hpp` with their links, colours and the ring of
unused nodes; insertion with the cases of `InsertFixup`, erasing with those of `EraseFixup`, and the
element that `EraseNode` moves between nodes. The loops of the code, which follow links, and its fixups,
which call themselves, are turns of a step function (`Loops`); one that has ended stays where it is, and none needs more
turns than there are nodes. `CircularQueue` has the slots, head and tail of
`impl_circular_queue.hpp`, with the arithmetic of its size type: below 0 it wraps at `WordSize`, and one
narrower than int is promoted first (`Promotes`). `NodeList` has the two rings of `impl_bidirectional_list.hpp`, the elements
with the node that marks their end, and the unused nodes; the operations of `List` (`ListNext`) and those of `Pool`
(`PoolNext`: `Malloc` and `Free`) are two specifications of the one block. An iterator given to `Insert` or `Erase` is one from
`begin()` on that the list has; nothing else is asked of a caller. Each is compared with its abstract module: `SetSpec`,
`QueueIsDeque`, `ListIsDeque` are `INSTANCE`s of `OrderedSet` and `Deque` as properties, the return values among
what is compared.

`List::PopBack` frees the node before the head, which is no element but the mark of the end. The last element's node
becomes the mark, so that the list still is what it should be; but the first node, `ENDPOS`, is now
an unused node like any other, and `_empty_head_pos = ENDPOS` and `_head_pos = ENDPOS` also
say that there is none. `adrift` is a history variable: it becomes true when `ENDPOS` stands first among the
unused nodes, where the code takes them for used up. Until then the list is a sequence, `PopBack` included
(`DequeUntilAdrift`), and every node has one place (`RingsStaySplit`); afterwards `ListIsDeque` fails (finding 4).
A pool has no `PopBack`: it never comes to this (`PoolKeepsEnd`) and is a sequence for good (`PoolIsASequence`).

## Runs

| run | question | bounds and why they are enough |
|---|---|---|
| `MCDataSession_leases` | is an update lost, a lease broken, a version ambiguous, whatever LevelDB call fails? | three sessions, one record: one holds, one waits, one comes late. Two lock ids for three sessions, so ids collide; the lease runs out under its holder at the first tick. Deletes are in the next run, and in the proofs |
| `MCDataSession_records` | is the holder refused, does a response fit its session, is `RecordLease` implemented? | two records, one of a type that is not stored; ids distinct, as these three need |
| `MCDataSession_insert` (violated) | does an insert overwrite? | needs a read error |
| `MCSessionTimer_calls` | do timers, responses and answers find their owner? | three requests through two places, so that a place is used again; four session ids and eight timer ids, about to wrap; six timers, so that the map fills up |
| `MCSessionTimer_restart` | is every request answered and does every session end, over a stop and restart, or a crash? | two requests through one place, two timers |
| `MCSessionTimer_ids` (violated) | `ResponseIsOwn` over a restart | as `_calls`, with one restart |
| `ClientConn_all` | does the game server's map follow the connections, is a client that left forgotten, a request answered? | two clients so that one is refused and a descriptor is used twice; one failure of any kind. Two failures, the second in the recovery from the first, were checked once (2.5 million states); `GameServerFollows` is for any number |
| `MCNet_parts` | curl: is every request called back, once and in order? | three requests over two threads, four additions, so that a handle is used again |
| | event loop: are messages cut rightly, the last ones handled, ends reported for the right reasons? | two connections on two descriptors and five cells: two messages and a head; the second connection can take the first one's descriptor |
| | links: do all servers come to be registered by one socket, does a message arrive, once? | two servers, one proxy, three links each: the current one, a slow one and their successor; one fault, one slow connect, one message |
| | config: does a connected server hold what the center has? | a game server and another; one edit, two troubles: one between the two calls and one after. Two edits were checked of this part alone |
| `MCProxy_sequence` (violated) | do consecutive messages go by one proxy? | one server, two proxies, two messages |
| `MCContainers_all` | are the containers what they promise? | five keys through four nodes: every case of insertion but the last, all of erasing; a queue of four slots over a word of 16, not a multiple of its five positions; lists and pools of four, so that `ENDPOS` comes to be given out |
| `MCContainers_popback` (violated) | is a list a sequence for good? | lists of four, as above |
| `MCContainers_colors` (violated) | has every red node black children? | as above |

Properties by what they say:

* `NoLostUpdate`: an update that is applied replaces the value its session read. Lock, version and
  expiry together give it; either check alone does not.
* `LeaseExclusive`: under a lock in force only its owner changes the record. A delete looks at no
  lock, and an insert that meets a read error overwrites what it could not see.
* `VersionNamesData`, `HolderNotRefused`, `ResponseFitsState`: what a session may conclude from a
  version, from its lock, from the arrival of a response that names nothing but the session.
* `LeaseSpec`: the data server implements `RecordLease` under the mapping of `DataSession`.
* `TimersMatch`, `ResponseIsOwn`, `AtMostOneResponse`, `EveryRequestAnswered`, `EverySessionEnds`:
  the sessions' side, with late responses, reused ids, timers that are deleted but still there.
  `AtMostOneResponse` is checked without restarts: a session that was saved and then answered before
  the loop ended is recovered, and its timer answers it again.
* `ViewsAgree`: follow the notices in `up` to their end, and the game server has exactly the
  connections it was told of. The exceptions are the descriptors in `lost`, those it missed a
  message about, until a new connection on the descriptor is announced: the code does not repair them.
* `LeftIsForgotten`: however a client goes and whatever fails meanwhile, the game server ends up without it,
  with the same exceptions. `RequestAnswered` claims nothing after a failure. A response goes to whoever has the
  descriptor by then, so a client may be answered more often than it asked.
* `CompletionsMatch`, `EndsByItsOwn`, `OwnMessages`, `NoneLostAtClose`, `EveryMessage`: the loop,
  whose state is all keyed by descriptor, serves connections. Two exceptions are the code's: a
  connection whose descriptor had bytes left of the one before (`"bytes"`), or an event still in the
  batch (`"event"`).
* `RegisteredIsCurrent`, `LinksSettle`, `AtMostOnce`, `CalmArrives`: the proxy's table follows the
  servers' sockets; a message sent while all is connected arrives at those it is for, and never twice.
* `RegisteredAreUnderway`, `CallbacksInOrder`, `EveryCallback`: a notification that finds no waiting
  thread is made up for at the next tick.
* `ConnectedIsCurrent`, `ConfigArrives`: a server never rests with half a configuration on a
  connection that stands; and comes to hold all of it, after the last trouble.
* `CheckConsist`, `Ascending`, `LargerStay` and the three implementations: the links stay whole, an
  iterator of a larger element stays valid over an erase. What is claimed of the list is claimed until `adrift`, with
  `PopBack` of lists of any length; `PoolKeepsEnd` says that a pool never gets there.

**Fairness.** `DataSession` has none. `SessionTimer` assumes `OnTick`, `LeakCheck` and `Tick`: the
loop calls its timer callbacks every 10 ms and 30 s and never blocks, and time passes; and `Restart`,
by the script that stops and starts a server. Responses are not assumed to come. `ClientConn`
assumes that both loops take what is ready, that the heart beat timer runs, that the reconnect timer
does, and that sessions end (what `EverySessionEnds` shows); clients are assumed nothing. `EventLoop`
assumes `[]<><<Run>>`: the loop turns for ever, which it can, as a timer may be ready; which
event of a batch comes first is left open. `Proxy` assumes the check timers and the loops of servers and
proxies, and that a connect that is not answered ends, by TCP's timeout; slow connects and faults are
finitely many. `CurlThread` assumes the tick, that threads are scheduled, and that a request ends, by
its timeout at the latest. `ConfigCenter` assumes loops and reconnect timers; nobody need start a process.

`MCNet_parts` does not check for deadlock: a part whose bounds are used up stops.

## What is proved

For every value of the constants, finite or infinite where nothing else is said:

| module | theorem | says | beyond the modules' own assumptions |
|---|---|---|---|
| `DataSessionProofs` | `TypeCorrect` | `Spec => []TypeOK` | |
| | `ResponsesFit` | `Spec => []ResponseFitsState` | |
| `DataLeaseProofs` | `ReadsAgree` | `Spec => []VersionNamesData` | |
| | `UpdatesNotLost` | `Spec => NoLostUpdate` | |
| | `LockExcludes` | `Spec => LeaseExclusive` | |
| | `HolderAccepted` | `Spec => []HolderNotRefused` | (the property assumes `DrawsDistinct`) |
| | `LeaseRefined` | `Spec => LeaseSpec`, the refinement of `RecordLease` | `DrawsDistinct`, `~DbMayFail` |
| `SessionTimerProofs` | `TypeCorrect` | `Spec => []TypeOK` | `FreeIsNone`: an unused place is no session and no timer |
| | `TimersPointBack` | `Spec => []TimersMatch` | `FreeIsNone` |
| | `OneResponse` | `Spec => []AtMostOneResponse` | `FreeIsNone`, `MaxRestarts = 0` |
| | `ResponsesAreOwn` | `Spec /\ [][IdsRested]_vars => ResponseIsOwn` | `FreeIsNone`, `MaxRestarts = 0` |
| `ClientConnProofs` | `GameServerFollows` | `Spec => []ViewsAgree` | `FdsOK`: descriptors are finitely many, an unused one is none in use |
| | `ConnTypes` | `Spec => []TypeOK` | `FdsOK` |
| `EventLoopProofs` | `SocketsRegistered` | `LoopSpec => []CompletionsMatch` | `FilesOK`: a number of descriptors, `NoConn` no connection |
| | `ErrorsAreOwn` | `LoopSpec => []EndsByItsOwn` | `FilesOK` |
| | `MessagesInOrder` | `LoopSpec => []OwnMessages` | `FilesOK` |
| | `AllHandledAtClose` | `LoopSpec => []NoneLostAtClose` | `FilesOK` |
| | `EventTypes` | `LoopSpec => []EventTypeOK` | `FilesOK`, `CellsOK`: finitely many connections, the bound is a number |
| `NetProofs` | `NoneTwice` | `LinkSpec => []AtMostOnce` | `SizesOK`: the sizes are numbers |
| | `OneSocketOfAServer` | `LinkSpec => []RegisteredIsCurrent` | `SizesOK` |
| | `LinkTypes` | `LinkSpec => []ProxyTypeOK` | `SizesOK`, `BoundsOK`: there is a proxy and a link, the bounds are numbers |
| | `CurlTypes` | `CurlSpec => []CurlTypeOK` | `~ReaddsOwn`: no callback adds its own handle |
| | `Registered` | `CurlSpec => []RegisteredAreUnderway` | `~ReaddsOwn` |
| | `InOrder` | `CurlSpec => []CallbacksInOrder` | `~ReaddsOwn` |
| | `ConfigTypes` | `ConfigSpec => []ConfigTypeOK` | |
| | `HoldsTheCenters` | `ConfigSpec => []ConnectedIsCurrent` | |
| | `PartTypes` | `MCSpec => []TypeOK` of `MCNet` | those of the four parts (`PartsOK`) |
| `ContainerProofs` | `QueueKeepsItsType` | `Spec => []QueueTypeOK` | |
| | `QueueIsASequence` | `Spec => QueueIsDeque`, the refinement of `Deque` | `QueueFits`: the size type is not promoted, or its range is a multiple of the positions |
| | `ListKeepsItsType` | `ListSpec => []ListTypeOK` | |
| | `RingsStaySplit` | `ListSpec => []RingsSplit` | |
| | `ListIsASequence` | `ListSpec => DequeUntilAdrift`: each step of a list not adrift is one of `Deque` | |
| | `PoolEndStays` | `PoolSpec => [](~adrift /\ EndMarks)` | |
| | `PoolIsASequence` | `PoolSpec => ListIsDeque`, the refinement of `Deque` | |
| `TreeProofs` | `TreeKeepsItsType` | `TreeSpec => []TreeTypeOK` | |
| | `TreeIsASet` | `TreeSpec => SetSpec`, the refinement of `OrderedSet` | |
| | `IteratorsLiveOn` | `TreeSpec => LargerStay` | |
| | `TreeIsConsistent` | `TreeSpec => []CheckConsist` | |
| | `TreeIsAscending` | `TreeSpec => []Ascending` | |
| | `ContainerTypes` | `MCSpec => []TypeOK` of `MCContainers` | |
| | `PoolsKeepTheirEnd` | `MCSpec => []PoolKeepsEnd` of `MCContainers` | |

`QueueFits` leaves out what the code gets wrong, and TLC shows it ("What the models show"). No theorem about lists has a
hypothesis: where the list goes wrong is in the properties themselves, as `adrift`.

The arguments:

* **Data.** `TypeOK` is inductive. The others are not: that an update in `req` names what its session
  read depends on the session's handle, that on a response, that on the record when the server answered.
  `LeaseInv` says it of all three at once. Whatever somebody knows of a record (incarnation, version,
  value) is not from the future, and if the version has not moved since then it is still the value; and
  a lock id in a handle, a response or an unlock was drawn for its session. The proof that it is
  inductive is in two halves. A record only *advances*: it stays, goes to the next version or begins
  anew, and what is known survives that (`KnownStable` and the lemmas on it), so each handler need
  only show that it advances its record and answers truly. A step of a session leaves the records
  alone, so it need only show that what the session sends and keeps comes from what it knew.
  `LockExcludes` needs in addition that only a request that names the lock in force gets past the
  handlers' checks (`ChangeAllowed`). `FitInv` counts the calls of a session that waits: of each record
  one message, request or response, is under way, and it is what the state waits for. So a handle is
  filled once, its version and its lock id come from one answer, and `HolderInv` can say that
  while the record keeps the id it keeps the version (`HolderAccepted`). For the refinement,
  `OwnerInv`: a drawn id has one owner, who is the abstract holder. Each handler is then one step of
  `RecordLease` (`QueryMaps` to `UnlockMaps`), time releases (`TickMaps`), a session's step changes nothing.
* **Sessions and timers.** That timers and sessions point at each other (`Match`) must hold of what is
  saved too, and is loose for the one session a handler works on, whose timer it has released
  (`Loose`). `Ran` lists what `RunStateMachine` can have done to it, in three cases, and every handler ends with
  one of them. That a map that is not full has a next id, although the code searches it in a
  loop, is `NextIdIsFree`. `AnswersInv` counts responses: a live session has its request for its own
  and has sent what `answers` says. `ResponseIsOwn` is false of ids that are given away too early, since
  the id is all that a response names: `IdsRested` says that none is while a response to it is on its way
  (the run `_calls` has more ids than requests, so it holds there; the violated run `_ids` is the case left
  out, a counter that goes back). Then all that is on its way to a session is what it waits for (`OwnInv`):
  a call is answered once, and a session calls again only when nothing is pending.
* **Client connections.** What the game server will have for a descriptor is decided by the last
  notice on its way about it: a message handled at the front changes no view (`TailView`), a notice sent at
  the end makes the view what it says (`NewView`), other messages leave it (`OtherView`). Everything else
  that changes a view puts the descriptor among the lost. For the types: a message sent is at most one
  request (`OneAsk`), and one handled is one less under way (`TailAsks`).
* **Event loop.** A handler is a sequence of small steps on the loop's state: shut a socket
  down, let go of one, close those without a reference. Each keeps `Match` by itself, so neither the order of events nor
  which connection a service closes matters. For `EndsByItsOwn`: an error flag in the batch
  is about the connection it will be taken for, or that one was accepted while the event was waiting.
  For the streams, `Flow`: a connection that is open and got nothing of its descriptor's last one has had every
  message that is complete in what was received, and the rest of that is the unused data of its descriptor
  (`CutRight`). What a read leaves and the next one gets join to a stretch of the stream (`CellsJoin`),
  and a read cuts it where the messages end (`ReadCells`).
* **Proxy.** A message is on its way to a proxy once and then nowhere else; a copy is on its way to a
  server once, and then that server has not got it; unless it is a broadcast there are copies for one
  server only (`OnTheWay`). Faults and closed sockets only take from the links.
* **Curl.** The requests under way form one queue, `Pipe`, through the lists and the hand of the
  one worker that has the input mutex. They enter it in `AddCurl` and leave it when their callback
  returns; every other step leaves `Pipe` as it is.
* **Config.** A connection stands only while the center's process lives, and that loads once. So what
  is under way on it, and what was taken from the first answer, is still the center's (`UpToDate`).
* **The types of the loop.** `sent` is bounded by the cells sent over all connections (`SentCells`), of which
  those of one connection are a part (`CellsCounted`).
* **Loops.** What n turns of a step compute is a recursive function, and there is no induction over data;
  but a set of numbers that is not empty has a least one (`LeastExists`). So a fact about every turn is
  shown of the first turn that breaks it (`TurnsExist` and the lemmas after it).
* **Queue.** A position is h + i on the ring (`Place`), whatever words the code computes it through
  (`WordsFit`, `PlaceIs`); only the step before the first position needs `QueueFits` (`IteratorsAre`). What is
  held is then `Place(head, i)` for i up to the size, and each operation inserts or removes at an end.
* **List.** `Rings`: the elements and after them the mark of the end, whichever node that is, stand in one order of
  which `next` and `prev` are the two ways, the unused nodes in another. Linking a node before another inserts it in
  an order, unlinking removes it (`LinkBeforeIs` and what follows), and no position is in both. Freeing the mark
  removes the last place of the order, so the element before becomes the mark: an erasure like any other. That
  `ENDPOS` is the sign for no unused node is right as long as it does not stand first among them (`~EndFirst`), which with `Rings`
  is the invariant `ListShape`. In a pool the mark is `ENDPOS`, which is never in use, so `Free` cannot reach it (`PoolShape`).
* **Tree.** `Grove` says of the block that its nodes U are a search tree and the rest the ring of unused nodes
  g, m long, with size + m = `TreeNodes`. The tree is given by a function `span`: the nodes below a
  node, of which the smaller are spanned by its left child and the larger by its right (`Joint`). Paths and heights do not
  occur. A rotation changes the spans of the two nodes it turns and nothing of the order, painting changes no span; so a
  fixup keeps the tree whatever it sees, and `TreeIsASet` needs no color but the root's. Since spans
  shrink strictly along a path, `TreeNodes` turns suffice for a search. A node with at most one child
  is taken out by giving its span to the child; one with two gives its place to the next smaller element
  (`Rekeyed`), which leaves all larger ones where they are (`IteratorsLiveOn`). An iterator's
  step goes to the next key of the tree (`NextOf`, `PrevOf`), so a walk from the smallest visits each
  node at its rank (`Rank`, `VisitIs`): that is `Ascending`, and the counting in `CheckConsist`.

So every invariant, action property and refinement of a run that passes is stated by a theorem; where the theorem has
a hypothesis, the run meets it. The types of a part are theorems of that part, and of the two modules that
choose among parts. Only model-checked: liveness (`EveryRequestAnswered`, `EverySessionEnds`, `LeftIsForgotten`,
`RequestAnswered`, `EveryCallback`, `EveryMessage`, `LinksSettle`, `CalmArrives`, `ConfigArrives`), which needs
fairness and `ENABLED` and is out of the prover's reach. No module declares a `RECURSIVE` operator.

## Findings

Each is a counterexample of a run named above, with the line it contradicts in `PROJECT.json`.

1. `LevelDBManager::Has` is false on a read error, so `InsertDataHandler` overwrites
   (`datasvrd/handler_common.cpp:160`).
2. After a restart session ids are issued again while responses to their former owners may come
   (`common/session_manager.cpp:53`).
3. A case of the tree's insertion is tested twice and its mirror never, so a red node can have a red
   child (`lsf/container/detail/impl_red_black_tree.hpp:365`). The tree stays ordered and its links whole; it is only less balanced.
4. `List::PopBack` frees the node that marks the end (`lsf/container/list.hpp:59`), and the first node comes
   to be an element while its position says that there is none. TLC's list of four nodes: fill it with `PushFront`, `PopBack`, `PushFront`,
   `PopBack`, `PushBack`; the value pushed at the back is the front. `test_list.cpp:96-112` pops non-empty lists at the back, of ten nodes
   and few calls, before the first node is given out. The servers include neither `List` nor `Pool`, only the tests do.
5. Messages of one burst may go by different proxies when one reconnects meanwhile
   (`common/basic_service.cpp:328`).

What the models show besides, which no line of the repository contradicts:

* `OnSessionFinish` unlocks only locks whose id has arrived, and sends each unlock once
  (`common/basic_handler.cpp:546`): otherwise the record is locked until the lease ends.
* `RunStateMachine` ignores that the timer map is full (`common/basic_handler.cpp:606`); the session waits for the
  leak check. Released timers fill the map: they keep their places until they are due.
* A client the game server has no place for is not closed: the answer meant to close it copies its
  head from itself (`common/common_service.cpp:139`). A failed second login tells the game server nothing.
* The snapshot is taken in the signal handler while the loop goes on to its end: requests taken
  then are lost (`status` is `"lost"` in `SessionTimer`), and responses sent then are sent again.
* Bytes left of a message begin the stream of the next connection with the descriptor
  (`common/basic_service.cpp:57`), since they are saved after the handler closed the socket.
* A curl handle added again in its own callback loses the new callback when that one returns
  (`lsf/asio/curl_thread.hpp:102`); with `ReaddsOwn` TRUE, TLC shows it.
* A `Queue` whose size type is narrower than `int` computes the place before position 0 in `int` but passes it on in
  that type, as 65535 for 16 bits; unless the positions divide 2^16, `PushFront` then constructs the element in
  another place than the head steps to (`lsf/container/queue.hpp:34`, `lsf/container/detail/impl_circular_queue.hpp:97`). With `Promotes` TRUE,
  TLC shows `QueueIsDeque` violated. A test has such a queue (`lsf/test/container/test_queue.cpp:52`) and pushes at its back only.
* Erasing from a tree moves another element's data into the erased place
  (`impl_red_black_tree.hpp:412`): iterators of the moved one become invalid, and `Set` and `Map` destroy the
  element at the place afterwards (`lsf/container/set.hpp:58`, `map.hpp:82`).
* A list of game data emptied at the center stays at the servers that have it
  (`common/config_manager.cpp:21`), and a table that cannot be read leaves the center with none
  (`confsvrd/config_center.cpp:27` ignores the result).
* `AcceptConfigService` never takes a connection out of its `_sock_map`
  (`confsvrd/accept_config_service.cpp:83`), so that ended ones keep their descriptors until another has the same number.
* A proxy learns what servers there are when it starts (`InitSocketMapFromServerConfig`): one
  deployed later cannot register until the proxy restarts.

## Not modelled, and why

* `3rd` (mongoose, json.hpp: more than half of the lines under `src/`) and what protobuf generates: vendored or generated.
* The HTTP service: all its handlers but `/test` are commented out, and that answers in the same
  call. What is left is mongoose and JSON conversion.
* `CurlMulti`: its steps are chosen inside libcurl. Asynchronous write and raw events of the event
  loop: no server uses the first, the second serves `CurlMulti`. The poll driver is not built by default.
* The width of the version (64 bits stored, 32 on the wire) is out of reach of any bound; versions are
  naturals.
* `AddQueryDataAndLock` on a record already asked for marks the wrong handle, and a session may ask
  twice; no handler does either. Data whose `ByteSize()` is 0, for which an update goes straight to its success
  state (`common/basic_handler.cpp:390`), is left out; no property depends on it. `PostAsyncInternalMessage`, `TransferMessageByConnIds`, the callbacks and the
  uid index of `ClientConnManager`, `TableManager` have no caller.
* `BasicManager`'s layout of the segment, failed system calls, and a recovery with a smaller `max_size`, which
  drops the rest of a map: a change of the configuration between stop and start.
* Connects to the config center that are still under way at the next check: `Proxy` has them, of the same code.
* Daemon, pid file, command line, logging, csv and JSON conversion, names, the word filter, strings,
  time, socket options: input, output or pure conversion.
* Of the containers, the construction and destruction of elements, the fixed array, `Find` and the erasing of a
  range of the list, iterators kept past the erasure of what they mean.

## What is left

The byte layout of the snapshot. That a red-black tree is balanced is not true of this one (finding 3), and
nothing is claimed of its depth.
