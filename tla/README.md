# A verification of networking_server

The repository holds a small HTTP server in C (`src/src`), built as a reactor:
one event loop per thread, epoll or poll underneath, channels that carry a
descriptor and its callbacks, growable buffers, and an HTTP/1.x parser on top.
Around it lie study programs: servers over poll, epoll and select, and many
small programs that set up a socket. This directory models them in TLA+, checks
the models with TLC and proves the properties that matter most with TLAPS.

## 1. The system

| part | source | state | operations | modules |
|---|---|---|---|---|
| event loop | `event_loop.c` | pending request list, `is_handle_pending`, mutex, socket pair, channel map, owner thread | `event_loop_run`, `channel_event_activate`, add / remove requests, wakeup, the handlers of requests | `EventLoop` |
| epoll dispatcher | `event_dispatcher.c` | epoll set, event array | add, delete, dispatch | `EventLoop` |
| poll dispatcher | `event_dispatcher.c` | the `pollfd` slot array | the same | `PollDispatcher` |
| channels, map | `channel.c` | `events` mask; table from descriptor to channel | `channel_init`, write interest on / off, `map_expand_space` | `EventLoop`, `PollDispatcher`, `Connection` |
| buffer | `buffer.c` | memory, `read_index`, `write_index` | `expand_space`, `buffer_append`, `buffer_socket_read` | `Buffer` |
| thread pool | `thread_pool.c`, `event_loop_thread_*` | the workers, their loops, `position` | start and wait, round robin | `ThreadPool` |
| TCP server | `lib_tcp_server.c` | acceptor, connections with two buffers | accept, read, write, send, shutdown, close | `Server`, `Connection` |
| HTTP | `lib_http.c` | request state, headers | parse loop, `http_on_message`, response | `HttpConnection`, `HttpExchange` |
| demo | `server.c` | none | `handle_request` | `HttpExchange` |
| socket set-up | `lib_tcp_server.c` and 18 programs | a descriptor, an address list | getaddrinfo, socket, setsockopt, bind or connect, listen | `SocketSetup` |
| chat servers | `pollserver.c`, `selectserver.c` | `pfds` array; `master` set | accept, recv, send to the others | `ChatServers` |
| echo servers | `poll_server.c`, `epoll_server.c`, `nonblocking_server.c` | slot array; epoll set; a buffer per descriptor | accept, read, write, close | `PollServer`, `EpollServer`, `NonblockingServer` |
| logging, other study programs | `lib_log.c`, `pre`, `bgnet_examples` | none | | not modelled |

How they interact: `main` makes the main loop and the HTTP server, which makes
the TCP server and the pool. `tcp_server_start` starts the workers and adds the
listening channel to the main loop. A connection accepted by the main loop gets
a loop from the pool and is added to it by a request; the loop's thread then
calls `handle_read` and `handle_write` for its events, and these call the HTTP
layer, which sends and closes through the connection. Threads share each loop's
request list, guarded by its mutex, the socket pair that ends its `epoll_wait`,
the process's descriptors, and, for a moment, the connection record:
`connection->data` is set after the connection was registered.

What is hard here: requests from other threads racing with `epoll_wait` and with
the drain of the list; callbacks that change the very tables that are being
walked; descriptors that are closed and given out again while a table still
knows them; the start of the workers; partial reads and writes; a parse loop
inside a loop thread; in the study programs, blocking calls on stale readiness
and edges that are reported once. What makes each part correct:

* **event loop**: each request is applied once and in order; a request never
  waits for an unrelated event; the loop's assertions hold; every event finds
  the channel of the connection that holds its descriptor.
* **dispatchers**: every event of a round is delivered once, whatever callbacks
  do meanwhile.
* **buffer**: no byte is lost, repeated or reordered by a move or realloc.
* **thread pool**: no unpublished loop is used, the start cannot hang on a lost
  signal, connections are shared evenly.
* **connection**: what is sent arrives whole and in order, in however many
  pieces the kernel takes it.
* **server**: a loop's events are those of its own connections, a callback finds
  its data, waiting clients are accepted.
* **HTTP**: every complete request is answered once and in order, the parser
  gives the thread back, the client finds the end of a response.
* **set-up**: one socket is kept and in the right state; rivals for a port do not
  all fail.
* **chat and echo servers**: the server watches its open connections and nothing
  else, never blocks on one of them, and each user gets its own bytes.

`PROJECT.json` lists the hazards line by line, with the properties that cover
them.

## 2. Modules

| module | what it is |
|---|---|
| `ChannelRegistry` | abstract: a queue of requests applied one by one to a table |
| `Dispatcher` | abstract: rounds of events, each delivered once to a descriptor still watched; `PollDispatcher` implements it |
| `EventLoop`, `MCEventLoop`, `EventLoopProofs` | one loop over epoll and the threads that post to it; instances; theorems |
| `PollDispatcher`, `PollDispatcherProofs` | one loop over poll, theorems |
| `Buffer`, `BufferProofs` | the buffer's functions, all sequences of calls, theorems |
| `ThreadPool`, `ThreadPoolProofs` | start of the workers, round robin, theorems |
| `ByteStream` | abstract: a prefix of what was given arrives, and all of it unless cut |
| `Connection`, `ConnectionProofs` | the write path of one connection, theorems |
| `Server`, `MCServer`, `ServerProofs` | acceptor, pool, loops and descriptors composed; instances; theorems |
| `HttpService` | abstract: requests answered one by one, then the end |
| `HttpConnection`, `HttpProofs` | connections of one loop thread: sockets, parser, response, shutdown, clients; theorems |
| `HttpExchange` | the content: headers, the decision to close, how a response is delimited; theorems in `HttpProofs` |
| `SocketSetup` | twenty-one places that make a socket |
| `ChatServers` | `pollserver.c` and `selectserver.c` |
| `EchoClients` | users, kernel and descriptors for the three echo servers |
| `PollServer`, `EpollServer`, `NonblockingServer` | the echo servers |
| `MCStudy`, `StudyProofs` | the last four rows for TLC, one part at a time; theorems about each part |

The parts are composed where they share state (`Server`, and `EventLoop` with
its dispatcher and map) and otherwise cut where one promises something small to
the next: `PollDispatcher` takes the request list for a queue since `EventLoop`
implements `ChannelRegistry`; `Server` takes a drain of a list for a step for the
same reason, and a message for one callback since `HttpConnection` answers it
within one; `HttpConnection` takes input for a sequence of lines since `Buffer`
keeps bytes in order.

Definitions whose comment begins with "Mutant" are plausible slips of the code
beside them; each shows that a property is able to fail.

### EventLoop

One step is one critical section, one system call or one callback. `pc` says
where each thread is: the owner goes `wait` (epoll_wait) → `dispatch` (the
events of `batch`, in any order, as the kernel orders them) → `drain_lock` →
`drain` (one request a step) → `clear` → `wait`. A request made by a callback goes
`lock` → `append` → `drain_lock` → `drain` → `clear` and then `back` to the place the
callback was called from, since `event_loop_process_channel_event` drains the
list itself on the owner thread. A posting thread goes `idle` → `lock` →
`append` → `wake` → `idle`.

| model | code |
|---|---|
| `pending`, `cursor` | `pending_head` .. `pending_tail`, `channel_elem` |
| `map`, `n_channel` | `channel_map->channels`, `->n_channel`; `MapSizes` stands for 32, 64, 128 ... |
| `events[c]` | `channel->events`; `{}` before `channel_init` |
| `interest[fd]` | the epoll set (kernel) |
| `holder[fd]` | which socket the descriptor names (kernel) |
| `pair` | bytes in `socker_pair` |
| `batch` | `epoll_dispatcher_data->events` not yet handled |
| `Post`, `Lock`, `AppendRequest`, `Wakeup` | `event_loop_process_channel_event` on a thread that is not the owner |
| `EpollWait`, `CloseOnError`, `ReadEvent` | `epoll_dispatch` |
| `Activate` | `channel_event_activate`, with its assertion and its dereference |
| `ReadCallback` | `handle_wakeup`, `handle_read`, `handle_connection_established` as far as the loop sees them |
| `SwitchWrite` | `channel_write_event_enable`, from a send that a socket does not take whole |
| `DrainLock`, `HandlePending`, `DrainEnd`, `Clear` | `event_loop_handle_pending_channel`; the end of the walk and the clearing of the list are two steps, so that it is the mutex that keeps appends out from between them |
| `HandleAdd`, `HandleRemove` | `event_loop_handle_pending_add`, `_remove` |

`crashed` is the end of the process by a failed assertion or a NULL dereference;
then no thread moves. Choices of the environment: which descriptors are ready and
with which bits, whether a callback closes, accepts, or sends too much, and
whether accept returns -1 (a channel with descriptor -1).

`undefined` is where the model stops because the code's next step is undefined:
the write switches cast `channel->data` to the event loop (`channel.c:22`, `:30`),
but a connection's data is the connection (`lib_tcp_server.c:128`), and no other
channel is ever switched. So no update request reaches a loop, no channel is ever
registered for writing, and `event_loop_handle_pending_update`, `epoll_update`,
`poll_update` and the branches for write events are never reached: the models do
not have them. What the write path would do with a valid loop is in `Connection`.

### PollDispatcher

| model | code |
|---|---|
| `event_set` | the `pollfd` array, `fd` -1 when free |
| `map` | the descriptors with an entry in the channel map |
| `queue`, `fresh`, `posted` | the request list; descriptors `accept` has not returned yet; whether other threads hand over connections (a worker's loop) or the loop accepts them itself |
| `index`, `ready_number`, `poll_fd` | the locals of `poll_dispatch` |
| `PollAdd`, `PollDelete` | the functions of these names |
| `Poll`, `NextReady`, `TakeSlot`, `Deliver`, `SlotDone` | `poll_dispatch`: the system call, the walk over the slots, the callback, the early break |
| `Post`, `Ask`, `DrainLock`, `HandlePending`, `HandleAdd`, `HandleRemove`, `DrainEnd` | requests, from another thread or a callback |

What a callback asks for is applied before the callback returns, in the middle of
the walk. A slot that is emptied during
the walk keeps its `revents`, and a connection accepted in the same round takes it.

### Buffer

A buffer is a record with the fields of the C struct, `Moved`, `Grown`,
`Expanded`, `Copied`, `Appended` and `Received` are the branches and functions of
`buffer.c`, `Content` is what a reader sees. New memory holds `Junk`.

### ThreadPool

The starter's `pc` follows `thread_pool_start` and `event_loop_thread_start`
(`create`, `lock`, `check`, `block`, `wait`, then `serve`), `worker[i]` follows
`event_loop_thread_run` until it enters `event_loop_run`. `StarterCheck` and
`StarterWait` are two steps, so that the mutex, and not the granularity of the
model, keeps the signal from falling between the test and the sleep.

### Connection

| model | code |
|---|---|
| `out_buffer`, `enabled` | the output buffer; EVENT_WRITE in the mask and, since updates are applied at once on the loop's thread, in epoll |
| `data_is_loop` | whether `channel->data` is the loop the switches cast it to, or the connection, as `tcp_connection_init` has it |
| `Send` with `SendData`, `Keep` | `tcp_connection_send_data` and the switch-on |
| `Shutdown` | `tcp_connection_shutdown` |
| `HandleRead`, `MessageDone` | `handle_read` and the return of `on_message` |
| `HandleWrite` | `handle_write`, at whose end the write bit stays set |
| `CloseOnError` | EPOLLERR, EPOLLHUP in `epoll_dispatch` |
| `wire`, `got`, `so_error`, the `Peer...` actions | the kernel's send buffer, the peer, the error a reset leaves on the socket |

`Outcome` gives what `write` returns. EPIPE comes with SIGPIPE, which nobody
catches (`killed`); ECONNRESET is reported once and makes the code drop the data
and go on.

### Server

| model | code |
|---|---|
| `Accept`, `AcceptFails` with `Make`; `AddChannel`; `SetData` | `handle_connection_established`: `accept`, which may return -1, and `tcp_connection_init`; `event_loop_add_channel_event`; the store to `connection->data` |
| `NextLoop`, `Advanced` | `thread_pool_get_loop` |
| `Drain`, `Register` | a worker handles an add request |
| `HandleMessage` | `handle_read` with data: `http_on_message` calls through `connection->data` |
| `HandleClosed` | `handle_connection_closed` and `http_on_connect_closed`; the descriptor stays open |
| `CloseOnError` | EPOLLERR: the descriptor is closed, the map entry stays |
| `holder`, `fd`, `map`, `watch` | which connection a descriptor names; what the record, the map and epoll think |
| `NoClient` | the connection last made of -1: it gets a loop, a request and a place on the loop's list, and is then lost |

### HttpConnection

`inbox[c]` and `wire[c]` are the kernel's two buffers of a socket, `transit[c]`
what the network still holds. `pc` is `wait` (epoll_wait), `parse`, `respond`,
`finish` or `crashed`.

| model | code |
|---|---|
| `HandleRead`, `HandleClosed` | `handle_read` with data, and at the end of the stream |
| `HangUp` | EPOLLHUP in `epoll_dispatch`, when both sides have shut down |
| `Parse`: `ParseStatus`, `ParseHeader`, `ParseDone` | one round of the loop in `parse_http_request` |
| `Respond` | `request_callback`, `http_response_encode_buffer`, `tcp_connection_send_buffer` |
| `Finish` with `Reset` | `http_request_close_connection`, `tcp_connection_shutdown`, `http_request_reset` |
| `Ask`, `Deliver`, `Receive`, `Leave` | clients and network |

A round of the parse loop that finds no CRLF changes nothing, so it is no step:
the thread stays at `parse`, which is what the code does. A response that does
not fit leads to the cast described under findings; of what may follow, the model
takes the end of the process. What the rest of the path would do is in `Connection`.

### HttpExchange

`AddHeader` is `http_request_add_header`, `Matching` and `GetHeader`
`http_request_get_header` (a key need only begin with the name),
`CloseConnection` `http_request_close_connection`, `HandleRequest` the demo's
callback, `Encoded` `http_response_encode_buffer`, `OnMessage`, `Encode` and
`FinishMessage` with `ResetRequest` are `http_on_message`. Two choices stand for what C leaves open: `process_status_line`
does not terminate the path, so the byte behind it may or may not be a zero
(`Terminated`), and `strncmp(...) == 1` may hold or not for a greater string.

### SocketSetup

Each place that makes a socket is a record (`socket_acceptor_init`,
`get_listenfd`, `selectserver` ...) which says what it does differently: whether
it sets SO_REUSEADDR, and looks at the result, whether a socket that cannot be
made is skipped or ends the process, bind or connect or neither, whether it
listens. The actions are the walk: `Launch`, `NewSocket`,
`SocketFails`, `OptionFails`, `Attach`, `NoAddressLeft`, `FreeList`, `Listen`. The kernel's rules for two
sockets on a port are `MayBind`, `MayListen`, `MayConnect`; whether an IPv6 socket also takes the IPv4
address (`dual`) and whether connections of an earlier run are in TIME_WAIT
(`time_wait`) are choices of the initial state. `faulty` records that some other
failure was chosen.

### ChatServers

Both loops are walks, over slots or over descriptors; `at` is their place. `Poll`,
`PollSkip`, `PollAccept`, `PollRecv`, `PollRoundDone` with `AddToPfds` and `DelFromPfds` are
`pollserver.c`, the actions named `Select...` are `selectserver.c`. A new slot's `revents` are "unset": what
malloc or an old slot left. `blocked` is a `recv` on a socket with nothing to read,
`PollUnblocked` its end. A `send` never blocks in the model: clients read. One that
comes after a client's reset kills the server with SIGPIPE; whether the reset has
arrived by then is a choice.

### The echo servers

`EchoClients` has the users, what they wrote, what was echoed, which descriptor
names whom, and the edges epoll still has to report. `PollServer` follows
`poll_server.c` slot by slot, also when `accept` fails and -1 goes into a slot; `EpollServer` has the batch, the inner read loop, and
the `i` and `n` both loops share (`next_event`, `n_read`; `lost` only remembers what
this throws away); `NonblockingServer` has the buffer per descriptor, the sets
given to select, `on_socket_read` and `on_socket_write`. A piece of data stands for a byte or a run
of them; the rot13 conversion maps bytes to bytes and is left out.

## 3. Runs

| run | asks | bounds |
|---|---|---|
| `loop` | a worker's loop with two posting threads: mutex, wakeups, order and liveness of requests | 4 channels beside the wakeup channel: two that share a descriptor one after the other, one whose descriptor makes the map grow, one with descriptor -1; batches of at most 2 events; a pair of one byte, so that posters block |
| `loop_main` | the main loop: events reach the connection that holds their descriptor, through accepts, failing accepts, closes on errors and nested drains | an acceptor, two connections that share a descriptor and one beside them, no posters, batches of 3; responses may overflow |
| `poll` | `Dispatcher`, slots and map, service, as main loop and as worker | 3 connections, the listener, the wakeup descriptor, 5 slots |
| `buffer` | all sequences of calls | initial memory 3, calls of at most 4 bytes, memory at most 7: moves, reallocations and the second vector all occur, also combined |
| `pool` | start and two rounds of round robin | 8 workers, 17 connections |
| `conn` | bytes through the write path, resets and shutdowns at any time | 5 bytes, 3 messages, a send buffer of 2; both kinds of `channel->data` |
| `server` | ownership of connections, descriptors, messages, accepts | 3 clients, 2 descriptors, one failing accept; no workers, and two |
| `http` | order of responses, shutdown, the refinement, the parser's return | 2 connections, 2 requests each, pipelined and split in every way |
| `exchange` | whose headers decide; how responses end | 2 requests, 2 headers each |
| `study` | the programs beside the library | set-up: 2 processes running any two of the 21 places, 2 addresses; chat: 3 clients, an array of 2 that grows; echo: 3 users, 3 pieces in all, `CLIENT_SIZE` 3, `FD_INIT_SIZE` 6, `MAX_LINE` 2 |
| `http_split` | a violation: a request in two pieces | 1 connection, 1 request |
| `http_full` | a violation: a response larger than the send buffer | 1 connection, 1 request |

Why the bounds are enough. Loops: each channel is created once, so the number of
requests is bounded by the channels, and the cases differ in what shares a
descriptor, which a pair of channels shows; two posters show every race of
append, unlock and wakeup between threads; the sizes of the map and the pair
matter only as "fits" or "does not". Three connections with a listener fill poll's
array, so that slots are freed and taken again before and behind the walk.
Five bytes through a buffer of two make a send that is cut, a second that has to
wait behind it, and a write event that is cut again. Three clients over two
descriptors make one be given out again, on the same loop and on the other; an
accept that fails leaves nothing behind but a place in the round robin and a request
that does nothing, so one, at any moment, shows it.
HTTP: the loop thread works on one connection at a time and the parser's state
is reset after each request, so a second request shows what the first left
behind, a second connection what one does to the thread. Study: two programs
meet on a port pairwise; three users make a slot or a number be reused while two
others are served, and fill the small arrays. `study` uses symmetry of users and
of processes; it checks invariants only.

Deadlock is not checked where the system may stop: a loop with all its channels
added and none ready sleeps in `epoll_wait`, clients need not come, a process may
have ended, and the pool stops at its bound on connections. Each cfg says which.
The sleep that must not happen is stated as a property instead (`NoLostWakeup`,
`RequestHandled`, `NeverStalls`, `PoolServes`, `Served`).

### What holds with a restriction, and why

Some properties name the case in which the code fails them. They do not catch that
case; they show that there is no other:

* `CrashOnlyInTheGap` (`lib_tcp_server.c:242`): with workers, a connection's loop may
  deliver a message before `connection->data` is stored. Without workers, as
  `main` sets it up, it cannot.
* `EveryMessageHandled`, `Shadowed` (`event_dispatcher.c:110`): after EPOLLERR or
  EPOLLHUP the descriptor is closed and its map entry stays. The next connection
  with that number on that loop is never registered.
* `AcceptedWhileFdsLast` (`lib_tcp_server.c:61`): a connection that ends leaves its
  descriptor open; the property ends with the last one.
* `EventReachesHolder` and the other safety properties of the loops: up to the first
  switch of the write interest, which is undefined.
* `StreamDelivers`: a stream is cut by a reset, by the peer's leaving or a shutdown, with
  output pending or not, or by the crash below.
* `CompleteRequestReturns`: the parser returns if a complete request is there.
* `KnownResponseEnds` (`lib_http.c:122`): for status 200 only. A 404 has no length and
  says "Connection: close", but the connection is kept.
* `StallsOnlyOnStale` (`pollserver.c:90`): `add_to_pfds` leaves `revents`, and the walk
  goes on to the new slot, so a client that was just accepted can block the server
  until it speaks.
* `Unforgotten` (`epoll_server.c:75`): the events behind a converted one in its batch are
  thrown away, since the loops share `i` and `n`.
* `DecidedByOwnHeaders`: a key that only begins with "Connection" counts as one.
* `EchoInOrder` (`nonblocking_server.c:170`): a connection that was reset leaves bytes
  to the next one with its number.
* `PortServed`: not if `make_socket` is among the rivals, which takes the port and
  ends.

### Findings

* `http_split` (`lib_http.c:182`): given part of a request, the parser goes round
  without reading and keeps the thread for ever; `lib_http.h:13` calls the states
  "wait". In TLC's trace the status and header lines come first.
* `http_full` (`channel.c:22`): a write that is taken in part makes
  `channel_write_event_enable` take the connection for its event loop;
  `channel.h:25` lets the data be a connection. That is undefined; the model takes
  the outcome in which the assertion of `event_loop.c:149` ends the process.

Seen while modelling, and described here only, since no text of the repository
says otherwise or the case is plain from one line: with every slot in use
`poll_add` only logs (`event_dispatcher.c:187`); a header without a blank, like
`Host:localhost`, is taken for the last line of a request and a body for the next
request (`lib_http.c:216`); of two requests that arrive in one read the second waits
for a third (`lib_http.c:237`); write interest is never switched off
(`channel.c:31`); `tcp_connection_shutdown` does not wait for `out_buffer`, so the
next write event raises SIGPIPE (`lib_tcp_server.c:182`); in `nonblocking_server.c`
the end of a stream makes `on_socket_read` spin (60), unused buffers put
descriptor 0 into the set, so that input on the terminal closes it and ends the
server (123, 163), and the test against `FD_INIT_SIZE` admits one descriptor too
many (143); `epoll_server.c` accepts once per edge; the chat servers die of SIGPIPE
when they send twice to a client that left.

### Fairness

* `EventLoop!Spec`: the owner thread keeps running between two `epoll_wait`s (weak
  fairness of `OwnerRun`); `epoll_wait` reports the wakeup descriptor again and
  again while the pair holds a byte (strong fairness: the kernel keeps its ready
  list in rotation, so the pair's turn comes although a batch may have no room for
  it); a posting thread that has begun a request goes on. Nothing forces a
  connection to become ready, a thread to post, or a callback to do more than
  return. Weak fairness is enough for the mutex since every thread holds it for
  a bounded number of steps and each channel is posted once.
* `PollDispatcher!Spec`: the owner's thread runs.
* `ThreadPool!Spec`: threads are scheduled; a worker that finds the mutex free again
  and again gets it (strong fairness, against a starter that is woken spuriously
  for ever); spurious wakeups may happen and need not.
* `Connection!Spec`: the peer reads, callbacks return, an error stays reported; a
  socket that is writable again and again is handled (level-triggered epoll, in
  rotation: strong fairness of `HandleWrite`). Nobody need ask, send, leave or reset.
* `Server!Spec`: the main thread runs and turns to the listening socket, each
  loop's thread runs and turns to messages. Clients need do nothing.
* `HttpConnection!Spec`: the loop thread goes on within a callback, epoll overlooks
  no ready descriptor (strong fairness of `HandleRead`), the network delivers and
  clients read. Clients need not ask, close or leave.
* `ExchangeSpec`: the thread finishes the callback it is in; only safety is
  asked. The study programs have no fairness, and no liveness is asked of them.

## 4. Proofs

All theorems hold for every value of the constants under the named assumptions of
the modules, which TLC evaluates in the runs: `ThreadsAssumption`,
`ChannelsAssumption`, `SizesAssumption` (event loop), `PollAssumption`,
`BufferAssumption`, `PoolAssumption`, `ServerAssumption`, `ConnectionAssumption`,
`HttpAssumption`, `ExchangeAssumption`, `SetupAssumption`, `ChatAssumption`, `EchoAssumption`,
`PollServerAssumption`, `NonblockingAssumption`. They say that sizes are natural
numbers, not zero where the code divides by them or would have no room at all,
that descriptors are natural numbers and different from each other, and that the
models' markers are not among the things they mark. One theorem has a hypothesis of
its own, named below: `NothingLeftOver`.

Each proof rests on an inductive invariant, proved once and used for all theorems
of its module. TLC checked each of these invariants on the instances of the runs
before it was proved.

**Event loop** (`EventLoopProofs`).

* `TypeCorrect`, `MutexCorrect`, `NoWakeupIsLost`: the mutex invariant ties `mutex`
  to the `pc` of the thread inside its critical section and `is_handle_pending` to
  the owner's; both parts of `MutexDiscipline` follow. For the wakeups it must be
  strengthened: while the owner is anywhere before its next drain, a request on
  the list needs no byte.
* `LoopEventsReachHolder`, `LoopEventsHaveChannel`, `LoopNeverCrashes`: `LoopInv` has
  three parts. `Mapped`: what epoll watches or has reported has in the map the
  channel of the connection that holds the descriptor; a stale entry may stay only
  where epoll watches nothing, and since it makes the next add of that descriptor
  do nothing, it stays so. `AddInv`: the channel of an add request holds its
  descriptor until the request is handled, and no channel is asked for twice;
  without it a late add could register a channel for somebody else's socket.
  `RemoveInv`: at most one remove request is under way, the owner's own, for a
  channel that is in the map, since no other request can empty that entry.
* `LoopImplementsRegistry`: the refinement `queue` ← the part of the list from
  `cursor` on, `table` ← `map`. Appending is `Submit`, one step of the drain is
  `Apply`, everything else stutters; that the drain empties a list it has
  walked to the end needs the mutex invariant.

**Poll dispatcher** (`PollDispatcherProofs`). `PollInv`: no descriptor has two slots;
a descriptor is fresh, then in one add request, then in the map; a request that is
no add is that of the callback just returned; the slot in hand still holds its
descriptor unless its own read callback removed it; and `ready_number` is the number
of the slots ahead that have something to report. The last part is what makes the
early break of the walk right although slots are freed and taken again meanwhile,
and it needs that a slot that is free while the walk is before it reports nothing.
`OneSlotEach` and `PollNeverCrashes` follow from it, and
`ArrayImplementsDispatcher` is the refinement, step by step.

**Buffer** (`BufferProofs`). `MovedKeeps`, `GrownKeeps`, `CopiedAppends` say what each
branch does to the record and to `Content`; the three theorems follow for
memory of any size and strings of any length.

**Thread pool** (`ThreadPoolProofs`). One invariant, `PoolInv`. A loop is published
exactly from the store on, each mutex belongs to the thread in its critical section,
the starter knows the workers before `index` to be published, and the connections
dealt are `n + 1` before `position` and `n` from it on, which is stronger than
"differ by at most one" and inductive.

**Connection** (`ConnectionProofs`). `ConnectionInv`: what the peer got, the kernel's
buffer and `out_buffer` are, one after the other, the bytes sent, the last of them
only until something cuts the stream. With it `BufferedIsWatched` (a send that is
cut must find the descriptor watched) and `ConnectionIsStream`, the safety part of
`StreamDelivers`, with the refinement mapping of the run `conn`.

**Server** (`ServerProofs`). `ServerInv`: a connection on its way from the acceptor to
its loop is so once, and nobody watches its descriptor; that is what keeps a
descriptor that was given back and out again from being watched for two
connections. `LoopsKeepApart` and `OnlyTheGapCrashes` hold for any clients, loops,
descriptors, pools and failing accepts. That `accept` returns the lowest free descriptor needs the
minimum of a set of naturals, by well-founded induction (`LeastNatural`).

**HTTP** (`HttpProofs`). `HttpInv`: for each connection there is a `k` such that its
parser is in request `k + 1` and `k` responses have been given; its lines, wherever
they are, are numbered on from there, and so are the units of its responses.
`ResponsesAreInOrder` and `ConnectionsImplementService` follow. `NothingLeftOver` has
the hypothesis `Roomy`: the responses fit in the send buffer, all of them if clients
pipeline and one if they do not; otherwise the finding `http_full` applies.

The end of `HttpProofs` is about the content, `HttpExchange`. `KnownEnds` follows from
`LengthInv`: between the choice of the answer and its encoding, a status 200 has a
length. `OwnHeadersDecide` follows from `HeadersInv`: the headers counted by
`request_headers_number` are those of the request in hand, and what is beyond the
count, left by earlier requests, is not searched.

**Study programs** (`StudyProofs`), each part an invariant of the composed
specification of `MCStudy`.

* `WalkKeepsOneSocket`: at each stage of the walk which sockets are open and in which
  state, for any number of processes and addresses and each of the 21 records.
* `SomeoneListens`: unless disturbed, either a process listens, or one is bound and
  will, or every one still waiting is still trying (`Hope`). The kernel's rules for
  sharing a port are what keeps the middle case from failing for all.
* `EchoedInOrder`: a user's pieces, first those it has got back, then those in the
  server's buffer, then those not read, are in the order written (`Ordered`,
  `Buffered`); a buffer may also hold pieces of earlier users of its descriptor, which
  were reset, and only in `nonblocking_server`. It needs that each server closes a
  descriptor at most once and only while somebody has it (`PollServerInv`,
  `BatchOpen`, `SelectInv`).
* `EdgesAreKept`: whatever has news has an edge to come, was thrown away, or is in the
  rest of the batch (`BatchInv`).
* `OpenIsRegistered`: the listener and each open connection have one slot in front of
  `fd_count` (`ArrayInv`), `master` is the listener and what is open (`MasterInv`).
  `StallsOnStale` adds, for the slots the walk has not come to, that their `revents`,
  stale or not, are right for a client that has spoken (`WalkInv`).

### Only model-checked

All liveness: `RequestHandled`, `WakeupReturns`, `PoolServes`,
`CompleteRequestReturns`, `ParserReturns`, `Served`, the liveness part of
`StreamDelivers`, `FaultEndsConnection`, `EveryMessageHandled`,
`AcceptedWhileFdsLast`. TLAPS does not reach liveness under fairness.

## 5. Not modelled

* `malloc`, `realloc`, `socketpair`, `epoll_create1` and `pthread_create` are
  assumed to succeed, as the callers assume. `epoll_wait` and `poll` are not
  interrupted: the server installs no signal handler.
* List nodes are never freed and are allocated with the size of a pointer
  (`event_loop.c:131`); memory is not modelled at that level.
* Whatever follows a switch of the write interest in a loop (see `EventLoop`): update
  requests, `epoll_update`, `poll_update`, write events.
* `quit`, the two `clear` functions, `map_free`, `buffer_free` and `buffer_read_char`
  have no caller or no effect on what is modelled.
* HTTP: the number of headers (the array holds a fixed number and is not
  checked), bodies, a header without a blank, a line without one (which ends the
  process in an assertion); a client that leaves before its response (for the
  write path, `Connection` has it).
* `poll_dispatch` with fewer slots than descriptors.
* Blocking servers (`poll_server.c`, the chat servers) with a client that does not
  read, where `send` blocks.
* Logging. `fork_server.c`, `thread_server.c` and the accept loops of the `server.c`
  examples, a process or thread per connection with no shared state. The
  one-shot programs (`showip.c`, `getip.c`, `broadcaster.c`), of which only those
  that walk an address list to a socket are in `SocketSetup`. `pack2.c`, `pack2b.c`, `ieee754.c`: sequential
  arithmetic over the bits of floating-point numbers, outside what TLC evaluates.

## 6. Plan

Done: the modules of section 2 and their runs; the proofs of section 4, which cover
every safety property that the passing runs check. Next:

1. Smaller leaves and shared lemmas in the longest proofs (`StudyProofs`,
   `EventLoopProofs`).
2. `fork_server.c` and `thread_server.c`, if their processes come to share state.
