# A TLA+ model of node.cpp

node.cpp is a C++ runtime in the style of Node.js. A *node* is user code driven
by a single-threaded event loop (`src/src/infrastructure.h`). User code runs
only in handlers and coroutines that the loop calls. Several nodes can run in
one process, one thread each, and post messages to each other.

This directory models the parts of the runtime whose correctness depends on the
order of events, checks them with TLC on small instances, and proves the most
important properties with TLAPS for every value of the constants.

## Parts of the system

| Part | Code | Modules |
|---|---|---|
| Timers | `timeout_manager.{h,cpp}`, `timers.{h,cpp}` | `TimeoutManager`, `TimeoutManagerProofs` |
| Inter-thread queue and awaker | `clustering_impl/interthread_comm_impl.h`, `pollPhase2` | `InterThreadQueue`, abstract `FifoChannel`, `InterThreadQueueProofs` |
| Table of sockets, poll set | `tcp_socket.h`, class `NetSockets` | `NetSockets`, `NetSocketsProofs`, `FiniteSetLaws` |
| Client sockets and the loop | `tcp_socket.{h,cpp}`, `socket_common.h`, `infrastructure.h` | `ClientSockets` (on `NetSockets`), `ClientSocketsProofs` |
| Read buffer | `net_common.h`, class `CircularByteBuffer` | `CircularByteBuffer` |
| Coroutines on a socket | `socket_common.h`, `awaitable.h`, `tcp_socket.{h,cpp}` | `CoroutineSocket` (on `CircularByteBuffer`), `CoroutineSocketProofs` |
| Servers | `server_common.h`, `tcp_socket.h`, `net.cpp`, `common_structs.h` | `Servers` (on `NetSockets`), `ServersCallsProofs`, `ServersProofs` |
| HTTP server | `http_socket_at_server.h`, `http_server_common.h` | `HttpConnection`, `HttpConnectionProofs` |
| JavaScript values | `js_compat.{h,cpp}` | `JsValues`, `JsHeap` (on `JsValues`) |

What is left out is listed under *Not modelled*.

One iteration of the loop runs the due timers, calls `poll()`, visits the ready
sockets, runs the immediates, reports the closed sockets, and then merges and
compacts the table of sockets. Messages of other threads reach the loop through
an *awaker* socket: one byte is written to it for each message queued. A
handler, or a coroutine that is resumed, runs inside the event that causes it
and may call any operation of the runtime before it returns. Most hazards of
the code come from that: the event goes on with state it has read earlier.

Conventions of all modules: a failed critical assertion ends the program, and
`failed` names it; variables marked *history* are not in the code and only
serve properties; constants and guards marked *bound* are there for TLC.

## Modules

**TimeoutManager.** `timers` is the map from ids to entries, `nextTimeouts` the
multimap of due times in iteration order, `handlers` the rest of the batch
`infraTimeoutEvents` has copied. `setTimeout`, `refreshTimeout`, `clearTimeout`
and `dropTimeout` (the destructor of a `Timeout`) are steps of user code. The
product of milliseconds and 1000 keeps its 32-bit width; signed overflow is
undefined behaviour and its result is chosen freely.

**InterThreadQueue.** A block under the mutex is one step. Notifying after the
unlock and writing the awaker byte are steps of their own. Spurious wakeups are
modelled. `FifoChannel` is the abstract specification; `queue` is mapped to the
messages between `tail` and `head`.

**NetSockets.** The table as a record and its operations as functions of it:
reuse of a free slot, growth, the second pair of vectors that takes entries
while the first pair is full, and compaction with renumbering. `associatedCount`
and `usedCount` are `size_t`; negative numbers stand for wrapped ones. The loop
of `makeCompactIfNecessary` is given by what it leaves: the entry at place `n` is
the used one with `n` used entries up to and including it (`MovedFrom`).

**ClientSockets.** `obj` says whether a socket object exists, `sock` holds its
`DataForCommandProcessing`, `net` what the operating system knows, `pending` is
`pendingCloseEvents`, `loop` the program counter of the loop. While the loop is
at the place of a handler, user code may call any operation on any socket. A
failed critical assertion ends the program; `failed` names it. Network, peer
and `poll()` are marked external in the map. Not in this model: coroutines,
clustering, record and replay, errors of `poll()` itself, reuse of a descriptor
number by the operating system after `close()`, and the reading of freed vector
storage after a reallocation (the old contents are taken to be readable).

**CircularByteBuffer.** The ring a socket reads into, with its memory, its
two offsets and the one cell that stays free: `read` (from the network, in up to
two parts), `get_ready_data` and `read_ready_data_until`. A byte is its place in
the stream, so a byte lost, repeated or moved shows.

**CoroutineSocket.** One socket and the coroutines that use it. `frame` says
for each coroutine where it waits, `ahd` holds the handles of
`DataForCommandProcessing`, `sock` and `net` the rest of the socket and what the
operating system knows, `loop` where the loop is. The awaiters `a_connect`,
`a_read`, `a_readUntil`, `a_write` and `a_drain` and the plain `write`, `end` and
`destroy` are actions of user code; `InputEvent`, `WriteEvent`, `ActionTimeout`
and `Release` are the places that resume a coroutine. A timeout resumes its
coroutine and leaves the handle where it is; the model keeps that, and a stale
handle that resumes an ended coroutine ends the run as `resumed`. Of the
`CircularByteBuffer` it writes from, the model keeps the number of bytes and the
size: `append` lets it grow to the next power of two that leaves a cell free, and
drops what would exceed the limit, as the code does.

**Servers.** `srv` holds the `ServerBase` objects, `con` the accepted sockets,
`tbl` the table they share, `queue` the vectors of pending events, `loop` the
program counter. Two conventions that the code relies on are taken over: a
server is not destroyed inside its own handlers, and after its close event it is
only destroyed. The following are reachable and modelled as they are: `at()`
failing for the accepted event of a socket destroyed in its connection handler
(`tcp_socket.h:885`), for the listening event of a server closed in the same
iteration (`:1502`), and for the close event of a server destroyed meanwhile
(`:1480`); a close event thrown away because its index is compared with
`size()`, or because the list is cleared (`dropped`); and a closed server whose
destructor frees the slot of another object (`stray`). The uninitialized
`MultiOwner::cnt` starts at any of `Leftovers`. `ClosedServer` joins two resumptions
that the code does one after the other when a server has closed, the coroutines
of `forceReleasingAllCoroHandles` and the one in `ahd_close`; what the first one
runs may be seen by the second in the code, and no property depends on it.

**HttpConnection.** One connection: `q` is `RRQueue`, the ring of request and
response pairs; `msg` the state of the two objects of each pair; `run` the
coroutine `run()`; `job` the calls of responses that wait in `a_write`; `server`
the handing over of requests (`onNewRequest`, `a_request`). The socket below is
reduced to what `CoroutineSocket` shows of it, and what arrives is a sequence of
lines of four kinds.

**JsValues, JsHeap.** `JsValues` has the values of `JSVar` and its operators as
functions: conversions, the two comparisons, `+`, `*`, `||`, `&&`, `%`.
`JsHeap` runs programs over them: objects and arrays with owning and soft
pointers, indexing through the temporary `JSRLValue`, `push`, `concat`, `keys`,
`split`, `setLength`, and calls, which publish their arguments in
`threadLocalData.currentArgs`. A place that executes `throw;` without an exception
ends the program. Nothing stops a program from moving an object into itself or
into one it owns, and the model lets it: the object then lives on, owned by
nothing but itself. Letting go of a slot in such a loop (`InLoop`) makes the
destructors come back to the object they started from; the model ends there.
`JSRLValue::operator = (const JSRLValue&)` needs a stored `JSRLValue` on the right
(from a temporary it is deleted) and is not modelled.

## Runs

| Run | Shows |
|---|---|
| `timers` | entries and multimap agree; no handler runs early, twice per scheduling, or is collected after a clear; the poll timeout never overshoots; due timers fire |
| `inter_thread_queue` | bytes match messages; the loop never blocks in `pop_front`; the queue implements `FifoChannel`; blocked writers proceed; messages are delivered |
| `client_sockets` | entries and objects point at each other; accumulation only when full; the poll mask fits the state; FIN follows data; `associatedCount` is right while no object was destroyed; nothing is reported after a close; connection outcomes are seen |
| `coroutine_socket` | what coroutines read is the stream, in order and complete; a write buffer that grows keeps its free cell; a waiting coroutine is registered; its timer ends with the wait; a reader whose bytes have come, or never will, is resumed |
| `servers` | a connection lives as long as its server lists it and has its own entry; a closing server without connections has posted its close event; a closed one has neither connections nor waiting coroutines |
| `http_connection` | the ring keeps its bounds and loses no pair; a free pair is clean; a pair being answered is not reused; `run()` never waits while there is room |
| `js_heap` | every object has one owner, and hangs from what the program owns unless it was moved below itself; the temporary of an index points to a slot that exists; `arguments()` is that of the innermost call; strict equality implies equality |
| `timer_handle` | violation: `clearTimeout` discards the entry of a timer whose handle is still held |
| `partial_send` | violation: the assertion after a partial send compares with the wrong size |
| `release_in_close` | violation: releasing a socket in its close handler fails an assertion |
| `lost_close` | violation: a close requested by a close handler can be forgotten |
| `split_line` | violation: a line that arrives in two pieces fails an assertion of `a_readUntil` |

The five violations are behaviour of the code that contradicts a comment or an
assertion of the repository; `PROJECT.json` quotes the lines.

Several properties are conditional, because the code guarantees no more:
`OwnsItsEntry` and `CloseIsPosted` hold until `stray` or `dropped` has happened,
`CloseIsPosted` and `ClosedIsOver` for a counter that started at zero;
`FreePairsAreClean` and `HeldUntouched` until a write has thrown or `a_request`
has timed out (`astray`); `AssociatedCountRight` until a socket object has been
destroyed. What happens afterwards is in the model and among the hazards of
`PROJECT.json`. Where a property excludes only part of the hazard it is listed
under, the note of the hazard says which part remains.

### Bounds

* `timers`: two timers, each scheduled at most twice, five clock ticks. Two are
  enough for one handler to act on another timer of its batch. An `int32_t` has
  5 bits and a `uint64_t` 6, so both a long and a negative delay overflow.
* `inter_thread_queue`: three writers of two messages, three usable cells,
  batches of two. Two writers can wait at once and the indices wrap around.
* `client_sockets`: three sockets, five calls of the application, two buffered
  bytes. The vector starts with room for one, so the others accumulate.
  `CompactionMinSize` is 3 (32 in the code), so a table of three is compacted.
  The network moves at any time, also between two calls of one handler.
* `coroutine_socket`: two coroutines, four calls, a ring of four cells (4096
  bytes in the code) and six bytes of the stream, so that the ring turns around;
  reads of 1 to 2 bytes and, with a period, of exactly 3; lines of at most 2,
  newlines at bytes 1 and 4, so that a line can fit, be too long, and come in two
  pieces. Writes are of 3 bytes into a buffer of 2 cells with a limit of 4 (the
  first size tried, twice the old one, is not compared with the limit), so that
  it grows, is filled to the last usable cell, and drops a write.
* `servers`: two servers, two connections, five calls; `CompactionMinSize` is 3.
  Both servers and connections can be in the last slot of the table, and a slot
  can pass from one kind of object to the other.
* `http_connection`: rings of one pair (as in the code) and of two, five lines,
  four calls. Two pairs are enough to finish answers out of order.
* `js_heap`: three objects, two variables of each kind, five operations, calls
  two deep. Operators on values are among the first two operations, objects are
  made by the first four, and what only prepares an operand (a variable, the
  temporary of an index) is not the last, so that what an operation prepares is
  used once more; numbers are at most 1 and strings at most 2 long. Variables of one kind are symmetric.

Deadlock is not checked: the loop may end, a failed assertion ends the
program, and the bounds stop user code.

### Fairness

* `timers`: the loop calls `infraTimeoutEvents` in each iteration, handlers
  return, and the clock advances: weak fairness of each.
* `inter_thread_queue`: weak fairness of each writer and of the reader. A
  writer woken without need is not fair; nothing depends on it.
* `client_sockets`: weak fairness of the loop as a whole. User code, the
  network and the expiry of the poll timeout are not fair.
* `coroutine_socket`: weak fairness of the loop: handlers return, and `poll()`
  reports what is ready. Coroutines, the network and timers are not fair.

`ConnectOutcomeSeen` is stated for entries that have joined the main vectors
and while no object has been destroyed. Entries accumulated by `main()` or by a
timer handler are not handed to the next `poll()`, which may sleep over them.
A destroyed object can lower `associatedCount` wrongly and end the loop.

## Proofs

Proved for every value of the constants that satisfies the named assumptions
(`ConstantsAssumption`, `QueueAssumption`, `HttpAssumption`,
`CoroutineAssumption`, `BufferAssumption`, `TableAssumption`,
`BoundsAssumption`, `ServersAssumption`):

* `TimeoutManagerProofs`: all safety properties of `timers`. The first
  invariant is `Consistent`, the conjunction of `TypeOK`, `QueueMatchesTimers` and
  `NoLeakedEntry`: clearing finds its entry in the multimap only because every
  active timer is there once, and an entry may be erased only because of what is
  known of its handle. `NotEarly` and `NextTimeoutIsEarliest` need `Timely` on top
  of it: the multimap is ordered and each due time is its schedule time plus its
  delay. `ClearedNotCollected` needs `ClearedGone`: a cleared timer has no entry.
  `OncePerArming` needs `Accounted`: the times a handler has run, its places in
  the batch and its place in the multimap together never exceed the armings.
* `InterThreadQueueProofs`: `TypeOK`, `BytesMatchMessages`,
  `PopsWhatWasSignalled`, and the refinement `QueueImplementsChannel`. The
  invariant `Inv` adds to them that the cells between `tail` and `head` hold
  messages and that the reader pops only after it has read a byte. The
  refinement shows that a push appends to the mapped queue, a pop removes a
  prefix of it, and everything else stutters; it rests on lemmas about index
  arithmetic modulo the buffer size.
* `HttpConnectionProofs`: all properties of `http_connection`, for rings of any
  size. The invariant has `Ring(q)`: what is between `tail` and `head` fits, a
  pair that was used knows its index, a pair in use lies between `tail` and
  `head`, and the pair at `tail` is in use. That two indices of a window have
  different remainders (`ModInjective`) is what makes the pair `getHead` takes a
  free one; `release` moves `tail` to the least index in use. `Owned` adds who may
  touch a pair: `run()` the one it reads into, user code those it was given.
* `CoroutineSocketProofs`: `TypeOK`, `WaitingIsRegistered`,
  `TimerOnlyWhileWaiting` and `BytesAccounted`, for any number of coroutines and
  calls and rings of any size. `FInv`, about frames and handles, is inductive by itself: resuming a
  handle takes it out first, and only the coroutine it belonged to can wait for
  that kind. `TypeOK` rests on lemmas about the ring (`GetReadyData`,
  `ReadTyped`, `ReadUntilTyped`): the offsets stay inside the memory, and the
  second part of a read is only asked for when `begin` is not at its start. For
  the write buffer it rests on `Appends`: the least size that fits leaves a cell
  free, and so does not growing.
  `BytesAccounted` needs no induction over sequences once the contents of the
  ring are read place by place (`ContentsPlaces`: the k-th byte is at `Place(c, k)`,
  which turns around at the end of the memory). What a coroutine takes is then a
  front of the contents (`ReadyDataIsFront`, `LineIsFront`), and `read` puts its
  one or two parts behind them (`ReadAppends`). So every step is one of three:
  bytes pass from the ring to a coroutine in order and nothing else moves
  (`Quiet`), the next bytes of the stream are put behind the ring, some of which
  may pass on at once (`Receives`), or the data handlers take them (`Hands`); each
  keeps the account.
* `NetSocketsProofs`: lemmas on the operations of the table, for entries of any
  kind of object. Each operation but compaction changes one entry (`Changed`)
  or adds one at the least free slot or at the end (`TakesEntry`). `Fits` says that `ourSide` is
  within its capacity and that entries accumulate only when it is full. Of
  compaction the lemmas say that it moves the used entries to the places from 1
  on, each to one place, in order, and loses none. That rests on
  `UsedUpTo` growing by one at each used entry. What the lemmas use of finite
  sets, cardinalities and least elements is the hypothesis `Laws` of module
  `FiniteSetLaws`; `ClientSocketsProofs` and `ServersProofs` derive it from the
  library (`LawsHold`) at their end, before their theorems, so that no theorem
  rests on it. This keeps the library's theorems out of the obligations before.
* `ClientSocketsProofs`: all safety properties of `client_sockets`, the action
  property `NothingAfterClose` among them, for any number of sockets. Besides
  the properties, `Inv` has: an object remembers the place of its entry also when
  the entry is not used any more, as the loop goes on with an entry whose object
  a handler has destroyed (`OwnerInv`); a connection whose FIN is sent is not set
  up again (`FinInv`); the entry about to be reset at the end of a close event is
  one that is not counted (`CountInv`); and the only used entry of a socket that
  was reported is the one whose close handlers run (`ReportInv`), which is why no
  other handler of it can start.
* `ServersCallsProofs` and `ServersProofs`: all properties of `servers`, for any
  number of servers and connections and whatever the memory of the counters held.
  The first has the invariant, shows that it holds at first, that it implies the
  properties, and that the calls of user code, the network and the steps between
  events keep it; the second does the event loop and has the theorems. `Inv` has
  one clause for each question. `OwnerInv`: no two entries belong to one object,
  and a used one is where its live object says. `OwnInv`, the converse, holds
  until `stray`; a server loses its entry when its close event ends, and `Closed`
  is what tells that. `ListInv`: a connection lives as long as it is in
  `socketList`, and the counter differs from the length of the list by what
  memory held. `WaitInv`: a server that the scan has still to accept for has
  a connection waiting, though handlers run in between. `DueInv` makes
  `CloseIsPosted` inductive: while the close events are visited, a close event
  that is owed is in the part not yet visited, or was posted after the visit
  began. Compaction keeps all of it because every used entry is moved to one
  place and its object is told that place.

`HttpAssumption`, `BufferAssumption` and `CoroutineAssumption` state that a power
of two is positive, which holds of every natural exponent; the provers know
nothing about powers.

Only model-checked:

* the properties of `js_heap`. What dies with an object (`Subtree`) and the number
  of its owners (`OwnerCount`) are folds over the objects, and what a fold computes
  for every set is an induction over data, which is out of the prover's reach; so
  is `OwnersFormForest`, and with it `ArgumentsOfCurrentCall`, which needs that no
  other owner destroys the array of a running call. `StrictImpliesEqual` compares
  two tables over the types of values and has been left to TLC.
* all liveness properties (`DueTimerFires`, `BlockedWriterProceeds`,
  `EveryMessageDelivered`, `ConnectOutcomeSeen`, `ReaderServed`), as the prover does
  not reason about fairness.

## Not modelled

* *Clustering* (`cluster.h`, `clustering.cpp`, `listener_thread*`) is a build of
  its own: with `NODECPP_ENABLE_CLUSTERING` the table, the servers and the loop
  change, and the listener threads have a loop and a table besides. The modules
  model the build without it. The queue its threads use is `InterThreadQueue`;
  its slots for threads that come and go are not modelled.
* *Record and replay* is a build option; most of its replaying branches are an
  assertion that they are not written yet.
* *Queue-based infrastructure* is another loop, around a message queue of a
  library outside the repository.
* *Event emitters* are lists of callbacks called in order. In every module a
  handler is a place where user code runs; which of several runs first is not
  distinguished.
* *Logging, files, URLs*, the text of HTTP headers, regular expressions, number
  formatting and the console of the JavaScript layer are input and output or
  text, with no state that the rest of the runtime depends on.
* Within modelled parts: immediates and `a_timeout`, the writing side of
  `CircularByteBuffer` beyond the number of its bytes and its size, socket options, `ref` and
  `unref`, the promise types of coroutines, and the start of nodes.
