# JMEngine in TLA+

JMEngine is a small C++ game-server engine on boost.asio: TCP and UDP sessions,
a remote-call layer on protobuf, a database connection pool, a logger and a few
helpers. This directory models the parts of it in which several threads,
unreliable connections and byte buffers meet, checks them with TLC on small
instances and proves with TLAPS, for every value of the constants, that the
safety properties which the passing runs check hold. Liveness is checked by TLC
only.

    tlc -workers 2 -config MCReadBuffer.cfg MCReadBuffer     # a run
    for m in *Proofs.tla; do tlapm $m; done                  # the proofs

`PROJECT.json` lists the runs, the source lines each definition models (`map`),
the hazards the properties are for, and the findings.

## The system and its parts

JMEngine has two io_service threads that matter here (`JME_Core`): the *net
thread* runs the completions of sockets and timers, the *logic thread* runs the
callbacks of the application. Application threads call into sessions and rpc
clients directly.

| Part | State | Operations | Correct when |
|---|---|---|---|
| `ReadBuffer` (include/net/JME_ReadBuffer.h) | `_buffer`, `_buffOffest`, `_handleOffest` | `readNewData`, `getMessage` (`onCheckBuffer`, `nextMessageLength`), `reset` | the frames of the byte stream are handed out whole, exact, in order and at once |
| `TcpSession`, writing | `_writeBuffer`, `_writeBufferOffest`, `_writing`, `_writeBlockTimes`, `_writeMutex` | `writeMessage`, `handleWrite`, `postWriteNull` | appended bytes reach the socket once, in order, unmixed, and are not forgotten |
| `TcpSession`, connection | `_status`, `_reading`, `_reconnectInterval`, the socket, the reconnect timer | `connect`, `handleConnect`, `reconnect`, `onReconnect`, `start`, `handleRead`, `stop` | one reader; callbacks in order; a client comes back, a server session is let go of |
| `RpcClient` | `_methodId`, `_cbs`, deadline timers, a weak pointer to its session | `callRpcMethod` (3 overloads), `sessionReceiveMessage`, `RpcDeadCallback`, session callbacks | a callback gets the response to its own call, once; a call with a deadline is always settled |
| `RpcServer`, `RpcHandler` | registered methods | `regRpcHandler`, `execRpcHandler`, `response` | each request is executed and answered on its own connection |
| `TcpAcceptor` | the acceptor | `accept`, `handlerAccept` | each connection becomes a session whose handler hears of it, and the next one is always waited for |
| `JME_Core`, `JME_TaskThread` | io_services, `_namedThread`, `_tasks` | `start`, `stop`, `createThreadByName`, `post` | work given to a thread runs; `stop` returns and leaves no thread behind |
| `UdpSession` | a `ReadBuffer`, `_writeBuffer`, `_ep` | `startRead`, `onRead`, `writeMessage`, `onWrite` | an answer goes to the one who asked; small datagrams are not lost; it listens again |
| `DBPool` | list of idle connections | `getConn`, `releaseConn`, `DBHelper` | a connection has one user |
| `GLog` | two lists, the log thread, the file | `log`, `run`, splitting | lines are written once, in order |
| String, encrypt, JSON-file helpers | none | pure functions | not modelled |
| protobuf messages, jsoncpp, nedmalloc, `backup/` | | | generated, third-party or superseded; not modelled |

How they interact: `TcpSession::handleRead` reads into `ReadBuffer` and posts
every frame to the `NetHandler` (the rpc client, or the rpc server's session
handler) on the logic thread. The rpc layer writes messages through
`writeMessage` from any thread. After a read error a client's handler resets
the read buffer and reconnects, a server's stops the session. `TcpAcceptor`
makes the sessions of a server. Any handler may take a thread of its own from
the core by name, or wait for a task of a `JME_TaskThread`.

What is hard: `_status`, `_writing` and `_reading` are shared by threads and
protected by no lock; the write mutex is released before the write is armed
again; a connection can end between any two steps; aborted operations report
themselves after a new connection has begun; a deadline can expire while its
response is waiting in the queue; the read buffer compacts only beyond its
middle; a UDP session shares its buffers and the peer's address between two
threads without a lock; threads are created by name while the core stops.

## The modules

| Module | Models |
|---|---|
| `FrameStream` | the abstract promise: a stream cut into frames by their length fields, delivered whole and in order |
| `ReadBuffer` | the read buffer and the loop of `handleRead`; implements `FrameStream` |
| `SessionWrite` | the write side of `TcpSession` |
| `TcpSession` | the life of the connection, the read side's control, the session callbacks and `TcpAcceptor` |
| `UdpSession` | the UDP session with the handler of the documentation |
| `Core` | the threads of the core, by number and by name, start and stop; composed with `TaskThread` |
| `TaskThread` | `JME_TaskThread`, its queue, its condition and the futures of its callers |
| `Rpc` | rpc client and server over connections that come and go |
| `DBPool` | the connection pool and its users |
| `GLog` | the logger's lists, its thread and its files |
| `MC*` | the constants of the runs |
| `ReadBufferProofs`, `SessionWriteProofs`, `TcpSessionProofs`, `UdpSessionProofs`, `CoreProofs`, `RpcProofs`, `DBPoolProofs`, `GLogProofs` | the theorems about each of them |

Definitions named `..._Variant` state plausible mistakes in the definition after
them; nothing uses them, and `PROJECT.json` (`mutants`) says which property
each one breaks.

### ReadBuffer

A byte is its position in the stream, so losing, repeating or misplacing one is
visible; what the buffer holds is a function from cells to positions. Offsets
are relative to `_buffer`. `HandleRead` is `read_some` plus `readNewData`: it
takes any number of bytes that fits, and 0 bytes, successfully, when nothing
fits (that is what `read_some` on an empty asio buffer does). `GetMessage` is
one turn of the `while(1)` loop: `onCheckBuffer`, `nextMessageLength` and the
three outcomes of `handleRead`. The `memcpy` of the compaction is undefined on
overlapping areas, so an overlapping copy may leave anything in the copied
cells (`CompactedBuffers`). `ReadFailed` and `Reset` are the end of a
connection and the `resetReadBuffer` of a handler that reconnects; `Reset` does
not clear the memory, as in the code.

The length field is identified with the first byte of its frame: it is read
only when a whole header is there. Lengths come from `Lens`, which holds values
below a header's length (refused by the code), values that fit and one that
exceeds the buffer.

### SessionWrite

Each writer runs `writeMessage` in the steps between which another thread can
intervene: the unlocked `isOk`, the mutex with `checkWriteBuffer`, then for the
header and for the body the checks of `writeNolock`, which no lock protects, the
append of `writeImpl`, and `postWriteNull` in two steps, its check and its
assignment. The net thread runs `handleWrite`: `_writing` cleared
without the mutex, the drain under it, the block count and the new
`postWriteNull` without it. A write armed on a socket that is closed completes
with an error, later, on the net thread (`aborted`). A message is two units, so
that partial writes and torn messages are seen. `left` counts the units that a
connection inherits: what was in the buffer when it was made, and what a writer
appends although it is not up. `stale` counts the aborted writes that were not
yet reported when the connection came up. `writeLock`, which nothing
calls, is left out. `_writeBlockTimes` is kept as in the code although each
call resets it, so its limit is out of reach whenever it is above 1.

The connection here is an environment: `OnConnect` to `StopClear` allow at least
what the other half of the class can do to the shared variables.

### TcpSession

The queue of each io_service thread is a sequence of handlers; completions of
reads, connects and timers append to the net queue in the actions of the
network. `handleRead` is two steps, because it sleeps before it arms the next
read. `stop` is two steps: it clears `_reading` after the socket is closed, and
another thread may act in between. The role (client or server), the platform,
`_asyncConnect` and the interval are chosen in `Init`, so one run covers them
all: on Windows an aborted read has error 995, which `handleRead` ignores, on
Linux it is an ordinary read error. `shutdown` throws on a socket that is not
connected, and the socket then stays open. `remote_endpoint` throws in `start`
when the peer has already reset the connection. `_readBlockTimes` is reset by
every call, so its limit of 10 is never reached and has no step.

The session of a server begins in `TcpAcceptor::accept`, waiting for its
connection; `handlerAccept` passes it on, or stops and drops it after an error,
and asks for the next accept either way. The module follows the first session
that is accepted; of the later ones it keeps the accept that waits. The branch
for error 995 needs a closed acceptor, and nothing closes one. `AppStop` of a
client is `~RpcClient`: `quietEnd` remembers whether it came while only the
read of a good connection was pending.

### UdpSession

`doRead`, `onRead` and `onWrite` run on the net thread, `onReceive` and `onWrite`
of the handler on the logic thread. The handler is the one of the repository's
README.md (line 151): it answers each message and asks for the next one when the
answer is sent, or, having nothing to answer, at once. The guards `_isReading` and
`_isWriting` are never set, so the module has none. Of the read buffer it keeps the
handled offset and the bytes behind it; a byte carries the number of its datagram,
so that bytes of two datagrams in one message are seen. A datagram that does not
fit is cut on Linux and an error on Windows. A receive into a buffer without room
gives 0 bytes.

### Core and TaskThread

A `Thread` is an io_service with its queue and the handler it runs. Main starts
the two threads of the core and stops them: `Thread::stop` is two steps, since the
others go on before the join returns. A handler may call `createThreadByName`: the
lookup and the creation with its insert are two steps, `insert` leaves an entry
that another thread made meanwhile, and the Thread that was not inserted dies
with its last pointer, joined by whoever held it. The races inside `std::map` are
taken as interleavings of whole lookups and inserts. The order in which `stop`
goes through the named threads is left open. `TaskThread` is instanced by
`Core`: any handler may post a task and wait for it, and a task may post to its own
thread. Nothing in the repository sets `_stop`, nor uses the task thread or named
threads; what the modules assume of their users is that `stop` is called once, by
main, and that handlers of named threads create no threads.

### Rpc

A call takes an id and registers its callback under `_mutex`, then writes.
The write may be refused, or be accepted and lost. Deadline timers, when they
expire, queue their handler on the logic thread behind what is already there;
cancelling a timer that has expired does nothing. The session is two FIFO
channels, which is what the other modules establish; losing the connection
loses what was on them, except requests still in the client's write buffer. Requests
are kept or lost whole: the rest of a half-sent one, which goes out first on the next
connection, is left out here, and so are the frames the server would then misread.
A response that the server's write refuses is the same to the client as a handler
without a result.

### DBPool

`init`, `getConn`, `releaseConn` and the `DBHelper` around them. A critical
section of the mutex is one step; connecting a new connection happens outside
it and is a step of its own that may fail, by returning false or by throwing (the
connection is then leaked). Connections are numbered as they are
made, so that two users of one are seen.

### GLog

A thread that logs checks the level, formats, and appends its line under the
mutex. The log thread swaps the lists under it, chooses the file from the date,
the split index in memory and the sizes on the disk, writes, flushes and clears.
Opening and writing may fail; a failed stream stays bad until the name of the
file changes, as an ofstream does. `Restart` is the end of the process at any
moment, also in the middle of a write, and its next start: the lists are gone,
the index is 1 again and `_last_time`, which the constructor does not
initialise, is any date. A line is one unit of size; the fragment of a line that an
ofstream may leave when it fails or the process ends is not kept, the line counts as
lost. The clock does not go
back. `LogIntegrity` numbers the places where a line can be, the files in the
order of their names and then the two lists, and says of them that nothing is
missing (`Complete`), nothing is there that should not be (`Sound`) and what is
there is in the order of acceptance, hence there once (`InOrder`).

## What the runs show

| Run | Question | Result |
|---|---|---|
| `read_buffer` | offsets, framing, compaction, reset; refinement of `FrameStream`; delivery of every frame of at most `SafeLen` bytes | holds |
| `read_buffer_jam` | can every frame that fits the buffer be received? | no, see findings |
| `session_write` | two writers and the net thread, two connections, synchronous or not, a stop at any time | holds, except for wakeups on a connection that overtook the aborted writes of the last one, which the properties name |
| `tcp_session` | one reader, safe resets, order of callbacks, reconnection, release, accepting again, silence after the end of a client | holds |
| `tcp_stop` | does interval 0 mean no reconnection? | no |
| `tcp_deaf` | does a client with an interval always come back? | no |
| `rpc` | responses, deadlines and lost connections, two callers | holds |
| `rpc_outcome` | one outcome per call? | no |
| `db_pool` | one user per connection, no connection lost, growth | holds |
| `glog` | files complete and in order across splits, days, errors and restarts | holds |
| `udp` | do two threads without a lock take turns, and are datagrams answered? | holds, with the documented handler |
| `core` | does `stop` return, and leave nothing running? is work lost? | holds, except after a self-post and in the creation race, which the properties name |

### Bounds

- `read_buffer`: 8 cells and a header of 2 give compaction above offset 5 and
  `SafeLen` 3; the lengths are one too short (1), a bare header (2), the longest
  safe frame (3), a frame that jams (4) and one larger than the buffer (9). A
  stream of 12 bytes fills the buffer, compacts and goes on. The proofs cover
  every other size.
- `session_write`: a writer with two messages and one with one, a buffer in which
  the second message may or may not fit, a would-block result (the limit
  being 2, against 10 in the code), two connections and one stop. Every pair of
  steps of writers, net thread and connection meets. `AsyncConnect` is `FALSE`: it
  takes a guard away from `HandleConnect` and allows all that `TRUE` allows.
- `tcp_session`: four connection attempts and four readable events: enough for a
  failed connect, a reconnection, a second loss and a stop at any point of them.
- `rpc`: one call per caller, because each call has three kinds and three ends;
  two callers already race for ids, and two connections let a request or a
  response outlive its connection.
- `db_pool`: three threads on a pool of two, so that it runs empty; six uses let
  connections go round.
- `glog`: two threads with two lines each, two days, one restart, one error, and
  split sizes 0, 1 and 2: files not split, full with each line, or filled by
  two batches.
- `udp`: 14 cells, so that `SafeSize` is 3, and five datagrams of two peers: two
  safe sizes, half the buffer (two fill it exactly), larger than the buffer, one
  with bytes behind its message, a bad length and an empty one. Compaction
  happens after the third safe datagram.
- `core`: one name and three posted handlers of any kind on either thread: two
  that race for the name and a third before, between or after them. Two names
  with three handlers (a million states) give the same result.

### Fairness

The io_service threads run what is queued, and the operating system reports
the end of a connection, of a connect and of a timer: weak fairness on exactly
these, on the log thread, on every thread of the core, and on `stop` once it was
called. A thread inside `writeMessage` goes on, and the mutex is held only for
bounded work. Nothing makes an application call or stop, a connection succeed
or a peer answer; a UDP send ends, well or not. `read_buffer` alone also lets the peer go on sending (up to
the bound), since its liveness property is about bytes that do arrive.

Deadlock is checked in `read_buffer` and not in the other runs: a session may
be stopped, callers and loggers may have nothing left to do, and then nothing
needs to happen. What must still happen then is stated by the liveness properties, and
what must still be pending by `NoLostWrite` and `KeptAlive`.

## What is proved

`ReadBufferProofs` proves for every buffer size, header length (both positive),
set of integer lengths and stream:

- `Invariance`, the inductive invariant, and from it `TypeCorrect`, `WindowHolds`,
  `FramesAreIntact`, `MemcpyIsSafe`, `NothingLeftBehind`, `SafeFramesNeverJam`;
- `Refinement`: `ReadBuffer` implements `FrameStream`.

The assumptions are those of `ReadBufferAssumption`: positive sizes, integer
lengths, nothing about their relation.

The argument: `Window` says that the cells between the two offsets hold exactly
the bytes received since the last frame, in order. It is preserved by a read
(`HandleReadStep`) and by a compaction because the copy is disjoint
(`DisjointCopy`: beyond n/2 + 1 at most n - (n/2 + 1) bytes are left, fewer
than were handled). So the length field read is the peer's (`NextLength`), the
slice handed out is the frame (`HandedOutBytes`), and the loop stops only when
no whole frame is left. `NoJam` is not inductive by itself: it needs
`Compacted`, that a read is armed only with `_handleOffest` at most n/2 + 1,
because `getMessage` compacts before it gives up. A full buffer then holds at
least n - (n/2 + 1) unhandled bytes, and by `NoFrameLeftBehind` the frame they
belong to is longer.

`SessionWriteProofs`, for any writers, messages, buffer size, connections and
stops. Four layers: `TypeInv`; on it `StreamIntegrity`, what was sent and what is
buffered is what was appended, in order; on that `FrameInv`, which says that messages are
numbered and their parts adjacent, that on a connection that is up a header behind
the left-over units is followed by its body unless its writer still holds the mutex,
that all units are left over while it connects (`NothingEarly`), and that the room
`checkWriteBuffer` found is still there for the body; and
`WakeInv`. `NoLostWrite` is not inductive: it needs `Promised`, that `_writing` is
only ever set while a write is armed or an aborted one has still to report, and
that no aborted one is left when a connection is up that is not `stale`; and
`Attended`, that data in the buffer always has somebody who will look at it.
`WakeupCorrect` assumes `BlockLimit > 1`; the code's limit is 10. `AsyncIsInTime`
adds that with asynchronous connects no connection is `stale`, because
`handleConnect` is queued behind the aborted writes.

`TcpSessionProofs`, for any number of connections and reads: `OneReader`,
`CallbackOrder`, `KeptAlive` and `QuietEndIsSilent`. Nothing locks the session; the
argument is a *token*. At any time at most one thing is under way that can lead
to another: a connect, an armed read, a timer, a handler in the net queue,
a callback in the logic queue that will start the next step, or `handleRead`
between its two steps. `SessionInv` says there is a phase `ph` such that the
socket, the timers and both queues hold exactly the token of that phase
(`Token`), that the callbacks in the queue may follow one another, and that before
a stop the status and the socket agree with the phase (`BeforeStop`). After a stop
the token can only disappear. Every action moves the token or leaves it.

`UdpSessionProofs`, for any buffer, header and datagram sizes: types,
`OneAtATime`, `AnswersTheSender`, `SmallDatagramsArrive`. `OneAtATime` is part of the
invariant, which says for the one operation under way what it carries:
the bytes of the last datagram that had room, the message cut from them, the
answer to its sender. `NeverFar` bounds the handled offset by the point of
compaction plus `SafeSize`, so that the next small datagram fits.

`CoreProofs`, for any names and handlers: `NoLostTask` from `NeverOwn` (a task
that posts to its own thread never ends, so the worker never meets its own task);
types from `Placed`, where a handler can be and in which state its thread is then;
`LostOnlyInRace` from `Race`: until two creations of one name have overlapped,
every Thread that a handler holds is also in the map, so no handler destroys one;
`StopIsFinal` from `Stages`, the threads that each stage of `stop` has joined, and
`Kept`, that a running named thread is in the map or held by a handler.

`RpcProofs`, for any finite set of threads, any number of calls and connections:
`ReplyMatchesRequest` and the action property `NoReplyAfterTimeout`. The
invariant follows ids: wherever an id is (in `_cbs`, a timer, a queue or on the
wire) it comes with the call it was given to, ids and calls are one to one
(`Unique`), and ids do not run out because `methodId` is at most the number of
calls past registration (`Counted`, a cardinality argument, hence the finite
set). A response in a queue belongs to a request that was executed
(`AnswerInv`), and whatever ran for a call has taken its callback out of `_cbs`.

`DBPoolProofs`, for any threads, pool size and number of uses: a connection has one
user (`OneUserPerConnection`) and none is lost (`PoolAccounted`). `Exclusive`
alone is not inductive: a new connection is nobody else's only because all
numbers given out so far are at most `made`, which is in `TypeOK`.

`GLogProofs`, for any finite set of threads, any lines, days, split sizes, errors
and restarts: `LogIntegrity` and `FileLayout`. The invariant `LogInv` adds that
lines are distinct and numbered, that only accepted ones are lost, that the list to be swapped
in is empty (`Idle`), that `_split_index` is behind full files only (`Filled`), and
that the file that run chose is the last one that holds anything, even if
midnight passes before it is written (`Chosen`). That the loop in `checkLogFile` ends
is a counting argument: files that are all full would each begin with a line of
its own (`Apart`, `SomeRoom`, the pigeonhole principle), and the first one with room
is the least element of a set of naturals (`LeastNat`). Steps that move lines are
shown to keep their order by one lemma about values, `Moved`.

The assumptions on constants are those in the modules: sizes are positive or
natural, the sets of threads of `Rpc`, `DBPool` and `GLog` finite, at least one connection in `TcpSession`.

Only model-checked:

- liveness, which rests on fairness, beyond these proofs: `SafeFramesArrive`,
  `Flushed`, `Reconnects`, `ServerReleases`, `ListensAgain`, `TimedCallsResolve`,
  `EveryLineSettles`, `StopReturns`;
- the four violations under Findings.

`Window` is proved and not checked by a run.

## Findings

- `read_buffer_jam` (JME_ReadBuffer.h:84): compaction happens only beyond the
  middle, so a frame longer than about half of the buffer that starts in its first
  half fills the buffer before it is complete. `read_some` then reads 0 bytes
  for ever and the session neither receives nor fails. The default buffer is
  `MaxMsgLength` bytes.
- `tcp_stop` (JME_TcpSession.cpp:461): `stop` sets the interval to 0, but a
  timer armed before connects the session again.
- `tcp_deaf` (JME_TcpSession.cpp:14): a peer that resets the connection before
  the logic thread runs `start` leaves a session that is Connected, reads
  nothing and never reconnects.
- `rpc_outcome` (JME_RpcClient.cpp:193): a response handled after its deadline
  expired but before the deadline handler ran gives the call both outcomes.

Some behaviours are listed as hazards and not claimed as errors, because no text
says what is meant: bytes left in `_writeBuffer` go to the next connection, torn
messages among them, and in front of what `Framing` is about. With synchronous
connects, which the comment of `_asyncConnect` recommends for an rpc client
(JME_TcpSession.h:105, done in backup/source/rpc/JME_RpcClient.cpp:42), a new
connection can be up before the aborted writes of the old one have cleared
`_writing`: a message written in between arms nothing, the handler that clears the
flag does not either, and the message waits until another one is written
(`NoLostWrite` and `Flushed` except a `stale` connection). Of a UDP session: a
datagram, or two, that fill the buffer to its last byte leave no room for ever
after; bytes behind the message of a datagram are put in front of the next one;
and a handler that answers twice, or from a thread of its own, breaks the turns on
which everything rests ("only after a message is dealt with may the next one be
received", README.md:165). `SmallDatagramsArrive`, `AnswersTheSender` and
`OneAtATime` say up to where the code is right. On Linux an aborted read always
posts `sessionReadError` to a client that may be destroyed (`QuietEndIsSilent` is
about Windows). Work posted to a thread that lost the race for its name is
dropped (`LostOnlyInRace`), and a task that posts to its own thread hangs it and
`stop` with it (`StopReturns`).

## What is not modelled

The destructors of sessions, of `DBPool` and of the core, and UDP handlers bound to
a plain `this`; a resolver that throws; `create` of `RpcClient`, which passes its
last two arguments in another order than the constructor takes them (buffer size
and interval are parameters here); the payload of messages and its allocation;
the logger's screen and the reading of its configuration. Compiler-level effects of
the unlocked flags are taken as interleavings of whole reads and writes.

The string, encryption and JSON-file helpers are sequential functions without
state or threads. By lines, nearly all of the repository is code that is not the
engine's own: copies of protobuf, jsoncpp and nedmalloc, generated messages, and
`backup/`, a second copy of all that. None of it is modelled, so the
share of all lines that `map` covers is small although the engine's own
stateful parts are all there.

## Plan

1. A composition of `SessionWrite` and `TcpSession`, so that the environment of
   the first is shown to be implemented by the second.
