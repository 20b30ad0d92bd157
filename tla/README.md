# zsummer in TLA+

zsummer is a C++ network library: one loop per thread (`IIOServer`) with posted
messages, timers, TCP and UDP sockets, implemented on Linux epoll
(`src/network/epoll`) and on Windows completion ports (`src/network/iocp`), with
an echo server and a stress client as examples (`src/example`), a packet format
(`src/depends/protocol4z`), a logger with a thread of its own
(`src/depends/log4z`) and thread helpers (`src/depends/thread4z`).

This directory holds TLA+ modules translated from that source, TLC
configurations that check them on small instances, and TLAPS proofs for every
value of the constants. `PROJECT.json` maps each definition to the source lines
it models, and lists the runs, the findings, the hazards and the theorems.

To run one check: `tlc -config MCPostQueue.cfg MCPostQueue`. To check the proofs:
`tlapm PostQueueProofs.tla`.

## 1. The system

| Component | State | Operations | Interacts with | Hard behaviour |
|---|---|---|---|---|
| message queue of `CIOServer` (`epoll.cpp`) | `m_msgs`, a socketpair | `Post`/`PostMsg` from any thread; `RunOnce` drains, swaps, dispatches | every thread; `OnPost`, `OnClose` callbacks; sockets post their close | a wakeup lost between drain and swap; a full socketpair; messages posted by a callback of the batch |
| timers of `CIOServer` | `m_queTimer`, `m_queSeq`, `m_nextExpire` | `CreateTimer`, `CancelTimer` from any thread, `CheckTimer` | `OnTimer` callbacks, the epoll timeout | the lock is let go between collecting and firing; `m_nextExpire` is read without it; the sequence part of an ID (20 bits) wraps |
| `CTcpSocket` on epoll | the registration handle, pending buffers | `Initialize`, `DoConnect`, `DoSend`, `DoRecv`, `Close`, `OnEPOLLMessage`, `OnPostClose` | epoll set, message queue, callbacks | a close is reported later than it happens; the batch of events holds pointers; descriptor numbers are reused |
| `CTcpAccept` on epoll | the listener's handle | `OpenAccept`, `OnEPOLLMessage`, `Close` | makes the `CTcpSocket`s | one error of `accept` closes the listener |
| `CUdpSocket` on epoll | one pending buffer | `Initialize`, `DoRecv`, `DoSend` | epoll set | one `DoRecv` at a time |
| IOCP loop | completion port, timers | as above; `RunOnce` takes a packet, runs timers, handles the packet | Windows | callbacks run with a packet in hand |
| `CTcpSocket` on IOCP | status, three "under way" flags | as above, by overlapped operations | completion port | the kernel writes into the object until its last completion |
| `CTcpAccept`, `CUdpSocket` on IOCP | one overlapped operation | | completion port | a failed accept is not posted again |
| example server: `CSchedule`, `CProcess` | processes, round robin index | accept, hand over, close | two kinds of loops on different threads | a socket changes threads; processes that do not start |
| example server: `CClient` | receive buffer, send buffer, `m_sendque` | `OnRecv`, `OnSend`, `OnClose`, `Send` | `CTcpSocket`, protocol4z | packets in pieces; one `DoSend` at a time |
| example client | the same plus timers | `OnTimer`, `SendOnce` | many sockets | sends from a timer |
| protocol4z | stream cursors | `CheckBuffIntegrity`, `WriteStream`, `ReadStream` | sessions | boundaries |
| log4z | `m_logs`, loggers, counters, a thread | `Start`, `Stop`, `PushLog`, `Run`, level changes, statistics | every thread, files | plain flags read without the lock; stop against push; files that fail |
| thread4z | mutex, semaphore | `Wait`, `Post`, `Lock` | log4z, servers | timed wait |
| `CircularQue`, `ObjectPool`, clock helpers | | | | full and empty |

What makes each of them correct: a message is delivered exactly once, in order
and never late for want of a wakeup; a timer fires once, not early, not never; a
socket is told of its close exactly once and touched by nothing afterwards; a
descriptor has one owner; a packet is cut out of the stream and answered whole;
an accepted socket lives on exactly one loop; a log message that was accepted is
written once, in order.

## 2. Modules

| Module | Models | Uses |
|---|---|---|
| `AsyncChannel` | what `Post`/`OnPost` promise: a FIFO channel per poster | |
| `PostQueue` | message queue of `epoll.cpp` | implements `AsyncChannel` |
| `TimerQueue` | timers of `epoll.cpp` (the code in `iocp.cpp` is the same) | |
| `SocketLife` | what a TCP socket promises its user | |
| `TcpSocket` | all sockets of one epoll loop: objects, descriptor table, epoll set, event batch, close messages | the channel that `PostQueue` implements; implements `SocketLife` |
| `UdpSocket` | `CUdpSocket` on epoll | |
| `AcceptHandoff` | `CTcpAccept`, `CSchedule`, `CProcess` on epoll | the channel between loops |
| `IocpSocket` | `CTcpSocket` on IOCP with the completion port and the kernel | |
| `IocpLoop` | the rest of `CIOServer` on IOCP: `RunOnce` with every kind of packet, `CTcpAccept`, `CUdpSocket`, `Post` | |
| `EchoSession` | `CClient` of the server over one connection, with `CheckBuffIntegrity` | the promises of `TcpSocket` |
| `PingPong` | what client and server promise together | |
| `EchoPair` | `CClient` of the stress client, over the two byte streams of a connection | extends `EchoSession`; implements `PingPong` |
| `Streams` | `WriteStream`, `ReadStream` and `CheckBuffIntegrity` of protocol4z | |
| `LogQueue` | log4z's queue, log thread, start and stop | |
| `Semaphore` | `CSem` of thread4z | |
| `CircularQue` | both queues of `cirque.h` | |
| `ObjectPool` | both pools of `objectpool.h` | |
| `PostQueueProofs`, `TimerQueueProofs`, `TcpSocketProofs`, `AcceptProofs`, `IocpSocketProofs`, `EchoProofs`, `LogQueueProofs`, `PartsProofs` | the theorems (section 5) | |

An `MC` module extends a module with the values of its constants; a `.cfg` is one
question. Two `MC` modules put side by side what shares nothing, one subject per
behaviour: `MCAccept` has `AcceptHandoff` and `IocpLoop` (`platform`), `MCParts`
has `UdpSocket`, `CircularQue`, `ObjectPool`, `Semaphore` and `Streams`
(`subject`); for this the names that would clash carry a prefix (`IocpPost`,
`UdpInit`). Operators marked *Faulty variant* are plausible mistakes in the
code: each property is known to be violated by at least one of them.

### PostQueue

`Push` and `Signal` are the two halves of `PostMsg` under and after
`m_msglock`: every post writes a byte after the unlock, and the result of a
write to a full socketpair is ignored. `EpollWait`, `ThreadEvent`, `Drain`, `Swap`,
`Dispatch`, `CallbackReturns`, `BatchDone` follow `RunOnce`; a callback may
post. An interrupted `epoll_wait` is a stutter. The socketpair holds `PairCap`
bytes and `recv` takes up to `RecvLen`.

### TimerQueue

A timer is a number, its ID the pair (expiry, sequence part). `CallCreateTimer`
reads the clock, `InsertTimer` is the section under `m_lockTimer`,
`CancelTimer` is one section, `CheckTimer` is cut where it reads the clock,
reads `m_nextExpire` without the lock, collects under the lock, and calls each
`OnTimer`. `m_queSeq` is not initialised by the constructor: it starts anywhere.
`CancelTimer` cannot withdraw a timer that is already in the batch; it returns
false, which the second half of `TimersAccounted` shows to be honest. The wall
clock only moves forward in the model. `CreateTimer` sets `m_nextExpire` to the new
timer when it finds it behind the clock, also over a timer that is overdue and
still queued (`epoll.cpp:141`, history `raised`): creations that do this often
enough, one between each expiry and the next `CheckTimer`, keep an overdue timer
from ever being called. `EventuallyFires` therefore holds only for behaviours in
which such creations end (`PassingEnds`), and `PassedByCreation` says that nothing
else puts `m_nextExpire` past a queued timer.

### TcpSocket

A descriptor carries what the network has done to its connection and the
kernel's registration; `Ready` says which events epoll reports of it (external,
including that a refused connect is writable). A batch of events is taken at
once and handled one by one, with the callbacks of the user in between, in which
any sequence of calls can be made, failures of the system calls included. Close
messages travel through `m_msgs` and the batch `msgs`. A socket whose
`DoConnect` failed half way keeps its descriptor for ever: no call gives it back
(`DescriptorsOwned` counts it as its owner).

`ImplementsSocketLife` is the refinement: `life` is what the user was told, with
"closing" for a closed socket whose `OnClose` has not come, `speaking` the
socket whose callback runs. `SocketLife` leaves open when the library closes a
socket, and demands that each close is told once and in the end.

An accepted socket that `Initialize` could not put into the epoll set ("unwatched")
can still be used: its first request fails in `EPOLLMod` and closes it.

With `CrossCalls = FALSE` the user keeps to a discipline: a socket that the kernel
watches is closed in its own callbacks only, and once it is closed it gets no call
from elsewhere, even before its `OnClose`. `DoSend` and `DoRecv` of an established
socket come from any callback, as `OnTimer` of the client and `OnPost` of the server
do. The library does not state that rule and the examples do not keep all of it
(`OnTimer` sends on a socket that may just have been closed), so `MCTcpCross` runs
without it. Then `SocketLife` does not hold, the descriptor table does
(`DescriptorsOwned`), and `NothingForDeleted` says how far a deletion can go wrong:
no message is ever for a deleted socket, and an event of the batch points to one in
two cases only (history `exposed`). Either the user closed the socket from another
callback while its event waited in the batch: the message of its close then deletes
it first, and `RunOnce` reads the type of what was deleted (`ReadFreed`,
`epoll.cpp:241`). Or the socket was used after its close while its number in `_fd`
stood for the connection of another: `EPOLLMod` puts the closed one's pointer there,
and its events come back after its deletion.

### EchoSession

The peer sends a stream out of `Streams`; `SocketReceives` and `SocketSends`
move any number of bytes. `OnRecv`, `MessageEntry`, `Send` and `OnSend` are
whole handlers. Buffers keep stale bytes behind a shorter packet, as `memcpy`
does. The statistics counters are left out. The connection may close at any
step; packets that then wait in `m_sendque` are never freed by the code, which
the model does not track.

### EchoPair

The client's packets have one length and are numbered; `Writes`,
`OnSendOfClient`, `Reads` and `OnTimer` are its handlers. `OnSend` comes when it
likes after the bytes were taken, as on a completion port, so an echo may
overtake it. With `g_ping_pong` the next packet is made when the echo is parsed,
without it by a timer, which may find the connection closed but not yet reported
(`m_establish`). `peer = "any"` is the session alone against whatever a peer
sends, which is where the properties of `EchoSession` are checked.
`Rounds` maps the pair to `PingPong`: packets made, echoes parsed, connection
alive.

### AcceptHandoff

`CSchedule` starts its processes (each may fail), opens the listener (each
failing call of `OpenAccept`; with a failing `epoll_ctl` the listener stays open
but "deaf"), starts its own thread, whose failure it does not notice (`"no thread"`:
the listener is open and no loop behind it), accepts until an error, posts sockets round robin. `NProcess` is 1 in
`Schedule.cpp` (`i < 1`) while the vector and the index are written for any
number, so it is a constant. The messages of a process are one FIFO queue.

### LogQueue

Every access without the lock is a step of its own: the test of `m_bRuning` in
`PushLog`, the quit test of `Run`, the reads of `_enable` and `_level`. The
status counters are left out. A logger's file has a buffer that reaches the disk
on flush or close. A failing write closes the file and loses the message; a failing
close, whose result nothing looks at, loses what was in the buffer. A failing flush
leaves it there, and since `needFlush` is cleared all the same it stays until the
next message of the same logger or its close (history `unflushed`): that is the
exception of `SettledAtRest` and `WrittenInTheEnd`. `Start` is called once. What happens to the thread after a refused
`Stop` at static destruction is not modelled.

### IocpSocket

The kernel completes operations in any order, and fails those of a closed
handle; completions wait in `port`. `RunOnce` is cut into `Dequeue`, the timers
(`place = "timers"`, with the packet in `hand`) and the handler. `OnClear` and
`Cleared` are the halves of `OnClear` before and after `OnClose`. The user
initialises a socket once per life and leaves its deletion to the library. An
accepted socket that is closed before it was initialised is deleted at once
(`CloseUnbound`).

### IocpLoop

The port holds packets by key: an accept, a datagram, a post, or `this` of a
listener that is to be told closed. `Dequeue` takes one, the timers run with it
in `hand`, then it is handled. The user opens and closes the listener, receives
and posts from every callback. A listener whose accept fails (`AcceptLost`) or
cannot be posted again (`AcceptAgain`) stays open and takes nothing (history
`deaf`). `Close` inside `OnAccept` is followed by the rest of the handler, which
posts the next accept (history `early`). After a `Close` with an accept under
way the completion of that accept posts NULL instead of `this`
(`iocp/tcpaccept.cpp:199`): `OnClearOfNull` then calls through it.

### UdpSocket

`UdpWait` takes the event, other callbacks may run before the handler, so the
event may be stale. Empty datagrams are read and dropped. A failing `EPOLLMod`
in `DoRecv` leaves the request set while the call returns false; in the handler
it loses the datagram that was just read (`modFailed`).

### Streams

Values are written one by one into a packet whose header is kept up to date, on
a host of either byte order, and read back on another. Bytes have `Base` values
and integers `IntegerSize` bytes, so that lengths overflow at a handful. A `<<`
that throws may have written a part (history `torn`).

### Semaphore, CircularQue, ObjectPool

`Semaphore` keeps the timespec of a timed wait as it is computed, seconds and
rest without the carry, and lets every `CSem` create, open and destroy the one
name. A signal handler may interrupt any wait (`SemInterrupted`), and `Wait` then
returns false like for a timeout, with or without one. `CircularQue` counts modulo `Wrap` as the unsigned counters do modulo
2^32, and remembers when a counter has wrapped around a capacity that does not
divide it. `ObjectPool` has the list threaded through the nodes; a constructor or
destructor may use the pool and a constructor may throw, which leaves its node
out of the list for ever (`lost`).

## 3. Runs

| Run | Instance | Distinct states | Shows |
|---|---|---|---|
| `post_queue` | 2 posters and the loop, 2 messages each, 2 bytes in the pair, 1 per `recv` | 138 k | no lost wakeup (`NoLostWakeup`), nothing lost, repeated, reordered (`Accounted`) or dispatched with an earlier batch (`Deferred`); implements `AsyncChannel`, eventual delivery included |
| `timers` | 1 thread and the loop, 3 timers, delays 0 and 2, 2 sequence parts | 940 k | each timer in one place and refusals honest (`TimersAccounted`), `NeverEarly`, `InOrder`; `m_nextExpire` past a queued timer by a later creation only (`PassedByCreation`); fired or cancelled once such creations end (`EventuallyFires`); lost only to one created `SeqMod` creations earlier (`LostOnlyAfterWrap`) |
| `tcp_socket` | 1 accepted and 1 connected socket, 2 descriptors | 442 k | the epoll set watches what is asked for (`EpollSetRight`), connects, receives and sends are answered (`Answered`); implements `SocketLife` |
| `tcp_socket_cross` | the same, calls from anywhere | 943 k | each open descriptor has one owner (`DescriptorsOwned`); what may still point to a deleted socket (`NothingForDeleted`) |
| `echo_pair` | session with any peer: 5 packets or a corrupt one, buffer of 6; client: 3 packets | 14 k | packets framed, answers exact, everything answered; client and server implement `PingPong` and each echo is its packet (`EchoesTrue`) |
| `accept` | epoll: 3 connections, 2 processes; IOCP: 2 connections, a post, a datagram | 19 k | epoll: one loop per socket, listener gone once, backlog served unless the listener is deaf, has no thread or the process crashed (`BacklogServed`), sockets handed over and let go; IOCP: `EachComesBack`, `DeletableOnClose`, `TakenUnlessDeaf` |
| `log_queue` | 1 writer with 1 message, the log thread with up to 3, 2 loggers, 2 levels | 369 k | accepted once and in order (`AcceptedInOrder`); only a failed flush leaves something in memory, what came in time is settled when `Stop` returns (`SettledAtRest`); `Stop` returns (`StopAnswers`), messages are settled or their flush fails (`WrittenInTheEnd`) |
| `iocp_socket` | 1 accepted and 1 connected socket | 44 k | flags agree with the kernel, nothing after `OnClose`; told closed, unless a success came late |
| `parts` | see `MCParts.cfg` | 892 k | UDP: requests answered; `QueFifo` until the counters jump; `PoolLinked`; `WaitsItsTime`; `ReadsBack`, `HeaderTrue` |

The three runs of section 4 end with the counterexample they are there for.

**Bounds.** The threads of `PostQueue` and `TimerQueue` are symmetric in the
code: two with the loop give `PostQueue` every pair of critical sections, one
with the loop is enough in `TimerQueue`, whose sections never nest; two messages
per thread are needed for an order within a thread and a swap between them.
`PairCap = 2` and `RecvLen = 1` make the pair full and the drain loop. Three
timers put two in a batch while a third is created; with `SeqMod = 2` the third
has the sequence part of the first, so their IDs are equal when their expiries
are (`TimersAccounted` and `InOrder` are claimed as long as no ID was
given twice, which the theorem `FewTimersDistinct` covers). Creations end with the
third timer and the clock stops at `MaxTime`, so endless creations that starve a
timer are not among the behaviours: TLC checks `EventuallyFires` without them, and
its hypothesis `PassingEnds` names what that leaves out. Two sockets and two
descriptors let one take the descriptor number of the other, and an accepted one
be deleted while the other's events are in the batch. Bounded posts hide one
thing: under posts that never pause, the drain of `RunOnce` need not end. In
`EchoSession` every cut of five packets occurs, two answers wait in the queue;
the client in `EchoPair` makes its second and third packet while the `OnSend` of
the one before may still be missing. In `AcceptHandoff` three connections take
the round robin over two processes past its end. In `LogQueue` two loggers are needed for a file rolled while the
other is written; the log thread itself sends two messages to the main logger,
and the writer is enough for a stop in the middle of its `PushLog`, while the
levels change from another thread. In `IocpLoop` the second connection waits
while the first is in `OnAccept`; more than one accept is never posted. Of the parts: capacities of 3 and 4 against a wrap of 16 are one
that divides it and one that does not; five nodes are the two a pool starts with
and three objects, two of them inside each other's constructors; timeouts of 0
and 4 with a second of 3 ticks give a whole second, a rest and a carry; integers
of two bytes of base 4 make a string of 17 too long for its length and packets of
15 bytes just full. Deadlock checking is off where a run ends:
the constants bound the calls (posts, timers, messages, connections), or the
system stops by itself.

**Fairness.** Each loop is called for ever (`Process.cpp:67`, `Schedule.cpp:86`,
client `main.cpp:305`) and its callbacks return: weak fairness of the loop as a
whole, not of single actions of it. A thread that is inside `PostMsg`,
`CreateTimer` or `PushLog` finishes. Time passes. Windows completes the
operations of a closed handle. The kernel hands a connection that waits
to the accept that is posted (`AcceptSucceeds`). Nothing obliges a peer, the
network, a user or the caller of `Stop`. There are two exceptions. `PairSpec`
is about a peer that reads: weak fairness of receive and send stands for the
sockets below (`Answered`) and for that peer, and the client's own loop and
timers run. `UdpFairness` asks strong fairness of the two ways in which the
handler reads a datagram, because the handler may also find that `recvfrom`
failed: it does not fail for ever.

## 4. Where code and words differ

| Run | What TLC shows | Against |
|---|---|---|
| `echo_two_lengths` | a queued answer is sent with the length of the one before it | `Client.h:72`, and the client's `OnSend` |
| `log_lost` | a message accepted during `Stop` is never written | `log4z.h:97`, "logger will not loss any log on process normal exit" |
| `iocp_reclaimed` | `OnClose` never comes when the last completion after `Close` is a success | `HISTORY:8`, safe reclamation on closing |

The example server happens to escape `echo_two_lengths`: all echoes of the stress
client have one length (`AnswersExact` in `echo_pair`). `src/README.md:28`, that
callbacks never nest, is what `Deferred` confirms for closes.

Smaller observations, each stated at its place in the modules, that no run
claims:

- Calls across sockets on epoll: the event of a deleted socket (`epoll.cpp:241`)
  and the write to a descriptor number that another socket got, both described
  under `TcpSocket` and the two exceptions of `NothingForDeleted`, against
  `Client.cpp:181`, which deletes a session in its `OnClose` as safe.
- A refused connect calls `OnConnect(true)` (`tcpsocket.cpp:244`,
  `ConnectedIsTrue` is false).
- `m_nextExpire` may be set past an overdue timer, although `epoll.h:88` calls it
  the earliest; the timer is called late, and never while creations of this kind
  do not pause (the hypothesis of `EventuallyFires`).
- The results of `fflush` and `fclose` are ignored (`log4z.cpp:372`, `386`, `408`), the
  exception of `SettledAtRest`; a `CSchedule` whose thread does not start has an
  open listener that nothing serves (`Schedule.cpp:77`), one of `BacklogServed`.
- An interrupted wait returns false as if its time had passed (`thread.cpp:255`,
  `263`, `270`, `278`), also without a timeout.
- After `Close` of an IOCP listener with an accept under way, NULL is posted for
  `OnClear` (`iocp/tcpaccept.cpp:199`, logged as "safe close server"). Nothing in
  the repository calls that `Close`: `ITcpAccept` does not declare it.
- The timed wait does not carry its nanoseconds into the seconds
  (`thread.cpp:277`); `sem_timedwait` then fails at once. `WaitsItsTime` has this and
  the interruption as its exceptions.
- The destructor of one `CSem` unlinks the name under the others
  (`thread.cpp:159`): a `CSem` that creates it afterwards gets another semaphore.
  `Semaphore` has the steps, and no property is about them: what a name stands for
  is the meaning of `sem_open` and `sem_unlink` alone.
- An empty string at the end of a packet cannot be read back
  (`protocol4z.h:890`), the exception of `ReadsBack`.
- The counters of the circular queue jump at 2^32 unless the capacity divides it
  (`cirque.h:95`), the exception of `QueFifo`.
- The atomic addition of thread4z gives the old value on Windows and the new one
  on Linux; the servers ignore it.

## 5. Proofs

`PostQueueProofs` (335 obligations) assumes only what the constants declare:
any set of threads, any `MaxPosts`, `PairCap`, `RecvLen`.

- `TypeCorrect`: `TypeOK` is inductive.
- `WakeupNeverLost`: `NoLostWakeup` is inductive with the types: a byte is
  missing only while its writer is between `Push` and `Signal` or the loop is
  between wakeup and swap.
- `NothingLost`, `NeverReentrant`: by `AccountInv`, which adds to `Accounted`
  that `mark` is the number of messages delivered or in the batch since the swap
  (`BatchInv`); without it a dispatch could pass the mark.
- `OrderKept`: `PostedInOrder`, that `posted` numbers each thread's messages 1,
  2, ..., is inductive; `delivered` is a prefix of it by `Accounted`.
- `QueueImplementsChannel`: initial states and steps map to those of
  `AsyncChannel`; its liveness part is checked by TLC (`ImplementsChannel`).

`TimerQueueProofs` (619 obligations):

- `TypeCorrect`, and `NoTimerEarly` by `EarlyInv` (the clock that `CheckTimer`
  has read is not ahead of `now`, and what it collected had expired by it).
- `AllAccounted`, for runs in which no ID was given twice (`IdsDistinct`):
  `insert` then never meets an equal key. `BatchEmpty` adds that the batch is
  empty outside firing. `TimersConserved` and `RefusalIsHonest` are its halves.
- `LossNeedsWrap`, without any assumption: a timer that `insert` drops had the
  expiry and the sequence part of one created a multiple of `SeqMod` creations
  before. `WrapInv` adds that the last sequence part given follows the creations
  (`SeqInv`) and that timers created fewer than `SeqMod` creations apart have
  different ones (`CloseDiffer`).
- `OnlyCreationPasses`: `PassedByCreation` is inductive with the types and
  `EarlyInv` (`NextInv`).
- `FewTimersDistinct`: with `MaxTimers <= SeqMod` no ID is given twice, so that
  `AllAccounted` applies to every run of up to 2^20 timers.
- `FiredInOrder`, again for distinct IDs, by `OrderInv`: a timer that should fire
  before one of the batch is no longer in the map (`BatchInOrder`).

`TcpSocketProofs` (3846 obligations), for any sockets and descriptors. With
`CrossCalls` either way:

- `NoDescriptorLost` by `TcpInv`. A descriptor belongs to the socket that holds
  it (`DescriptorsOwned`), which is inductive only with what each socket's type
  says of its descriptor (`TypesInv`), that a socket not yet established has no
  event or registration but its own (`NewInv`: a stale event must not connect a
  socket without a descriptor), that the socket `RunOnce` is busy with was
  established before (`StackInv`), and that close messages are of closed sockets
  (`MsgsInv`).
- `DeletedIsForgotten`: `NothingForDeleted` by `FreeInv`. It adds to `TcpInv` that a
  close message is under way once, for a socket not yet told (`QueueInv`); that what
  the user was told of a socket goes with its type and registration (`Sound`), and
  that kernel and batch know a socket that is not `exposed` only while it is in use,
  and not twice (`Known`); and for the socket whose turn it is, closed by now, that a
  descriptor it could still write to is in the epoll set (`FreeTurn`).

and with `~CrossCalls`, the discipline:

- `WatchesRight` and `SocketsLive`, both by `LifeInv`. It adds to `TcpInv` one clause per state of a socket, that ties its type,
  buffers, event mask and the kernel's registration (`SocksOk`); that the kernel
  and the batch know only sockets in use, each by one descriptor and one event
  (`KernelInv`, `EventInv`); that a close message is under way once, for a socket
  not yet told (`QueueInv`); and that the socket whose turn it is has no other
  event in the batch and, once closed, a descriptor nobody else has got
  (`TurnInv`). The last is what calls across sockets break.
- `SocketsLive` is the refinement of `SocketLife` without its liveness: initial
  states, and every step a step of `SocketLife` or a stutter.

`IocpSocketProofs` (1163 obligations), for any sockets:

- `TypeCorrect`; `FlagsAreTrue` by `FlagsInv`, which adds that during a callback
  no packet is in hand (`CallbackHand`).
- `NothingAfterClear` by `StatusInv`: what each status allows of flags, life and
  close messages.

`AcceptProofs` (1614 obligations), on epoll for any connections and processes:

- `ListenerLetGo` by `ListenInv`: events, messages and backlog of the listener
  follow from its state.
- `TypeCorrect` by `TurnInv` and `LinkInv`; `TurnInv` has that `m_iCurProcess`
  indexes a process that started.
- `OneLoopEach`: `OneLoopPerSocket` is inductive with these two; a socket that is
  posted or closing has exactly one message, in the queue of its process.

and on IOCP for any numbers of peers, posts and datagrams:

- `OperationsComeBack` and `ClosedIsIdle` by `IocpInv`, which adds where a packet
  may be in hand (`LoopTypes`) and what the life of the listener says of its
  accepts (`AcceptInv`): none before `OpenAccept` nor during `OnAccept`, and none
  once `OnClose` is under way, unless `Close` was called in `OnAccept`.

`EchoProofs` (3507 obligations), for the streams of any peer and for the stress
client with any length and number of packets, by `PairInv`:

- `FramesPackets` by `RecvInv`: the bytes taken are the packets parsed
  (`Upto`) and those in hand, and what is asked for ends in the header or at the
  end of the packet in hand (`Asks`), so that no `recv()` can take a byte of the
  next packet. `Framed` is what `CheckBuffIntegrity` then says.
- `AnswersAreExact` by `SendInv`: one `DoSend` is pending for the rest of
  `m_sending`, and everything that waits has the length which `m_sending` keeps.
  Its hypothesis `EqualAnswers`, that the echoed packets of a stream have one
  length, is what `OnSend` relies on; without it the property is false
  (`echo_two_lengths`). The client's own packets meet it.
- `EchoesAreTrue` by `ClientInv`: the bytes the client has written are its packets
  up to the one in `m_sending` (`Writing`), those it has read are the echoes and
  the bytes in hand (`Reading`); what the session sent is a prefix of the stream
  by `SendInv` (`OutInStream`), whatever the `OnSend`s of either side are late for.
- `PlaysPingPong`, the refinement of `PingPong` without its liveness. It needs
  that a timer or a packet without an echo is alone (`OneAtATime`), and that
  there is no echo of a packet that was not made (`ReadMade`), which goes through
  all the counts: echoes, read, sent, taken, written, made.

`LogQueueProofs` (1937 obligations), for any threads, loggers, levels and numbers
of messages, by `LogInv`:

- `TypeCorrect`.
- `AcceptedOnceInOrder` by `FlowInv`, that files with their buffers, the message
  in hand and the queue hold different messages, each earlier than what follows
  (`Ahead`), and by `Numbered`, that no message yet to come has a number in use.
- `RestSettles` by `Phases` (where the thread can be while `Start` or `Stop` is at
  each of its places), `Buffers` (only an open file buffers, and what is in a buffer
  is to be flushed unless the last flush failed) and `EndsSettled` (what came in time
  is settled when the thread ends, but for what a failed flush has left to the
  closing of the files).

`PartsProofs` (4188 obligations), for any length of a second, any number of
datagrams, blocks and elements, any capacities and any width of the counters;
and for `Streams` under `StreamAssumption`, which says of the constants what the
types of the code say: a byte has at least two values and an integer at least one
byte, `maxStreamLen` and the elements of a container are Integers, a string is of
bytes. Strings and containers may have any length.

- `FailedWaitsWaited` by `WaitInv`: the timespec of a pending wait, carried or
  not, stands for the moment `since + timeout` (`TimespecIsEnd`); an interrupted wait
  is what its answer says it is and claims nothing of its length.
- `ArmedWhileReceiving` by `ArmedInv`, that a UDP socket which was not opened has
  no request pending; the state part of `UdpAnswered`.
- `ComesOutInOrder` by `QueInv`: the cells between the two counters hold the next
  elements. Its hypothesis `SumsFit` says that a full queue and one push stay below
  2^32 (`Wrap`); beyond it the sum in `Room` would wrap and the queue would take
  what it has no room for. Fewer than 2^31 elements in queue and push meet it.
- `FreeListWhole` by `PoolInv`: `CObjectPool` has a path of `m_nFreSize + 2` nodes
  through exactly the free ones (`Path`), a witness that each step shortens at its
  head or extends at its tail; `Chain`, the recursive function of the property, is
  then that path (induction over its length). `CObjectPool2` lists each free node
  once (`Listed`).
- `HeaderSaysLength`: `HeaderTrue` by `HeaderInv`, that the data is as long as the
  cursor says (`Writers`) and that the header has the length in it from the first
  value on (`Fixed`), whichever pieces of the later values threw. That what is in
  the header is also what is read from it is `IntegerBack`: the bytes of a number
  below `MaxInteger` sum up to it again (`LittleBack`, by `ShiftedOut`: after
  `IntegerSize` shifts nothing of it is left), and what one byte order swaps the
  other swaps back.
- `ReadsBackWhatWasWritten`: `ReadsBack` by `BackInv`: there are places `at` such
  that value `i` lies in the packet behind `at[i]`, one behind the other
  (`LayoutIn`), and the reader stands behind the values it has read (`Reading`).
  A `<<` that does not throw puts all its pieces (`WrittenPlaced`), so a container
  too large for its Integer is never in a packet (`ContainerHeld`).

Induction over numbers is done without the library's schema, which has an
operator as a parameter: a set of numbers that is not empty has a least element,
since `<` is well founded (`LeastOf`, `InductiveSet`, `UpTo`). Recursive functions
such as `FlattenSeq`, `Shifted` and `Written` are unfolded by this too
(`FlattenedBy`; `StepByStep` gives the function that their equation asks for).

The type invariants of the eight are inductive parts of these proofs and stand
in no run of their own. Only model-checked: every liveness property, `Answered`
among them, and the fairness part of the three refinements (`ENABLED` is beyond
the prover).

## 6. Not modelled

- log4z: formatting, colours, the parser of the configuration file; the status
  counters, two of which are read one after the other without the lock
  (`log4z.cpp:309`).
- thread4z: `CLock` is the atomic sections of the other modules, `CThread` the
  starting steps of `LogQueue` and `AcceptHandoff`, the atomic counters only count.
- `CTcpAccept::Close` called by a user on epoll, which `CSchedule` never does.
- Clock helpers (the external `Tick`), minidump, build files, benchmark drivers,
  statistics of the examples, the abstract interface classes.
- Invalid arguments and null callbacks, which the code answers with false, and
  out-of-memory failures, everywhere.
- A step back of the wall clock, which delays timers.

## 7. Plan

Done: every component with control of its own, on both platforms; the two
abstract specifications of the network (`AsyncChannel`, `SocketLife`) and the one
of the application (`PingPong`) with their refinements; proofs for every one of
these components and of all the safety properties that the runs check.

Left, in this order:

1. `IocpSocket` against `SocketLife`: its safety part, since its liveness fails
   (`iocp_reclaimed`).
2. The status counters of log4z.
