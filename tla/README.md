# im_test: a verification project

TLA+ models, TLC runs and TLAPS proofs of the instant-messaging test system in
this repository: `route_server`, `im_server` and `im_client` on a small
callback-based network library.

## 1. The system

```
 im_client  --->  im_server  --->  route_server
 (users)    <---  (sessions) <---  (which im_server has a user)
```

Every process is one thread in `CEventDispatch::StartDispatch()`.  There is no
request/response: a login is a PDU that is never answered, a message a PDU that
is forwarded or dropped.

### Components

| Component | State | Operations | Modelled in |
|---|---|---|---|
| im_server (`imconn.cpp`, `im_server.cpp`) | `g_conn_map` (handle to session), `g_user_map` (user to session), `g_route_conn`; per session `m_state`, `m_userId`, `m_conn_type`, `m_busy`, two buffers | start, accept, confirm, login, message from a client or the route_server, close | `ImServer`, `ConnStream` |
| route_server (`RouteConn.cpp`, `route_server.cpp`) | `g_route_conn_map`, `g_route_user_map` (user to im_server); per connection `m_busy`, two buffers | accept, online, offline, message, close | `RouteServer`, `ConnStream` |
| im_client (`imconn.cpp`, `im_client.cpp`) | one `CImConn` per simulated user; `g_user_map`, `g_route_conn`, the rate | connect, login, timed sending to drawn ids, receive, close | `ImClient`, `LoadGen` |
| netlib sockets (`BaseSocket.cpp`, `netlib.cpp`) | `g_socket_map`, `m_state`, `m_refCount`, `m_callback` | listen, connect, accept, send, recv, option, close | `SocketRef`, `AcceptLoop`, `ConnStream`, `SelectStream` |
| reference counts (`CRefObject` of `util.cpp`) | `m_refCount`, `m_lock` | `AddRef`, `ReleaseRef`, `SetLock` | `SocketRef` (no lock), `LockedRef` (with one) |
| event dispatch (`EventDispatch.cpp`) | event set, timer list | wait, dispatch, timers | `ConnStream`, `SocketRef`, `AcceptLoop`, `EventTimer` |
| PDU codec (`impdu.cpp`) | none | framing, encoding, decoding | `PduCodec`, `ConnStream` (framing) |
| buffers and byte streams (`util.cpp`) | allocation, offset, position | append, consume, integers, strings, data | `SimpleBuffer`, `ByteStream`, `FixedStream` |
| threads (`CThread`, `CEventThread` of `util.cpp`) | `m_bRunning` | start, stop, tick | `EventThread` (partly) |
| locks (`CThreadLock`, `CFuncLock`) | a recursive mutex | lock, unlock | `LockedRef`, `LogFile` |
| logging (`log()` of `util.cpp`) | `log_fp`, `file_no`, `s_log_lock` | write a line, rotate | `LogFile` |
| Windows and macOS branches | interest in writing per socket | select, kevent | `SelectStream` (partly) |
| Makefile | | | not modelled |

### How they interact

* `im_client` connects for each user id, logs in on the confirm
  (`OnConfirm`), and from a 50 ms timer sends messages to random users.
* `im_server` enters a login in `g_user_map` and, if it has `g_route_conn`,
  reports it.  A message goes to the session `g_user_map` has for the
  addressee, otherwise to the route_server.  The close of a session takes its
  user id out of `g_user_map` and is reported as offline.
* `route_server` keeps the im_server of each user and forwards or drops.  When
  a connection to an im_server ends it forgets that im_server's users.
* Below: `CImConn` and `CRouteConn` find their object by descriptor in a map,
  send through `netlib_send()`, keep what the kernel did not take in
  `m_out_buf`, and continue on the next `OnWrite()`.

### What is hard

The two tables are updated by different processes from reports that are still
on their way, and both by key: `insert` keeps an old entry, `erase` removes
whatever is there.  Processes end at any moment.  Edge-triggered epoll reports
each condition once.  Objects are deleted by reference count under callbacks,
and descriptors are reused.  Ticks wrap.  `PROJECT.json` lists each hazard with
its line and the properties that cover it.

### What makes each component correct

* im_server: no map names a closed object; a session that is open is found (if
  a user has one session); local delivery works without a route_server
  (README.md:9).
* route_server: no entry of a closed connection; an entry is backed by a
  session or about to go; nothing is sent back where it came from.
* connection: what `Send()` was given is handled whole, in order, once, and
  in the end.
* sockets: deleted exactly when unreferenced; an event reaches its own object.
* timers: due timers are called, others not; the walk survives deletions and
  a clock that is set.
* the whole: a user reads a message that was sent to it, once, in the sender's
  order, or not at all (`Messenger`).
* codec and buffers: what is decoded is what was encoded, and no access leaves
  the allocation.
* load generator: who passes for the route connection, and that no range of ids
  stops it.
* locks, threads and log: no update of a count is lost, calls return, a started
  thread is there, lines stay whole.

## 2. Modules

| Module | Content |
|---|---|
| `ImNet` | PDUs, channels, and the state of both ends of each connection |
| `ImServer`, `RouteServer`, `ImClient` | one process kind each: its state and one action per callback |
| `ImSystem` | the three composed; safety and liveness properties; implements `Messenger` |
| `Messenger` | what the system promises its users (abstract) |
| `ImInv` | the inductive invariants of `ImSystem`: `RouteInv` of the tables, `SessionInv` of a user with one session, `OrderInv` of the messages |
| `ImSystem_proof` | theorems about `ImSystem`: types and maps, the route table |
| `ImSession_proof`, `ImOrder_proof` | theorems about `ImSystem`: users with one session; the order of messages, `Messenger` |
| `ConnStream_proof` | theorems about `ConnStream`: the stream is intact, `PduChannel` |
| `Socket_proof` | theorems about `SocketRef` |
| `Timer_proof` | theorems about `EventTimer` |
| `Codec_proof` | theorems about `PduCodec` and `FixedStream`, and the lemmas about `ByteStream` they rest on |
| `Library_proof` | theorems about `AcceptLoop`, `EventThread`, `SelectStream`, `LoadGen`, `LogFile`, `LockedRef`, `SimpleBuffer` |
| `PduChannel` | what a connection promises to the code above it (abstract) |
| `ConnStream` | `Send`, `OnWrite`, `OnRead`, `ReadPdu` on bytes, with epoll; implements `PduChannel` |
| `SelectStream` | the sender with `select()` or kqueue, where interest is asked for; implements `PduChannel` |
| `AcceptLoop` | backlog, edge-triggered listening socket, accept loop and the descriptor limit |
| `SocketRef` | `CBaseSocket` table, reference counts, descriptors |
| `LockedRef` | `CRefObject` with a lock, used by several threads |
| `EventTimer` | timer list of `CEventDispatch` |
| `ByteQueue` | a queue of bytes (abstract) |
| `SimpleBuffer` | `CSimpleBuffer` with its 32-bit sums; implements `ByteQueue` |
| `ByteStream` | the operators of `CByteStream`, as functions of a stream |
| `FixedStream` | a program that writes to and reads from a fixed buffer with them |
| `PduCodec` | a program that encodes, sends, frames and decodes PDUs with them |
| `LoadGen` | `main()` and `imconn_timer_callback()` of im_client |
| `EventThread` | `CThread` and `CEventThread` |
| `LogFile` | `log()` in threads and processes |
| `MCLibrary` | the parts from `SelectStream` down, side by side: one of them runs, chosen at the start |
| `MCImSystem`, `MCConnStream`, `MCSocketRef`, `MCEventTimer` | instances for TLC |

### ImSystem and the code

An action is one callback for one PDU.  `OnRead()` may handle several PDUs in
one call; since nothing else runs in the process meanwhile, and the other
processes only see the channels, that is a sequence of these actions.

| Code | Action |
|---|---|
| `im_server.cpp` `main` | `ImStart` |
| `CImConn::OnConnect` / `OnRead` / `OnClose`, `Close` (accepted) | `ImAccept` / `ImRead` with `HandleOnlineRequest`, `HandleMsg` / `ImOnClose` |
| `CImConn::OnConfirm` / `OnRead` / `Close` (route connection) | `LinkConfirm` / `LinkRead` / `LinkClose` |
| `CRouteConn::OnConnect` / `OnRead` / `Close` | `RouteAccept` / `RouteRead` / `RouteClose` |
| `CImConn` in `im_client` | `CliConnect`, `CliConfirm`, `CliTimer`, `CliRead`, `CliClose` |
| a process that ends; starts | `ImCrash`, `RouteCrash`, `CliKill`; `RouteStart` |

A channel (`c2s`, `s2c`, `s2r`, `r2s`) holds the PDUs between `Send()` and
`ReadPdu()`.  An end that closes or crashes leaves `Eof` behind, after a prefix
of what it had sent.  The receiver sees `Eof` as an event of its own, or
swallows it with the last PDU (`Drained`: the receive loop stops on 0 as it
does on EAGAIN); then it learns of the end only when it sends (`PeerGone`).
`g_conn_map` and `g_route_conn_map` are not variables: their content is the set
of connections that are open.  `announced`, `inbox` are history.

`link = "STUCK"`: a message to user 0 finds the route connection itself in
`g_user_map[0]`, before it is confirmed too.  That send sets `m_busy`, the only
EPOLLOUT is taken for the confirm, and nothing is ever sent on the connection.
`ConnStream` has the mechanism (`Early`); in `ImServer` the reports of such a
connection stay where they are.

### ConnStream and the code

One direction of a connection, bytes as pairs of PDU and index.  `Send`,
`OnWrite` are those of `CImConn` and `CRouteConn` (the same code).  The
receiver's `OnRead` is `Receive`, the bytes that have arrived, then `ReadPdu`
for each PDU that is complete (`PduAvailable`); it receives again only when none
is.  `NextByte` and `InTransit` are for the property: the three buffers, one
behind the other, go on byte by byte from the first PDU not handled to the last
that was sent.  The epoll part is
`SenderRead` (IN, with or without OUT), `SenderConfirm` and `SenderWrite` (OUT
only).  External: the kernel buffer (`Cap` bytes, it takes all it has space
for), and that it announces space once after a send that fell short.

### SocketRef and the code

A call of the library is the list of its steps (`todo`): lookup, the load and
the store of `m_refCount++`, the call itself, the load and store and test of
`m_refCount--`.  The dispatcher's call has the step "callback", in which the
program's calls nest.

### EventTimer and the code

`AddTimer`, `RemoveTimer`, and `_CheckTimer` as `WalkBegin`, `WalkItem`,
`CallbackReturn`, `WalkEnd`.  `due` is history: `next_tick` without the wrap.

The clock may be set back by up to `MaxBack` (`SetBack`); `high` is history, the
latest time so far.

### Messenger and ImSystem

`ImplementsMessenger` maps `pending` to the messages in any channel with the
session that sent them, and `inbox` to itself.  A step of a server that moves a
message from channel to channel is a stutter, a drop, a close or a crash is
`Lose`.

### SelectStream, AcceptLoop and the code

`interest` is membership in `m_write_set`, or the EVFILT_WRITE of kqueue:
`AddEvent` in `Connect` and in `Send` on EWOULDBLOCK, `RemoveEvent` in
`OnWrite`.  `Report` is the wait, `OnWrite` the dispatch later in that round.
`Send` on a socket that is not confirmed (`Early`; a message to user 0 does it)
is refused by the socket, and all of it is queued.  `missed` is history: the
queue was there at the confirm, whose `OnWrite` has dropped the interest, or a
send took a part, after which nobody asks.  `FlushAsked` says that these are the
only two ways for a queue to be without its event, and that there is no way back.
External: the kernel (`Cap`; `Partial`, whether a send may take a part) and the
other end (`PeerReads`).  The bytes are numbered from 1, so `Handled` can tell
which PDU the other end has read, if they are one at all.

`AcceptLoop` has `_AcceptNewSocket()` as `AcceptEvent` (the call), `AcceptOne`,
`AcceptFails`.  External: the backlog and the edge that each arrival makes.

### SimpleBuffer, ByteStream, PduCodec, FixedStream and the code

`Write`, `Read` are the functions of that name, `Receive` is a turn of the loop
in `OnRead()`: `Extend`, `recv` into the room, `IncWriteOffset`.  All sums are
modulo `Wrap`.  `outside` records an access beyond the allocation.

`ByteStream` is an operator per operator of `CByteStream`, on streams `[buf,
pos, simple]` with base `Base` in place of 256.  In `PduCodec`, `Encode` and
`DecodeRequest`, `DecodeMsg` are the constructors of `impdu.cpp`, `Handle` is
`ReadPdu` with the assertions.

### LoadGen and the code

`Connect` is a turn of the loop in `main()`; `Confirm` and `OnClose` the
callbacks with what they do to `g_user_map` and `g_route_conn`; `TimerDue`,
`PickIdle`, `PickOpen` and `Trap` the timer callback, round by round.
`Drawn(min, max)` is the set of values of `rand() % (max - min) + min`.  The
destination range is one of `DstMaxes`, so that one instance has both a range
and a single id, for which the division traps.

### LockedRef, EventThread, LogFile and the code

One action per step that another thread can come between: the lock, the load
and the store of the count, the test, `delete`; the store of `m_bRunning` and
the creation of the thread, the test of the flag and the tick; in `log()` the
lock, `fopen`, the two parts of a line, the test of the size.  A process of
`LogFile` is a group of threads with its own lock, file and number.

### MCLibrary

These modules share no state and no code path, so their product says no more
than each alone.  `MCLibrary` therefore has a variable `part`, fixed at the
start, and only the module it names takes steps; the reachable states are the
sum of theirs, and an invariant is checked over every behaviour of its module.

## 3. Runs

| Run | Bounds | What it shows |
|---|---|---|
| `roam` | 2 im_servers, 2 sessions of 1 user, 1 message, to the user or to 0; all crashes | types; `NoDanglingEntry`, `NoDanglingRoute`, `RouteEntryBacked`, `ImplementsMessenger` |
| `relogin` | 1 im_server, 2 sessions of 1 user, 1 message, to the user or to 0 | the inductive invariant `SystemInv`, where sessions erase one another; `NoEcho` |
| `apart` | 2 im_servers, 2 users, 2 messages to one of them | `SessionRegistered`, `AnnouncedIsRouted`, `UnreportedUnrouted`; `ImplementsMessenger`: order of one sender's messages |
| `local` | 1 im_server, 2 users, messages to each other and to 0, fair | `LocalDelivery`, `LoginReachesRoute` |
| `stream` | 5 PDUs of 2 to 5 bytes, kernel buffer of 4, both directions, early sends, fair | types; `StreamIntact`, `WakeupPending`, `ImplementsChan` |
| `lifecycle` | 4 sockets, 3 descriptors, a second thread that waits its turn | types; `NoUseAfterFree`, `RefCounted`, `NoLeak`, `EventOfItsSocket` |
| `threads` | the same, second thread unrestricted | violates `NoUseAfterFree` (finding) |
| `timers` | 2 timers, ticks modulo 4, time up to 5, clock set back by 1, fair | types; `IteratorValid`, `WaitBounded`, `FiresWhenDue`, `CatchUp` |
| `deltimer` | no wrap, callbacks delete any timer | violates `IteratorValid` (finding) |
| `library` | one part at a time, see below; fair | `FlushAsked`, `ImplementsChan` (select), `StrandedOnlyStarved`, `InBounds`, `ImplementsQueue`, `RoundTrip`, `ReadBack`, `ZeroIsRoute`, `RefsCounted`, `CallsReturn`, `StartStopKept`, `LogKept` |
| `partial` | select: 6 PDUs of 3 bytes, kernel buffer of 4, partial sends, none before the confirm, fair | violates `AllArrive` (finding) |
| `oneid` | one source id | violates `NeverTraps` (finding) |

Why the bounds are enough: the interesting conflicts are between two sessions
of one user, or two im_servers over one user; a crash adds at most one prefix
per channel; a second message is needed only for order, and `apart` has it.  In
`ConnStream` the PDUs are a bare header, shorter and longer than the kernel
buffer, so that each split (in the header, in the body, between PDUs) occurs.
`relogin` has the case `NoEcho` is about: a session's close erases the entry of
another, which then sends to its own user, and the im_server forwards the message
while the route_server still names it.  In `roam` each im_server has one session
of the user and delivers itself what that one sends.
Three descriptors are a listener and two connections, four objects give reuse
of a descriptor.

The parts of `library`:

* select: 6 PDUs of 3 bytes, a kernel buffer of 4, partial and early sends.
* accept: 4 clients, 2 descriptors, a backlog of 3: accept fails with clients
  waiting, and arrivals wait.
* buffer: sizes modulo 32, reads of 4, 27 bytes put in, 25 held.  With `Limit`
  at four fifths of `Wrap` the largest allocation comes just below the wrap, as
  with 32 bits; `Limit` is the precondition the code has and does not check, and
  `MaxPut` above it makes the buffer empty and refill.
* codec: 2 PDUs of all three types, cut anywhere; fixed: 4 of all kinds of items
  in 9 bytes.  The lengths of fields in bytes are those of the code, only the
  bytes are base 4, so that the longest string whose length and 0 a byte counts
  has 2 characters (there are longer ones, too) and every byte of an id is of use.
* load: source ids 0..2, destinations 1..1 or 1..3, 5 per second in 2 timers.
* ref: 2 threads, 2 objects that share a lock; two locks are two such instances.
* worker: 3 threads over starts and stops of one object give two that outlive
  their stop and one that lives.
* log: 3 processes, one of two threads, ids modulo 4 so that two processes have
  one name; two lines by one thread, one by each other, files full after two
  parts, so that a process rotates; `fopen()` fails at will.

In `timers` the bound `MaxDue` is `MaxClock` plus the longest interval: only a
timer called early, across a wrap, gets beyond it, and `CatchUp` says so.

`MaxMsgs`, `MaxPdus`, `MaxEncoded`, `MaxPut`, `MaxItems`, `MaxLines`, `MaxHolds`,
`MaxBacklog`, `MaxClock`, `MaxDue`, `MaxBack` are the only caps.

`SessionRegistered`, `AnnouncedIsRouted`, `UnreportedUnrouted`,
`LoginReachesRoute` need one session per user, `UserOf` injective: with more they
are false of this code (while one is open the login of a second finds the key
taken, and the first close erases it; after roaming an offline report may come
behind the next login).  That is a limit of the design that no document denies;
the properties that hold then are those of `roam` and `relogin`.

`LoginReachesRoute` moreover exempts `link = "STUCK"`: once a message to user 0
was given to the route connection before its confirm, no login reaches the
route_server (imconn.cpp:393).  `local` sends to id 0 and has that case.

CHECK_DEADLOCK is FALSE where the system really may stop (all clients gone, all
bytes sent).

### Fairness

`ImSystem!Fairness` and `ConnStream!Fairness`, `EventTimer!FairSpec`: an event
loop returns to every ready connection, and to `_CheckTimer()`.  This is what
`StartDispatch()` does as long as callbacks return, and they do not block
(sockets are non-blocking).  Nothing is assumed of users, crashes, or starts.

`MCLibrary!Fairness` is the same claim in the small, for the parts with liveness
when it is they that run.  `SelectStream`: the event loops run.  `LockedRef`: threads run, and a mutex that becomes free again and
again is given to each thread that waits (strong fairness of `Lock`, what a fair
scheduler makes of a pthread mutex).  The other parts
have safety properties only.

`local` takes each channel to deliver, which is `PduChannel`'s promise.
`ImplementsChan` of `stream` shows how far the code keeps it: always its safety,
and its liveness unless a wakeup goes missing for good, or one after the other
(`missed`).
`StartDispatch()` calls `OnWrite()` only when IN is not reported with OUT
(EventDispatch.cpp:332-341), so a queue can be left without a wakeup;
`WakeupPending` says exactly when.  The liveness of `local` therefore is that of
a system whose kernel buffers do not fill while traffic goes both ways.

### Findings

1. `BaseSocket.h:2` calls the class thread safe; its locks are commented out
   and the reference count is a plain `int` (`threads`).
2. `EventDispatch.cpp:85` means to make deletion in a callback safe; it is safe
   for the running timer and not for the next (`deltimer`).
3. `EventDispatch.h:3` calls the dispatcher portable; with `select()` and kqueue
   a send that was taken in part asks for no event, and the rest of the queue
   stays (`partial`, without the sends before the confirm that epoll loses as
   well).  `stream` shows that epoll's edge covers this.
4. `im_client.cpp:25` takes any closed interval of source ids; with one id the
   process dies of a division by zero (`oneid`).

No program of this repository has a second thread or deletes a timer: 1 and 2
are defects of the library.

Seen while modelling, and part of the models: the last id of either range is
never drawn (`Drawn`), `pkt_per_second` is divided by 20 without the remainder
(`PktPerTimer`), `WriteStdString()` of 255 characters writes a size of 0 and
nothing else, although util.cpp:398 says that it "will always have at least 1
byte" (`StringSize`; `ReadBack` claims nothing of a string that long but that
what follows it is read whole), and a timer whose next tick lies beyond a wrap is called at every
walk (`FiresWhenDue`, `WaitBounded`).

## 4. Proofs

Every theorem holds for all values of the constants that satisfy the assumption
of its module: finite or infinite sets of users, servers and connections, any
number of messages, PDUs, sockets, descriptors and threads, any width of sums
and ticks.

### ImSystem

From `NetAssumption` (id 0 is no client's user id, the values that mark absence
are no connections or servers).

*The tables* (`ImSystem_proof`): `TypeCorrect`,
`NoDanglingEntryHolds`, `NoDanglingRouteHolds`, `RouteEntryBackedHolds`,
`NoEchoHolds`.  None of these properties is inductive.  `NoDanglingEntry` needs
that a session is in `g_user_map` under `m_userId` only, as close erases that one
key; that in turn needs that a login names the connection's own user
(`OwnLogin`), since a second login under another id would leave the first entry
behind: `MapInv`.  `NoEcho` and `RouteEntryBacked` depend on what is in the
channel *behind* the table: when im_server *s* forwards a message for *u* it has
no session of *u*, so it has sent an offline report after every online report,
and the channel keeps the order.  `LinkInv(s)` says this of every report and
message in the channel, at every position; `RouteInv` is the conjunction over
all *s*.  It holds although sessions overlap, because an online report is only
sent when `g_user_map` has an entry afterwards.

For the channels there is one lemma per way an action can change one and the
tables at its two ends (nothing relevant, confirm, login, logout, message, end,
read), each with a step per conjunct of `LinkInv`; the lemmas `LinkInvIm` and
`LinkInvRoute` assign every action to one of them.  The conjuncts of `MapInv`
have a lemma each, with a step per action.

*Users with one session* (`ImSession_proof`): `SessionRegisteredHolds`,
`AnnouncedIsRoutedHolds`, `UnreportedUnroutedHolds`, each with the hypothesis
`OneSession`, `UserOf` injective, without which they are false (section 3).
`SessionInv` says where the login and the logout of such a session may be: it is
in `g_user_map` until it closes (`SessionKept`), nobody but its im_server has its
login and nobody its logout before it closes (`ReportsOwn`), and a login that was
reported is recorded or in the channel while both ends live (`ReportKept`).  An
entry can then only be erased by the session's own close.

*The order of messages* (`ImOrder_proof`): `ImplementsMessengerHolds`, every
step of the system is a `Post`, a `Deliver`, a `Lose` of `Messenger` or a
stutter.  The steps themselves show that a message is not duplicated, as each
takes at most one message from one place to the next (`Posted`, `Moved`, `Lost`);
that it is read in the order of its sender needs `OrderInv`.  A message can go
two ways, over one im_server or by the route_server, and two messages of one
sender to one user could overtake each other where the ways meet, in `s2c`.
`OrderInv` says that a place further on along a way has older messages of a
sender than one before it (`Onward`, `Before`).  That the two ways do not join
for one addressee is what `NoEcho` is good for: what the route_server sends to an
im_server did not come from there, so it is of other senders than what goes
straight through.

TLC checks `SystemInv`, all of this but `SessionInv`, in `relogin`.

### ConnStream

`StreamTypes`, `StreamIntactHolds`, `WakeupPendingHolds` and
`StreamImplementsChannel` (the safety half of `ImplementsChan`), from
`StreamAssumption`: lengths are at least that of a header, and the kernel buffer
holds a byte.  The invariant `Whole` says of each byte in transit that the rest
of its PDU is there and, behind that, the next PDU; so it survives any cut by
`send()` and `recv()`, which move bytes between the buffers and leave their order
(`MovedOn`), one more PDU at the end (`WholeAnd`), and one taken off the front
(`WholeButFirst`).  `WakeupPending` needs in addition that with the kernel buffer
full the wakeup to come is the one for space, since one that is only for data
may be used up without a write (`Wakes`), and that before the confirm the socket
is on the ready list and nothing has left it (`Connecting`).

### SocketRef

`SocketTypes`, `NoUseAfterFreeHolds`, `RefCountedHolds`, `NoLeakHolds`,
`EventOfItsSocketHolds`, with the hypothesis `Serialized`: other threads wait
until no call is under way.  Without it they are false, as the run `threads`
shows; no program here has a second thread.  `SockInv` describes each call by the
steps it has left: which object it has found, and that what it has read of the
count is still so (`Calls`, `Found`), whose turn it is (`Turns`: a callback's
calls come between two steps of the dispatcher's), that the table names open
objects (`Table`), that a count is the table entry's reference and those the
calls hold (`Counts`), and that the events left to dispatch are of descriptors
still open, the one under way excepted (`Batch`).  The last is why an event is
handled by the socket it was reported for although descriptors are reused: a
callback closes no socket but its own.  `RefCounted` itself counts references by
the steps left to do; the last part of the module shows that this is what
`HeldOf` says.

### EventTimer

`TimerTypes`, `IteratorValidHolds` (with the hypothesis `SelfOnly`, callbacks
delete no timer but their own; `deltimer` shows that it is needed),
`FiresWhenDueHolds`, `WaitBoundedHolds`.  `TimerInv` ties `next_tick` to the time
without the wrap, and the walk to the list: outside of a walk nothing runs, the
iterator has left the timer that runs, and it is on one of the list.
`TickCompare` is the fact about ticks: they compare as the times do except
across a wrap.

### PduCodec and FixedStream

`RoundTripHolds` and `ReadBackHolds` (`Codec_proof`), from the ranges of the C
types (`CodecAssumption`, `ItemAssumption`): a byte has an even number of values
from four on (the code has 256), ids have four bytes, a length of data has two
or four.  `Base > 3` is there because the type of a PDU, up to 3, is one byte.

There are three layers.

* *Integers.*  `FromBytes` and `Power` are recursive functions, but over four
  bytes at most, so no induction is needed: each is what its equations say,
  written out for one, two and four bytes (`FromBytesIs`, `Powers`).  What n
  bytes of `v` read as is `v` modulo `Power[n]` (`Remainder`), which is `v` for
  an unsigned integer and, with the highest bit of the first byte as the sign,
  for a signed one (`UnsignedBack`, `SignedBack`).
* *Streams.*  `BytesAt(buf, pos, b)` says that the bytes `b` are in a buffer at a
  position.  What was written one behind the other is there part by part
  (`AtParts`); reading depends on nothing else (`GetIs`, `ReadDataIs`,
  `ReadItemIs`), and writing behind a position changes nothing before it
  (`WriteByteIs`, `BytesStay`).
* *Programs.*  `CodecInv`: the bytes in `m_in_buf` and on their way are those of
  the PDUs sent and not yet handled, one behind the other.  There is no operator
  that concatenates any number of PDUs: the invariant says that there are
  `rest[i]`, what is left when `i` PDUs have been handled, each the bytes of a
  PDU and the rest behind it (`Rests`).  Sending puts its bytes behind each
  (`SendInv`), receiving leaves the whole as it is (`ArriveInv`), and when
  `_IsPduAvailable()` says so the buffer begins with all bytes of the next PDU
  and no decision depends on those behind it (`Arrived`, `HandleInv`): this is
  where a cut in a header or in a field would show.  `FixedInv`: the items that
  fit are in the buffer one behind the other, and later writes, whether they fit
  or not, go on behind the last.

The two are stated with `\E` over functions of bytes, so TLC cannot evaluate
them; it checks what follows, `RoundTrip` and `ReadBack`, in `library`.

### The rest of the library

`Library_proof`, each part by itself:

* `StrandedOnlyStarvedHolds` (inductive as it stands), `StartStopKeptHolds`.  At
  most one late tick per worker needs to be known of the worker *between* its
  test of the flag and its tick: it has not ticked since the stop, and no other
  can pass the test (`WorkerInv`).  A started object has a worker because the
  flag is set before the thread is created, so none ends while a start is under
  way.
* `FlushAskedHolds`, for partial sends and sends before the confirm too.
  `SelectInv` adds that a socket asks for its event while it connects and, once
  connected, only for a queue: otherwise a report left over from before could
  take back what a later `Send()` asked for.  `SocketSendCuts` is what one call
  of `send()` does to the queue, the kernel and the interest.
* `SelectImplementsChannel`: the safety of `PduChannel`, byte for byte.
  `BytesInv` says that what was read, what the kernels hold and `m_out_buf`, one
  behind the other, are the bytes of the PDUs sent; each action moves bytes over
  one of the two boundaries or adds a PDU at the end (`UptoNext`).  The first
  bytes of the whole then are PDUs (`HandledInOrder`), and no more than were sent.
  Finding 3 is thus about liveness alone.
* `ZeroIsRouteHolds`: `LoadInv` adds that an open connection has logged in, the
  one of id 0 excepted, and that those `main()` has not come to are idle.
* `LinesWholeHolds`, the half of `LogKept` about lines: `LogInv` adds
  that a thread past the lock owns that of its process, and that the one that has
  written the head of its line wrote last.
* `LogKeptHolds`, both halves: a process finds all it wrote in its files.
  `FileInv` says that the process writes at the end of its last file while that
  is open, that there is no file of a higher number, and that its files, one
  after the other, are what it wrote.  `fopen()` with "w" empties nothing because
  the number is new (`OpenFileKeeps`); no other process writes there unless it
  has the same 16 bits (`Elsewhere`).  `FlattenSeq` is a recursive function, of
  which nothing is known before there is a function that satisfies its
  equation; that there is one, and what it ends with, is kept along
  (`FlatTo`): a write and a rotation each make a new one of the old
  (`FlatAppended`, `FlatGrown`).  TLC cannot evaluate that part, and checks
  `LogKept` itself.
* `RefsCountedHolds`: between `Lock` and `Unlock` a call is alone with the count,
  so the value it has loaded is still the object's (`CallInv`).  References are
  counted one by one (`Extra`, `holds`): each step adds one, drops one or passes
  one on, which changes the sum by what the store changes the count.  An
  `AddRef` is made by a thread that is given or holds a reference, so no object
  is deleted under it; `holds` can thereby exceed `MaxHolds` by one.
* `InBoundsHolds`, `ImplementsQueueHolds`, from `BufferAssumption`: `Limit` grown
  by a quarter is below `Wrap`, the precondition the code has and does not check.
  `BufferInv` says that allocation and content are sizes from which no sum wraps
  (`GrownFits`) and that every byte of the allocation is accounted for; then
  growing keeps the content in front (`Appends`), and the move to the front drops
  exactly what was read (`Removes`).

### Only model-checked

* Liveness and whatever needs ENABLED, out of the prover's reach:
  `LocalDelivery`, `LoginReachesRoute`, `CatchUp`, `CallsReturn`, and the
  liveness half of `ImplementsChan`.

Every invariant that a passing run checks is stated by a theorem.

## 5. Not modelled

* What `m_out_buf` may grow to when the other end does not read: there is no
  bound in the code.  `SimpleBuffer` starts from a limit.
* PDUs of unknown types and with wrong lengths; PDUs longer than their 16-bit
  data length allows.  The programs send none.
* Reading a `CByteStream` from a `CSimpleBuffer`: its constructor sets `m_len` to
  0, and every read returns at once.  No code does it.
* Socket options and addresses; `netlib_option()` with no place for the result,
  which leaks a reference and which no caller does.
* The destructor of a `CEventThread` whose worker is alive: what the worker reads
  then is freed memory.
* Accepting with level-triggered events (select, kqueue), where a client that
  waits is reported again; the end of a stopped thread and the return of `log()`
  as liveness.
* A descriptor closed and opened again within one round of `select()` (three
  sets are visited) or kqueue; `FD_SETSIZE`; the wait of kqueue, which is 10 us
  where 10 ms are meant (EventDispatch.cpp:265) and changes no order of events.
* An end of stream that the receive loop consumes behind a PDU only part of which
  is there (the sender ended in the middle of it): nothing is handled and nobody
  is told of the end, as when it comes behind a whole PDU, which `Drained` has.
* A `realloc` that fails (util.cpp:178).
* How long one peer that keeps sending can hold the loop in `OnRead()`: fairness
  assumes that callbacks return.
* The wording of log lines, with `%s` for an integer at im_server.cpp:22.
* A route connection whose `connect()` fails at once: for `ImSystem` it is one
  that is never answered, which the model has.  For im_client `LoadGen` has it.
* The keepalive intervals of `imconn.h` and `RouteConn.h`: no code uses them.
* The Makefile.

## 6. Plan

1. (done) `ImSystem` and its parts, `ConnStream`, `SocketRef`, `EventTimer`;
   proofs of the table invariants.
2. (done) `Messenger`, `AcceptLoop`, `SelectStream`, `SimpleBuffer`,
   `ByteStream`, `PduCodec`, `FixedStream`, `LoadGen`, `LockedRef`,
   `EventThread`, `LogFile`.
3. (done) Proofs about `ImSystem`: users with one session; every step is one of
   `Messenger` or a stutter.
4. (done) Proofs about `ConnStream` (down to the bytes, and that it implements
   the safety of `PduChannel`), `SelectStream`, `SocketRef`,
   `EventTimer`, `AcceptLoop`, `EventThread`, `LoadGen`, `LogFile`, `LockedRef`
   and `SimpleBuffer`.
5. (done) Proofs about `PduCodec`, `FixedStream` and the files of `LogFile`.
