# A TLA+ verification of WinsockTut

WinsockTut tries the I/O models of Windows behind two small interfaces: a
reactor (`PollerBase`: select, WSAAsyncSelect, WSAEventSelect) and a proactor
(`IOServiceBase`: overlapped I/O with event objects, I/O completion ports).
Both inherit a timer scheduler, and two example programs (echo on the reactor,
pingpong on the proactor) use them. All of it runs in one thread. What makes it
hard is not parallel code but *re-entrancy and lateness*: callbacks change the
very structures the loop that called them is walking, the system finishes
operations in its own order, and handles and addresses are reused at once.

`PROJECT.json` lists the components, the runs, the mutants, the map from
definitions to source lines, the findings, the hazards and the theorems.

## 1. Inventory

| Component | State | Operations | What is hard, and what correct means |
|---|---|---|---|
| `TimerSched` | heap of entries, map `ref_`, `next_id_` | AddTimer, CancelTimer, UpdateTimer | callbacks add and cancel timers inside UpdateTimer; the heap is a heap, stored indices are right, no entry leaks or dangles, UpdateTimer returns, every due timer fires |
| `SelectPoller` | vector of (fd, sink), three fd_sets, `has_retired_` | AddFd, RemoveFd, Set/ResetPollIn/Out, Poll | sinks and timers change the vector while Poll walks it; sets and vector agree, no readiness is missed, no removed sink is called, timers are served |
| `AsyncSelectPoller` | entries, a window's message queue | the same | messages queued before a change or a removal arrive after it; Poll serves messages until there are none |
| `AsyncEventPoller` | entries with event objects | the same | one event per Poll; timers run between wait and lookup; callbacks delete the entry in use |
| `CompletionPortService` | the port; contexts | Alloc/FreeOverlapCtx, AsyncConnect/Accept/Read/Write, Run | lifetime of contexts against operations of the system; failed packets; cancellation |
| `OverlappedIOService` | map event -> context | the same | the order events are served in; 64 events; immediate deletion |
| pingpong `Server`, `Session` | acceptor, accept context, sessions | Start, StartAccept, OnAccept, StartRead, Write, OnRead, OnWritten, Close, CloseSession | sessions die while their writes are on their way; every message is echoed; the server goes on accepting |
| pingpong `Client` | socket, read context, counter | Connect, OnConnect, OnRead, OnWritten, OnTimeout, Cleanup | errors and timers that free the context in use; the client ends |
| echo `EchoServer`, `EchoConn`, `EchoClient` | acceptor, connections, timers | Start, OnReadable, OnWritable, OnTimeout, Close, Cleanup | removal inside callbacks, a first read before the table knows the connection, restart of a self-connection; messages are echoed, connections end, the client ends |
| `SocketOpts` | none | ReadSome, WriteSome, address and option helpers | full buffers, partial transfers, data followed by the end of the stream |
| factories, `WsaExt`, `Common`, mains | none worth modelling | | |

Interactions: `Poll` and `Run` call `UpdateTimer`, which calls
`ITimerEvent::OnTimeout`; `Poll` calls `IPollEvent::OnReadable/OnWritable`;
`Run` calls `OverlapContext::cb`. All of these call back into the poller or
service. Servers delete their connection objects inside such callbacks.

## 2. Modules

| Module | Models |
|---|---|
| `TimerSched` | `src/src/TimerSched.cpp`, one step per loop iteration |
| `TimerQueue` | what the scheduler promises: a set of pending deadlines, earliest first, never early |
| `TimerSchedProofs` | the theorems about `TimerSched` |
| `SelectPoller` | `src/src/SelectPoller.cpp` with user code in the main loop, in sinks and in timers |
| `SelectPollerProofs` | the theorems about `SelectPoller` |
| `Reactor` | what all three pollers promise to their users |
| `Tables`, `TablesProofs` | tables whose keys are reused, the pollers' sweep of retired entries, and calls that may fail; lemmas about them |
| `NetworkEvents` | the system under the other two pollers (external) |
| `AsyncEventPoller`, `AsyncSelectPoller` | the pollers on WSAEventSelect and WSAAsyncSelect |
| `PollerBase` | the interface, on the poller CreatePoller made |
| `PollerUser` | arbitrary user code on `PollerBase` |
| `PollerUserProofs` | the theorems about `PollerUser` on both asynchronous pollers |
| `SocketOpts` | ReadSome, WriteSome, IsSelfConnection, the two socket makers |
| `EchoServer`, `EchoClient` | the handlers of the echo example |
| `Echo` | the echo program: main, a poller, a server or a client, the peers |
| `EchoProofs` | the theorems about `Echo`, in both roles on both pollers |
| `OverlapKernel` | the system under the I/O services (external) |
| `CompletionPortService`, `OverlappedIOService` | the two services |
| `IOServiceBase` | the interface, on the service CreateIOService made |
| `IOServiceProofs` | lemmas: what each call of the completion-port service changes and leaves alone |
| `PingPongServer` | `Server.cpp` and `Session.cpp` composed with either service, and the clients |
| `PingPongServerProofs` | the theorems about `PingPongServer` on the completion port |
| `PingPongClient` | `Client.cpp` composed with either service, its timer, and the server |
| `PingPongClientProofs` | the theorems about `PingPongClient` on the completion port |
| `MC*` | the instances TLC checks |

### TimerSched

`heap_` is a function on `0 .. heap_size - 1`, as in the code; an entry pointer
is the entry's id, since ids are never reused; the fields of entries are the
functions `index`, `expire`, `sink`; `live` is the set of allocated entries and
`ref_` the set of keys of the map. `pc` says which loop control is in, `op` which
operation the running sift belongs to, and `entry` is UpdateTimer's entry, which
is not NULL while its callback runs: `pc = "ready"` with `entry # NULL` is user
code inside UpdateTimer, and AddTimer and CancelTimer are enabled there.
The clock moves at any time. An access to a deleted entry leads to
`pc = "undefined"`. `(0 - 1) / 2` is 0 in C and so in `Parent`. Deadlines do not
overflow: the code holds them in 64 bits.

### SelectPoller

Poll is cut where user code can run: after select, at the head of the loop, at
each of the three FD_ISSET tests, in `UpdateTimer`, and at the sweep. `fd` is
the local copy that the loop's tests look at. User code (`pc` in `idle`,
`callback`, `timers`) registers, removes and changes interest. Handles and sink
addresses are reused at once. `due` is a history variable: readiness reported by
select and not yet delivered. select fails on empty sets, as the code's comment
says. Calling a NULL sink leads to `pc = "crashed"`.

### Reactor and the refinement

The abstract state is the table of registered descriptors with their sinks, the
sink whose callback runs, and whether the descriptor under service was removed
(`gone`). A call is allowed to a sink that is registered at that moment. The one
exception, `Misfire`, is what `SelectPoller` and `AsyncEventPoller` really do:
they serve several conditions of one descriptor in a row and go on through its
dead entry when a callback has removed it. `SelectPoller` then calls through
NULL (SelectPoller.cpp:121), `AsyncEventPoller` through a pointer to a deleted
sink (AsyncEventPoller.cpp:229). The refinement shows that there is no other
way to reach a sink that is not registered: not through stale messages, not
through the index of a wait that a timer has outdated, not through reused
handles, events or addresses. After a misfire nothing more is promised.

### NetworkEvents, the asynchronous pollers and their users

A selected condition of a socket is reported once: recorded with the socket
while its event is set, or posted as a message that outlives the socket. recv and
accept make a report possible again, and selecting anew reports all that holds;
so ResetPollOut, which drops FD_CLOSE, withdraws the report of a close. The record
`os` holds the system and the poller's tables, and every operation of the poller
is an operator from one `os` to the set of those it may leave. Poll is cut where
user code runs: `pc` is `idle` (main loop), `peek`, `timers`, `dispatch`
(`calls` are the events still to be delivered), `callback`.

`mask | MASK_...` in the code is never 0, so masks are left out: every reported
event is delivered whatever the mask says. The entries of `AsyncEventPoller`
keep their address, since the vector has its full capacity from the start.

In `PollerUser` user code does anything in any order. In `Echo` it is the
example's code: `app` is the state of the server or of the client, a handler is
an operator from system and application state to the set of states it may leave,
and `Call` and `Timer` run one handler to its end. The client's timers have the
same delay and sink and are counted; `due` of them have expired.

ReadSome is modelled with its edge: when the buffer is full it calls recv with
length 0 and takes the 0 it returns for the end of the stream. Data before the
end of the stream is dropped. WriteSome may write a part, which its caller does
not repeat.

### OverlapKernel, the services and the pingpong programs

A callback makes several calls one after the other, each with several outcomes.
The system state is one record `sys`, a call is an operator from a state to the
set of states it may leave, and a handler chains calls with `\E` and assigns
`sys'` once. So an action is a whole call of Run with the whole callback. The
flags of `OverlapFd.h` are sets of bits, so that the overlap of
`FLAG_LAZY_DELETE` (3) and `FLAG_CANCEL_IO` (2) is there. A context, its
callback and the operation that uses it are separate: the operation names the
context's address, and ends later with a packet (port) or a set event. The end
of an operation is a step of its own, so ends come in any order. The completion
port is a FIFO queue; the event service may serve any set event, because it
waits in the order of a hash map. An operation whose context was deleted
(`orphan`) still writes its result to that address, and sets no event that
exists. Data is counted in messages. `sys.service` is CreateIOService's choice.

`PingPongClient` takes Run apart where its timer acts: the port's Run runs the
timers and then waits, the event service's waits, runs the timers, and looks the
context up again. `ready` is the context the wait found.

When a packet has failed, GetQueuedCompletionStatus returns FALSE and Run
returns before the callback, so the callbacks' error branches run only on the
event service. A callback bound to a deleted session leads to
`pc = "undefined"`. At exit main deletes the service before `~Server` uses it:
`Stop` ends the run.

## 3. Runs

| Run | Checks | Bounds |
|---|---|---|
| `timers_safety` | TypeOK, IndexInv, HeapInv, OwnershipInv, refinement of TimerQueue | 6 timers, delays 0 and 1, clock standing |
| `timers_live` | TimersFire, UpdateReturns, OnlyOldTimersFire | 3 timers, delays 1 and 2, clock 0..2, sinks and NULL |
| `timers_cancel` | violates NoDanglingRef | 2 timers |
| `select` | TypeOK, SetsMatchEntries, AllServed, NoRetiredBetweenPolls, TimersServed, refinement of Reactor | 2 handles, 2 sinks, FD_SETSIZE 3, removal inside Poll |
| `select_starve` | violates TimersServed | 1 handle, removal also between Polls |
| `pollers` | TypeOK, SelectionsMatch, refinement of Reactor, EveryReportTaken, TimersServed | both asynchronous pollers, 2 sockets, room for 2 entries, 2 queued messages, no failure |
| `echo` | TypeOK, ConnectionsOwnSockets, SendsBounded, ClosedForAReason, EarlierMessagesEchoed, EofEndsConnection, ClientEnds | both roles on both asynchronous pollers, 2 peers, 3 messages (MAX_RECV_COUNT), 2 addresses, room for 3 (events) or 2 (messages) entries, 1 failure |
| `echo_count` | violates EveryMessageEchoed on both pollers | 1 peer, 3 messages (MAX_RECV_COUNT), a buffer for 4, no failure |
| `pingpong_server` | TypeOK, InFlightContexts, SessionsOwnSockets, NoSocketLost, AcceptArmed, EventsEchoPings | 2 clients that close at any time; on the port 1 message each and 2 failures, on event objects 2 messages each and no failure |
| `pingpong_client` | TypeOK, OperationsOwned, RecvContextAlive, ReadArmed, UndefinedOnlyOnPort, ClientEnds | both services, 2 addresses, 2 messages, 2 writes on their way, 4 events, 1 failure |
| `pingpong_echo` | violates EveryPingEchoed on the completion port | 1 client, 2 messages |
| `pingpong_deleted` | violates NoCallOnDeleted on event objects | 1 client, 1 message |

Why the bounds are enough. Six timers are the smallest heap in which a cancelled
slot's replacement has to sift *up*; delays 0 and 1 against a standing clock give
one due and one not due deadline, hence every relative order a heap of two
values has (ties included). FD_SETSIZE 3 with two handles lets the limit be hit
with live and retired entries, and lets a handle be removed and registered again
within one Poll. Two clients have two sessions, one of which may close while the
other works, and reuse of contexts and handles. `pingpong_server` has one state space for both
services and bounds each where it is not interesting (`BoundedSpec`): on the port,
where the write of an echo already ends the session's reads, a connection sends one
message, and two failures may hit any call or operation, also two of one handler
or of one session; on event objects nothing fails, and with two messages one
session has several writes on their way. For the port, InFlightContexts and
SessionsOwnSockets are proved for more clients, messages and failures. Two sockets with room for two entries let one be
busy in front of the other, be removed and come back under the same handle, event
and address while its messages are queued, and fill the table with a retired
entry. In `echo` the limits 3 and 2 let the server serve two clients on events
and fail to register one on messages; a buffer of two messages can be filled, and
three messages are as many as the server receives of one connection.
`MaxQueue` bounds the queue in `PollerUser` only; `MaxWrites` bounds how slow the
system is for `PingPongClient` and `MaxContexts` the contexts that its failed
writes leave behind.

Fairness. The machine executes the code that is enabled (weak fairness of the
scheduler's, Poll's and Run's own steps). The main programs call Poll or Run in
an endless loop, so UpdateTimer and PollWorks are strongly fair: user code may
make them disabled for a while, and they come back. PollWorks is a Poll whose
select does not fail: select may fail at any time, but not for ever where it can
succeed. Callbacks return (strong
fairness of CallbackReturn): every callback of the repository does. The clock
advances, and the system ends an operation that can end; in `PingPongClient` each
operation on its own, since an endless row of reads must not stand for a write
that ends. There only an end that costs no failure is fair: what succeeds, and
what was cancelled. A read without data may stay on its way for ever, so that
ClientEnds cannot be had from a failure that the fairness forces. In `Echo` handlers are taken from `calls` and timers from `due` when
Poll comes to them, and a connection attempt comes to an end. Peers need not do
anything.

What the liveness properties except is what the code does. With event objects
only the first set event is served, so a busy socket in front may hold up the
ones behind (`Overtaken` in EveryReportTaken). Poll of `AsyncSelectPoller` serves
messages until there are none, so TimersServed there excepts one thing
(`PollsForEver`): a single Poll that never returns and takes messages for ever,
because callbacks cause new ones. A queue that is filled between Polls, or that
Poll drains, is no excuse. The pingpong client on event objects reads the end of the stream again
and again and may never come to its finished writes (ClientEnds).

On event objects a failed accept leaves the event of the last one set, so that
OnAccept runs again with socket 0 and makes a session of it. This is why NoSocketLost,
AcceptArmed and, on event objects, SessionsOwnSockets speak of runs in which nothing has
failed. EveryPingEchoed is stated of all clients at once (`Behind ~> ~Behind`): as the
messages are finite, it says that each of them comes back.

UpdateReturns says that every call of UpdateTimer is over at some time, its
callbacks and sifts included: loop control is back in user code with no entry in
its hand. Leaving the loop's head is not enough.

Two more results about the pingpong client are worth knowing. UndefinedOnlyOnPort
holds with a real exception: on the port, when the timer's Cleanup comes before
the packet of a read that has ended, OnRead reads through `recv_ctx_`, which is
NULL by then (Client.cpp:110). And a client whose read failed keeps its timer,
and every timeout leaves one more context that nothing frees (Client.cpp:149).

### What the violations show

* `timers_cancel`: CancelTimer deletes the entry and leaves it in `ref_`.
* `select_starve`: the guard against empty sets tests the vector; a descriptor
  removed between two Polls leaves a retired entry, select fails for ever, and
  the error path returns before timers and sweep.
* `echo_count`: the echo server closes at its MAX_RECV_COUNT-th receive without
  echoing it (EchoConn.cpp:47). The Go client of `src/tests/echo` sends the same
  number of messages by default and waits for the echo of each (echo.go:50, 68).
  EarlierMessagesEchoed, in the run `echo`, shows that the messages before it are
  echoed on both pollers, unless the client closes, a call fails or the buffer is full.
* `pingpong_echo`: OnWritten marks its context for lazy deletion, the flag also
  cancels, and the session's read is gone.
* `pingpong_deleted`: OnWritten of a session that the end of the stream deleted.

With a delay of 0 the timers have two more faults that no run shows, because every
caller in the repository passes 1000: `last_id` is the id the *next* timer gets
and the test is `>`, so the first timer a callback creates is processed in the
same call when it is due at once (OnlyOldTimersFire fails), and a second one makes
`continue` spin (UpdateReturns fails). With positive delays neither happens, which
is proved below.

Many hazards in `PROJECT.json` have no property but a note: there the code does
what the hazard says, and the properties around it except exactly that or permit
it (a closed connection left in the table after its first read, a socket leaked
when AddFd fails, starvation by a busy descriptor). No document or test promises
otherwise, so there is nothing that a violation would refute.

The passing properties hold up to the states `crashed` and `undefined`, and say
nothing about a run after them.

## 4. Proofs

`TimerSchedProofs` proves, for every number of timers, every set of integer
delays, every clock range and every set of sinks (assumptions
`BoundsAssumption`, `NullAssumption` of `TimerSched`):

* `TypeCorrect`, `HeapCorrect`, `IndexCorrect`, `OwnershipCorrect`: the four
  invariants of `timers_safety`;
* `Refinement`: `Spec => ImplementsQueue`, the scheduler implements `TimerQueue`;
* `PositiveDelaysAreSafe`: if all delays are positive, UpdateTimer removes only
  timers that existed when it was called, and never meets a newer one that is due.

The argument. None of the invariants is inductive alone: the index of the moved
entry is right only if no timer is in two slots; a sift ends in a heap only if
the moving slot's children are in order with its parent; the entry on its way
out is in the last slot only because of where control is. `IInv` is the
conjunction TypeOK, ControlInv, IndexInv, HeapInv, OwnershipInv; `Invariance`
proves it inductive with one lemma per action. For the refinement, a timer
stops being pending when it is chosen (PopTop, CancelPending) and is the one
that fires until it is deleted, so a removal by UpdateTimer cannot pass for a
cancellation. PopTop has to
remove an earliest timer, while HeapInv relates only parents and children:
`TopIsEarliest` takes the least slot whose timer is earlier than the top, by
well-foundedness of the naturals, and its parent contradicts it.
`PositiveDelaysAreSafe` adds the invariant that a timer created during a call
expires after that call's `now`.

### SelectPoller

`SelectPollerProofs` proves, for every set of handles and sinks and every
FD_SETSIZE: `TypeCorrect`, `SetsCorrect`, `ServedCorrect` (the invariants of the
run `select`), `SweepCorrect` (NoRetiredBetweenPolls, under the assumption
`~RemoveBetweenPolls`; `select_starve` shows what happens without it) and
`Refinement`: `Spec => ImplementsReactor`.

The hard part is that callbacks change the vector while Poll walks it. The
strengthening says where Poll stands in it. `ControlInv`: the entry at the loop's
index is the one under service, or was retired since; nothing takes its place
before the sweep. `DueInv`: readiness that was reported and not yet delivered
belongs to an entry the loop has still to come to, or to a test of the current
entry still to be made. `RetiredInv`: without `has_retired_` no entry is retired, and unless user code
removes descriptors between polls the flag is clear there.
`SinkInv`: no sink serves two descriptors. `IInv` is their conjunction with
TypeOK and SetsMatchEntries.

The sweep (`std::remove_if`) is the recursive function `Tables!Swept`, which the
asynchronous pollers share. That it keeps
exactly the entries that are not retired, each descriptor once, is an induction
on the length of the vector; `TablesProofs!UpTo` makes it, as a well-founded
argument on the least length that fails, since the library's induction theorems
cannot be used.

### PollerUser

`PollerUserProofs` proves, for `AsyncSelectPoller` and `AsyncEventPoller` under
user code that does anything in any order, for any number of sockets, entries,
queued messages and failures (assumption `NetworkAssumption`):

* `Invariance`: the inductive invariant `IInv` itself;
* `TypeCorrect`: TypeOK, and with it that a socket never holds a report of an
  event that is not selected and that `fds_` stays within its limit;
* `SelectionsCorrect`: SelectionsMatch. What the system has selected is what the
  entry says, a socket has one entry, an event object has one user and is never
  leaked;
* `Refinement`: `Spec => ImplementsReactor`.

SelectionsMatch is not inductive. `socket()` may give out a handle that was in use
before: nothing of the old socket may be left in the tables (`FdsInv`: one live
entry per socket, and none without a socket). WSACreateEvent may give out the
number of an event object that was closed: no retired entry may still name it
(`EventInv`). For the refinement,
two entries must not have the same sink (`SinkInv`), or the removal of one would
leave a sink that is still called for the other.

`Good(k, A, X)` says this of a state k of the system and the poller, the sinks A
that exist and the sockets X that have no entry: the one between `socket()` and
AddFd, or between RemoveFd and `closesocket`. An operation is a chain of system
calls and each lemma is one link, for a record that is not yet, or no longer, the
variable. `IInv` is `Good` of the variables with `CallsInv`: the calls Poll has
still to make go through one entry, and the running sink is the one written
there, also after it was retired. That is why `Misfire`, the one exception of
`Reactor`, is the only one: HandleEvents goes on after a callback without
looking whether the entry is still live, but it cannot reach another descriptor's.

For the refinement the registrations are the set of pairs of a descriptor and a
sink (`Pairs`), which lemmas about sequences of entries can follow, and
`HoldsOne` turns them into the function that `Reactor` has. The sweep changes the
places of entries but not the pairs, and runs only when no call is left.
TLC finds `IInv` invariant on the constants of `pollers` with one failing call.

### Echo

`EchoProofs` proves, for the server and the client of the echo example on
`AsyncSelectPoller` and on `AsyncEventPoller`, for any number of clients, messages,
addresses and failures and any limits (`NetworkAssumption`, `EchoAssumption`):

* `TypeCorrect`: TypeOK;
* `ConnectionsCorrect`: ConnectionsOwnSockets. The table, the connection objects and
  the poller agree between any two callbacks;
* `ReasonsCorrect`: ClosedForAReason, an action property. Nothing but a callback of
  the server closes a client's socket, and it has a reason;
* `SendsCorrect`: SendsBounded.

What does the server need of its poller? Only that the poller loses no entry:
`Follows(k, k1, X)` says that the step from k to k1 keeps every connected socket and
every pair of a socket and a sink that is registered, but for the sockets in X, and
`Calm` that it leaves the entries and what the sockets are alone. Each operation of the two pollers, each
step of Poll and each event of the network has such a lemma. The only ones with an X
are RemoveFd and `closesocket`, and the sweep of retired entries keeps all others
(`Tables!Swept` again).

`Table(k, w, X)` says that the server's tables fit each other and the state k, but for
the connections in X, which have no entry in `connections_` yet. X is what the first read
needs: StartRead runs on a connection that the table does not know, and Close does
nothing to its socket then, so the connection is put into the table closed, but
with the socket it is registered for (`NewConnectionServes`). `Counts` says that an open
connection has receives left, which gives ClosedForAReason its exact count: the one
receive that closes is the last. `Leaves` and `Reason` say what a callback of
one connection may do to the sockets of all.

For the client, SendsBounded is not inductive: a timer that is still pending may send
once more. `ClientInv` counts the pending timers: at MAX_SEND_COUNT messages or more,
what was sent and what may be sent stay below MAX_SEND_COUNT plus the timers started,
since a timer that fires when all is sent is not set again. `IInv` is the conjunction of
the system's type, `Table` and `Counts` of the server, `ClientInv` of the client, and
that the server has no timers. TLC finds it invariant on the constants of `echo`, with
the infinite types.

The server and the client are instances with pollers of their own. The first part
of the module shows, operation by operation, that these are the poller of `Echo`, so
that one lemma about an operation serves all of them.

### PingPongServer

`PingPongServerProofs` proves, for a program started on the completion port
(`Services = {"IOCompletionPort"}`) and any number of clients, messages and
failures:

* `InFlightCorrect`: InFlightContexts. No operation and no packet ever names a
  context that was deleted, no context is in two operations or packets;
* `SessionsCorrect`: SessionsOwnSockets. Sessions own their sockets and read
  contexts, and a read that was not cancelled is that of a live session on its
  socket.

Neither is inductive. Why is no operation left on the context that OnWritten or
Close frees? Because Run has just taken the packet of that context, and no
context is in two operations: but then one must know that the context a callback
frees is the one its packet named. It is, because contexts say whose they are:
the accept context alone has the callback of the accept, and a session's read
context alone has the callback of that session's reads (`Owned`). Why does a new
session's socket belong to no other session, though handles come again? Because
a socket waits as an idle one in the accept, which no session can have, becomes
a client's socket when the accept ends, and no session is made meanwhile, since
sessions are made only while no accept is on its way (`OpInv`, `PacketInv`). Why is
a session's read not on a reused handle? Because closesocket cancels what is on
the handle (`OpInv`: an operation that is not cancelled has its socket).

`Good(k, S, n, a)` says this of a state k of the system, the sessions S, the
number n of the next and the accept context a. It is stated of a state rather than of the
variables, because a handler is a chain of calls: each lemma says that one
call leads from a good state to a good one. `IInv` is `Good` of the variables,
with what holds before Start and after the end. The lemmas rest on
`IOServiceProofs`, which says of every call of the service which fields of the
record it changes and how. The assumption `NULL \notin Nat` says that no context
is at address NULL. TLC finds `IInv` invariant on the constants of
`pingpong_server` with the port alone (`IsPortSystem` left out, which quantifies over infinite sets).

### PingPongClient

`PingPongClientProofs` proves, for a program started on the completion port and
any number of addresses, messages and failures:

* `OwnedCorrect`: OperationsOwned. What is on its way and was not cancelled is on
  the client's socket, a connect or a read works on `recv_ctx_`, and no context is
  in two operations;
* `RecvContextCorrect`: RecvContextAlive. Whenever the timer may use `recv_ctx_`,
  it is NULL or a context of the open socket, after any number of failed connects;
* `UndefinedCorrect`: UndefinedOnlyOnPort. The read through the pointer that
  Cleanup has set to NULL needs a client that has sent all its messages.

Why is `recv_ctx_` never freed before it is used? Connect stores a context only
when its connect has started, and frees the others itself; the port drops the
packet of a connect or a read that failed, without a callback (so OnConnect and
OnRead never see an error here); and Cleanup, which marks `recv_ctx_` and frees
it, sets the pointer to NULL. Why does a packet not reach the callback of another
use? Until Cleanup has run, all contexts but `recv_ctx_` are contexts of writes
(`ContextsInv`), so OnConnect and OnRead find in their packet the context they
started; after it they have no effect but the one of UndefinedOnlyOnPort. `OpInv`
ties an operation to its callback and its socket, as for the server.

`Good(k, f, r)` says this of a state k of the system, the socket f and the read
context r; `Sound(w)` adds that a client without a context has either not
connected or is closed with all messages counted as sent, which is the argument of
`UndefinedCorrect`. `IInv` is `Sound` of the variables with the context of the
packet that a callback handles, on which nothing else is on its way. Connect tries one
address after another: `ConnectSound` goes from each to the next with
`TablesProofs!UpTo`. TLC finds `IInv` invariant on the constants of
`pingpong_client` with the port alone.

### Only model-checked

* Liveness, which needs fairness and is out of the prover's reach: TimersFire,
  UpdateReturns, TimersServed, EveryReportTaken, EventsEchoPings, ClientEnds and
  the liveness properties of `Echo`.
* `PingPongServer!TypeOK`: that no counter of messages exceeds the bound is a
  conservation law, the sum of received, read and written messages of a socket
  over all its operations. Sums over sets need an induction theorem.
* `PingPongServer` on event objects, and NoSocketLost and AcceptArmed: there is no
  lemma library for that service yet.
* `PingPongClient` on event objects, with ReadArmed, and its TypeOK, whose bounds on
  the numbers of writes and contexts come from the guards of the model.

## 5. Not modelled, and what is left

Proofs left: a module like `IOServiceProofs` for the event service, and with it
AcceptArmed, NoSocketLost and ReadArmed.

Not composed: the echo example with `SelectPoller`, which has its own module with
arbitrary user code; `TimerSched` with the programs, whose timers are abstracted
to what TimersFire and the refinement of `TimerQueue` give.

Left out for good: logging, error texts, string helpers, `WsaExt` (function
pointer lookup), the sink pointer that stays in a retired entry of
`AsyncSelectPoller` (its descriptor is INVALID_SOCKET, so nothing reads it again), SetNonblock and UpdateConnectCtx (single system calls), argument
parsing in the mains, the destructors that run after main has deleted the poller
or service (the process ends there), and `Mutex.h` and `Slice.h`, which nothing in
the modelled code uses.
