--------------------------- MODULE PingPongClient ---------------------------
(***************************************************************************)
(* The pingpong client (src/examples/pingpong/Client.cpp) on either of the *)
(* I/O services, with its timer and the server on the other side.          *)
(*                                                                         *)
(* A handler is an operator from a state w, the record of the system and   *)
(* of the client, to the set of states it may leave.  Run is taken apart   *)
(* where time passes: the wait, the timers, the callback.  The port's Run  *)
(* has the timers before the wait, the event service's after it.           *)
(***************************************************************************)
EXTENDS IOServiceBase

CONSTANTS Addresses,    \* number of addresses the host name has
          MAX_SEND_COUNT,
          EarlyClose,   \* may the server close?
          MaxWrites,    \* bound: writes on their way when the timer fires
          MaxContexts   \* bound: contexts, where the service has no limit

ASSUME ClientAssumption == /\ {Addresses, MAX_SEND_COUNT, MaxWrites} \subseteq Nat \ {0}
                           /\ EarlyClose \in BOOLEAN
                           /\ MaxContexts \in Nat

VARIABLES client,  \* fd_, recv_ctx_, sent_count_, recv_buf_ and the client's timer
          ready,   \* the context whose operation Run found ended, or NULL
          pc

vars == <<sys, client, ready, pc>>

NewClient == [sys |-> NULL, fd_ |-> INVALID_SOCKET, recv_ctx_ |-> NULL, sent_count_ |-> 0,
              recv_buf_ |-> 0, timer |-> "off", undefined |-> FALSE]

Init == /\ CreateIOService
        /\ client = NewClient
        /\ ready = NULL
        /\ pc = "init"

State == [client EXCEPT !.sys = sys]

\* A handler takes the client to one of the states set.
Handled(set, to) == \E w \in set : /\ sys' = w.sys
                                   /\ client' = [w EXCEPT !.sys = NULL]
                                   /\ pc' = IF w.undefined THEN "undefined" ELSE to
-----------------------------------------------------------------------------
(* Client *)

AddTimer(w) == [w EXCEPT !.timer = "set"]

\* Mutant: fd_ keeps the closed handle.
CleanupKeepsFd(w) ==
  IF w.recv_ctx_ = NULL THEN w
  ELSE [w EXCEPT !.sys = FreeOverlapCtx(SetLazyDelete(closesocket(@, w.fd_), w.recv_ctx_), w.recv_ctx_),
                 !.recv_ctx_ = NULL]

\* Mutant: the socket stays open.
CleanupKeepsSocket(w) ==
  IF w.recv_ctx_ = NULL THEN [w EXCEPT !.fd_ = INVALID_SOCKET]
  ELSE [w EXCEPT !.sys = FreeOverlapCtx(SetLazyDelete(@, w.recv_ctx_), w.recv_ctx_),
                 !.fd_ = INVALID_SOCKET, !.recv_ctx_ = NULL]

Cleanup(w) ==
  LET w1 == [w EXCEPT !.sys = closesocket(@, w.fd_), !.fd_ = INVALID_SOCKET]
  IN  IF w.recv_ctx_ = NULL THEN w1
      ELSE [w1 EXCEPT !.sys = FreeOverlapCtx(SetLazyDelete(@, w.recv_ctx_), w.recv_ctx_),
                      !.recv_ctx_ = NULL]

\* One round of Connect's loop: [w, done].  A socket without a context stays
\* open, one whose connect did not start too, and is fd_ until the next round.
TryAddress(w) ==
  LET fd == FreshHandle(w.sys)
      With_fd(k) == [w EXCEPT !.sys = k, !.fd_ = fd]
      Bound(a) == [a.sys EXCEPT !.ctx[a.ctx].cb = "OnConnect"]
  IN  {[w |-> [w EXCEPT !.sys = k], done |-> FALSE] : k \in Faulty(w.sys)}
        \cup UNION {IF a.ctx = NULL THEN {[w |-> [w EXCEPT !.sys = a.sys], done |-> FALSE]}
                    ELSE {IF r.ok THEN [w |-> [With_fd(r.sys) EXCEPT !.recv_ctx_ = a.ctx], done |-> TRUE]
                          ELSE [w |-> With_fd(FreeOverlapCtx(r.sys, a.ctx)), done |-> FALSE]
                          : r \in AsyncConnect(Bound(a), a.ctx)}
                    : a \in AllocOverlapCtx(Socket(w.sys, "idle"), fd, FLAG_ASSOCIATE)}

\* The addresses in turn, until a connect is on its way.
Connect(w) ==
  LET after[n \in 0 .. Addresses] ==
        IF n = 0 THEN {[w |-> w, done |-> FALSE]}
        ELSE UNION {IF r.done THEN {r} ELSE TryAddress(r.w) : r \in after[n - 1]}
  IN  {r.w : r \in after[Addresses]}

\* Undefined behaviour when Cleanup has set recv_ctx_ to NULL.
StartRead(w) ==
  LET c == w.recv_ctx_
  IN  IF c = NULL THEN {[w EXCEPT !.undefined = TRUE]} ELSE
      {[w EXCEPT !.sys = k, !.recv_buf_ = 1] : k \in AsyncRead([w.sys EXCEPT !.ctx[c].cb = "OnRead"], c)}

\* Mutant: the timer is set also after an error.
OnConnectSetsTimer(w, c) ==
  IF w.sys.ctx[c].status # 0 THEN {AddTimer([w EXCEPT !.sys = FreeOverlapCtx(@, c)])}
  ELSE {AddTimer(w1) : w1 \in StartRead(w)}

\* After an error recv_ctx_ still points to the context that is freed.
OnConnect(w, c) == IF w.sys.ctx[c].status # 0 THEN {[w EXCEPT !.sys = FreeOverlapCtx(@, c)]}
                   ELSE {AddTimer(w1) : w1 \in StartRead(w)}

\* Mutant: no new read.
OnReadOnce(w, c) == IF w.sys.ctx[c].status # 0 THEN {Cleanup(w)} ELSE {[w EXCEPT !.sys.ctx[c].set = FALSE]}

\* Data and the end of the stream alike: read again.
OnRead(w, c) == IF w.sys.ctx[c].status # 0 THEN {Cleanup(w)} ELSE StartRead(w)

\* What AsyncWrite returns is ignored: a write that did not start keeps its context.
Write(w) ==
  {[w EXCEPT !.sys = k]
   : k \in UNION {IF a.ctx = NULL THEN {a.sys}
                  ELSE AsyncWrite([a.sys EXCEPT !.ctx[a.ctx].len = w.recv_buf_,
                                                !.ctx[a.ctx].cb = "OnWritten"], a.ctx)
                  : a \in AllocOverlapCtx(w.sys, w.fd_, {})}}

OnWritten(w, c) ==
  LET sent == w.sys.ctx[c].status = 0 /\ w.sys.ctx[c].bytes > 0
  IN  {[w EXCEPT !.sys = FreeOverlapCtx(SetLazyDelete(@, c), c),
                 !.sent_count_ = IF sent THEN @ + 1 ELSE @]}

\* Mutant: the timer is not set again.
OnTimeoutOnce(w) == {[w1 EXCEPT !.timer = "off"] : w1 \in Write(w)}

\* Also when nothing is left to do the timer is set again.
OnTimeout(w) ==
  {AddTimer(w1) : w1 \in IF w.sent_count_ >= MAX_SEND_COUNT THEN {Cleanup(w)}
                         ELSE IF w.recv_buf_ > 0 THEN Write(w) ELSE {w}}
-----------------------------------------------------------------------------
(* Run *)

Callback(w, c) == CASE w.sys.ctx[c].cb = "OnConnect" -> OnConnect(w, c)
                    [] w.sys.ctx[c].cb = "OnRead"    -> OnRead(w, c)
                    [] w.sys.ctx[c].cb = "OnWritten" -> OnWritten(w, c)

LoopTop == IF OnPort(sys) THEN "timers" ELSE "wait"

\* Client::Start, from main, which ignores what it returns: getaddrinfo fails,
\* or the addresses are tried.
Begin == /\ pc = "init"
         /\ Handled({[State EXCEPT !.sys = k] : k \in Faulty(sys)} \cup Connect(State), LoopTop)
         /\ UNCHANGED ready

\* A failed packet makes the port's Run return; the context is not looked at.
\* The wait itself may fail too.
Wait == /\ pc = "wait"
        /\ \/ /\ Dequeue(sys) = {}
              /\ ready' = NULL
              /\ UNCHANGED sys
           \/ sys' \in Faulty(sys) /\ ready' = NULL
           \/ \E d \in Dequeue(sys) : sys' = d.sys /\ ready' = IF d.ok THEN d.ctx ELSE NULL
        /\ pc' = IF OnPort(sys) THEN "callback" ELSE "timers"
        /\ UNCHANGED client

\* The bounds: a slow system, and contexts that are never freed.
WritesOnTheWay == {c \in DOMAIN sys.ctx : sys.ctx[c].cb = "OnWritten" /\
                     (c \in PacketContexts \/ sys.ctx[c].set \/ \E op \in sys.ops : op.ctx = c)}
Bounded == /\ Cardinality(WritesOnTheWay) < MaxWrites
           /\ OnPort(sys) => Cardinality(DOMAIN sys.ctx) < MaxContexts

Expire == /\ pc \notin {"init", "stopped", "undefined"}
          /\ client.timer = "set"
          /\ Bounded
          /\ client' = [client EXCEPT !.timer = "due"]
          /\ UNCHANGED <<sys, ready, pc>>

UpdateTimer ==
  LET to == IF OnPort(sys) THEN "wait" ELSE "callback"
  IN  /\ pc = "timers"
      /\ Handled(IF client.timer = "due" THEN OnTimeout(State) ELSE {State}, to)
      /\ UNCHANGED ready

\* Mutant: the context is not looked up again.
DispatchUnchecked ==
  /\ pc = "callback"
  /\ Handled(IF ready \in DOMAIN sys.ctx
               THEN {[w EXCEPT !.sys = AfterCallback(@, ready)] : w \in Callback(State, ready)}
               ELSE {[State EXCEPT !.undefined = ready # NULL]}, LoopTop)
  /\ ready' = NULL

\* The event service looks the context up again: a timer may have freed it.
Dispatch ==
  /\ pc = "callback"
  /\ Handled(IF ready \in DOMAIN sys.ctx
               THEN {[w EXCEPT !.sys = AfterCallback(@, ready)] : w \in Callback(State, ready)}
               ELSE {State}, LoopTop)
  /\ ready' = NULL

\* SIGINT, seen between two calls of Run: main deletes the service, ~Client
\* calls FreeOverlapCtx on the deleted object, the process ends with all it has.
Stop == /\ pc = LoopTop
        /\ pc' = "stopped"
        /\ sys' = EmptySystem(sys.service)
        /\ client' = NewClient
        /\ UNCHANGED ready

Over == pc \in {"stopped", "undefined"}

Halted == Over /\ UNCHANGED vars

\* The system works on each operation on its own.
End(c) == /\ ~Over
          /\ \E op \in sys.ops : op.ctx = c /\ sys' \in EndOf(sys, op)
          /\ UNCHANGED <<client, ready, pc>>

SystemStep == \E c \in {op.ctx : op \in sys.ops} : End(c)

\* The server sends back what it got, and may close.
Server == /\ ~Over
          /\ \E h \in Conns(sys) :
               /\ ~sys.socks[h].fin
               /\ \/ /\ sys.socks[h].sent < sys.socks[h].got
                     /\ sys' = [sys EXCEPT !.socks[h].sent = @ + 1, !.socks[h].rx = @ + 1]
                  \/ EarlyClose /\ sys' = [sys EXCEPT !.socks[h].fin = TRUE]
          /\ UNCHANGED <<client, ready, pc>>

Run == Wait \/ UpdateTimer \/ Dispatch

Next == Begin \/ Run \/ Expire \/ Stop \/ SystemStep \/ Server \/ Halted

Spec == Init /\ [][Next]_vars

\* main calls Run in a loop, time passes, and the system ends what it can end:
\* what is done, and what was cancelled.  Nothing has to fail: a read without data
\* may be on its way for ever.
Fairness == /\ WF_vars(Begin)
            /\ WF_vars(Run)
            /\ WF_vars(Expire)
            /\ \A c \in 1 .. MaxContexts : WF_vars(End(c) /\ sys'.faults = sys.faults)

FairSpec == Spec /\ Fairness
-----------------------------------------------------------------------------
(* Properties *)

Contexts == DOMAIN sys.ctx

TypeOK ==
  /\ sys.service \in Services
  /\ \A c \in Contexts : sys.ctx[c].cb \in {"OnConnect", "OnRead", "OnWritten"} /\ sys.ctx[c].set \in BOOLEAN
  /\ client.fd_ \in {INVALID_SOCKET} \cup DOMAIN sys.socks
  /\ client.sent_count_ \in 0 .. MAX_SEND_COUNT + MaxWrites
  /\ client.timer \in {"off", "set", "due"}
  /\ pc \in {"init", "wait", "timers", "callback", "stopped", "undefined"}

\* Whatever the client still wants of the system is about its own socket: a
\* connect or a read works on recv_ctx_, nobody else's, there is at most one,
\* and once Cleanup has run everything on its way is cancelled.
OperationsOwned ==
  /\ \A op \in sys.ops : ~op.aborted => op.fd = client.fd_ /\ ~op.orphan
  /\ \A op \in sys.ops : op.kind # "write" /\ ~op.aborted => op.ctx = client.recv_ctx_
  /\ \A o1, o2 \in sys.ops : o1.ctx = o2.ctx => o1 = o2 \/ o1.orphan \/ o2.orphan

\* recv_ctx_ is good wherever it may be used: when the timer is set, which may
\* free it, it is NULL or a context of the open socket fd_, although OnConnect
\* frees the context of a failed connect and leaves the pointer.
RecvContextAlive == client.timer # "off" /\ client.recv_ctx_ # NULL =>
  /\ client.recv_ctx_ \in Contexts
  /\ client.fd_ \in DOMAIN sys.socks
  /\ sys.ctx[client.recv_ctx_].fd = client.fd_

\* On the event service the client never stops listening: until it closes, a
\* read is on its way or its event is set, also when a read could not be started
\* (the event of the last one stays set and OnRead tries again).  On the port
\* the end of every write cancels the read.
ReadArmed == ~OnPort(sys) /\ client.timer # "off" /\ client.fd_ # INVALID_SOCKET =>
  \/ \E op \in sys.ops : op.kind = "read" /\ op.ctx = client.recv_ctx_
  \/ sys.ctx[client.recv_ctx_].set

\* The event service never runs a callback of a context that a timer freed
\* between the wait and the callback.  The port does: when Cleanup comes before
\* the packet of a read that has ended, OnRead reads again through the pointer
\* that is now NULL, but only when all messages were sent.
UndefinedOnlyOnPort == pc = "undefined" =>
  OnPort(sys) /\ client.fd_ = INVALID_SOCKET /\ client.sent_count_ >= MAX_SEND_COUNT

Failed == sys.faults # MaxFaults \/ Over

\* A client that is connected sends its MAX_SEND_COUNT messages and closes,
\* unless a call fails.  On the port it does so even if the server closes first;
\* on the event service the client then reads the end of the stream again and
\* again, and those reads may keep Run from the writes.
ClientEnds == client.timer # "off" ~>
  (\/ client.fd_ = INVALID_SOCKET
   \/ Failed
   \/ ~OnPort(sys) /\ \E h \in Conns(sys) : sys.socks[h].fin)
=============================================================================
