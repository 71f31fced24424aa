--------------------------- MODULE PingPongServer ---------------------------
(***************************************************************************)
(* The pingpong server (src/examples/pingpong/Server.cpp and Session.cpp)  *)
(* on one of the two I/O services, with clients that connect, send and     *)
(* close.  One step of the server is one call of Run: it takes a finished  *)
(* operation from the system and runs its callback to the end.  Operations *)
(* end and clients act between any two calls.                              *)
(*                                                                         *)
(* A Session is the number sid it is given; numbers are never given twice. *)
(* A callback on a session that was deleted is undefined behaviour: pc     *)
(* becomes "undefined" and nothing more is said about the run.             *)
(***************************************************************************)
EXTENDS IOServiceBase

CONSTANTS EarlyClose, \* may a client close before it got its echoes?
          MaxConns,   \* bound: clients that connect
          MaxPings    \* bound: messages per client

ASSUME ClientsAssumption == EarlyClose \in BOOLEAN /\ MaxConns \in Nat /\ MaxPings \in Nat

VARIABLES
  backlog,    \* clients that wait to be accepted
  connects,   \* clients that have connected so far
  acceptor_,  \* the listening socket
  ctx_,       \* the context of the accept operation
  sessions_,  \* the sessions by number: socket fd_ and context recv_ctx_
  counter_,   \* number of the next session
  pc

server == <<acceptor_, ctx_, sessions_, counter_, pc>>
vars   == <<sys, backlog, connects, server>>

FirstSid == 2001
Callback(fn, obj) == [fn |-> fn, obj |-> obj]
Live == DOMAIN sessions_
NoSessions == [sid \in {} |-> [fd_ |-> 0, recv_ctx_ |-> 0]]

Init == /\ CreateIOService
        /\ backlog = 0
        /\ connects = 0
        /\ acceptor_ = INVALID_SOCKET
        /\ ctx_ = NULL
        /\ sessions_ = NoSessions
        /\ counter_ = FirstSid
        /\ pc = "init"
-----------------------------------------------------------------------------
(* Session *)

\* The data of Session::StartRead: the callback is set, the read is started.
StartRead(k, c, sid) == AsyncRead([k EXCEPT !.ctx[c].cb = Callback("OnRead", sid)], c)

\* Mutant: the write uses the context of the read.
WriteOnReadContext(k, fd, sid, len) ==
  LET c == sessions_[sid].recv_ctx_
  IN  AsyncWrite([k EXCEPT !.ctx[c].len = len, !.ctx[c].cb = Callback("OnWritten", sid)], c)

\* A context of its own for every write; a write without one is dropped.
Write(k, fd, sid, len) ==
  UNION {IF a.ctx = NULL
           THEN {a.sys}
           ELSE AsyncWrite([a.sys EXCEPT !.ctx[a.ctx].len = len,
                                         !.ctx[a.ctx].cb = Callback("OnWritten", sid)], a.ctx)
         : a \in AllocOverlapCtx(k, fd, {})}

\* Mutant: the socket stays open.
CloseKeepsSocket(k, sid) ==
  FreeOverlapCtx(SetLazyDelete(k, sessions_[sid].recv_ctx_), sessions_[sid].recv_ctx_)

\* Close: the socket, then the context; Server::CloseSession erases and deletes.
Close(k, sid) ==
  LET s == sessions_[sid]
  IN  FreeOverlapCtx(SetLazyDelete(closesocket(k, s.fd_), s.recv_ctx_), s.recv_ctx_)

OnReadError(k, c, sid) == /\ k.ctx[c].status # 0
                          /\ sys' = AfterCallback(Close(k, sid), c)
                          /\ sessions_' = Without(sessions_, sid)

\* Mutant: no new read after the first.
OnReadDataOnce(k, c, sid) ==
  /\ k.ctx[c].status = 0
  /\ k.ctx[c].bytes > 0
  /\ \E k1 \in Write(k, sessions_[sid].fd_, sid, k.ctx[c].bytes) :
       sys' = AfterCallback([k1 EXCEPT !.ctx[c].set = FALSE], c)
  /\ UNCHANGED sessions_

OnReadData(k, c, sid) ==
  /\ k.ctx[c].status = 0
  /\ k.ctx[c].bytes > 0
  /\ \E k1 \in Write(k, sessions_[sid].fd_, sid, k.ctx[c].bytes) :
       \E k2 \in StartRead(k1, sessions_[sid].recv_ctx_, sid) : sys' = AfterCallback(k2, c)
  /\ UNCHANGED sessions_

\* Mutant: the session is not erased.
OnReadEofKeeps(k, c, sid) == /\ k.ctx[c].status = 0
                             /\ k.ctx[c].bytes = 0
                             /\ sys' = AfterCallback(Close(k, sid), c)
                             /\ UNCHANGED sessions_

OnReadEof(k, c, sid) == /\ k.ctx[c].status = 0
                        /\ k.ctx[c].bytes = 0
                        /\ sys' = AfterCallback(Close(k, sid), c)
                        /\ sessions_' = Without(sessions_, sid)

OnRead(k, c, sid) == /\ \/ OnReadError(k, c, sid)
                        \/ OnReadData(k, c, sid)
                        \/ OnReadEof(k, c, sid)
                     /\ UNCHANGED <<acceptor_, ctx_, counter_, pc>>

OnWritten(k, c) == /\ sys' = AfterCallback(FreeOverlapCtx(SetLazyDelete(k, c), c), c)
                   /\ UNCHANGED server
-----------------------------------------------------------------------------
(* Server *)

\* Server::StartAccept; what AsyncAccept returns is ignored.
StartAccept(k, c) == AsyncAccept([k EXCEPT !.ctx[c].cb = Callback("OnAccept", 0)], c)

\* Server::Start, from main; CHECK ends the process when there is no socket or
\* no context.
Begin ==
  /\ pc = "init"
  /\ LET fd == FreshHandle(sys)
         allocated == AllocOverlapCtx(Socket(sys, "listen"), fd, FLAG_ASSOCIATE)
     IN  \/ /\ sys' \in Faulty(sys) \cup {a.sys : a \in {b \in allocated : b.ctx = NULL}}
            /\ pc' = "aborted"
            /\ UNCHANGED <<acceptor_, ctx_>>
         \/ \E a \in allocated :
              /\ a.ctx # NULL
              /\ sys' \in StartAccept(a.sys, a.ctx)
              /\ pc' = "run"
              /\ acceptor_' = fd
              /\ ctx_' = a.ctx
  /\ UNCHANGED <<backlog, connects, sessions_, counter_>>

\* The accept failed, or there is no context for the new socket: it is closed
\* and no new accept is started.
OnAcceptFails(k, c, newfd) ==
  /\ \/ k.ctx[c].status # 0 /\ sys' = AfterCallback(closesocket(k, newfd), c)
     \/ /\ k.ctx[c].status = 0
        /\ \E a \in AllocOverlapCtx(k, newfd, FLAG_ASSOCIATE) :
             a.ctx = NULL /\ sys' = AfterCallback(closesocket(a.sys, newfd), c)
  /\ UNCHANGED server

\* Mutant: all sessions get the same number.
OnAcceptSameSid(k, c, newfd) ==
  /\ k.ctx[c].status = 0
  /\ \E a \in AllocOverlapCtx(k, newfd, FLAG_ASSOCIATE) :
       /\ a.ctx # NULL
       /\ sessions_' = With(sessions_, counter_, [fd_ |-> newfd, recv_ctx_ |-> a.ctx])
       /\ \E k1 \in StartRead(a.sys, a.ctx, counter_) :
            \E k2 \in StartAccept(k1, c) : sys' = AfterCallback(k2, c)
  /\ UNCHANGED <<acceptor_, ctx_, counter_, pc>>

\* Mutant: the accept is not started again.
OnAcceptOnce(k, c, newfd) ==
  /\ k.ctx[c].status = 0
  /\ \E a \in AllocOverlapCtx(k, newfd, FLAG_ASSOCIATE) :
       /\ a.ctx # NULL
       /\ sessions_' = With(sessions_, counter_, [fd_ |-> newfd, recv_ctx_ |-> a.ctx])
       /\ \E k1 \in StartRead(a.sys, a.ctx, counter_) : sys' = AfterCallback(k1, c)
  /\ counter_' = counter_ + 1
  /\ UNCHANGED <<acceptor_, ctx_, pc>>

\* A new session, its first read, and the next accept.
OnAcceptOk(k, c, newfd) ==
  /\ k.ctx[c].status = 0
  /\ \E a \in AllocOverlapCtx(k, newfd, FLAG_ASSOCIATE) :
       /\ a.ctx # NULL
       /\ sessions_' = With(sessions_, counter_, [fd_ |-> newfd, recv_ctx_ |-> a.ctx])
       /\ \E k1 \in StartRead(a.sys, a.ctx, counter_) :
            \E k2 \in StartAccept(k1, c) : sys' = AfterCallback(k2, c)
  /\ counter_' = counter_ + 1
  /\ UNCHANGED <<acceptor_, ctx_, pc>>

OnAccept(k, c) ==
  LET newfd == k.ctx[c].udata
      k1 == [k EXCEPT !.ctx[c].udata = 0]
  IN  OnAcceptFails(k1, c, newfd) \/ OnAcceptOk(k1, c, newfd)
-----------------------------------------------------------------------------
(* Run: the server sets no timers, so UpdateTimer does nothing.            *)

\* A failed packet: Run returns -1 before it looks at the context.
RunFailed == /\ pc = "run"
             /\ \E d \in Dequeue(sys) : ~d.ok /\ sys' = d.sys
             /\ UNCHANGED <<backlog, connects, server>>

RunCallback ==
  /\ pc = "run"
  /\ \E d \in Dequeue(sys) :
       LET cb == d.sys.ctx[d.ctx].cb
       IN  /\ d.ok
           /\ \/ cb.fn = "OnAccept" /\ OnAccept(d.sys, d.ctx)
              \/ cb.fn = "OnRead" /\ cb.obj \in Live /\ OnRead(d.sys, d.ctx, cb.obj)
              \/ cb.fn = "OnWritten" /\ cb.obj \in Live /\ OnWritten(d.sys, d.ctx)
  /\ UNCHANGED <<backlog, connects>>

\* The callback's session is deleted.
RunOnDeleted ==
  /\ pc = "run"
  /\ \E d \in Dequeue(sys) : /\ d.ok
                             /\ d.sys.ctx[d.ctx].cb.obj \notin Live \cup {0}
                             /\ sys' = d.sys
  /\ pc' = "undefined"
  /\ UNCHANGED <<backlog, connects, acceptor_, ctx_, sessions_, counter_>>

\* Nothing has ended: Run returns after its timeout.
RunTimeout == /\ pc = "run"
              /\ Dequeue(sys) = {}
              /\ UNCHANGED vars

\* SIGINT: main deletes the service, ~Server calls FreeOverlapCtx on the
\* deleted object, and the process ends with all it has.
Stop == /\ pc = "run"
        /\ pc' = "stopped"
        /\ sys' = EmptySystem(sys.service)
        /\ backlog' = 0
        /\ connects' = 0
        /\ acceptor_' = INVALID_SOCKET
        /\ ctx_' = NULL
        /\ sessions_' = NoSessions
        /\ counter_' = FirstSid

Halted == pc \in {"aborted", "undefined", "stopped"} /\ UNCHANGED vars

Run == RunFailed \/ RunCallback \/ RunOnDeleted \/ RunTimeout

-----------------------------------------------------------------------------
(* The system and the clients: connect, send MaxPings messages, close.     *)

EndAccept(op) == /\ op.kind = "accept"
                 /\ ~op.aborted
                 /\ backlog > 0
                 /\ backlog' = backlog - 1
                 /\ sys' = Ended([sys EXCEPT !.socks[op.sock].kind = "conn"], op, 0, 0)
                 /\ UNCHANGED connects

ClientConnect == /\ connects < MaxConns
                 /\ connects' = connects + 1
                 /\ backlog' = backlog + 1
                 /\ UNCHANGED sys

ClientPing(h) == /\ ~sys.socks[h].fin
                 /\ sys.socks[h].sent < MaxPings
                 /\ sys' = [sys EXCEPT !.socks[h].sent = @ + 1, !.socks[h].rx = @ + 1]
                 /\ UNCHANGED <<backlog, connects>>

ClientClose(h) == /\ ~sys.socks[h].fin
                  /\ EarlyClose \/ sys.socks[h].got = MaxPings
                  /\ sys' = [sys EXCEPT !.socks[h].fin = TRUE]
                  /\ UNCHANGED <<backlog, connects>>

Clients == ClientConnect \/ \E h \in Conns(sys) : ClientPing(h) \/ ClientClose(h)

SystemStep == /\ pc = "run"
              /\ \E op \in sys.ops : \/ EndAccept(op)
                                     \/ sys' \in EndOf(sys, op) /\ UNCHANGED <<backlog, connects>>
              /\ UNCHANGED server
ClientStep == pc = "run" /\ Clients /\ UNCHANGED server

Next == \/ Begin
        \/ Run
        \/ Stop
        \/ SystemStep
        \/ ClientStep
        \/ Halted

Spec == Init /\ [][Next]_vars

\* main calls Run in a loop; the system ends the operations it can end, and
\* nothing has to fail.
Fairness == /\ WF_vars(Begin)
            /\ WF_vars(Run)
            /\ WF_vars(SystemStep /\ sys'.faults = sys.faults)

FairSpec == Spec /\ Fairness
-----------------------------------------------------------------------------
(* Properties *)

Contexts == DOMAIN sys.ctx

TypeOK ==
  /\ \A c \in Contexts : /\ sys.ctx[c].flags \subseteq {0, 1}
                         /\ sys.ctx[c].status \in {0, 1}
                         /\ sys.ctx[c].bytes \in 0 .. MaxPings
                         /\ sys.ctx[c].set \in BOOLEAN
  /\ \A h \in DOMAIN sys.socks : /\ sys.socks[h].rx \in 0 .. MaxPings
                                 /\ sys.socks[h].sent \in 0 .. MaxPings
                                 /\ sys.socks[h].got \in 0 .. MaxPings
  /\ backlog \in 0 .. MaxConns
  /\ counter_ \in FirstSid .. FirstSid + MaxConns
  /\ Live \subseteq FirstSid .. counter_ - 1
  /\ pc \in {"init", "run", "aborted", "undefined", "stopped"}

\* On the port the system never works on a context that was deleted, nor holds a
\* packet for one, and no context is in two operations at once: deletion happens
\* only after the operation's end was taken from the system, although sessions
\* close while writes are on their way.  The event service deletes a context under
\* an operation (an orphan), but only under one that was cancelled.
InFlightContexts ==
  LET kept == {op \in sys.ops : OnPort(sys) \/ ~op.orphan}
  IN  /\ \A op \in sys.ops \ kept : op.aborted
      /\ \A op \in kept : op.ctx \in Contexts \ PacketContexts
      /\ PacketContexts \subseteq Contexts
      /\ \A o1, o2 \in kept : o1.ctx = o2.ctx => o1 = o2
      /\ \A i, j \in DOMAIN sys.port : sys.port[i].ctx = sys.port[j].ctx => i = j

\* Sessions own their sockets and contexts: each has an open socket and a read
\* context of its own, shared with no other session and not with the acceptor,
\* though handles and addresses are reused at once; and a read that is still
\* wanted is always the read of a live session, on that session's socket.  On the
\* event service a failed call may make a session of an accept that never was.
SessionsOwnSockets == OnPort(sys) \/ sys.faults = MaxFaults =>
  /\ \A s \in Live : /\ sessions_[s].fd_ \in Conns(sys)
                     /\ sessions_[s].recv_ctx_ \in Contexts \ {ctx_}
                     /\ sys.ctx[sessions_[s].recv_ctx_].fd = sessions_[s].fd_
  /\ \A s, t \in Live : s # t => /\ sessions_[s].fd_ # sessions_[t].fd_
                                 /\ sessions_[s].recv_ctx_ # sessions_[t].recv_ctx_
  /\ \A op \in sys.ops : op.kind = "read" /\ ~op.orphan =>
       \E s \in Live : sessions_[s].recv_ctx_ = op.ctx /\ (op.aborted \/ sessions_[s].fd_ = op.fd)

\* No socket is lost: every open one is the acceptor, waits in the accept
\* operation or in its result, or belongs to a live session, while no call fails.
NoSocketLost == pc = "run" /\ sys.faults = MaxFaults =>
  DOMAIN sys.socks = {acceptor_} \cup {sessions_[s].fd_ : s \in Live} \cup ({sys.ctx[ctx_].udata} \ {0})

\* The server always has an accept on its way, or a finished one to handle,
\* so that it goes on accepting clients, while no call fails.
AcceptArmed == pc = "run" /\ sys.faults = MaxFaults =>
  \/ \E op \in sys.ops : op.ctx = ctx_ /\ op.kind = "accept"
  \/ ctx_ \in PacketContexts
  \/ sys.ctx[ctx_].set /\ sys.ctx[ctx_].udata # 0

\* A client waits for echoes, on a connection it has not closed.
Behind == pc = "run" /\ \E h \in Conns(sys) : ~sys.socks[h].fin /\ sys.socks[h].got < sys.socks[h].sent

\* Every message of a client comes back, as the client of tests/pingpong
\* expects ("连续发送/接收`echoCount`条消息就close", pingpong.go:50), unless the
\* client closes first or the process ends: no client waits for ever.
EveryPingEchoed == Behind ~> ~Behind

\* On the event service it does, with several writes of a session on their way and
\* read and written results in any order.
EventsEchoPings == (Behind /\ ~OnPort(sys)) ~> ~Behind

\* "will delete me" (Session.cpp:40): when Close has deleted a session no
\* operation is left that calls back into it.
NoCallOnDeleted == pc # "undefined"
=============================================================================
