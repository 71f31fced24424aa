----------------------------- MODULE EchoServer -----------------------------
(***************************************************************************)
(* The echo server (src/examples/echo/EchoServer.cpp and EchoConn.cpp).    *)
(* A handler is an operator from a state w, the record of the system and of*)
(* the server's tables, to the set of states it may leave.  Connections are*)
(* objects with addresses 1, 2, ...; the server itself is sink 0.          *)
(***************************************************************************)
EXTENDS PollerBase, SocketOpts

CONSTANTS MAX_CONN_RECVBUF,  \* in messages
          MAX_RECV_COUNT,
          MaxMessages,       \* bound: messages per client
          EarlyClose         \* may a client close before it got its echoes?

EchoConn(fd) == [fd_ |-> fd, recv_count_ |-> 0]

\* The connection object id is c.
SetConn(w, id, c) == [w EXCEPT !.conns = With(@, id, c)]

NewServer(k) == [sys |-> k, aborted |-> FALSE, acceptor_ |-> INVALID_SOCKET,
                 conns |-> [id \in {} |-> EchoConn(0)], connections_ |-> [fd \in {} |-> 0]]

\* The CHECK ends the process when there is no socket; the result of AddFd is
\* ignored.
Start(w) ==
  UNION {IF a.fd = INVALID_SOCKET THEN {[w EXCEPT !.sys = a.sys, !.aborted = TRUE]}
         ELSE {[w EXCEPT !.sys = SetPollIn(r.sys, a.fd), !.acceptor_ = a.fd] : r \in AddFd(a.sys, a.fd, 0)}
         : a \in CreateTCPAcceptor(w.sys)}

\* Mutant: the connection stays in the table.
CloseSessionKeeps(w, fd) ==
  IF fd \notin DOMAIN w.connections_ THEN w
  ELSE [w EXCEPT !.sys = closesocket(RemoveFd(@, fd), fd),
                 !.conns = Without(@, w.connections_[fd])]

\* A connection that is not in the table yet is left alone.
CloseSession(w, fd) ==
  IF fd \notin DOMAIN w.connections_ THEN w
  ELSE [w EXCEPT !.sys = closesocket(RemoveFd(@, fd), fd),
                 !.conns = Without(@, w.connections_[fd]),
                 !.connections_ = Without(@, fd)]

Close(w, id) ==
  IF w.conns[id].fd_ = INVALID_SOCKET THEN w
  ELSE CloseSession(SetConn(w, id, [w.conns[id] EXCEPT !.fd_ = INVALID_SOCKET]), w.conns[id].fd_)

\* Mutant: nothing is echoed.
ReceivedIsDropped(w, id, n) ==
  LET w1 == SetConn(w, id, [w.conns[id] EXCEPT !.recv_count_ = @ + 1])
  IN  IF w1.conns[id].recv_count_ >= MAX_RECV_COUNT THEN {Close(w1, id)} ELSE {w1}

\* Mutant: one message less.
ReceivedClosesEarly(w, id, n) ==
  LET w1 == SetConn(w, id, [w.conns[id] EXCEPT !.recv_count_ = @ + 1])
  IN  IF w1.conns[id].recv_count_ >= MAX_RECV_COUNT - 1 THEN {Close(w1, id)}
      ELSE {[w1 EXCEPT !.sys = x.sys] : x \in WriteSome(w1.sys, w1.conns[id].fd_, n)}

\* n messages were received: the last ones are not echoed.
Received(w, id, n) ==
  LET w1 == SetConn(w, id, [w.conns[id] EXCEPT !.recv_count_ = @ + 1])
  IN  IF w1.conns[id].recv_count_ >= MAX_RECV_COUNT THEN {Close(w1, id)}
      ELSE {IF x.n < 0 THEN Close([w1 EXCEPT !.sys = x.sys], id) ELSE [w1 EXCEPT !.sys = x.sys]
            : x \in WriteSome(w1.sys, w1.conns[id].fd_, n)}

\* Mutant: the end of the stream is ignored.
StartReadIgnoresEof(w, id) ==
  UNION {LET w1 == [w EXCEPT !.sys = r.sys] IN IF r.n > 0 THEN Received(w1, id, r.n) ELSE {w1}
         : r \in ReadSome(w.sys, w.conns[id].fd_, MAX_CONN_RECVBUF)}

StartRead(w, id) ==
  UNION {LET w1 == [w EXCEPT !.sys = r.sys]
         IN  CASE r.n < 0 -> {Close(w1, id)}
               [] r.n > 0 -> Received(w1, id, r.n)
               [] OTHER   -> {w1}
         : r \in ReadSome(w.sys, w.conns[id].fd_, MAX_CONN_RECVBUF)}

\* accept: the new socket inherits the selection of the listening one.  Until
\* now its client has sent some messages, and may have closed.
Accepted(k, acceptor, fd, sent, fin) ==
  LET k1 == Take(k, acceptor, 1, "FD_ACCEPT")
      s == [NewSocket("conn") EXCEPT !.rx = sent, !.sent = sent, !.fin = fin,
              !.sel = k.socks[acceptor].sel, !.hEvent = k.socks[acceptor].hEvent]
  IN  Report([k1 EXCEPT !.socks = With(@, fd, s)], fd, Conditions(s))

\* AddFd failed: Close finds no session, the object is deleted, the socket
\* stays open.  Otherwise the first read comes before the entry in the table.
NewConnection(w, fd) ==
  LET id == LeastFree(DOMAIN w.conns)
      Insert(w1) == [w1 EXCEPT !.connections_ = With(@, fd, id)]
  IN  UNION {IF ~r.ok THEN {[w EXCEPT !.sys = r.sys]}
             ELSE {Insert(w1) : w1 \in StartRead(SetConn([w EXCEPT !.sys = SetPollOut(SetPollIn(r.sys, fd), fd)],
                                                          id, EchoConn(fd)), id)}
             : r \in AddFd(w.sys, fd, id)}

\* EchoServer::OnReadable: accept fails, or there is a new connection.
OnReadable(w) ==
  LET k == w.sys
      fd == FreshHandle(k)
      ready == IsOpen(k, w.acceptor_) /\ k.socks[w.acceptor_].rx > 0
  IN  {[w EXCEPT !.sys = k1] : k1 \in When(~ready, {k}) \cup Faulty(k)}
        \cup When(ready, UNION {NewConnection([w EXCEPT !.sys = Accepted(k, w.acceptor_, fd, n, fin)], fd)
                                : n \in 0 .. MaxMessages, fin \in {FALSE, EarlyClose}})

\* The sink with address id is called: OnReadable, or OnWritable which does
\* nothing.
Callback(w, id, readable) ==
  IF ~readable THEN {w} ELSE IF id = 0 THEN OnReadable(w) ELSE StartRead(w, id)
=============================================================================
