------------------------ MODULE PingPongServerProofs ------------------------
(***************************************************************************)
(* The inductive invariant of the pingpong server on the completion port,  *)
(* for any number of clients, messages and faults.                         *)
(*                                                                         *)
(* Good(k, S, n, a) relates a state k of the system, the sessions S, the   *)
(* number n of the next session and the accept context a: a handler goes   *)
(* through states of which it holds, and leaves one.                       *)
(***************************************************************************)
EXTENDS PingPongServer, IOServiceProofs

CallbackType == [fn : {"OnAccept", "OnRead", "OnWritten"}, obj : Nat]
CB           == CallbackType \cup {NULL}
SessionType  == [fd_ : Nat, recv_ctx_ : Nat]
AcceptCb     == Callback("OnAccept", 0)

\* Whose context it is: the callback tells, and only the accept context has
\* the callback of the accept, only a session's context that of its reads.
Owned(k, c, S, n, a) ==
  /\ k.ctx[c].flags = {}
  /\ k.ctx[c].cb \in CallbackType
  /\ k.ctx[c].cb.obj < n
  /\ c = a => k.ctx[c].cb = AcceptCb
  /\ k.ctx[c].cb.fn = "OnAccept" => c = a
  /\ k.ctx[c].cb.fn = "OnRead" /\ k.ctx[c].cb.obj \in DOMAIN S => S[k.ctx[c].cb.obj].recv_ctx_ = c

ContextsInv(k, S, n, a) == /\ a = NULL \/ a \in DOMAIN k.ctx
                           /\ \A c \in DOMAIN k.ctx : Owned(k, c, S, n, a)

SessionsInv(k, S, n) ==
  /\ n \in Nat /\ n >= FirstSid
  /\ S \in [DOMAIN S -> SessionType]
  /\ \A s \in DOMAIN S : /\ s \in Nat /\ s < n /\ s >= FirstSid
                         /\ S[s].fd_ \in Conns(k)
                         /\ S[s].recv_ctx_ \in DOMAIN k.ctx
                         /\ k.ctx[S[s].recv_ctx_].cb = Callback("OnRead", s)
                         /\ k.ctx[S[s].recv_ctx_].fd = S[s].fd_
  /\ \A s, t \in DOMAIN S : S[s].fd_ = S[t].fd_ => s = t

\* A read is a live session's, an accept has its idle socket, a write has a
\* context of its own; an operation that is not cancelled has its socket.
OpInv(k, op, S, a) ==
  /\ op.kind # "connect"
  /\ op.ctx = a => op.kind = "accept"
  /\ ~op.aborted => op.fd \in DOMAIN k.socks
  /\ op.kind = "read" => \E s \in DOMAIN S : /\ S[s].recv_ctx_ = op.ctx
                                             /\ op.aborted \/ S[s].fd_ = op.fd
  /\ op.kind = "accept" => /\ op.ctx = a
                           /\ op.sock = k.ctx[a].udata
                           /\ op.sock \in DOMAIN k.socks
                           /\ k.socks[op.sock].kind = "idle"

Unowned(h, S) == \A s \in DOMAIN S : S[s].fd_ # h

\* A packet tells how its operation ended; that of an accept brings a socket
\* no session has, a client's when the accept succeeded.
PacketInv(k, j, S, a) ==
  /\ k.port[j].ok <=> k.ctx[k.port[j].ctx].status = 0
  /\ k.port[j].ctx = a => Unowned(k.ctx[a].udata, S)
  /\ k.port[j].ctx = a /\ k.port[j].ok => k.ctx[a].udata \in Conns(k)

Good(k, S, n, a) ==
  /\ IsPortSystem(k, CB)
  /\ InFlight(k)
  /\ ContextsInv(k, S, n, a)
  /\ SessionsInv(k, S, n)
  /\ \A op \in k.ops : OpInv(k, op, S, a)
  /\ \A j \in DOMAIN k.port : PacketInv(k, j, S, a)

IInv == /\ Good(sys, sessions_, counter_, ctx_)
        /\ pc = "init" => sys = EmptySystem("IOCompletionPort") /\ ctx_ = NULL
        /\ pc \notin {"run", "undefined"} => sessions_ = NoSessions
-----------------------------------------------------------------------------
(* The calls. *)

\* The types of the parts.
LEMMA GoodTypes ==
  ASSUME NEW k, NEW S, NEW n, NEW a, Good(k, S, n, a)
  PROVE  /\ NULL \notin Nat
         /\ DOMAIN k.ctx \subseteq Nat /\ DOMAIN k.socks \subseteq Nat
         /\ k.ops \subseteq OperationType
         /\ k.port \in Seq(PacketType)
         /\ k.ctx \in [DOMAIN k.ctx -> ContextType(CB)]
         /\ k.socks \in [DOMAIN k.socks -> SocketType]
         /\ \A s \in DOMAIN S : S[s] \in SessionType
         /\ n \in Nat
  BY SystemElim, KernelAssumption DEF Good, SessionsInv, Packets

\* Run takes a packet: its context is free, and tells how the operation ended.
LEMMA TakesPacket ==
  ASSUME NEW k, NEW S, NEW n, NEW a, Good(k, S, n, a), NEW d \in Dequeue(k)
  PROVE  /\ Good(d.sys, S, n, a)
         /\ Free(d.sys, d.ctx)
         /\ d.ok <=> d.sys.ctx[d.ctx].status = 0
         /\ d.ctx = a => Unowned(d.sys.ctx[a].udata, S)
         /\ d.ctx = a /\ d.ok => d.sys.ctx[a].udata \in Conns(d.sys)
  <1>1. /\ k.port # <<>>
        /\ IsPortSystem(d.sys, CB)
        /\ d.ctx = k.port[1].ctx /\ d.ok = k.port[1].ok
        /\ d.sys.port = Tail(k.port)
        /\ d.sys.ctx = k.ctx /\ d.sys.ops = k.ops /\ d.sys.socks = k.socks
    BY PortDequeue DEF Good
  <1>2. PICK q : q = k.port
    BY Zenon
  <1>3. q \in Seq(PacketType) /\ q # <<>>
    BY <1>1, <1>2, GoodTypes
  <1>4. /\ 1 \in DOMAIN q
        /\ \A j \in DOMAIN Tail(q) : j \in Nat /\ j + 1 \in DOMAIN q /\ j + 1 # 1 /\ Tail(q)[j] = q[j + 1]
    BY <1>3
  <1>5. \A i, j \in DOMAIN q : q[i].ctx = q[j].ctx => i = j
    BY <1>2 DEF Good, InFlight
  <1>6. /\ Queued(d.sys) \subseteq Queued(k)
        /\ d.ctx \in Queued(k)
        /\ d.ctx \notin Queued(d.sys)
    BY <1>1, <1>2, <1>4, <1>5 DEF Queued
  <1>7. \A i, j \in DOMAIN d.sys.port : d.sys.port[i].ctx = d.sys.port[j].ctx => i = j
    BY <1>1, <1>2, <1>4, <1>5
  <1>8. InFlight(d.sys)
    BY <1>1, <1>6, <1>7 DEF Good, InFlight
  <1>9. ContextsInv(d.sys, S, n, a) /\ SessionsInv(d.sys, S, n)
    BY <1>1 DEF Good, ContextsInv, Owned, SessionsInv, Conns
  <1>10. \A op \in d.sys.ops : OpInv(d.sys, op, S, a)
    BY <1>1 DEF Good, OpInv
  <1>11. \A j \in DOMAIN d.sys.port : PacketInv(d.sys, j, S, a)
    <2> SUFFICES ASSUME NEW j \in DOMAIN d.sys.port PROVE PacketInv(d.sys, j, S, a)
      OBVIOUS
    <2>1. PICK i \in DOMAIN k.port : d.sys.port[j] = k.port[i]
      BY <1>1, <1>2, <1>4
    <2>2. PacketInv(k, i, S, a)
      BY <2>1 DEF Good
    <2> QED
      BY <1>1, <2>1, <2>2 DEF PacketInv, Unowned, Conns
  <1>12. PacketInv(k, 1, S, a)
    BY <1>2, <1>4 DEF Good
  <1> QED
    BY <1>1, <1>6, <1>8, <1>9, <1>10, <1>11, <1>12 DEF Good, Free, InFlight, PacketInv, Unowned, Conns

\* A read of a session, or a write, on a context that is free.
LEMMA StartsReadOrWrite ==
  ASSUME NEW k, NEW S, NEW n, NEW a, Good(k, S, n, a), NEW c, Free(k, c),
         c # a, NEW kind \in {"read", "write"}, NEW k1,
         \/ kind = "read" /\ k1 \in AsyncRead(k, c) /\ \E s \in DOMAIN S : S[s].recv_ctx_ = c
         \/ kind = "write" /\ k1 \in AsyncWrite(k, c)
  PROVE  /\ Good(k1, S, n, a)
         /\ SameBut(k, k1, c)
         /\ k1.socks = k.socks
         /\ \A d : Free(k, d) /\ d # c => Free(k1, d)
  <1>1. c \in DOMAIN k.ctx /\ IsPortSystem(k, CB)
    BY DEF Free, Good
  <1>2. /\ IsPortSystem(k1, CB)
        /\ SameBut(k, k1, c)
        /\ k1.ctx[c].udata = k.ctx[c].udata
        /\ k1.ctx[c].status = 0
        /\ k1.socks = k.socks
        /\ \/ k1.ops = k.ops
           \/ k1.ops = k.ops \cup {Operation(k, c, kind, 0)} /\ IsSocket(k, k.ctx[c].fd)
    BY <1>1, PortRead
  <1>3. LET o == Operation(k, c, kind, 0)
        IN  o.ctx = c /\ o.fd = k.ctx[c].fd /\ o.kind = kind /\ ~o.aborted
    BY DEF Operation
  <1>4. \/ k1.ops = k.ops
        \/ \E o : /\ k1.ops = k.ops \cup {o} /\ o.fd \in DOMAIN k.socks
                 /\ o.ctx = c /\ o.fd = k.ctx[c].fd /\ o.kind = kind /\ ~o.aborted
    BY <1>2, <1>3, Zenon DEF IsSocket
  <1>5. PICK o : \/ k1.ops = k.ops
                 \/ /\ k1.ops = k.ops \cup {o} /\ o.fd \in DOMAIN k.socks
                    /\ o.ctx = c /\ o.fd = k.ctx[c].fd /\ o.kind = kind /\ ~o.aborted
    BY <1>4, Zenon
  <1>6. Queued(k1) = Queued(k)
    BY <1>2 DEF SameBut, Queued
  <1>7. InFlight(k1)
    BY <1>1, <1>2, <1>5, <1>6 DEF Good, InFlight, Free, SameBut
  <1>8. ContextsInv(k1, S, n, a)
    BY <1>2 DEF Good, ContextsInv, Owned, SameBut
  <1>9. SessionsInv(k1, S, n)
    BY <1>2 DEF Good, SessionsInv, SameBut, Conns
  <1>10. \A op \in k.ops : OpInv(k1, op, S, a)
    <2> SUFFICES ASSUME NEW op \in k.ops PROVE OpInv(k1, op, S, a)
      OBVIOUS
    <2>1. OpInv(k, op, S, a) /\ op.ctx \in DOMAIN k.ctx /\ op.ctx # c
      BY DEF Good, InFlight, Free
    <2> QED
      BY <1>2, <2>1 DEF OpInv, SameBut
  <1>11. ASSUME k1.ops # k.ops PROVE k1.ops = k.ops \cup {o} /\ OpInv(k1, o, S, a)
    <2>1. kind = "read" => \E s \in DOMAIN S : S[s].recv_ctx_ = c /\ S[s].fd_ = k.ctx[c].fd
      BY DEF Good, SessionsInv
    <2>2. /\ k1.ops = k.ops \cup {o} /\ o.fd \in DOMAIN k.socks
          /\ o.ctx = c /\ o.fd = k.ctx[c].fd /\ o.kind = kind /\ ~o.aborted
      BY <1>5, <1>11
    <2>3. o.kind # "accept" /\ o.kind # "connect"
      BY <2>2
    <2>4. o.kind = "read" => \E s \in DOMAIN S : S[s].recv_ctx_ = o.ctx /\ S[s].fd_ = o.fd
      BY <2>1, <2>2, Zenon
    <2> QED
      BY <1>2, <2>2, <2>3, <2>4, Zenon DEF OpInv
  <1>12. \A j \in DOMAIN k1.port : PacketInv(k1, j, S, a)
    <2> SUFFICES ASSUME NEW j \in DOMAIN k1.port PROVE PacketInv(k1, j, S, a)
      OBVIOUS
    <2>1. j \in DOMAIN k.port /\ k1.port[j] = k.port[j] /\ PacketInv(k, j, S, a)
      BY <1>2 DEF SameBut, Good
    <2>2. k.port[j].ctx # c /\ k.port[j].ctx \in DOMAIN k.ctx
      BY <2>1 DEF Free, Queued, Good, InFlight
    <2> QED
      BY <1>2, <2>1, <2>2 DEF PacketInv, SameBut, Unowned, Conns
  <1>13. Good(k1, S, n, a)
    BY <1>2, <1>7, <1>8, <1>9, <1>10, <1>11, <1>12 DEF Good
  <1> QED
    BY <1>2, <1>5, <1>6, <1>13 DEF Free, SameBut

\* The context of a write: it is new, and names a session, alive or not.
LEMMA NewWriteContext ==
  ASSUME NEW k, NEW S, NEW n, NEW a, Good(k, S, n, a), NEW c \in Nat \ DOMAIN k.ctx,
         NEW fd, NEW b \in CallbackType, b.fn = "OnWritten", b.obj < n,
         NEW k1, IsPortSystem(k1, CB), Adds(k, k1, c, fd, b)
  PROVE  /\ Good(k1, S, n, a)
         /\ Free(k1, c)
         /\ \A d : Free(k, d) => Free(k1, d) /\ k1.ctx[d] = k.ctx[d]
  <1>1. /\ DOMAIN k1.ctx = DOMAIN k.ctx \cup {c}
        /\ \A d \in DOMAIN k.ctx : k1.ctx[d] = k.ctx[d]
        /\ k1.ctx[c].flags = {} /\ k1.ctx[c].cb = b
        /\ k1.ops = k.ops /\ k1.port = k.port /\ k1.socks = k.socks
    BY DEF Adds
  <1>2. Queued(k1) = Queued(k)
    BY <1>1 DEF Queued
  <1>3. InFlight(k1)
    BY <1>1, <1>2 DEF Good, InFlight
  <1>4. a # c
    BY KernelAssumption DEF Good, ContextsInv
  <1>5. ContextsInv(k1, S, n, a)
    BY <1>1, <1>4 DEF Good, ContextsInv, Owned
  <1>6. SessionsInv(k1, S, n)
    BY <1>1 DEF Good, SessionsInv, Conns
  <1>7. \A op \in k1.ops : OpInv(k1, op, S, a)
    BY <1>1 DEF Good, OpInv, InFlight
  <1>8. \A j \in DOMAIN k1.port : PacketInv(k1, j, S, a)
    <2> SUFFICES ASSUME NEW j \in DOMAIN k1.port PROVE PacketInv(k1, j, S, a)
      OBVIOUS
    <2>1. j \in DOMAIN k.port /\ k1.port[j] = k.port[j] /\ PacketInv(k, j, S, a)
      BY <1>1 DEF Good
    <2>2. k.port[j].ctx \in DOMAIN k.ctx
      BY <2>1 DEF Queued, Good, InFlight
    <2> QED
      BY <1>1, <2>1, <2>2 DEF PacketInv, Unowned, Conns
  <1>9. Good(k1, S, n, a)
    BY <1>1, <1>3, <1>5, <1>6, <1>7, <1>8 DEF Good
  <1> QED
    BY <1>1, <1>2, <1>9 DEF Free, Good, InFlight

\* The context of a session that is made for a client's socket.
LEMMA NewSessionContext ==
  ASSUME NEW k, NEW S, NEW n, NEW a, Good(k, S, n, a), Free(k, a),
         NEW c \in Nat \ DOMAIN k.ctx, NEW fd \in Conns(k), Unowned(fd, S),
         NEW S1, S1 = With(S, n, [fd_ |-> fd, recv_ctx_ |-> c]),
         NEW b \in CallbackType, b = Callback("OnRead", n),
         NEW k1, IsPortSystem(k1, CB), Adds(k, k1, c, fd, b)
  PROVE  /\ Good(k1, S1, n + 1, a)
         /\ Free(k1, c)
         /\ S1[n].recv_ctx_ = c /\ n \in DOMAIN S1
         /\ \A d : Free(k, d) => Free(k1, d) /\ d # c /\ k1.ctx[d] = k.ctx[d]
  <1>1. /\ n \in Nat /\ n >= FirstSid
        /\ \A s \in DOMAIN S : s < n /\ s \in Nat
    BY DEF Good, SessionsInv
  <1>2. fd \in Nat
    BY GoodTypes DEF Unowned, Conns
  <1>3. /\ DOMAIN k1.ctx = DOMAIN k.ctx \cup {c}
        /\ \A d \in DOMAIN k.ctx : k1.ctx[d] = k.ctx[d]
        /\ k1.ctx[c].flags = {} /\ k1.ctx[c].cb = b /\ k1.ctx[c].fd = fd
        /\ k1.ops = k.ops /\ k1.port = k.port /\ k1.socks = k.socks
    BY DEF Adds
  <1>4. Queued(k1) = Queued(k)
    BY <1>3 DEF Queued
  <1>5. b.fn = "OnRead" /\ b.obj = n
    BY <1>1 DEF Callback, CallbackType
  <1>6. /\ DOMAIN S1 = DOMAIN S \cup {n} /\ n \notin DOMAIN S
        /\ S1[n].fd_ = fd /\ S1[n].recv_ctx_ = c /\ S1[n] \in SessionType
        /\ \A s \in DOMAIN S : S1[s] = S[s]
        /\ S1 = [s \in DOMAIN S1 |-> S1[s]]
    BY <1>1, <1>2 DEF With, SessionType
  <1>7. InFlight(k1)
    BY <1>3, <1>4 DEF Good, InFlight
  <1>8. a # c
    BY KernelAssumption DEF Good, ContextsInv
  <1>9. ContextsInv(k1, S1, n + 1, a)
    <2>1. a = NULL \/ a \in DOMAIN k1.ctx
      BY <1>3 DEF Good, ContextsInv
    <2>2. Owned(k1, c, S1, n + 1, a)
      BY <1>1, <1>3, <1>5, <1>6, <1>8 DEF Owned
    <2>3. ASSUME NEW d \in DOMAIN k.ctx PROVE Owned(k1, d, S1, n + 1, a)
      <3>1. Owned(k, d, S, n, a) /\ k1.ctx[d] = k.ctx[d]
        BY <1>3 DEF Good, ContextsInv
      <3>2. k.ctx[d].cb.obj \in Nat
        BY <3>1 DEF Owned, CallbackType
      <3> QED
        BY <1>1, <1>6, <3>1, <3>2 DEF Owned
    <2> QED
      BY <1>3, <2>1, <2>2, <2>3 DEF ContextsInv
  <1>10. SessionsInv(k1, S1, n + 1)
    <2>1. n + 1 \in Nat /\ n + 1 >= FirstSid
      BY <1>1 DEF FirstSid
    <2>2. S1 \in [DOMAIN S1 -> SessionType]
      BY <1>6 DEF Good, SessionsInv
    <2>3. ASSUME NEW s \in DOMAIN S1
          PROVE  /\ s \in Nat /\ s < n + 1 /\ s >= FirstSid
                 /\ S1[s].fd_ \in Conns(k1)
                 /\ S1[s].recv_ctx_ \in DOMAIN k1.ctx
                 /\ k1.ctx[S1[s].recv_ctx_].cb = Callback("OnRead", s)
                 /\ k1.ctx[S1[s].recv_ctx_].fd = S1[s].fd_
      BY <1>1, <1>3, <1>6 DEF Good, SessionsInv, Unowned, Conns
    <2>4. \A s, t \in DOMAIN S1 : S1[s].fd_ = S1[t].fd_ => s = t
      BY <1>6 DEF Good, SessionsInv, Unowned
    <2> QED
      BY <2>1, <2>2, <2>3, <2>4 DEF SessionsInv
  <1>11. \A op \in k1.ops : OpInv(k1, op, S1, a)
    <2> SUFFICES ASSUME NEW op \in k.ops PROVE OpInv(k1, op, S1, a)
      BY <1>3
    <2>1. OpInv(k, op, S, a) /\ op.ctx \in DOMAIN k.ctx
      BY DEF Good, InFlight
    <2> QED
      BY <1>3, <1>6, <2>1 DEF OpInv
  <1>12. \A j \in DOMAIN k1.port : PacketInv(k1, j, S1, a)
    <2> SUFFICES ASSUME NEW j \in DOMAIN k1.port PROVE PacketInv(k1, j, S1, a)
      OBVIOUS
    <2>1. j \in DOMAIN k.port /\ k1.port[j] = k.port[j] /\ PacketInv(k, j, S, a)
      BY <1>3 DEF Good
    <2>2. k.port[j].ctx \in DOMAIN k.ctx /\ k.port[j].ctx # a
      BY <2>1 DEF Queued, Good, InFlight, Free
    <2> QED
      BY <1>3, <2>1, <2>2 DEF PacketInv
  <1>13. Good(k1, S1, n + 1, a)
    BY <1>3, <1>7, <1>9, <1>10, <1>11, <1>12 DEF Good
  <1>14. Free(k1, c)
    BY <1>3, <1>4 DEF Free, Good, InFlight
  <1>15. \A d : Free(k, d) => Free(k1, d) /\ d # c /\ k1.ctx[d] = k.ctx[d]
    BY <1>3, <1>4 DEF Free
  <1> QED
    BY <1>6, <1>13, <1>14, <1>15

\* Operations on a closed socket are cancelled; the rest is as it was.
LEMMA AbortedOps ==
  ASSUME NEW k, NEW S, NEW n, NEW a, Good(k, S, n, a), NEW h, NEW op1 \in Abort(k.ops, h)
  PROVE  \E op \in k.ops : /\ op1.ctx = op.ctx /\ op1.kind = op.kind /\ op1.sock = op.sock
                           /\ op1.fd = op.fd
                           /\ op.aborted => op1.aborted
                           /\ op.fd = h => op1.aborted
                           /\ OpInv(k, op, S, a)
  BY AbortType, GoodTypes DEF Good

\* No two operations use one context, as before.
LEMMA AbortedInFlight ==
  ASSUME NEW k, NEW S, NEW n, NEW a, Good(k, S, n, a), NEW h
  PROVE  \A o1, o2 \in Abort(k.ops, h) : o1.ctx = o2.ctx => o1 = o2
  <1> SUFFICES ASSUME NEW o1 \in Abort(k.ops, h), NEW o2 \in Abort(k.ops, h), o1.ctx = o2.ctx
               PROVE  o1 = o2
    OBVIOUS
  <1>1. k.ops \in SUBSET OperationType
    BY GoodTypes
  <1>2. PICK p1 \in k.ops : /\ o1.ctx = p1.ctx
                            /\ o1 = IF p1.fd = h THEN [p1 EXCEPT !.aborted = TRUE] ELSE p1
    BY <1>1, AbortType
  <1>3. PICK p2 \in k.ops : /\ o2.ctx = p2.ctx
                            /\ o2 = IF p2.fd = h THEN [p2 EXCEPT !.aborted = TRUE] ELSE p2
    BY <1>1, AbortType
  <1>4. p1.ctx = p2.ctx
    BY <1>2, <1>3
  <1>5. p1 = p2
    BY <1>4 DEF Good, InFlight
  <1> QED
    BY <1>2, <1>3, <1>5, Zenon

\* The accept is started, or not, on the accept context, which is free.
LEMMA StartsAccept ==
  ASSUME NEW k, NEW S, NEW n, NEW a, Good(k, S, n, a), Free(k, a), NEW k1 \in AsyncAccept(k, a)
  PROVE  /\ Good(k1, S, n, a)
         /\ SameBut(k, k1, a)
  <1>1. a \in DOMAIN k.ctx /\ IsPortSystem(k, CB)
    BY DEF Free, Good
  <1>2. /\ IsPortSystem(k1, CB)
        /\ SameBut(k, k1, a)
        /\ \/ /\ k1.ctx[a].udata = k.ctx[a].udata
              /\ k1.ops = k.ops
              /\ k1.socks = k.socks
           \/ \E h \in Nat \ DOMAIN k.socks :
                /\ k1.ctx[a].udata = h
                /\ \/ k1.ops = Abort(k.ops, h) /\ k1.socks = k.socks
                   \/ /\ k1.ops = k.ops \cup {Operation(k, a, "accept", h)}
                      /\ IsSocket(k1, k.ctx[a].fd)
                      /\ k1.socks = With(k.socks, h, NewSocket("idle"))
    BY <1>1, PortAccept
  <1>3. Queued(k1) = Queued(k)
    BY <1>2 DEF SameBut, Queued
  <1>4. ContextsInv(k1, S, n, a)
    BY <1>2 DEF Good, ContextsInv, Owned, SameBut
  <1>5. \A op \in k.ops : OpInv(k, op, S, a) /\ op.kind # "accept" /\ op.ctx \in DOMAIN k.ctx /\ op.ctx # a
    BY DEF Good, OpInv, Free, InFlight
  <1>6. \A j \in DOMAIN k1.port : PacketInv(k1, j, S, a)
    <2> SUFFICES ASSUME NEW j \in DOMAIN k1.port PROVE PacketInv(k1, j, S, a)
      OBVIOUS
    <2>1. j \in DOMAIN k.port /\ k1.port[j] = k.port[j] /\ PacketInv(k, j, S, a)
      BY <1>2 DEF SameBut, Good
    <2>2. k.port[j].ctx # a /\ k.port[j].ctx \in DOMAIN k.ctx
      BY <2>1 DEF Free, Queued, Good, InFlight
    <2> QED
      BY <1>2, <2>1, <2>2 DEF PacketInv, SameBut
  <1>7. CASE k1.ops = k.ops /\ k1.socks = k.socks
    <2>1. InFlight(k1)
      BY <1>2, <1>3, <1>7 DEF Good, InFlight, SameBut
    <2>2. SessionsInv(k1, S, n)
      BY <1>2, <1>7 DEF Good, SessionsInv, SameBut, Conns
    <2>3. \A op \in k1.ops : OpInv(k1, op, S, a)
      BY <1>5, <1>7 DEF OpInv
    <2> QED
      BY <1>2, <1>4, <1>6, <2>1, <2>2, <2>3 DEF Good
  <1>8. ASSUME NEW h \in Nat \ DOMAIN k.socks, k1.ops = Abort(k.ops, h), k1.socks = k.socks
        PROVE  Good(k1, S, n, a)
    <2>1. \A op1 \in k1.ops : \E op \in k.ops :
            /\ op1.ctx = op.ctx /\ op1.kind = op.kind /\ op1.fd = op.fd
            /\ op.aborted => op1.aborted
      BY <1>8, AbortedOps
    <2>2. InFlight(k1)
      <3>1. \A o1, o2 \in k1.ops : o1.ctx = o2.ctx => o1 = o2
        <4>1. \A o1, o2 \in Abort(k.ops, h) : o1.ctx = o2.ctx => o1 = o2
          BY AbortedInFlight
        <4> QED
          BY <1>8, <4>1
      <3>2. \A op \in k1.ops : op.ctx \in DOMAIN k.ctx /\ op.ctx \notin Queued(k)
        BY <2>1 DEF Good, InFlight
      <3> QED
        BY <1>2, <1>3, <3>1, <3>2 DEF Good, InFlight, SameBut
    <2>3. SessionsInv(k1, S, n)
      BY <1>2, <1>8 DEF Good, SessionsInv, SameBut, Conns
    <2>4. \A op \in k1.ops : OpInv(k1, op, S, a)
      BY <1>5, <1>8, <2>1 DEF OpInv
    <2> QED
      BY <1>2, <1>4, <1>6, <2>2, <2>3, <2>4 DEF Good
  <1>9. ASSUME NEW h \in Nat \ DOMAIN k.socks, k1.ctx[a].udata = h, IsSocket(k1, k.ctx[a].fd),
               k1.ops = k.ops \cup {Operation(k, a, "accept", h)},
               k1.socks = With(k.socks, h, NewSocket("idle"))
        PROVE  Good(k1, S, n, a)
    <2>1. /\ DOMAIN k1.socks = DOMAIN k.socks \cup {h}
          /\ k1.socks[h].kind = "idle"
          /\ \A g \in DOMAIN k.socks : k1.socks[g] = k.socks[g]
      BY <1>9 DEF With, NewSocket
    <2>2. PICK o : o = Operation(k, a, "accept", h)
      BY Zenon
    <2>3. o.ctx = a /\ o.fd = k.ctx[a].fd /\ o.kind = "accept" /\ o.sock = h
      BY <2>2 DEF Operation
    <2>4. k1.ops = k.ops \cup {o}
      BY <1>9, <2>2, Zenon
    <2>5. InFlight(k1)
      BY <1>1, <1>2, <1>3, <2>3, <2>4 DEF Good, InFlight, SameBut, Free
    <2>6. SessionsInv(k1, S, n)
      BY <1>2, <2>1 DEF Good, SessionsInv, SameBut, Conns
    <2>7. \A op \in k.ops : OpInv(k1, op, S, a)
      BY <1>5, <2>1 DEF OpInv
    <2>8. OpInv(k1, o, S, a)
      BY <1>9, <2>1, <2>3 DEF OpInv, IsSocket
    <2> QED
      BY <1>2, <1>4, <1>6, <2>4, <2>5, <2>6, <2>7, <2>8 DEF Good
  <1> QED
    BY <1>2, <1>7, <1>8, <1>9

\* Contexts C and sockets H, of h at most, are gone, with the sessions that
\* had the contexts, and the operations on h are cancelled.
Shrunk(k, S, a, k1, S1, h, C, H) ==
  /\ H \subseteq {h} /\ k1.ops = Abort(k.ops, h) /\ k1.port = k.port
  /\ DOMAIN k1.ctx = DOMAIN k.ctx \ C /\ \A d \in DOMAIN k1.ctx : k1.ctx[d] = k.ctx[d]
  /\ DOMAIN k1.socks = DOMAIN k.socks \ H /\ \A g \in DOMAIN k1.socks : k1.socks[g] = k.socks[g]
  /\ DOMAIN S1 \subseteq DOMAIN S /\ \A s \in DOMAIN S1 : S1[s] = S[s]
  /\ S1 \in [DOMAIN S1 -> SessionType]
  /\ a \notin C /\ \A c \in C : Free(k, c)
  /\ \A s \in DOMAIN S : (S[s].recv_ctx_ \notin C) <=> s \in DOMAIN S1
  /\ \A s \in DOMAIN S1 : S[s].fd_ \notin H
  /\ \A op \in k.ops : op.kind = "accept" => op.sock \notin H
  /\ \A j \in DOMAIN k.port : k.port[j].ctx = a => k.ctx[a].udata \notin H

\* The invariant survives what ~Session, CloseSession and OnAccept give back.
LEMMA Shrinks ==
  ASSUME NEW k, NEW S, NEW n, NEW a, Good(k, S, n, a), NEW k1, IsPortSystem(k1, CB),
         NEW h, NEW C, NEW H, NEW S1, Shrunk(k, S, a, k1, S1, h, C, H)
  PROVE  Good(k1, S1, n, a)
  <1> USE DEF Shrunk
  <1>1. \A op1 \in k1.ops : \E op \in k.ops :
          /\ op1.ctx = op.ctx /\ op1.kind = op.kind /\ op1.sock = op.sock /\ op1.fd = op.fd
          /\ op.aborted => op1.aborted
          /\ op.fd = h => op1.aborted
          /\ OpInv(k, op, S, a)
    <2>1. \A op1 \in Abort(k.ops, h) : \E op \in k.ops :
            /\ op1.ctx = op.ctx /\ op1.kind = op.kind /\ op1.sock = op.sock /\ op1.fd = op.fd
            /\ op.aborted => op1.aborted
            /\ op.fd = h => op1.aborted
            /\ OpInv(k, op, S, a)
      BY AbortedOps
    <2> QED
      BY <2>1
  <1>2. \A o1, o2 \in k1.ops : o1.ctx = o2.ctx => o1 = o2
    <2>1. \A o1, o2 \in Abort(k.ops, h) : o1.ctx = o2.ctx => o1 = o2
      BY AbortedInFlight
    <2> QED
      BY <2>1
  <1>3. Queued(k1) = Queued(k)
    BY DEF Queued
  <1>4. InFlight(k1)
    BY <1>1, <1>2, <1>3 DEF Good, InFlight, Free
  <1>5. ContextsInv(k1, S1, n, a)
    BY DEF Good, ContextsInv, Owned
  <1>6. \A s \in DOMAIN S1 : s \in DOMAIN S /\ S1[s] = S[s]
    OBVIOUS
  <1>7. SessionsInv(k1, S1, n)
    <2>1. S1 \in [DOMAIN S1 -> SessionType]
      OBVIOUS
    <2>2. ASSUME NEW s \in DOMAIN S1
          PROVE  /\ s \in Nat /\ s < n /\ s >= FirstSid
                 /\ S1[s].fd_ \in Conns(k1)
                 /\ S1[s].recv_ctx_ \in DOMAIN k1.ctx
                 /\ k1.ctx[S1[s].recv_ctx_].cb = Callback("OnRead", s)
                 /\ k1.ctx[S1[s].recv_ctx_].fd = S1[s].fd_
      BY <1>6 DEF Good, SessionsInv, Conns
    <2> QED
      BY <1>6, <2>1, <2>2 DEF Good, SessionsInv
  <1>8. \A op \in k1.ops : OpInv(k1, op, S1, a)
    <2> SUFFICES ASSUME NEW op1 \in k1.ops PROVE OpInv(k1, op1, S1, a)
      OBVIOUS
    <2>1. PICK op \in k.ops :
            /\ op1.ctx = op.ctx /\ op1.kind = op.kind /\ op1.sock = op.sock /\ op1.fd = op.fd
            /\ op.aborted => op1.aborted
            /\ op.fd = h => op1.aborted
            /\ OpInv(k, op, S, a)
      BY <1>1
    <2>2. op.ctx \notin C /\ op.ctx \in DOMAIN k.ctx
      BY DEF Free, Good, InFlight
    <2>3. /\ op1.kind # "connect" /\ (~op1.aborted => op1.fd \in DOMAIN k1.socks)
          /\ op1.ctx = a => op1.kind = "accept"
      BY <2>1 DEF OpInv
    <2>4. ASSUME op1.kind = "read"
          PROVE  \E s \in DOMAIN S1 : /\ S1[s].recv_ctx_ = op1.ctx
                                      /\ op1.aborted \/ S1[s].fd_ = op1.fd
      <3>1. PICK s \in DOMAIN S : S[s].recv_ctx_ = op.ctx /\ (op.aborted \/ S[s].fd_ = op.fd)
        BY <2>1, <2>4 DEF OpInv
      <3>2. s \in DOMAIN S1 /\ S1[s] = S[s]
        BY <1>6, <2>2, <3>1
      <3> QED
        BY <2>1, <3>1, <3>2
    <2>5. ASSUME op1.kind = "accept"
          PROVE  /\ op1.ctx = a
                 /\ op1.sock = k1.ctx[a].udata
                 /\ op1.sock \in DOMAIN k1.socks
                 /\ k1.socks[op1.sock].kind = "idle"
      <3>1. /\ op.kind = "accept" /\ op.ctx = a /\ op.sock = k.ctx[a].udata
            /\ op.sock \in DOMAIN k.socks /\ k.socks[op.sock].kind = "idle"
        BY <2>1, <2>5 DEF OpInv
      <3> QED
        BY <2>1, <2>2, <3>1
    <2> QED
      BY <2>3, <2>4, <2>5 DEF OpInv
  <1>9. \A j \in DOMAIN k1.port : PacketInv(k1, j, S1, a)
    <2> SUFFICES ASSUME NEW j \in DOMAIN k1.port PROVE PacketInv(k1, j, S1, a)
      OBVIOUS
    <2>1. j \in DOMAIN k.port /\ k1.port[j] = k.port[j] /\ PacketInv(k, j, S, a)
      BY DEF Good
    <2>2. k.port[j].ctx \in DOMAIN k1.ctx
      BY <2>1 DEF Free, Queued, Good, InFlight
    <2> QED
      BY <1>6, <2>1, <2>2 DEF PacketInv, Unowned, Conns
  <1> QED
    BY <1>4, <1>5, <1>7, <1>8, <1>9 DEF Good

\* A closed session: its socket, its context and itself are gone.
LEMMA ClosesSession ==
  ASSUME NEW k, NEW S, NEW n, NEW a, Good(k, S, n, a), NEW s \in DOMAIN S, NEW c, Free(k, c),
         c = S[s].recv_ctx_, NEW k1,
         k1 = AfterCallback(FreeOverlapCtx(SetLazyDelete(closesocket(k, S[s].fd_), c), c), c)
  PROVE  Good(k1, Without(S, s), n, a)
  <1>1. PICK kb : kb = closesocket(k, S[s].fd_)
    BY Zenon
  <1>2. PICK h : h = S[s].fd_
    BY Zenon
  <1>3. /\ IsPortSystem(kb, CB)
        /\ kb.ops = Abort(k.ops, h)
        /\ kb.socks = Without(k.socks, h)
        /\ kb.ctx = k.ctx /\ kb.port = k.port
    BY <1>1, <1>2, CloseType DEF Good
  <1>4. \A op1 \in Abort(k.ops, h) : \E op \in k.ops : op1.ctx = op.ctx
    BY AbortedOps
  <1>5. c \in DOMAIN kb.ctx /\ \A op \in kb.ops : op.ctx # c
    BY <1>3, <1>4 DEF Free
  <1>6. k1 = AfterCallback(FreeOverlapCtx(SetLazyDelete(kb, c), c), c)
    BY <1>1, Zenon
  <1>7. /\ IsPortSystem(k1, CB)
        /\ k1.ctx = Without(k.ctx, c)
        /\ k1.ops = Abort(kb.ops, kb.ctx[c].fd)
        /\ k1.port = k.port /\ k1.socks = kb.socks
    BY <1>3, <1>5, <1>6, PortFree
  <1>8. /\ kb.ctx[c].fd = h /\ k.ctx[c].cb.fn = "OnRead" /\ k.ctx[c].cb.obj = s
        /\ h \in Conns(k) /\ c \in DOMAIN k.ctx
    <2>1. k.ctx[c].cb = Callback("OnRead", s) /\ k.ctx[c].fd = h /\ h \in Conns(k)
      BY <1>2 DEF Good, SessionsInv
    <2>2. k.ctx[c].cb.fn = "OnRead" /\ k.ctx[c].cb.obj = s
      BY <2>1 DEF Callback
    <2> QED
      BY <1>3, <1>5, <2>1, <2>2
  <1>9. k1.ops = Abort(k.ops, h)
    <2>1. Abort(Abort(k.ops, h), h) = Abort(k.ops, h)
      BY AbortTwice, GoodTypes
    <2> QED
      BY <1>3, <1>7, <1>8, <2>1
  <1>10. c # a
    BY <1>8 DEF Good, ContextsInv, Owned, AcceptCb, Callback
  <1>11. PICK S1 : S1 = Without(S, s)
    BY Zenon
  <1>12. /\ DOMAIN S1 = DOMAIN S \ {s}
         /\ \A t \in DOMAIN S1 : S1[t] = S[t]
         /\ S1 \in [DOMAIN S1 -> SessionType]
    BY <1>11, GoodTypes DEF Without
  <1>13. /\ DOMAIN k1.ctx = DOMAIN k.ctx \ {c}
         /\ \A d \in DOMAIN k1.ctx : k1.ctx[d] = k.ctx[d]
         /\ DOMAIN k1.socks = DOMAIN k.socks \ {h}
         /\ \A g \in DOMAIN k1.socks : k1.socks[g] = k.socks[g]
    BY <1>3, <1>7 DEF Without
  <1>14. \A t \in DOMAIN S : S[t].recv_ctx_ = c => t = s
    <2> SUFFICES ASSUME NEW t \in DOMAIN S, S[t].recv_ctx_ = c PROVE t = s
      OBVIOUS
    <2>1. k.ctx[S[t].recv_ctx_].cb = Callback("OnRead", t)
      BY DEF Good, SessionsInv
    <2>2. k.ctx[S[t].recv_ctx_].cb.obj = t
      BY <2>1 DEF Callback
    <2> QED
      BY <1>8, <2>2
  <1>15. \A t \in DOMAIN S : (S[t].recv_ctx_ \notin {c}) <=> t \in DOMAIN S1
    BY <1>12, <1>14
  <1>16. \A t \in DOMAIN S1 : S[t].fd_ \notin {h}
    BY <1>2, <1>12 DEF Good, SessionsInv
  <1>17. \A op \in k.ops : op.kind = "accept" => op.sock \notin {h}
    BY <1>8 DEF Good, OpInv, Conns
  <1>18. \A j \in DOMAIN k.port : k.port[j].ctx = a => k.ctx[a].udata \notin {h}
    BY <1>2 DEF Good, PacketInv, Unowned
  <1>19. Shrunk(k, S, a, k1, S1, h, {c}, {h})
    BY <1>7, <1>9, <1>10, <1>12, <1>13, <1>15, <1>16, <1>17, <1>18 DEF Shrunk
  <1>20. Good(k1, S1, n, a)
    BY <1>7, <1>19, Shrinks
  <1> QED
    BY <1>11, <1>20

\* The end of a write: its context is deleted.
LEMMA EndsWrite ==
  ASSUME NEW k, NEW S, NEW n, NEW a, Good(k, S, n, a), NEW c, Free(k, c),
         k.ctx[c].cb.fn = "OnWritten", NEW k1,
         k1 = AfterCallback(FreeOverlapCtx(SetLazyDelete(k, c), c), c)
  PROVE  Good(k1, S, n, a)
  <1>1. IsPortSystem(k, CB) /\ c \in DOMAIN k.ctx /\ \A op \in k.ops : op.ctx # c
    BY DEF Good, Free
  <1>2. PICK h : h = k.ctx[c].fd
    BY Zenon
  <1>3. /\ IsPortSystem(k1, CB)
        /\ k1.ctx = Without(k.ctx, c)
        /\ k1.ops = Abort(k.ops, h)
        /\ k1.port = k.port /\ k1.socks = k.socks
    BY <1>1, <1>2, PortFree
  <1>4. c # a
    BY <1>1 DEF Good, ContextsInv, Owned, AcceptCb, Callback
  <1>5. /\ DOMAIN k1.ctx = DOMAIN k.ctx \ {c}
        /\ \A d \in DOMAIN k1.ctx : k1.ctx[d] = k.ctx[d]
    BY <1>3 DEF Without
  <1>6. \A s \in DOMAIN S : S[s].recv_ctx_ # c
    <2> SUFFICES ASSUME NEW s \in DOMAIN S, S[s].recv_ctx_ = c PROVE FALSE
      OBVIOUS
    <2>1. k.ctx[c].cb = Callback("OnRead", s)
      BY DEF Good, SessionsInv
    <2> QED
      BY <2>1 DEF Callback
  <1>7. S \in [DOMAIN S -> SessionType]
    BY DEF Good, SessionsInv
  <1>8. Shrunk(k, S, a, k1, S, h, {c}, {})
    BY <1>3, <1>4, <1>5, <1>6, <1>7 DEF Shrunk
  <1> QED
    BY <1>3, <1>8, Shrinks

\* The accept context forgets the socket it brought, and the socket is closed.
LEMMA ClosesAccepted ==
  ASSUME NEW k, NEW S, NEW n, NEW a, Good(k, S, n, a), Free(k, a),
         NEW h, Unowned(h, S), NEW k1, k1 = closesocket(k, h)
  PROVE  Good(k1, S, n, a) /\ k1.ctx = k.ctx
  <1>1. /\ IsPortSystem(k1, CB)
        /\ k1.ops = Abort(k.ops, h)
        /\ k1.socks = Without(k.socks, h)
        /\ k1.ctx = k.ctx /\ k1.port = k.port
    BY CloseType DEF Good
  <1>2. DOMAIN k1.socks = DOMAIN k.socks \ {h} /\ \A g \in DOMAIN k1.socks : k1.socks[g] = k.socks[g]
    BY <1>1 DEF Without
  <1>3. \A op \in k.ops : op.kind # "accept"
    BY DEF Good, OpInv, Free
  <1>4. \A j \in DOMAIN k.port : k.port[j].ctx # a
    BY DEF Free, Queued
  <1>5. S \in [DOMAIN S -> SessionType]
    BY DEF Good, SessionsInv
  <1>6. Shrunk(k, S, a, k1, S, h, {}, {h})
    BY <1>1, <1>2, <1>3, <1>4, <1>5 DEF Shrunk, Unowned
  <1> QED
    BY <1>1, <1>6, Shrinks

\* Nothing has changed that matters: a fault, or a field of a client's socket.
LEMMA GoodSame ==
  ASSUME NEW k, NEW S, NEW n, NEW a, Good(k, S, n, a), NEW k1, IsPortSystem(k1, CB),
         DOMAIN k1.ctx = DOMAIN k.ctx, \A d \in DOMAIN k.ctx : k1.ctx[d] = k.ctx[d],
         k1.ops = k.ops, k1.port = k.port, SameSockets(k, k1)
  PROVE  Good(k1, S, n, a) /\ \A d : Free(k, d) => Free(k1, d)
  <1>1. Queued(k1) = Queued(k)
    BY DEF Queued
  <1>2. InFlight(k1)
    BY <1>1 DEF Good, InFlight
  <1>3. ContextsInv(k1, S, n, a)
    BY DEF Good, ContextsInv, Owned
  <1>4. Conns(k1) = Conns(k)
    BY DEF SameSockets, Conns
  <1>5. SessionsInv(k1, S, n)
    BY <1>4 DEF Good, SessionsInv
  <1>6. \A op \in k1.ops : OpInv(k1, op, S, a)
    <2> SUFFICES ASSUME NEW op \in k.ops PROVE OpInv(k1, op, S, a)
      OBVIOUS
    <2>1. OpInv(k, op, S, a) /\ op.ctx \in DOMAIN k.ctx
      BY DEF Good, InFlight
    <2> QED
      BY <2>1 DEF OpInv, SameSockets
  <1>7. \A j \in DOMAIN k1.port : PacketInv(k1, j, S, a)
    <2> SUFFICES ASSUME NEW j \in DOMAIN k.port PROVE PacketInv(k1, j, S, a)
      OBVIOUS
    <2>1. PacketInv(k, j, S, a) /\ k.port[j].ctx \in DOMAIN k.ctx
      BY DEF Good, InFlight, Queued
    <2> QED
      BY <1>4, <2>1 DEF PacketInv
  <1> QED
    BY <1>1, <1>2, <1>3, <1>5, <1>6, <1>7 DEF Good, Free

\* The accept context forgets the socket it brought.
LEMMA ForgetsAccepted ==
  ASSUME NEW k, NEW S, NEW n, NEW a, Good(k, S, n, a), Free(k, a),
         NEW k1, k1 = [k EXCEPT !.ctx[a].udata = 0]
  PROVE  /\ Good(k1, S, n, a)
         /\ Free(k1, a)
         /\ k1.ctx[a].status = k.ctx[a].status
         /\ k1.socks = k.socks
  <1>1. a \in DOMAIN k.ctx /\ IsPortSystem(k, CB)
    BY DEF Good, Free
  <1>2. Updated(k, k1, a, CB) /\ k1.ctx[a] = [k.ctx[a] EXCEPT !.udata = 0]
    BY <1>1, Set_udata
  <1>3. k.ctx[a] \in ContextType(CB)
    BY <1>1, SystemElim
  <1>4. /\ k1.ctx[a].fd = k.ctx[a].fd /\ k1.ctx[a].flags = k.ctx[a].flags
        /\ k1.ctx[a].cb = k.ctx[a].cb /\ k1.ctx[a].status = k.ctx[a].status
    BY <1>2, <1>3 DEF ContextType
  <1>5. /\ IsPortSystem(k1, CB)
        /\ DOMAIN k1.ctx = DOMAIN k.ctx
        /\ \A d \in DOMAIN k.ctx \ {a} : k1.ctx[d] = k.ctx[d]
        /\ k1.ops = k.ops /\ k1.port = k.port /\ k1.socks = k.socks
    BY <1>2 DEF Updated, OnlyCtx
  <1>6. Queued(k1) = Queued(k)
    BY <1>5 DEF Queued
  <1>7. InFlight(k1)
    BY <1>5, <1>6 DEF Good, InFlight
  <1>8. ContextsInv(k1, S, n, a)
    <2>1. ContextsInv(k, S, n, a)
      BY DEF Good
    <2>2. \A d \in DOMAIN k.ctx : /\ k1.ctx[d].flags = k.ctx[d].flags
                                 /\ k1.ctx[d].cb = k.ctx[d].cb
      BY <1>4, <1>5
    <2> QED
      BY <1>5, <2>1, <2>2 DEF ContextsInv, Owned
  <1>9. SessionsInv(k1, S, n)
    BY <1>4, <1>5 DEF Good, SessionsInv, Conns
  <1>10. \A op \in k1.ops : OpInv(k1, op, S, a)
    BY <1>5 DEF Good, OpInv, Free
  <1>11. \A j \in DOMAIN k1.port : PacketInv(k1, j, S, a)
    <2> SUFFICES ASSUME NEW j \in DOMAIN k.port PROVE PacketInv(k1, j, S, a)
      BY <1>5
    <2>1. PacketInv(k, j, S, a) /\ k.port[j].ctx \in DOMAIN k.ctx /\ k.port[j].ctx # a
      BY DEF Good, InFlight, Queued, Free
    <2> QED
      BY <1>5, <2>1 DEF PacketInv
  <1> QED
    BY <1>4, <1>5, <1>6, <1>7, <1>8, <1>9, <1>10, <1>11 DEF Good, Free

\* A server that has not begun, or has just its accept context.
LEMMA GoodStart ==
  ASSUME NEW k, IsPortSystem(k, CB), k.ops = {}, k.port = <<>>,
         NEW n \in Nat, n >= FirstSid, NEW a, a = NULL \/ a \in DOMAIN k.ctx,
         \A c \in DOMAIN k.ctx : c = a /\ k.ctx[c].flags = {} /\ k.ctx[c].cb = AcceptCb
  PROVE  Good(k, NoSessions, n, a)
  <1>1. Queued(k) = {}
    BY DEF Queued
  <1>2. InFlight(k)
    BY <1>1 DEF InFlight
  <1>3. AcceptCb \in CallbackType /\ AcceptCb.obj = 0 /\ AcceptCb.fn = "OnAccept"
    BY DEF AcceptCb, Callback, CallbackType
  <1>4. ContextsInv(k, NoSessions, n, a)
    BY <1>3 DEF ContextsInv, Owned, FirstSid
  <1>5. DOMAIN NoSessions = {} /\ NoSessions \in [DOMAIN NoSessions -> SessionType]
    BY DEF NoSessions
  <1>6. SessionsInv(k, NoSessions, n)
    BY <1>5 DEF SessionsInv
  <1> QED
    BY <1>2, <1>4, <1>6 DEF Good

\* The end of an operation: the connection of an accept is a client's.
Ends(k, k1, op, status) ==
  /\ IsPortSystem(k1, CB)
  /\ Finishes(k, k1, op, status)
  /\ DOMAIN k1.socks = DOMAIN k.socks
  /\ \A h \in DOMAIN k.socks : \/ k1.socks[h].kind = k.socks[h].kind
                               \/ op.kind = "accept" /\ h = op.sock
  /\ op.kind = "accept" /\ status = 0 => k1.socks[op.sock].kind = "conn"

\* The invariant survives the end of an operation.
LEMMA EndsOperation ==
  ASSUME NEW k, NEW S, NEW n, NEW a, Good(k, S, n, a), NEW op \in k.ops, NEW k1,
         NEW status \in Int, Ends(k, k1, op, status)
  PROVE  Good(k1, S, n, a)
  <1>1. /\ op.ctx \in DOMAIN k.ctx /\ op.ctx \notin Queued(k)
        /\ OpInv(k, op, S, a)
    BY DEF Good, InFlight
  <1>2. /\ DOMAIN k1.ctx = DOMAIN k.ctx
        /\ \A d \in DOMAIN k.ctx \ {op.ctx} : k1.ctx[d] = k.ctx[d]
        /\ k1.ctx[op.ctx].fd = k.ctx[op.ctx].fd
        /\ k1.ctx[op.ctx].flags = k.ctx[op.ctx].flags
        /\ k1.ctx[op.ctx].cb = k.ctx[op.ctx].cb
        /\ k1.ctx[op.ctx].udata = k.ctx[op.ctx].udata
        /\ k1.ctx[op.ctx].status = status
        /\ k1.ops = k.ops \ {op}
    BY DEF Ends, Finishes
  <1>3. PICK q : q = k.port
    BY Zenon
  <1>4. PICK x : x = [ctx |-> op.ctx, ok |-> status = 0]
    BY Zenon
  <1>5. k1.port = Append(q, x)
    BY <1>3, <1>4, Zenon DEF Ends, Finishes
  <1>6. x \in PacketType /\ x.ctx = op.ctx /\ (x.ok <=> status = 0)
    BY <1>1, <1>4, GoodTypes DEF PacketType
  <1>7. q \in Seq(PacketType)
    BY <1>3, GoodTypes
  <1>8. /\ \A j \in DOMAIN k1.port : \/ j \in DOMAIN q /\ k1.port[j] = q[j]
                                     \/ j = Len(q) + 1 /\ k1.port[j] = x
        /\ \A j \in DOMAIN q : j \in DOMAIN k1.port
        /\ Len(q) + 1 \in DOMAIN k1.port
    BY <1>5, <1>6, <1>7
  <1>9. /\ Queued(k1) \subseteq Queued(k) \cup {op.ctx}
        /\ \A j \in DOMAIN q : q[j].ctx \in Queued(k)
    BY <1>3, <1>6, <1>8 DEF Queued
  <1>10. \A o \in k1.ops : o \in k.ops /\ o.ctx # op.ctx
    BY <1>2 DEF Good, InFlight
  <1>11. InFlight(k1)
    <2>1. \A o \in k1.ops : o.ctx \in DOMAIN k1.ctx /\ o.ctx \notin Queued(k1)
      BY <1>2, <1>9, <1>10 DEF Good, InFlight
    <2>2. Queued(k1) \subseteq DOMAIN k1.ctx
      BY <1>1, <1>2, <1>9 DEF Good, InFlight
    <2>3. \A o1, o2 \in k1.ops : o1.ctx = o2.ctx => o1 = o2
      BY <1>10 DEF Good, InFlight
    <2>4. \A i, j \in DOMAIN q : q[i].ctx = q[j].ctx => i = j
      BY <1>3 DEF Good, InFlight
    <2>5. \A i, j \in DOMAIN k1.port : k1.port[i].ctx = k1.port[j].ctx => i = j
      BY <1>1, <1>6, <1>8, <1>9, <2>4
    <2> QED
      BY <2>1, <2>2, <2>3, <2>5 DEF InFlight
  <1>12. ContextsInv(k1, S, n, a)
    <2> SUFFICES ASSUME NEW c \in DOMAIN k.ctx PROVE Owned(k1, c, S, n, a)
      BY <1>2 DEF ContextsInv, Good
    <2>1. k1.ctx[c].flags = k.ctx[c].flags /\ k1.ctx[c].cb = k.ctx[c].cb
      BY <1>2
    <2> QED
      BY <2>1 DEF Good, ContextsInv, Owned
  <1>13. \A h \in Conns(k) : h \in Conns(k1)
    BY <1>1 DEF Ends, OpInv, Conns
  <1>14. SessionsInv(k1, S, n)
    <2> SUFFICES ASSUME NEW s \in DOMAIN S
                 PROVE  /\ S[s].fd_ \in Conns(k1)
                        /\ S[s].recv_ctx_ \in DOMAIN k1.ctx
                        /\ k1.ctx[S[s].recv_ctx_].cb = Callback("OnRead", s)
                        /\ k1.ctx[S[s].recv_ctx_].fd = S[s].fd_
      BY DEF Good, SessionsInv
    <2>1. PICK c \in DOMAIN k.ctx : c = S[s].recv_ctx_
      BY DEF Good, SessionsInv
    <2>2. k1.ctx[c].fd = k.ctx[c].fd /\ k1.ctx[c].cb = k.ctx[c].cb
      BY <1>2
    <2> QED
      BY <1>2, <1>13, <2>1, <2>2 DEF Good, SessionsInv
  <1>15. \A o \in k1.ops : OpInv(k1, o, S, a)
    <2> SUFFICES ASSUME NEW o \in k1.ops PROVE OpInv(k1, o, S, a)
      OBVIOUS
    <2>1. o \in k.ops /\ o.ctx # op.ctx /\ OpInv(k, o, S, a) /\ o.ctx \in DOMAIN k.ctx
      BY <1>10 DEF Good, InFlight
    <2>2. o.kind = "accept" => op.kind # "accept"
      BY <1>1, <2>1 DEF OpInv
    <2> QED
      BY <1>2, <2>1, <2>2 DEF OpInv, Ends
  <1>16. \A j \in DOMAIN k1.port : PacketInv(k1, j, S, a)
    <2> SUFFICES ASSUME NEW j \in DOMAIN k1.port PROVE PacketInv(k1, j, S, a)
      OBVIOUS
    <2>1. CASE j \in DOMAIN q /\ k1.port[j] = q[j]
      <3>1. PacketInv(k, j, S, a) /\ k1.port[j] = k.port[j]
        BY <1>3, <2>1 DEF Good
      <3>2. k.port[j].ctx \in DOMAIN k.ctx /\ k.port[j].ctx # op.ctx
        BY <1>1, <1>3, <1>9, <2>1 DEF Good, InFlight
      <3>3. k1.ctx[k.port[j].ctx] = k.ctx[k.port[j].ctx]
        BY <1>2, <3>2
      <3> QED
        BY <1>2, <1>13, <3>1, <3>2, <3>3 DEF PacketInv
    <2>2. CASE k1.port[j] = x
      <3>1. k1.port[j].ctx = op.ctx /\ (k1.port[j].ok <=> k1.ctx[op.ctx].status = 0)
        BY <1>2, <1>6, <2>2
      <3>2. ASSUME op.ctx = a
            PROVE  Unowned(k1.ctx[a].udata, S) /\ (status = 0 => k1.ctx[a].udata \in Conns(k1))
        <4>1. /\ op.kind = "accept" /\ k1.ctx[a].udata = op.sock
              /\ op.sock \in DOMAIN k.socks /\ k.socks[op.sock].kind = "idle"
          BY <1>1, <1>2, <3>2 DEF OpInv
        <4>2. Unowned(op.sock, S)
          BY <4>1 DEF Good, SessionsInv, Unowned, Conns
        <4>3. status = 0 => op.sock \in Conns(k1)
          BY <4>1 DEF Ends, Conns
        <4> QED
          BY <4>1, <4>2, <4>3
      <3> QED
        BY <1>6, <2>2, <3>1, <3>2 DEF PacketInv
    <2> QED
      BY <1>8, <2>1, <2>2
  <1> QED
    BY <1>11, <1>12, <1>14, <1>15, <1>16 DEF Good, Ends
-----------------------------------------------------------------------------
(* The handlers. *)

\* What is free stays free, and as it was.
KeepsFree(k, k1) == \A d : Free(k, d) => Free(k1, d) /\ k1.ctx[d] = k.ctx[d]

\* A context keeps its callback when a session or the server sets it again.
LEMMA SameCallback ==
  ASSUME NEW k, NEW S, NEW n, NEW a, Good(k, S, n, a), NEW c, Free(k, c),
         NEW b \in CallbackType, k.ctx[c].cb = b, NEW k1, k1 = [k EXCEPT !.ctx[c].cb = b]
  PROVE  Good(k1, S, n, a) /\ KeepsFree(k, k1)
  <1>1. c \in DOMAIN k.ctx /\ IsPortSystem(k, CB)
    BY DEF Good, Free
  <1>2. Updated(k, k1, c, CB) /\ k1.ctx[c] = [k.ctx[c] EXCEPT !.cb = b]
    <2>1. b \in CB
      BY DEF CB
    <2> QED
      BY <1>1, <2>1, Set_cb
  <1>3. k1.ctx[c] = k.ctx[c]
    <2>1. PICK x : x = k.ctx[c]
      BY Zenon
    <2>2. x \in ContextType(CB)
      BY <1>1, <2>1, SystemElim
    <2>3. [x EXCEPT !.cb = b] = x
      BY <2>1, <2>2 DEF ContextType
    <2> QED
      BY <1>2, <2>1, <2>3, Zenon
  <1>4. /\ IsPortSystem(k1, CB)
        /\ DOMAIN k1.ctx = DOMAIN k.ctx
        /\ \A d \in DOMAIN k.ctx : k1.ctx[d] = k.ctx[d]
        /\ k1.ops = k.ops /\ k1.port = k.port /\ SameSockets(k, k1)
    BY <1>2, <1>3 DEF Updated, OnlyCtx, SameSockets
  <1>5. PICK kp : kp = k1
    BY Zenon
  <1>6. /\ IsPortSystem(kp, CB)
        /\ DOMAIN kp.ctx = DOMAIN k.ctx
        /\ \A d \in DOMAIN k.ctx : kp.ctx[d] = k.ctx[d]
        /\ kp.ops = k.ops /\ kp.port = k.port /\ SameSockets(k, kp)
    BY <1>4, <1>5, Zenon
  <1>7. Good(kp, S, n, a) /\ \A d : Free(k, d) => Free(kp, d)
    BY <1>6, GoodSame
  <1>8. \A d : Free(k, d) => kp.ctx[d] = k.ctx[d]
    BY <1>6 DEF Free
  <1> QED
    BY <1>5, <1>7, <1>8, Zenon DEF KeepsFree

\* The callback did not mark the context.
LEMMA KeepsContext ==
  ASSUME NEW k, NEW S, NEW n, NEW a, Good(k, S, n, a), NEW c, c \in DOMAIN k.ctx
  PROVE  AfterCallback(k, c) = k
  BY PortAfter DEF Good, ContextsInv, Owned

\* Session::Write: a context of its own, and the write, or none.
LEMMA WriteType ==
  ASSUME NEW k, NEW S, NEW n, NEW a, Good(k, S, n, a), NEW sid \in DOMAIN S, NEW fd \in Int,
         NEW len \in Int, NEW k1 \in Write(k, fd, sid, len)
  PROVE  Good(k1, S, n, a) /\ KeepsFree(k, k1)
  <1> DEFINE b == Callback("OnWritten", sid)
  <1>1. b \in CallbackType /\ b.fn = "OnWritten" /\ b.obj < n
    BY DEF Callback, CallbackType, Good, SessionsInv
  <1> HIDE DEF b
  <1>2. PICK al \in AllocOverlapCtx(k, fd, {}) :
          k1 \in IF al.ctx = NULL
                   THEN {al.sys}
                   ELSE AsyncWrite([al.sys EXCEPT !.ctx[al.ctx].len = len,
                                                  !.ctx[al.ctx].cb = Callback("OnWritten", sid)], al.ctx)
    BY Zenon DEF Write
  <1>3. ~HasFlag({}, FLAG_ASSOCIATE)
    BY DEF HasFlag
  <1>4. IsPortSystem(k, CB)
    BY DEF Good
  <1>5. al.ctx \in Nat \ DOMAIN k.ctx /\ al.sys = Alloc(k, al.ctx, fd)
    BY <1>3, <1>4, PortAlloc
  <1>6. PICK c \in Nat \ DOMAIN k.ctx : c = al.ctx
    BY <1>5, Zenon
  <1>7. PICK ka : ka = Alloc(k, c, fd)
    BY Zenon
  <1>8. PICK kx : kx = [ka EXCEPT !.ctx[c].len = len]
    BY Zenon
  <1>9. PICK kw : kw = [kx EXCEPT !.ctx[c].cb = b]
    BY Zenon
  <1>10. c # NULL
    BY KernelAssumption
  <1>11. k1 \in AsyncWrite(kw, c)
    <2>1. al.sys = ka
      BY <1>5, <1>6, <1>7, Zenon
    <2>2. [ka EXCEPT !.ctx[c].len = len, !.ctx[c].cb = Callback("OnWritten", sid)] = kw
      BY <1>8, <1>9, Zenon DEF b
    <2> QED
      BY <1>2, <1>6, <1>10, <2>1, <2>2, Zenon
  <1>12. NULL \in CB /\ b \in CB
    BY <1>1 DEF CB
  <1>13. IsPortSystem(kw, CB) /\ Adds(k, kw, c, fd, b)
    <2>1. kx = ka \/ kx = [ka EXCEPT !.ctx[c].len = len]
      BY <1>8, Zenon
    <2> QED
      BY <1>4, <1>7, <1>9, <1>12, <2>1, AllocCb
  <1>14. /\ Good(kw, S, n, a) /\ Free(kw, c)
         /\ \A d : Free(k, d) => Free(kw, d) /\ kw.ctx[d] = k.ctx[d]
    BY <1>1, <1>13, NewWriteContext
  <1>15. c # a
    BY <1>10 DEF Good, ContextsInv
  <1>16. /\ Good(k1, S, n, a)
         /\ SameBut(kw, k1, c)
         /\ \A d : Free(kw, d) /\ d # c => Free(k1, d)
    BY <1>11, <1>14, <1>15, StartsReadOrWrite
  <1>17. \A d : Free(k, d) => d # c /\ d \in DOMAIN kw.ctx
    BY <1>14 DEF Free
  <1> QED
    BY <1>14, <1>16, <1>17 DEF SameBut, KeepsFree

\* A session's read on its free context.
LEMMA StartReadType ==
  ASSUME NEW k, NEW S, NEW n, NEW a, Good(k, S, n, a), NEW sid \in DOMAIN S,
         NEW c \in {S[sid].recv_ctx_}, Free(k, c), NEW k1 \in StartRead(k, c, sid)
  PROVE  Good(k1, S, n, a) /\ c \in DOMAIN k1.ctx /\ \A d : Free(k, d) /\ d # c => Free(k1, d)
  <1>1. PICK b : b = Callback("OnRead", sid)
    BY Zenon
  <1>2. /\ b \in CallbackType /\ b.fn = "OnRead"
        /\ k.ctx[c].cb = b
    BY <1>1 DEF Callback, CallbackType, Good, SessionsInv
  <1>3. PICK kc : kc = [k EXCEPT !.ctx[c].cb = b]
    BY Zenon
  <1>4. k1 \in AsyncRead(kc, c)
    BY <1>1, <1>3, Zenon DEF StartRead
  <1>5. Good(kc, S, n, a) /\ KeepsFree(k, kc)
    BY <1>2, <1>3, SameCallback
  <1>6. c # a
    BY <1>2 DEF Good, ContextsInv, Owned, AcceptCb, Callback, Free
  <1>7. Free(kc, c) /\ \E s \in DOMAIN S : S[s].recv_ctx_ = c
    BY <1>5 DEF KeepsFree
  <1>8. /\ Good(k1, S, n, a)
        /\ SameBut(kc, k1, c)
        /\ \A d : Free(kc, d) /\ d # c => Free(k1, d)
    BY <1>4, <1>5, <1>6, <1>7, StartsReadOrWrite
  <1> QED
    BY <1>5, <1>7, <1>8 DEF SameBut, Free, KeepsFree

\* The server's accept on its free context.
LEMMA StartAcceptType ==
  ASSUME NEW k, NEW S, NEW n, NEW a, Good(k, S, n, a), Free(k, a), NEW k1 \in StartAccept(k, a)
  PROVE  Good(k1, S, n, a) /\ a \in DOMAIN k1.ctx
  <1> DEFINE b == Callback("OnAccept", 0)
  <1>1. /\ b \in CallbackType
        /\ k.ctx[a].cb = b
    BY DEF Callback, CallbackType, Good, ContextsInv, Owned, Free, AcceptCb
  <1>2. PICK kc : kc = [k EXCEPT !.ctx[a].cb = b]
    BY Zenon
  <1>3. k1 \in AsyncAccept(kc, a)
    BY <1>2, Zenon DEF StartAccept
  <1> HIDE DEF b
  <1>4. Good(kc, S, n, a) /\ KeepsFree(k, kc)
    BY <1>1, <1>2, SameCallback
  <1>5. Good(k1, S, n, a) /\ SameBut(kc, k1, a)
    BY <1>3, <1>4, StartsAccept DEF KeepsFree
  <1> QED
    BY <1>4, <1>5 DEF SameBut, Free, KeepsFree

\* A new session for an accepted socket, its first read and the next accept.
LEMMA AcceptsSession ==
  ASSUME NEW k, NEW S, NEW n, NEW a, Good(k, S, n, a), Free(k, a),
         NEW fd \in Conns(k), Unowned(fd, S),
         NEW al \in AllocOverlapCtx(k, fd, FLAG_ASSOCIATE), al.ctx # NULL,
         NEW k1 \in StartRead(al.sys, al.ctx, n), NEW k2 \in StartAccept(k1, a)
  PROVE  /\ Good(k2, With(S, n, [fd_ |-> fd, recv_ctx_ |-> al.ctx]), n + 1, a)
         /\ AfterCallback(k2, a) = k2
  <1>1. IsPortSystem(k, CB)
    BY DEF Good
  <1>2. al.ctx \in Nat \ DOMAIN k.ctx /\ al.sys = Alloc(k, al.ctx, fd)
    BY <1>1, PortAllocNew
  <1>3. PICK c \in Nat \ DOMAIN k.ctx : c = al.ctx
    BY <1>2, Zenon
  <1>4. PICK ka : ka = Alloc(k, c, fd)
    BY Zenon
  <1>5. PICK b : b = Callback("OnRead", n)
    BY Zenon
  <1>6. PICK kr : kr = [ka EXCEPT !.ctx[c].cb = b]
    BY Zenon
  <1>7. k1 \in AsyncRead(kr, c)
    <2>1. al.sys = ka
      BY <1>2, <1>3, <1>4, Zenon
    <2>2. k1 \in StartRead(ka, c, n)
      BY <1>3, <2>1, Zenon
    <2> QED
      BY <1>5, <1>6, <2>2, Zenon DEF StartRead
  <1>8. b \in CallbackType /\ b \in CB /\ NULL \in CB
    BY <1>5, GoodTypes DEF Callback, CallbackType, CB
  <1>9. fd \in Int
    BY GoodTypes DEF Conns
  <1>10. IsPortSystem(kr, CB) /\ Adds(k, kr, c, fd, b)
    <2>1. PICK kx : kx = ka
      BY Zenon
    <2>2. kr = [kx EXCEPT !.ctx[c].cb = b]
      BY <1>6, <2>1, Zenon
    <2>3. PICK len \in Int : len = 0
      OBVIOUS
    <2>4. kx = ka \/ kx = [ka EXCEPT !.ctx[c].len = len]
      BY <2>1, Zenon
    <2> QED
      BY <1>1, <1>4, <1>8, <1>9, <2>2, <2>4, AllocCb
  <1>11. PICK S1 : S1 = With(S, n, [fd_ |-> fd, recv_ctx_ |-> c])
    BY Zenon
  <1>12. /\ Good(kr, S1, n + 1, a)
         /\ Free(kr, c)
         /\ S1[n].recv_ctx_ = c /\ n \in DOMAIN S1
         /\ \A d : Free(k, d) => Free(kr, d) /\ d # c /\ kr.ctx[d] = k.ctx[d]
    BY <1>5, <1>8, <1>10, <1>11, NewSessionContext
  <1>13. c # a /\ Free(kr, a) /\ \E s \in DOMAIN S1 : S1[s].recv_ctx_ = c
    BY <1>12
  <1>14. /\ Good(k1, S1, n + 1, a)
         /\ \A d : Free(kr, d) /\ d # c => Free(k1, d)
    BY <1>7, <1>12, <1>13, StartsReadOrWrite
  <1>15. Good(k2, S1, n + 1, a) /\ a \in DOMAIN k2.ctx
    BY <1>13, <1>14, StartAcceptType
  <1>16. AfterCallback(k2, a) = k2
    BY <1>15, KeepsContext
  <1> QED
    BY <1>3, <1>11, <1>15, <1>16

\* Session::OnRead.
LEMMA OnReadGood ==
  ASSUME NEW k, Good(k, sessions_, counter_, ctx_), NEW c, Free(k, c),
         k.ctx[c].cb.fn = "OnRead", NEW sid \in Live, k.ctx[c].cb.obj = sid,
         OnRead(k, c, sid)
  PROVE  Good(sys, sessions_, counter_, ctx_)'
  <1>1. sessions_[sid].recv_ctx_ = c
    BY DEF Free, Good, ContextsInv, Owned, Live
  <1>2. PICK h : h = sessions_[sid].fd_
    BY Zenon
  <1>3. Close(k, sid) = FreeOverlapCtx(SetLazyDelete(closesocket(k, sessions_[sid].fd_), c), c)
    BY <1>1, Zenon DEF Close
  <1>4. ASSUME sys' = AfterCallback(Close(k, sid), c), sessions_' = Without(sessions_, sid),
               UNCHANGED <<ctx_, counter_>>
        PROVE  Good(sys', sessions_', counter_', ctx_')
    <2>1. PICK k1 : k1 = AfterCallback(FreeOverlapCtx(SetLazyDelete(closesocket(k, sessions_[sid].fd_), c), c), c)
      BY Zenon
    <2>2. Good(k1, Without(sessions_, sid), counter_, ctx_)
      BY <1>1, <2>1, ClosesSession DEF Live
    <2> QED
      BY <1>3, <1>4, <2>1, <2>2, Zenon
  <1>5. CASE OnReadData(k, c, sid)
    <2>1. PICK k1 \in Write(k, sessions_[sid].fd_, sid, k.ctx[c].bytes) :
            \E k2 \in StartRead(k1, sessions_[sid].recv_ctx_, sid) : sys' = AfterCallback(k2, c)
      BY <1>5 DEF OnReadData
    <2>2. PICK k2 \in StartRead(k1, c, sid) : sys' = AfterCallback(k2, c)
      BY <1>1, <2>1
    <2>3. k.ctx[c].bytes \in Int /\ h \in Int
      <3>1. c \in DOMAIN k.ctx /\ k.ctx \in [DOMAIN k.ctx -> ContextType(CB)] /\ sessions_[sid] \in SessionType
        BY GoodTypes DEF Free, Live
      <3> QED
        BY <1>2, <3>1 DEF ContextType, SessionType
    <2>4. PICK len : len = k.ctx[c].bytes
      BY Zenon
    <2>5. k1 \in Write(k, h, sid, len) /\ len \in Int
      BY <1>2, <2>3, <2>4, <2>1, Zenon
    <2>6. Good(k1, sessions_, counter_, ctx_) /\ KeepsFree(k, k1)
      BY <2>3, <2>5, WriteType DEF Live
    <2>7. Free(k1, c) /\ c \in {sessions_[sid].recv_ctx_}
      BY <1>1, <2>6 DEF KeepsFree
    <2>8. Good(k2, sessions_, counter_, ctx_) /\ c \in DOMAIN k2.ctx
      BY <2>6, <2>7, StartReadType DEF Live
    <2>9. AfterCallback(k2, c) = k2
      BY <2>8, KeepsContext
    <2>10. sys' = k2 /\ sessions_' = sessions_ /\ counter_' = counter_ /\ ctx_' = ctx_
      BY <1>5, <2>2, <2>9 DEF OnRead, OnReadData
    <2> QED
      BY <2>8, <2>10, Zenon
  <1> QED
    BY <1>4, <1>5, Zenon DEF OnRead, OnReadError, OnReadEof

\* Server::OnAccept.
LEMMA OnAcceptGood ==
  ASSUME NEW k, Good(k, sessions_, counter_, ctx_), NEW c, Free(k, c),
         k.ctx[c].cb.fn = "OnAccept",
         c = ctx_ => Unowned(k.ctx[ctx_].udata, sessions_),
         c = ctx_ /\ k.ctx[c].status = 0 => k.ctx[ctx_].udata \in Conns(k),
         OnAccept(k, c)
  PROVE  Good(sys, sessions_, counter_, ctx_)'
  <1>1. PICK a : a = ctx_
    BY Zenon
  <1>2. PICK S : S = sessions_
    BY Zenon
  <1>3. PICK n : n = counter_
    BY Zenon
  <1>4. Good(k, S, n, a)
    BY <1>1, <1>2, <1>3, Zenon
  <1>5. c = a
    BY <1>4 DEF Good, ContextsInv, Owned, Free
  <1>6. PICK h : h = k.ctx[a].udata
    BY Zenon
  <1>7. PICK k0 : k0 = [k EXCEPT !.ctx[a].udata = 0]
    BY Zenon
  <1>8. OnAcceptFails(k0, a, h) \/ OnAcceptOk(k0, a, h)
    BY <1>5, <1>6, <1>7, Zenon DEF OnAccept
  <1>9. Free(k, a)
    BY <1>5
  <1>10. Unowned(h, S) /\ (k.ctx[a].status = 0 => h \in Conns(k))
    BY <1>1, <1>2, <1>5, <1>6
  <1>11. /\ Good(k0, S, n, a)
         /\ Free(k0, a)
         /\ k0.ctx[a].status = k.ctx[a].status
         /\ k0.socks = k.socks
    BY <1>4, <1>7, <1>9, ForgetsAccepted
  <1>12. k0.ctx[a].status = 0 => h \in Conns(k0)
    BY <1>10, <1>11 DEF Conns
  <1>13. \A k1 : Good(k1, S, n, a) /\ Free(k1, a) => Good(AfterCallback(closesocket(k1, h), a), S, n, a)
    <2> SUFFICES ASSUME NEW k1, Good(k1, S, n, a), Free(k1, a)
                 PROVE  Good(AfterCallback(closesocket(k1, h), a), S, n, a)
      BY Zenon
    <2>1. PICK k2 : k2 = closesocket(k1, h)
      BY Zenon
    <2>2. Good(k2, S, n, a) /\ k2.ctx = k1.ctx
      BY <1>10, <2>1, ClosesAccepted
    <2>3. a \in DOMAIN k2.ctx
      BY <2>2 DEF Free
    <2>4. AfterCallback(k2, a) = k2
      BY <2>2, <2>3, KeepsContext
    <2> QED
      BY <2>1, <2>2, <2>4, Zenon
  <1>14. CASE OnAcceptFails(k0, a, h)
    <2>1. /\ \/ sys' = AfterCallback(closesocket(k0, h), a)
             \/ \E al \in AllocOverlapCtx(k0, h, FLAG_ASSOCIATE) :
                  al.ctx = NULL /\ sys' = AfterCallback(closesocket(al.sys, h), a)
          /\ sessions_' = sessions_ /\ counter_' = counter_ /\ ctx_' = ctx_
      BY <1>14 DEF OnAcceptFails, server
    <2>2. \E k1 : Good(k1, S, n, a) /\ Free(k1, a) /\ sys' = AfterCallback(closesocket(k1, h), a)
      <3>1. CASE sys' = AfterCallback(closesocket(k0, h), a)
        BY <1>11, <3>1, Zenon
      <3>2. ASSUME NEW al \in AllocOverlapCtx(k0, h, FLAG_ASSOCIATE), al.ctx = NULL,
                   sys' = AfterCallback(closesocket(al.sys, h), a)
            PROVE  \E k1 : Good(k1, S, n, a) /\ Free(k1, a) /\ sys' = AfterCallback(closesocket(k1, h), a)
        <4>1. PICK k1 : k1 = al.sys
          BY Zenon
        <4>2. /\ IsPortSystem(al.sys, CB)
              /\ al.sys.ctx = k0.ctx /\ al.sys.ops = k0.ops /\ al.sys.port = k0.port /\ al.sys.socks = k0.socks
          BY <1>11, <3>2, PortAllocNone DEF Good
        <4>3. /\ IsPortSystem(k1, CB)
              /\ DOMAIN k1.ctx = DOMAIN k0.ctx
              /\ \A d \in DOMAIN k0.ctx : k1.ctx[d] = k0.ctx[d]
              /\ k1.ops = k0.ops /\ k1.port = k0.port /\ SameSockets(k0, k1)
          BY <4>1, <4>2 DEF SameSockets
        <4>4. Good(k1, S, n, a) /\ Free(k1, a)
          BY <1>11, <4>3, GoodSame
        <4> QED
          BY <3>2, <4>1, <4>4, Zenon
      <3> QED
        BY <2>1, <3>1, <3>2
    <2>3. Good(sys', S, n, a)
      BY <1>13, <2>2, Zenon
    <2> QED
      BY <1>1, <1>2, <1>3, <2>1, <2>3, Zenon
  <1>15. CASE OnAcceptOk(k0, a, h)
    <2>1. PICK al \in AllocOverlapCtx(k0, h, FLAG_ASSOCIATE) :
            /\ al.ctx # NULL
            /\ sessions_' = With(sessions_, counter_, [fd_ |-> h, recv_ctx_ |-> al.ctx])
            /\ \E k1 \in StartRead(al.sys, al.ctx, counter_) :
                 \E k2 \in StartAccept(k1, a) : sys' = AfterCallback(k2, a)
      BY <1>15 DEF OnAcceptOk
    <2>2. k0.ctx[a].status = 0 /\ counter_' = counter_ + 1 /\ ctx_' = ctx_
      BY <1>15 DEF OnAcceptOk
    <2>3. PICK k1 \in StartRead(al.sys, al.ctx, n) :
            \E k2 \in StartAccept(k1, a) : sys' = AfterCallback(k2, a)
      BY <1>3, <2>1, Zenon
    <2>4. PICK k2 \in StartAccept(k1, a) : sys' = AfterCallback(k2, a)
      BY <2>3
    <2>5. h \in Conns(k0)
      BY <1>12, <2>2
    <2>6. /\ Good(k2, With(S, n, [fd_ |-> h, recv_ctx_ |-> al.ctx]), n + 1, a)
          /\ AfterCallback(k2, a) = k2
      BY <1>10, <1>11, <2>1, <2>5, AcceptsSession
    <2> QED
      BY <1>1, <1>2, <1>3, <2>1, <2>2, <2>6, <2>4, Zenon
  <1> QED
    BY <1>8, <1>14, <1>15
-----------------------------------------------------------------------------
(* The steps. *)

\* Run takes a packet and calls the callback.
LEMMA RunGood ==
  ASSUME Good(sys, sessions_, counter_, ctx_), RunCallback \/ RunFailed \/ RunOnDeleted
  PROVE  Good(sys, sessions_, counter_, ctx_)'
  <1>1. PICK d \in Dequeue(sys) :
          \/ /\ sys' = d.sys
             /\ sessions_' = sessions_ /\ counter_' = counter_ /\ ctx_' = ctx_
          \/ /\ d.ok
             /\ \/ d.sys.ctx[d.ctx].cb.fn = "OnAccept" /\ OnAccept(d.sys, d.ctx)
                \/ /\ d.sys.ctx[d.ctx].cb.fn = "OnRead" /\ d.sys.ctx[d.ctx].cb.obj \in Live
                   /\ OnRead(d.sys, d.ctx, d.sys.ctx[d.ctx].cb.obj)
                \/ d.sys.ctx[d.ctx].cb.fn = "OnWritten" /\ OnWritten(d.sys, d.ctx)
    BY DEF RunCallback, RunFailed, RunOnDeleted, server
  <1>2. PICK k : k = d.sys
    BY Zenon
  <1>3. PICK c : c = d.ctx
    BY Zenon
  <1>4. /\ Good(d.sys, sessions_, counter_, ctx_)
        /\ Free(d.sys, d.ctx)
        /\ d.ok <=> d.sys.ctx[d.ctx].status = 0
        /\ d.ctx = ctx_ => Unowned(d.sys.ctx[ctx_].udata, sessions_)
        /\ d.ctx = ctx_ /\ d.ok => d.sys.ctx[ctx_].udata \in Conns(d.sys)
    BY TakesPacket
  <1>5. /\ Good(k, sessions_, counter_, ctx_)
        /\ Free(k, c)
        /\ c = ctx_ => Unowned(k.ctx[ctx_].udata, sessions_)
        /\ c = ctx_ /\ k.ctx[c].status = 0 => k.ctx[ctx_].udata \in Conns(k)
    BY <1>2, <1>3, <1>4
  <1>6. CASE sys' = d.sys /\ sessions_' = sessions_ /\ counter_' = counter_ /\ ctx_' = ctx_
    BY <1>4, <1>6, Zenon
  <1>7. CASE k.ctx[c].cb.fn = "OnAccept" /\ OnAccept(k, c)
    BY <1>5, <1>7, OnAcceptGood
  <1>8. CASE k.ctx[c].cb.fn = "OnRead" /\ k.ctx[c].cb.obj \in Live /\ OnRead(k, c, k.ctx[c].cb.obj)
    <2>1. PICK sid \in Live : k.ctx[c].cb.obj = sid
      BY <1>8
    <2>2. OnRead(k, c, sid)
      BY <1>8, <2>1, Zenon
    <2> QED
      BY <1>5, <1>8, <2>1, <2>2, OnReadGood
  <1>9. CASE k.ctx[c].cb.fn = "OnWritten" /\ OnWritten(k, c)
    <2>1. PICK k1 : k1 = AfterCallback(FreeOverlapCtx(SetLazyDelete(k, c), c), c)
      BY Zenon
    <2>2. Good(k1, sessions_, counter_, ctx_)
      BY <1>5, <1>9, <2>1, EndsWrite
    <2>3. sys' = k1 /\ sessions_' = sessions_ /\ counter_' = counter_ /\ ctx_' = ctx_
      BY <1>9, <2>1 DEF OnWritten, server
    <2> QED
      BY <2>2, <2>3, Zenon
  <1> QED
    BY <1>1, <1>2, <1>3, <1>6, <1>7, <1>8, <1>9, Zenon

\* Server::Start: a socket, a context for it and the first accept, or nothing.
LEMMA BeginGood ==
  ASSUME IInv, Begin
  PROVE  Good(sys, NoSessions, counter_, ctx_)'
  <1>1. PICK k : k = sys
    BY Zenon
  <1>2. k = EmptySystem("IOCompletionPort") /\ ctx_ = NULL /\ counter_ \in Nat /\ counter_ >= FirstSid
    BY <1>1 DEF IInv, Begin, Good, SessionsInv
  <1>3. IsPortSystem(k, CB) /\ DOMAIN k.ctx = {} /\ k.ops = {} /\ k.port = <<>>
    BY <1>2, EmptyType
  <1>4. PICK fd : fd = FreshHandle(k)
    BY Zenon
  <1>5. PICK ks : ks = Socket(k, "listen")
    BY Zenon
  <1>6. /\ IsPortSystem(ks, CB)
        /\ ks.ctx = k.ctx /\ ks.ops = {} /\ ks.port = <<>>
        /\ fd \in Int
    BY <1>3, <1>4, <1>5, NewSocketType
  <1>7. \/ sys' \in Faulty(k) /\ ctx_' = ctx_ /\ counter_' = counter_
        \/ \E al \in AllocOverlapCtx(ks, fd, FLAG_ASSOCIATE) :
             \/ al.ctx = NULL /\ sys' = al.sys /\ ctx_' = ctx_ /\ counter_' = counter_
             \/ /\ al.ctx # NULL /\ sys' \in StartAccept(al.sys, al.ctx)
                /\ ctx_' = al.ctx /\ counter_' = counter_
    BY <1>1, <1>4, <1>5 DEF Begin
  <1>8. ASSUME NEW al \in AllocOverlapCtx(ks, fd, FLAG_ASSOCIATE),
               al.ctx = NULL, sys' = al.sys, ctx_' = ctx_, counter_' = counter_
        PROVE  Good(sys, NoSessions, counter_, ctx_)'
    <2>1. /\ IsPortSystem(al.sys, CB)
          /\ al.sys.ctx = ks.ctx /\ al.sys.ops = ks.ops /\ al.sys.port = ks.port
      BY <1>6, <1>8, PortAllocNone
    <2>2. PICK k1 : k1 = al.sys
      BY Zenon
    <2>3. PICK n : n = counter_
      BY Zenon
    <2>4. /\ IsPortSystem(k1, CB) /\ DOMAIN k1.ctx = {} /\ k1.ops = {} /\ k1.port = <<>>
          /\ n \in Nat /\ n >= FirstSid
      BY <1>2, <1>3, <1>6, <2>1, <2>2, <2>3
    <2>5. Good(k1, NoSessions, n, NULL)
      BY <2>4, GoodStart
    <2> QED
      BY <1>2, <1>8, <2>2, <2>3, <2>5
  <1>9. ASSUME NEW al \in AllocOverlapCtx(ks, fd, FLAG_ASSOCIATE),
               al.ctx # NULL, sys' \in StartAccept(al.sys, al.ctx),
               ctx_' = al.ctx, counter_' = counter_
        PROVE  Good(sys, NoSessions, counter_, ctx_)'
    <2>1. al.ctx \in Nat \ DOMAIN ks.ctx /\ al.sys = Alloc(ks, al.ctx, fd)
      BY <1>6, <1>9, PortAllocNew
    <2>2. PICK c \in Nat \ DOMAIN ks.ctx : c = al.ctx
      BY <2>1, Zenon
    <2>3. PICK n \in Nat : n = counter_
      BY <1>2
    <2>4. PICK k1 : k1 = sys'
      BY Zenon
    <2>5. PICK ka : ka = Alloc(ks, c, fd)
      BY Zenon
    <2>6. PICK b : b = AcceptCb
      BY Zenon
    <2>7. PICK kb : kb = [ka EXCEPT !.ctx[c].cb = b]
      BY Zenon
    <2>8. k1 \in AsyncAccept(kb, c)
      <3>1. al.sys = ka
        BY <2>1, <2>2, <2>5, Zenon
      <3>2. k1 \in StartAccept(ka, c)
        BY <1>9, <2>2, <2>4, <3>1, Zenon
      <3> QED
        BY <2>6, <2>7, <3>2, Zenon DEF StartAccept, AcceptCb
    <2>9. IsPortSystem(kb, CB) /\ Adds(ks, kb, c, fd, b)
      <3>1. b \in CB /\ NULL \in CB
        BY <2>6 DEF AcceptCb, Callback, CallbackType, CB
      <3>2. PICK len \in Int : len = 0
        OBVIOUS
      <3>3. PICK kx : kx = ka
        BY Zenon
      <3>4. kb = [kx EXCEPT !.ctx[c].cb = b]
        BY <2>7, <3>3, Zenon
      <3>5. kx = ka \/ kx = [ka EXCEPT !.ctx[c].len = len]
        BY <3>3, Zenon
      <3> QED
        BY <1>6, <2>5, <3>1, <3>4, <3>5, AllocCb
    <2>10. /\ IsPortSystem(kb, CB)
           /\ DOMAIN kb.ctx = {c} /\ kb.ctx[c].flags = {} /\ kb.ctx[c].cb = AcceptCb
           /\ kb.ops = {} /\ kb.port = <<>>
      BY <1>3, <1>6, <2>6, <2>9 DEF Adds
    <2>11. Good(kb, NoSessions, n, c)
      BY <1>2, <2>3, <2>10, GoodStart
    <2>12. Free(kb, c)
      BY <2>10 DEF Free, Queued
    <2>13. Good(k1, NoSessions, n, c)
      BY <2>8, <2>11, <2>12, StartsAccept
    <2> QED
      BY <1>9, <2>2, <2>3, <2>4, <2>13, Zenon
  <1>10. CASE sys' \in Faulty(k) /\ ctx_' = ctx_ /\ counter_' = counter_
    <2>1. PICK k1 : k1 = sys'
      BY Zenon
    <2>2. PICK n : n = counter_
      BY Zenon
    <2>3. k1 = [k EXCEPT !.faults = @ - 1]
      BY <1>10, <2>1 DEF Faulty, When
    <2>4. IsPortSystem(k1, CB) /\ k1.ctx = k.ctx /\ k1.ops = k.ops /\ k1.port = k.port
      BY <1>3, <2>3, FaultyType
    <2>5. DOMAIN k1.ctx = {} /\ k1.ops = {} /\ k1.port = <<>> /\ n \in Nat /\ n >= FirstSid
      BY <1>2, <1>3, <2>2, <2>4
    <2>6. Good(k1, NoSessions, n, NULL)
      BY <2>4, <2>5, GoodStart
    <2> QED
      BY <1>2, <1>10, <2>1, <2>2, <2>6
  <1> QED
    BY <1>7, <1>8, <1>9, <1>10

\* The system ends an operation.
LEMMA SystemGood ==
  ASSUME Good(sys, sessions_, counter_, ctx_), SystemStep
  PROVE  Good(sys, sessions_, counter_, ctx_)'
  <1>1. PICK k : k = sys
    BY Zenon
  <1>2. PICK k1 : k1 = sys'
    BY Zenon
  <1>3. PICK op \in k.ops :
          \/ /\ op.kind = "accept"
             /\ k1 = Ended([k EXCEPT !.socks[op.sock].kind = "conn"], op, 0, 0)
          \/ k1 \in EndOf(k, op)
    BY <1>1, <1>2 DEF SystemStep, EndAccept
  <1>4. Good(k, sessions_, counter_, ctx_)
    BY <1>1
  <1>5. IsPortSystem(k, CB) /\ op.ctx \in DOMAIN k.ctx /\ OpInv(k, op, sessions_, ctx_)
    BY <1>4 DEF Good, InFlight
  <1>6. ASSUME k1 \in EndOf(k, op)
        PROVE  Good(k1, sessions_, counter_, ctx_)
    <2>1. op.kind # "connect" /\ (~op.aborted => op.fd \in DOMAIN k.socks)
      BY <1>5 DEF OpInv
    <2>2. PICK status \in {0, 1} : /\ IsPortSystem(k1, CB)
                                   /\ SameSockets(k, k1)
                                   /\ Finishes(k, k1, op, status)
                                   /\ op.kind = "accept" => status = 1
      BY <1>5, <1>6, <2>1, EndOfType
    <2>3. Ends(k, k1, op, status) /\ status \in Int
      BY <2>2 DEF Ends, SameSockets
    <2> QED
      BY <1>4, <2>3, EndsOperation
  <1>7. ASSUME op.kind = "accept", k1 = Ended([k EXCEPT !.socks[op.sock].kind = "conn"], op, 0, 0)
        PROVE  Good(k1, sessions_, counter_, ctx_)
    <2>1. PICK h \in DOMAIN k.socks : h = op.sock
      BY <1>5, <1>7 DEF OpInv
    <2>2. PICK x : x = [k.socks[h] EXCEPT !.kind = "conn"]
      BY Zenon
    <2>3. x \in SocketType /\ x.kind = "conn"
      <3>1. PICK s : s = k.socks[h]
        BY Zenon
      <3>2. s \in SocketType
        BY <1>4, <3>1, GoodTypes
      <3>3. x = [s EXCEPT !.kind = "conn"]
        BY <2>2, <3>1, Zenon
      <3> QED
        BY <3>2, <3>3 DEF SocketType
    <2>4. PICK k0 : k0 = [k EXCEPT !.socks[h] = x]
      BY Zenon
    <2>5. [k EXCEPT !.socks[h].kind = "conn"] = k0
      BY <2>2, <2>4, Zenon
    <2>6. k1 = Ended(k0, op, 0, 0)
      BY <1>7, <2>1, <2>5, Zenon
    <2>7. /\ IsPortSystem(k0, CB)
          /\ DOMAIN k0.socks = DOMAIN k.socks
          /\ k0.socks[h] = x
          /\ \A g \in DOMAIN k.socks \ {h} : k0.socks[g] = k.socks[g]
          /\ k0.ctx = k.ctx /\ k0.ops = k.ops /\ k0.port = k.port
      BY <1>5, <2>3, <2>4, SetSocket
    <2>8. PICK status \in Int : status = 0
      OBVIOUS
    <2>9. PICK bytes \in Int : bytes = 0
      OBVIOUS
    <2>10. k1 = Ended(k0, op, status, bytes)
      BY <2>6, <2>8, <2>9, Zenon
    <2>11. IsPortSystem(k1, CB) /\ k1.socks = k0.socks /\ Finishes(k0, k1, op, status)
      <3>1. op \in k0.ops /\ op.ctx \in DOMAIN k0.ctx /\ status \in Int
        BY <1>5, <2>7
      <3> QED
        BY <2>7, <2>10, <3>1, EndedType
    <2>12. Finishes(k, k1, op, status)
      BY <2>7, <2>11 DEF Finishes
    <2>13. DOMAIN k1.socks = DOMAIN k.socks
      BY <2>7, <2>11
    <2>14. k1.socks[h].kind = "conn"
      BY <2>3, <2>7, <2>11
    <2>15. \A g \in DOMAIN k.socks : k1.socks[g].kind = k.socks[g].kind \/ g = h
      BY <2>7, <2>11
    <2>16. Ends(k, k1, op, status)
      BY <1>7, <2>1, <2>11, <2>12, <2>13, <2>14, <2>15, Zenon DEF Ends
    <2> QED
      BY <1>4, <2>16, EndsOperation
  <1>8. Good(k1, sessions_, counter_, ctx_)
    BY <1>3, <1>6, <1>7, Zenon
  <1> QED
    BY <1>2, <1>8 DEF SystemStep, server

\* A client connects, sends or closes.
LEMMA ClientGood ==
  ASSUME Good(sys, sessions_, counter_, ctx_), ClientStep
  PROVE  Good(sys, sessions_, counter_, ctx_)'
  <1>1. PICK k : k = sys
    BY Zenon
  <1>2. PICK k1 : k1 = sys'
    BY Zenon
  <1>3. Good(k, sessions_, counter_, ctx_) /\ IsPortSystem(k, CB)
    BY <1>1 DEF Good
  <1>4. \/ k1 = k
        \/ \E h \in DOMAIN k.socks :
             \/ k1 = [k EXCEPT !.socks[h].sent = @ + 1, !.socks[h].rx = @ + 1]
             \/ k1 = [k EXCEPT !.socks[h].fin = TRUE]
    BY <1>1, <1>2 DEF ClientStep, Clients, ClientConnect, ClientPing, ClientClose, Conns
  <1>5. ASSUME NEW k2, IsPortSystem(k2, CB), SameSockets(k, k2), k2.ctx = k.ctx, k2.ops = k.ops, k2.port = k.port
        PROVE  Good(k2, sessions_, counter_, ctx_)
    BY <1>3, <1>5, GoodSame
  <1>6. ASSUME NEW h \in DOMAIN k.socks, k1 = [k EXCEPT !.socks[h].sent = @ + 1, !.socks[h].rx = @ + 1]
        PROVE  Good(k1, sessions_, counter_, ctx_)
    <2>1. PICK k2 : k2 = Sends(k, h)
      BY Zenon
    <2>2. IsPortSystem(k2, CB) /\ SameSockets(k, k2) /\ k2.ctx = k.ctx /\ k2.ops = k.ops /\ k2.port = k.port
      BY <1>3, <2>1, SentType
    <2>3. k1 = k2
      BY <1>6, <2>1, Zenon DEF Sends
    <2> QED
      BY <1>5, <2>2, <2>3
  <1>7. ASSUME NEW h \in DOMAIN k.socks, k1 = [k EXCEPT !.socks[h].fin = TRUE]
        PROVE  Good(k1, sessions_, counter_, ctx_)
    <2>1. PICK m \in Int : m = 0
      OBVIOUS
    <2>2. IsPortSystem(k1, CB) /\ SameSockets(k, k1) /\ k1.ctx = k.ctx /\ k1.ops = k.ops /\ k1.port = k.port
      BY <1>3, <1>7, SocketFields
    <2> QED
      BY <1>5, <2>2
  <1>8. Good(k1, sessions_, counter_, ctx_)
    BY <1>3, <1>4, <1>6, <1>7
  <1> QED
    BY <1>2, <1>8 DEF ClientStep, server
-----------------------------------------------------------------------------
(* The theorems, for a program started on the completion port. *)

\* The server starts in the invariant,
LEMMA InitIInv ==
  ASSUME Services = {"IOCompletionPort"}, Init
  PROVE  IInv
  <1>1. /\ sys = EmptySystem("IOCompletionPort") /\ ctx_ = NULL /\ sessions_ = NoSessions
        /\ counter_ = FirstSid
    BY DEF Init, CreateIOService
  <1>2. PICK k : k = sys
    BY Zenon
  <1>3. IsPortSystem(k, CB) /\ DOMAIN k.ctx = {} /\ k.ops = {} /\ k.port = <<>>
    BY <1>1, <1>2, EmptyType
  <1>4. PICK n \in Nat : n = FirstSid
    BY DEF FirstSid
  <1>5. n >= FirstSid
    BY <1>4
  <1>6. Good(k, NoSessions, n, NULL)
    BY <1>3, <1>5, GoodStart
  <1>7. Good(sys, sessions_, counter_, ctx_)
    BY <1>1, <1>2, <1>4, <1>6, Zenon
  <1> QED
    BY <1>1, <1>7 DEF IInv

\* main deletes the service: nothing is left.
LEMMA StopGood ==
  ASSUME Good(sys, sessions_, counter_, ctx_), Stop
  PROVE  Good(sys, sessions_, counter_, ctx_)'
  <1>1. sys.service = "IOCompletionPort"
    BY SystemElim DEF Good, OnPort
  <1>2. PICK k : k = EmptySystem("IOCompletionPort")
    BY Zenon
  <1>3. sys' = k /\ ctx_' = NULL /\ sessions_' = NoSessions /\ counter_' = FirstSid
    BY <1>1, <1>2 DEF Stop
  <1>4. IsPortSystem(k, CB) /\ DOMAIN k.ctx = {} /\ k.ops = {} /\ k.port = <<>>
    BY <1>2, EmptyType
  <1>5. PICK n \in Nat : n = FirstSid
    BY DEF FirstSid
  <1>6. n >= FirstSid
    BY <1>5
  <1>7. Good(k, NoSessions, n, NULL)
    BY <1>4, <1>6, GoodStart
  <1> QED
    BY <1>3, <1>5, <1>7, Zenon

\* and every step keeps it.
LEMMA NextIInv ==
  ASSUME IInv, [Next]_vars
  PROVE  IInv'
  <1>1. Good(sys, sessions_, counter_, ctx_)
    BY DEF IInv
  <1>2. CASE Begin
    <2>1. Good(sys, NoSessions, counter_, ctx_)'
      BY <1>2, BeginGood
    <2>2. sessions_' = NoSessions /\ pc' # "init" /\ NoSessions' = NoSessions
      BY <1>2 DEF Begin, IInv, NoSessions
    <2> QED
      BY <2>1, <2>2, Zenon DEF IInv
  <1>3. CASE RunCallback \/ RunFailed \/ RunOnDeleted
    <2>1. Good(sys, sessions_, counter_, ctx_)'
      BY <1>1, <1>3, RunGood
    <2>2. pc' \in {"run", "undefined"}
      BY <1>3 DEF RunCallback, RunFailed, RunOnDeleted, server, OnAccept, OnAcceptFails, OnAcceptOk,
                  OnRead, OnWritten
    <2> QED
      BY <2>1, <2>2 DEF IInv
  <1>4. CASE UNCHANGED vars
    BY <1>4 DEF IInv, vars, server, Good, InFlight, Queued, ContextsInv, Owned, SessionsInv, Conns,
                OpInv, PacketInv, Unowned
  <1>5. CASE Stop
    <2>1. Good(sys, sessions_, counter_, ctx_)'
      BY <1>1, <1>5, StopGood
    <2> QED
      BY <1>5, <2>1 DEF IInv, Stop
  <1>6. CASE SystemStep
    <2>1. Good(sys, sessions_, counter_, ctx_)'
      BY <1>1, <1>6, SystemGood
    <2> QED
      BY <1>6, <2>1 DEF IInv, SystemStep, server
  <1>7. CASE ClientStep
    <2>1. Good(sys, sessions_, counter_, ctx_)'
      BY <1>1, <1>7, ClientGood
    <2> QED
      BY <1>7, <2>1 DEF IInv, ClientStep, server
  <1> QED
    BY <1>2, <1>3, <1>4, <1>5, <1>6, <1>7 DEF Next, Run, RunTimeout, Halted

\* The server keeps the invariant whatever the clients, the system and the
\* faults do (src/examples/pingpong/Server.cpp and Session.cpp).
THEOREM Invariance ==
  ASSUME Services = {"IOCompletionPort"}
  PROVE  Spec => []IInv
  <1>1. Init => IInv
    BY InitIInv
  <1>2. IInv /\ [Next]_vars => IInv'
    BY NextIInv
  <1> QED
    BY <1>1, <1>2, PTL DEF Spec

\* The system never writes the result of an operation into a context that
\* CompletionPortService::FreeOverlapCtx has deleted.
THEOREM InFlightCorrect ==
  ASSUME Services = {"IOCompletionPort"}
  PROVE  Spec => []InFlightContexts
  <1>1. IInv => InFlightContexts
    <2> SUFFICES ASSUME IInv PROVE InFlightContexts
      OBVIOUS
    <2>1. Good(sys, sessions_, counter_, ctx_)
      BY DEF IInv
    <2>2. OnPort(sys)
      BY <2>1, SystemElim DEF Good
    <2> QED
      BY <2>1, <2>2 DEF Good, InFlight, Queued, InFlightContexts, Contexts, PacketContexts
  <1> QED
    BY <1>1, Invariance, PTL

\* Sessions own their sockets and contexts, and reads that are still wanted
\* are those of live sessions (Session::StartRead, Session::Close).
THEOREM SessionsCorrect ==
  ASSUME Services = {"IOCompletionPort"}
  PROVE  Spec => []SessionsOwnSockets
  <1>1. IInv => SessionsOwnSockets
    <2> SUFFICES ASSUME IInv PROVE SessionsOwnSockets
      OBVIOUS
    <2>1. Good(sys, sessions_, counter_, ctx_)
      BY DEF IInv
    <2>2. \A s \in Live : /\ sessions_[s].fd_ \in Conns(sys)
                          /\ sessions_[s].recv_ctx_ \in Contexts
                          /\ sys.ctx[sessions_[s].recv_ctx_].fd = sessions_[s].fd_
                          /\ sys.ctx[sessions_[s].recv_ctx_].cb = Callback("OnRead", s)
      BY <2>1 DEF Good, SessionsInv, Live, Contexts
    <2>3. ASSUME NEW s \in Live
          PROVE  /\ sys.ctx[sessions_[s].recv_ctx_].cb.obj = s
                 /\ sessions_[s].recv_ctx_ # ctx_
      <3>1. PICK c \in Contexts : c = sessions_[s].recv_ctx_
        BY <2>2
      <3>2. sys.ctx[c].cb = Callback("OnRead", s)
        BY <2>2, <3>1
      <3>3. sys.ctx[c].cb.fn = "OnRead" /\ sys.ctx[c].cb.obj = s
        BY <3>2 DEF Callback
      <3>4. c # ctx_
        BY <2>1, <3>3 DEF Good, ContextsInv, Owned, AcceptCb, Callback, Contexts
      <3> QED
        BY <3>1, <3>3, <3>4
    <2>4. \A s, t \in Live : s # t => /\ sessions_[s].fd_ # sessions_[t].fd_
                                      /\ sessions_[s].recv_ctx_ # sessions_[t].recv_ctx_
      BY <2>1, <2>3 DEF Good, SessionsInv, Live
    <2>5. \A op \in sys.ops : op.kind = "read" =>
            \E s \in Live : sessions_[s].recv_ctx_ = op.ctx /\ (op.aborted \/ sessions_[s].fd_ = op.fd)
      BY <2>1 DEF Good, OpInv, Live
    <2> QED
      BY <2>2, <2>3, <2>4, <2>5 DEF SessionsOwnSockets
  <1> QED
    BY <1>1, Invariance, PTL
=============================================================================
