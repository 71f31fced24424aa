------------------------ MODULE PingPongClientProofs ------------------------
(***************************************************************************)
(* The inductive invariant of the pingpong client on the completion port,  *)
(* for any number of addresses, messages and faults.                       *)
(*                                                                         *)
(* Good(k, f, r) relates a state k of the system, the socket f and the     *)
(* context r of the client; Sound(w) is about the whole record w that the  *)
(* handlers pass on.                                                       *)
(***************************************************************************)
EXTENDS PingPongClient, IOServiceProofs

Callbacks    == {"OnConnect", "OnRead", "OnWritten"}
CB           == Callbacks \cup {NULL}
ClientFields == {"sys", "fd_", "recv_ctx_", "sent_count_", "recv_buf_", "timer", "undefined"}

\* recv_ctx_ is the one context of connects and reads, until Cleanup marks it
\* for deletion and closes its socket; all others are of writes.
ContextsInv(k, f, r) ==
  /\ r # NULL => /\ r \in DOMAIN k.ctx
                 /\ k.ctx[r].fd = f
                 /\ f \in DOMAIN k.socks
  /\ \A c \in DOMAIN k.ctx : /\ k.ctx[c].cb \in Callbacks
                             /\ c = r => k.ctx[c].cb # "OnWritten"
                             /\ r # NULL /\ c # r => k.ctx[c].cb = "OnWritten"
                             /\ k.ctx[c].cb = "OnWritten" \/ c = r => k.ctx[c].flags = {}

\* What is not cancelled is about the client's socket, and open.
OpInv(k, op, f) == /\ op.kind = "write" <=> k.ctx[op.ctx].cb = "OnWritten"
                   /\ ~op.orphan
                   /\ ~op.aborted => op.fd = f /\ f \in DOMAIN k.socks

PacketInv(k, j) == k.port[j].ok <=> k.ctx[k.port[j].ctx].status = 0

Good(k, f, r) == /\ IsPortSystem(k, CB)
                 /\ InFlight(k)
                 /\ f \in Int
                 /\ ContextsInv(k, f, r)
                 /\ \A op \in k.ops : OpInv(k, op, f)
                 /\ \A j \in DOMAIN k.port : PacketInv(k, j)

IsClient(w) == w = [x \in ClientFields |-> w[x]]

\* Cleanup has run.
Closed(w) == /\ w.fd_ = INVALID_SOCKET
             /\ w.recv_ctx_ = NULL
             /\ w.sent_count_ >= MAX_SEND_COUNT

\* No connect is on its way.
Unconnected(w) == /\ w.recv_ctx_ = NULL
                  /\ w.timer = "off"
                  /\ ~w.undefined
                  /\ DOMAIN w.sys.ctx = {}

\* The client without a context has not connected, or is done.
Sound(w) == /\ IsClient(w)
            /\ Good(w.sys, w.fd_, w.recv_ctx_)
            /\ w.sent_count_ \in Nat /\ w.recv_buf_ \in Int
            /\ w.recv_ctx_ = NULL => Unconnected(w) \/ Closed(w)
            /\ w.undefined => Closed(w)

\* ready is the context of an operation that succeeded; nothing uses it.
IInv == /\ Sound(State)
        /\ IsClient(client) /\ client.sys = NULL
        /\ pc = "init" => Unconnected(State)
        /\ pc = "callback" /\ ready # NULL => Free(sys, ready) /\ sys.ctx[ready].status = 0
        /\ pc # "callback" => ready = NULL
        /\ pc = "undefined" => Closed(client)
-----------------------------------------------------------------------------
(* The system. *)

\* The types of the parts.
LEMMA GoodTypes ==
  ASSUME NEW k, NEW f, NEW r, Good(k, f, r)
  PROVE  /\ NULL \notin Nat
         /\ DOMAIN k.ctx \subseteq Nat /\ DOMAIN k.socks \subseteq Nat
         /\ k.ops \in SUBSET OperationType
         /\ k.port \in Seq(PacketType)
         /\ k.ctx \in [DOMAIN k.ctx -> ContextType(CB)]
         /\ OnPort(k)
  BY SystemElim, KernelAssumption DEF Good, Packets

\* An operation on a context that is free, for the client's socket.
LEMMA StartsOperation ==
  ASSUME NEW k, NEW f, NEW r, Good(k, f, r), NEW c, Free(k, c),
         NEW kind \in {"read", "write", "connect"}, kind = "write" <=> k.ctx[c].cb = "OnWritten",
         NEW k1, IsPortSystem(k1, CB), SameBut(k, k1, c), k1.socks = k.socks,
         \/ k1.ops = k.ops
         \/ /\ k1.ops = k.ops \cup {Operation(k, c, kind, 0)}
            /\ k.ctx[c].fd = f /\ f \in DOMAIN k.socks
  PROVE  Good(k1, f, r)
  <1>1. PICK o : o = Operation(k, c, kind, 0)
    BY Zenon
  <1>2. o.ctx = c /\ o.fd = k.ctx[c].fd /\ o.kind = kind /\ ~o.aborted /\ ~o.orphan
    BY <1>1 DEF Operation
  <1>3. \/ k1.ops = k.ops
        \/ k1.ops = k.ops \cup {o} /\ o.fd = f /\ f \in DOMAIN k.socks
    BY <1>1, <1>2, Zenon
  <1>4. Queued(k1) = Queued(k)
    BY DEF SameBut, Queued
  <1>5. InFlight(k1)
    BY <1>2, <1>3, <1>4 DEF Good, InFlight, Free, SameBut
  <1>6. ContextsInv(k1, f, r)
    BY DEF Good, ContextsInv, SameBut
  <1>7. \A op \in k.ops : OpInv(k1, op, f)
    <2> SUFFICES ASSUME NEW op \in k.ops PROVE OpInv(k1, op, f)
      OBVIOUS
    <2>1. OpInv(k, op, f) /\ op.ctx \in DOMAIN k.ctx /\ op.ctx # c
      BY DEF Good, InFlight, Free
    <2> QED
      BY <2>1 DEF OpInv, SameBut
  <1>8. k1.ops # k.ops => OpInv(k1, o, f)
    BY <1>2, <1>3 DEF OpInv, SameBut
  <1>9. \A j \in DOMAIN k1.port : PacketInv(k1, j)
    <2> SUFFICES ASSUME NEW j \in DOMAIN k1.port PROVE PacketInv(k1, j)
      OBVIOUS
    <2>1. j \in DOMAIN k.port /\ k1.port[j] = k.port[j] /\ PacketInv(k, j)
      BY DEF SameBut, Good
    <2>2. k.port[j].ctx # c /\ k.port[j].ctx \in DOMAIN k.ctx
      BY <2>1 DEF Free, Queued, Good, InFlight
    <2> QED
      BY <2>1, <2>2 DEF PacketInv, SameBut
  <1>10. \A op \in k1.ops : OpInv(k1, op, f)
    BY <1>3, <1>7, <1>8
  <1> QED
    BY <1>5, <1>6, <1>9, <1>10 DEF Good

\* A new context: a write's, or the first, of a connect on the client's socket.
LEMMA NewContextGood ==
  ASSUME NEW k, NEW f, NEW r, Good(k, f, r), NEW c \in Nat \ DOMAIN k.ctx, NEW fd, NEW b,
         NEW k1, IsPortSystem(k1, CB), Adds(k, k1, c, fd, b)
  PROVE  /\ Free(k1, c)
         /\ b = "OnWritten" => Good(k1, f, r)
         /\ b = "OnConnect" /\ DOMAIN k.ctx = {} /\ fd \in DOMAIN k.socks => Good(k1, fd, c)
  <1>1. /\ DOMAIN k1.ctx = DOMAIN k.ctx \cup {c}
        /\ \A d \in DOMAIN k.ctx : k1.ctx[d] = k.ctx[d]
        /\ k1.ctx[c].fd = fd /\ k1.ctx[c].flags = {} /\ k1.ctx[c].cb = b
        /\ k1.ops = k.ops /\ k1.port = k.port /\ k1.socks = k.socks
    BY DEF Adds
  <1>2. Queued(k1) = Queued(k)
    BY <1>1 DEF Queued
  <1>3. InFlight(k1)
    BY <1>1, <1>2 DEF Good, InFlight
  <1>4. Free(k1, c)
    BY <1>1, <1>2 DEF Free, Good, InFlight
  <1>5. \A j \in DOMAIN k1.port : PacketInv(k1, j)
    <2> SUFFICES ASSUME NEW j \in DOMAIN k1.port PROVE PacketInv(k1, j)
      OBVIOUS
    <2>1. j \in DOMAIN k.port /\ k1.port[j] = k.port[j] /\ PacketInv(k, j)
      BY <1>1 DEF Good
    <2>2. k.port[j].ctx \in DOMAIN k.ctx
      BY <2>1 DEF Queued, Good, InFlight
    <2> QED
      BY <1>1, <2>1, <2>2 DEF PacketInv
  <1>6. ASSUME b = "OnWritten" PROVE Good(k1, f, r)
    <2>1. r # c
      BY KernelAssumption DEF Good, ContextsInv
    <2>2. ContextsInv(k1, f, r)
      BY <1>1, <1>6, <2>1 DEF Good, ContextsInv, Callbacks
    <2>3. \A op \in k1.ops : OpInv(k1, op, f)
      BY <1>1 DEF Good, OpInv, InFlight
    <2> QED
      BY <1>3, <1>5, <2>2, <2>3 DEF Good
  <1>7. ASSUME b = "OnConnect", DOMAIN k.ctx = {}, fd \in DOMAIN k.socks PROVE Good(k1, fd, c)
    <2>1. ContextsInv(k1, fd, c)
      BY <1>1, <1>7 DEF ContextsInv, Callbacks
    <2>2. k1.ops = {}
      BY <1>1, <1>7 DEF Good, InFlight
    <2>3. fd \in Int
      BY <1>7, GoodTypes
    <2> QED
      BY <1>3, <1>5, <2>1, <2>2, <2>3 DEF Good
  <1> QED
    BY <1>4, <1>6, <1>7

\* Operations are cancelled, the client's socket is closed or it is not.
LEMMA CancelsGood ==
  ASSUME NEW k, NEW f, NEW r, Good(k, f, r), NEW h, NEW k1, IsPortSystem(k1, CB),
         k1.ctx = k.ctx, k1.port = k.port, k1.ops = Abort(k.ops, h), NEW f1 \in Int,
         \/ f1 = f /\ k1.socks = k.socks
         \/ h = f /\ r = NULL
  PROVE  /\ Good(k1, f1, r)
         /\ \A c : Free(k, c) => Free(k1, c)
  <1>1. k.ops \in SUBSET OperationType
    BY GoodTypes
  <1>2. \A op1 \in k1.ops : \E op \in k.ops :
              /\ op1.ctx = op.ctx /\ op1.fd = op.fd /\ op1.kind = op.kind
              /\ op.aborted => op1.aborted
              /\ op1 = IF op.fd = h THEN [op EXCEPT !.aborted = TRUE] ELSE op
              /\ op1.orphan = op.orphan
              /\ op.fd = h => op1.aborted
    BY <1>1, AbortType
  <1>3. \A o1, o2 \in k1.ops : o1.ctx = o2.ctx => o1 = o2
    <2> SUFFICES ASSUME NEW o1 \in k1.ops, NEW o2 \in k1.ops, o1.ctx = o2.ctx
                 PROVE  o1 = o2
      OBVIOUS
    <2>1. PICK p1 \in k.ops : /\ o1.ctx = p1.ctx
                              /\ o1 = IF p1.fd = h THEN [p1 EXCEPT !.aborted = TRUE] ELSE p1
      BY <1>2
    <2>2. PICK p2 \in k.ops : /\ o2.ctx = p2.ctx
                              /\ o2 = IF p2.fd = h THEN [p2 EXCEPT !.aborted = TRUE] ELSE p2
      BY <1>2
    <2>3. p1.ctx = p2.ctx
      BY <2>1, <2>2
    <2>4. p1 = p2
      BY <2>3 DEF Good, InFlight
    <2> QED
      BY <2>1, <2>2, <2>4, Zenon
  <1>4. Queued(k1) = Queued(k)
    BY DEF Queued
  <1>5. InFlight(k1)
    BY <1>2, <1>3, <1>4 DEF Good, InFlight
  <1>6. ContextsInv(k1, f1, r)
    BY DEF Good, ContextsInv
  <1>7. \A op \in k1.ops : OpInv(k1, op, f1)
    <2> SUFFICES ASSUME NEW op1 \in k1.ops PROVE OpInv(k1, op1, f1)
      OBVIOUS
    <2>1. PICK op \in k.ops : /\ op1.ctx = op.ctx /\ op1.fd = op.fd /\ op1.kind = op.kind
                              /\ op.aborted => op1.aborted
                              /\ op1.orphan = op.orphan
                              /\ op.fd = h => op1.aborted
      BY <1>2
    <2>2. OpInv(k, op, f)
      BY DEF Good
    <2> QED
      BY <2>1, <2>2 DEF OpInv
  <1>8. \A j \in DOMAIN k1.port : PacketInv(k1, j)
    BY DEF Good, PacketInv
  <1> QED
    BY <1>2, <1>4, <1>5, <1>6, <1>7, <1>8 DEF Good, Free

\* A context that is free is deleted, one of a write or the client's last.
LEMMA DeletesGood ==
  ASSUME NEW k, NEW f, NEW r, Good(k, f, r), NEW c, Free(k, c), c # r,
         NEW k1, IsPortSystem(k1, CB), k1.ctx = Without(k.ctx, c),
         k1.ops = k.ops, k1.port = k.port, k1.socks = k.socks
  PROVE  Good(k1, f, r)
  <1>1. /\ DOMAIN k1.ctx = DOMAIN k.ctx \ {c}
        /\ \A d \in DOMAIN k1.ctx : k1.ctx[d] = k.ctx[d]
    BY DEF Without
  <1>2. Queued(k1) = Queued(k)
    BY DEF Queued
  <1>3. InFlight(k1)
    BY <1>1, <1>2 DEF Good, InFlight, Free
  <1>4. ContextsInv(k1, f, r)
    BY <1>1 DEF Good, ContextsInv
  <1>5. \A op \in k1.ops : OpInv(k1, op, f)
    <2> SUFFICES ASSUME NEW op \in k1.ops PROVE OpInv(k1, op, f)
      OBVIOUS
    <2>1. OpInv(k, op, f) /\ op.ctx \in DOMAIN k1.ctx
      BY <1>3 DEF Good, InFlight
    <2> QED
      BY <1>1, <2>1 DEF OpInv
  <1>6. \A j \in DOMAIN k1.port : PacketInv(k1, j)
    <2> SUFFICES ASSUME NEW j \in DOMAIN k1.port PROVE PacketInv(k1, j)
      OBVIOUS
    <2>1. PacketInv(k, j) /\ k1.port[j].ctx \in DOMAIN k1.ctx
      BY <1>3 DEF Good, InFlight, Queued
    <2> QED
      BY <1>1, <2>1 DEF PacketInv
  <1> QED
    BY <1>3, <1>4, <1>5, <1>6 DEF Good

\* The system ends an operation.
LEMMA EndsGood ==
  ASSUME NEW k, NEW f, NEW r, Good(k, f, r), NEW op \in k.ops, NEW k1 \in EndOf(k, op)
  PROVE  /\ Good(k1, f, r)
         /\ DOMAIN k1.ctx = DOMAIN k.ctx
         /\ \A c : Free(k, c) => Free(k1, c) /\ k1.ctx[c].status = k.ctx[c].status
  <1>1. IsPortSystem(k, CB) /\ op.ctx \in DOMAIN k.ctx /\ op.ctx \notin Queued(k) /\ OpInv(k, op, f)
    BY DEF Good, InFlight
  <1>2. ~op.aborted => op.fd \in DOMAIN k.socks
    BY <1>1 DEF OpInv
  <1>3. PICK status \in Int : /\ IsPortSystem(k1, CB)
                              /\ DOMAIN k1.socks = DOMAIN k.socks
                              /\ Finishes(k, k1, op, status)
    <2>1. CASE op.kind = "connect" /\ ~op.aborted /\ k1 \in EndConnect(k, op)
      <3>1. IsPortSystem(k1, CB) /\ DOMAIN k1.socks = DOMAIN k.socks /\ Finishes(k, k1, op, 0)
        BY <1>1, <1>2, <2>1, EndConnectType
      <3>2. 0 \in Int
        OBVIOUS
      <3> QED
        BY <3>1, <3>2, Zenon
    <2>2. CASE op.kind # "connect"
      <3>1. PICK status \in {0, 1} : IsPortSystem(k1, CB) /\ SameSockets(k, k1) /\ Finishes(k, k1, op, status)
        BY <1>1, <1>2, <2>2, EndOfType
      <3>2. status \in Int
        OBVIOUS
      <3> QED
        BY <3>1, <3>2, Zenon DEF SameSockets
    <2>3. CASE k1 \in EndFailed(k, op)
      <3>1. PICK status \in Int : status = 1
        OBVIOUS
      <3>2. PICK bytes \in Int : bytes = 0
        OBVIOUS
      <3>3. PICK k0 : k1 = Ended(k0, op, status, bytes) /\ (k0 = k \/ k0 = [k EXCEPT !.faults = @ - 1])
        BY <2>3, <3>1, <3>2, Zenon DEF EndFailed, When, Faulty
      <3>4. IsPortSystem(k0, CB) /\ k0.ctx = k.ctx /\ k0.ops = k.ops /\ k0.port = k.port /\ k0.socks = k.socks
        BY <1>1, <3>3, FaultyType
      <3>5. op \in k0.ops /\ op.ctx \in DOMAIN k0.ctx
        BY <1>1, <3>4
      <3>6. IsPortSystem(k1, CB) /\ k1.socks = k0.socks /\ Finishes(k0, k1, op, status)
        BY <3>3, <3>4, <3>5, EndedType
      <3>7. Finishes(k, k1, op, status)
        BY <3>4, <3>6 DEF Finishes
      <3> QED
        BY <3>4, <3>6, <3>7
    <2> QED
      BY <2>1, <2>2, <2>3, Zenon DEF EndOf, When
  <1>4. PICK c : c = op.ctx
    BY Zenon
  <1>5. PICK p : p = [ctx |-> c, ok |-> status = 0]
    BY Zenon
  <1>6. /\ DOMAIN k1.ctx = DOMAIN k.ctx
        /\ \A d \in DOMAIN k.ctx \ {c} : k1.ctx[d] = k.ctx[d]
        /\ k1.ctx[c].fd = k.ctx[c].fd
        /\ k1.ctx[c].flags = k.ctx[c].flags
        /\ k1.ctx[c].cb = k.ctx[c].cb
        /\ k1.ctx[c].status = status
        /\ k1.ops = k.ops \ {op}
        /\ k1.port = Append(k.port, p)
    BY <1>3, <1>4, <1>5, Zenon DEF Finishes
  <1>7. p.ctx = c /\ (p.ok <=> status = 0) /\ p \in PacketType
    BY <1>1, <1>4, <1>5, GoodTypes DEF PacketType
  <1>8. PICK q : q = k.port
    BY Zenon
  <1>9. q \in Seq(PacketType)
    BY <1>8, GoodTypes
  <1>10. /\ DOMAIN k1.port = DOMAIN q \cup {Len(q) + 1} /\ Len(q) + 1 \notin DOMAIN q
         /\ \A j \in DOMAIN q : k1.port[j] = q[j]
         /\ k1.port[Len(q) + 1] = p
    BY <1>6, <1>7, <1>8, <1>9
  <1>11. Queued(k1) = Queued(k) \cup {c}
    BY <1>7, <1>8, <1>10 DEF Queued
  <1>12. InFlight(k1)
    <2>1. \A o \in k1.ops : o.ctx \in DOMAIN k1.ctx /\ o.ctx \notin Queued(k1)
      BY <1>4, <1>6, <1>11 DEF Good, InFlight
    <2>2. Queued(k1) \subseteq DOMAIN k1.ctx
      BY <1>1, <1>4, <1>6, <1>11 DEF Good, InFlight
    <2>3. \A o1, o2 \in k1.ops : o1.ctx = o2.ctx => o1 = o2
      BY <1>6 DEF Good, InFlight
    <2>4. \A j \in DOMAIN q : q[j].ctx # c
      BY <1>1, <1>4, <1>8 DEF Queued
    <2>5. \A i, j \in DOMAIN q : q[i].ctx = q[j].ctx => i = j
      BY <1>8 DEF Good, InFlight
    <2>6. \A i, j \in DOMAIN k1.port : k1.port[i].ctx = k1.port[j].ctx => i = j
      BY <1>7, <1>10, <2>4, <2>5
    <2> QED
      BY <2>1, <2>2, <2>3, <2>6 DEF InFlight
  <1>13. ContextsInv(k1, f, r)
    <2>1. ContextsInv(k, f, r)
      BY DEF Good
    <2>2. \A d \in DOMAIN k.ctx : /\ k1.ctx[d].fd = k.ctx[d].fd
                                  /\ k1.ctx[d].flags = k.ctx[d].flags
                                  /\ k1.ctx[d].cb = k.ctx[d].cb
      BY <1>6
    <2> QED
      BY <1>3, <1>6, <2>1, <2>2 DEF ContextsInv
  <1>14. \A o \in k1.ops : OpInv(k1, o, f)
    <2> SUFFICES ASSUME NEW o \in k1.ops PROVE OpInv(k1, o, f)
      OBVIOUS
    <2>1. o \in k.ops /\ OpInv(k, o, f) /\ o.ctx \in DOMAIN k.ctx
      BY <1>6 DEF Good, InFlight
    <2>2. k1.ctx[o.ctx].cb = k.ctx[o.ctx].cb
      BY <1>6, <2>1
    <2> QED
      BY <1>3, <2>1, <2>2 DEF OpInv
  <1>15. \A j \in DOMAIN k1.port : PacketInv(k1, j)
    <2> SUFFICES ASSUME NEW j \in DOMAIN k1.port PROVE PacketInv(k1, j)
      OBVIOUS
    <2>1. CASE j \in DOMAIN q
      <3>1. PacketInv(k, j) /\ k1.port[j] = k.port[j]
        BY <1>8, <1>10, <2>1 DEF Good
      <3>2. k.port[j].ctx # c /\ k.port[j].ctx \in DOMAIN k.ctx
        BY <1>1, <1>4, <1>8, <2>1 DEF Queued, Good, InFlight
      <3> QED
        BY <1>6, <3>1, <3>2 DEF PacketInv
    <2>2. CASE j = Len(q) + 1
      BY <1>6, <1>7, <1>10, <2>2 DEF PacketInv
    <2> QED
      BY <1>10, <2>1, <2>2
  <1>16. Good(k1, f, r)
    BY <1>3, <1>12, <1>13, <1>14, <1>15 DEF Good
  <1>17. \A d : Free(k, d) => Free(k1, d) /\ k1.ctx[d].status = k.ctx[d].status
    BY <1>4, <1>6, <1>11 DEF Free
  <1> QED
    BY <1>6, <1>16, <1>17

\* Run takes a packet: its context is free and tells how the operation ended.
LEMMA TakesPacket ==
  ASSUME NEW k, NEW f, NEW r, Good(k, f, r), NEW d \in Dequeue(k)
  PROVE  /\ Good(d.sys, f, r)
         /\ d.sys.ctx = k.ctx
         /\ Free(d.sys, d.ctx)
         /\ d.ok <=> d.sys.ctx[d.ctx].status = 0
  <1>1. /\ k.port # <<>>
        /\ IsPortSystem(d.sys, CB)
        /\ d.ctx = k.port[1].ctx /\ d.ok = k.port[1].ok
        /\ d.sys.port = Tail(k.port)
        /\ d.sys.ctx = k.ctx /\ d.sys.ops = k.ops /\ d.sys.socks = k.socks
    BY PortDequeue DEF Good
  <1>2. PICK q : q = k.port
    BY Zenon
  <1>3. q \in Seq(PacketType) /\ q # <<>>
    BY <1>1, <1>2, GoodTypes
  <1>4. /\ 1 \in DOMAIN q
        /\ \A j \in DOMAIN Tail(q) : j \in Nat /\ j + 1 \in DOMAIN q /\ j + 1 # 1 /\ Tail(q)[j] = q[j + 1]
    BY <1>3
  <1>5. \A i, j \in DOMAIN q : q[i].ctx = q[j].ctx => i = j
    BY <1>2 DEF Good, InFlight
  <1>6. /\ Queued(d.sys) \subseteq Queued(k)
        /\ d.ctx \in Queued(k)
        /\ d.ctx \notin Queued(d.sys)
    BY <1>1, <1>2, <1>4, <1>5 DEF Queued
  <1>7. \A i, j \in DOMAIN d.sys.port : d.sys.port[i].ctx = d.sys.port[j].ctx => i = j
    BY <1>1, <1>2, <1>4, <1>5
  <1>8. InFlight(d.sys)
    BY <1>1, <1>6, <1>7 DEF Good, InFlight
  <1>9. ContextsInv(d.sys, f, r) /\ \A op \in d.sys.ops : OpInv(d.sys, op, f)
    BY <1>1 DEF Good, ContextsInv, OpInv
  <1>10. \A j \in DOMAIN d.sys.port : PacketInv(d.sys, j)
    <2> SUFFICES ASSUME NEW j \in DOMAIN d.sys.port PROVE PacketInv(d.sys, j)
      OBVIOUS
    <2>1. PICK i \in DOMAIN k.port : d.sys.port[j] = k.port[i]
      BY <1>1, <1>2, <1>4
    <2>2. PacketInv(k, i)
      BY <2>1 DEF Good
    <2> QED
      BY <1>1, <2>1, <2>2 DEF PacketInv
  <1>11. PacketInv(k, 1)
    BY <1>2, <1>4 DEF Good
  <1> QED
    BY <1>1, <1>6, <1>8, <1>9, <1>10, <1>11 DEF Good, Free, InFlight, PacketInv
-----------------------------------------------------------------------------
(* The client's record. *)

\* An assignment to a field.
LEMMA Assign ==
  ASSUME NEW w, IsClient(w), NEW x, NEW g \in ClientFields, NEW v, v = [w EXCEPT ![g] = x]
  PROVE  IsClient(v) /\ v[g] = x /\ \A h \in ClientFields \ {g} : v[h] = w[h]
  <1>1. DOMAIN w = ClientFields
    BY DEF IsClient
  <1>2. v = [h \in ClientFields |-> IF h = g THEN x ELSE w[h]]
    BY <1>1
  <1> QED
    BY <1>2 DEF IsClient

\* The fields of w other than those in F are those of v.
Keeps(w, v, F) == IsClient(v) /\ \A g \in ClientFields \ F : v[g] = w[g]

\* The system is another.
LEMMA Set_sys ==
  ASSUME NEW w, IsClient(w), NEW x, NEW v, v = [w EXCEPT !.sys = x]
  PROVE  v.sys = x /\ Keeps(w, v, {"sys"})
  BY Assign DEF Keeps, ClientFields

\* The system and the timer change, the client is open or closed as it was.
LEMMA SoundSys ==
  ASSUME NEW w, Sound(w), NEW v, Keeps(w, v, {"sys", "timer"}),
         Good(v.sys, w.fd_, w.recv_ctx_), w.recv_ctx_ # NULL \/ Closed(w)
  PROVE  Sound(v)
  <1>1. /\ v.fd_ = w.fd_ /\ v.recv_ctx_ = w.recv_ctx_ /\ v.sent_count_ = w.sent_count_
        /\ v.recv_buf_ = w.recv_buf_ /\ v.undefined = w.undefined
    BY DEF Keeps, ClientFields
  <1> QED
    BY <1>1 DEF Sound, Closed, Keeps
-----------------------------------------------------------------------------
(* The handlers. *)

\* Run deletes the context of the callback when it is marked.
LEMMA AfterGood ==
  ASSUME NEW k, NEW f, NEW r, Good(k, f, r), NEW c \in DOMAIN k.ctx, c = r \/ Free(k, c),
         NEW k1, k1 = AfterCallback(k, c)
  PROVE  Good(k1, f, r)
  <1>1. IsPortSystem(k, CB) /\ OnPort(k)
    BY GoodTypes DEF Good
  <1>2. CASE c = r
    <2>1. k.ctx[c].flags = {}
      BY <1>2 DEF Good, ContextsInv
    <2>2. k1 = k
      BY <1>1, <2>1, PortAfter
    <2> QED
      BY <2>2
  <1>3. CASE Free(k, c) /\ c # r
    <2>1. k1 = k \/ k1 = Port!Delete(k, c)
      BY <1>1, Zenon DEF AfterCallback, Port!AfterCallback
    <2>2. Port!Delete(k, c) = Delete(k, c)
      BY KernelOfPort
    <2>3. CASE k1 = k
      BY <2>3
    <2>4. CASE k1 = Delete(k, c)
      <3>1. /\ IsPortSystem(k1, CB)
            /\ k1.ctx = Without(k.ctx, c)
            /\ k1.ops = k.ops /\ k1.port = k.port /\ k1.socks = k.socks
        BY <1>1, <1>3, <2>4, DeleteType DEF Free
      <3> QED
        BY <1>3, <3>1, DeletesGood
    <2> QED
      BY <2>1, <2>2, <2>3, <2>4
  <1> QED
    BY <1>2, <1>3

WithCallback(k, c, b) == [k EXCEPT !.ctx[c].cb = b]

\* The callback of recv_ctx_ becomes OnRead.
LEMMA NewCallback ==
  ASSUME NEW k, NEW f, NEW r, Good(k, f, r), r # NULL, Free(k, r),
         NEW k1, k1 = WithCallback(k, r, "OnRead")
  PROVE  Good(k1, f, r) /\ Free(k1, r) /\ k1.ctx[r].cb = "OnRead" /\ k1.ctx[r].fd = f
  <1>1. r \in DOMAIN k.ctx /\ IsPortSystem(k, CB) /\ k.ctx[r] \in ContextType(CB)
    BY GoodTypes DEF Good, Free
  <1>2. PICK b \in CB : b = "OnRead"
    BY DEF CB, Callbacks
  <1>3. Updated(k, k1, r, CB) /\ k1.ctx[r] = [k.ctx[r] EXCEPT !.cb = b]
    BY <1>1, <1>2, Set_cb DEF WithCallback
  <1>4. PICK x : x = k.ctx[r]
    BY Zenon
  <1>5. /\ k1.ctx[r].cb = "OnRead" /\ k1.ctx[r].fd = x.fd /\ k1.ctx[r].flags = x.flags
        /\ k1.ctx[r].status = x.status
    BY <1>1, <1>2, <1>3, <1>4 DEF ContextType
  <1>6. /\ IsPortSystem(k1, CB)
        /\ DOMAIN k1.ctx = DOMAIN k.ctx
        /\ \A d \in DOMAIN k.ctx \ {r} : k1.ctx[d] = k.ctx[d]
        /\ k1.ops = k.ops /\ k1.port = k.port /\ k1.socks = k.socks
    BY <1>3 DEF Updated, OnlyCtx
  <1>7. Queued(k1) = Queued(k)
    BY <1>6 DEF Queued
  <1>8. InFlight(k1) /\ Free(k1, r)
    BY <1>6, <1>7 DEF Good, InFlight, Free
  <1>9. ContextsInv(k1, f, r)
    BY <1>4, <1>5, <1>6 DEF Good, ContextsInv, Callbacks
  <1>10. \A op \in k1.ops : OpInv(k1, op, f)
    BY <1>6 DEF Good, OpInv, InFlight, Free
  <1>11. \A j \in DOMAIN k1.port : PacketInv(k1, j)
    <2> SUFFICES ASSUME NEW j \in DOMAIN k.port PROVE PacketInv(k1, j)
      BY <1>6
    <2>1. PacketInv(k, j) /\ k.port[j].ctx \in DOMAIN k.ctx /\ k.port[j].ctx # r
      BY DEF Good, InFlight, Free, Queued
    <2> QED
      BY <1>6, <2>1 DEF PacketInv
  <1>12. k.ctx[r].fd = f
    BY DEF Good, ContextsInv
  <1> QED
    BY <1>4, <1>5, <1>6, <1>8, <1>9, <1>10, <1>11, <1>12 DEF Good

\* StartRead, from a callback that is not of a write.
LEMMA StartReadSound ==
  ASSUME NEW w, Sound(w), NEW c, Free(w.sys, c), w.sys.ctx[c].cb # "OnWritten", NEW v \in StartRead(w)
  PROVE  /\ Sound(v)
         /\ v.recv_ctx_ # NULL \/ Closed(v)
         /\ c \in DOMAIN v.sys.ctx
         /\ c = v.recv_ctx_ \/ Free(v.sys, c)
  <1>1. PICK k : k = w.sys
    BY Zenon
  <1>2. PICK f, r : f = w.fd_ /\ r = w.recv_ctx_
    BY Zenon
  <1>3. Good(k, f, r) /\ c \in DOMAIN k.ctx /\ IsClient(w) /\ IsPortSystem(k, CB)
    BY <1>1, <1>2 DEF Sound, Free, Good
  <1>4. CASE r = NULL
    <2>1. v = [w EXCEPT !.undefined = TRUE]
      BY <1>2, <1>4, Zenon DEF StartRead
    <2>2. Keeps(w, v, {"undefined"})
      <3>1. PICK x : x = TRUE
        BY Zenon
      <3>2. v = [w EXCEPT !.undefined = x]
        BY <2>1, <3>1, Zenon
      <3> QED
        BY <1>3, <3>2, Assign DEF Keeps, ClientFields
    <2>3. /\ v.fd_ = w.fd_ /\ v.recv_ctx_ = w.recv_ctx_ /\ v.sent_count_ = w.sent_count_
          /\ v.recv_buf_ = w.recv_buf_ /\ v.sys = w.sys
      BY <2>2 DEF Keeps, ClientFields
    <2>4. Closed(w)
      BY <1>1, <1>2, <1>3, <1>4 DEF Sound, Unconnected
    <2>5. Closed(v)
      BY <2>3, <2>4 DEF Closed
    <2>6. Sound(v)
      BY <2>2, <2>3, <2>5 DEF Sound, Keeps
    <2> QED
      BY <1>1, <1>3, <2>3, <2>5, <2>6
  <1>5. CASE r # NULL
    <2>1. c = r
      BY <1>1, <1>3, <1>5 DEF Good, ContextsInv
    <2>2. PICK kx : kx = WithCallback(k, r, "OnRead")
      BY Zenon
    <2>3. Good(kx, f, r) /\ Free(kx, r) /\ kx.ctx[r].cb = "OnRead" /\ kx.ctx[r].fd = f
      <3>1. Free(k, r)
        BY <1>1, <2>1, Zenon
      <3> QED
        BY <1>3, <1>5, <2>2, <3>1, NewCallback
    <2>4. PICK k1 \in AsyncRead(kx, r) : v = [w EXCEPT !.sys = k1, !.recv_buf_ = 1]
      BY <1>1, <1>2, <1>5, <2>2, Zenon DEF StartRead, WithCallback
    <2>5. r \in DOMAIN kx.ctx /\ IsPortSystem(kx, CB)
      BY <2>3 DEF Free, Good
    <2>6. PICK kind \in {"read", "write"} : kind = "read"
      OBVIOUS
    <2>7. kind \in {"read", "write", "connect"} /\ (kind = "write" <=> kx.ctx[r].cb = "OnWritten")
      BY <2>3, <2>6
    <2>8. /\ IsPortSystem(k1, CB)
          /\ SameBut(kx, k1, r)
          /\ k1.socks = kx.socks
          /\ \/ k1.ops = kx.ops
             \/ k1.ops = kx.ops \cup {Operation(kx, r, kind, 0)} /\ IsSocket(kx, kx.ctx[r].fd)
      BY <2>4, <2>5, <2>6, PortRead
    <2>9. Good(k1, f, r)
      BY <2>3, <2>7, <2>8, StartsOperation DEF IsSocket
    <2>10. PICK w1 : w1 = [w EXCEPT !.sys = k1]
      BY Zenon
    <2>11. w1.sys = k1 /\ Keeps(w, w1, {"sys"})
      BY <1>3, <2>10, Set_sys
    <2>12. v = [w1 EXCEPT !.recv_buf_ = 1]
      BY <2>4, <2>10, Zenon
    <2>13. v.recv_buf_ = 1 /\ Keeps(w1, v, {"recv_buf_"})
      BY <2>11, <2>12, Assign DEF Keeps, ClientFields
    <2>14. /\ v.fd_ = f /\ v.recv_ctx_ = r /\ v.sent_count_ = w.sent_count_
           /\ v.sys = k1 /\ v.undefined = w.undefined
      BY <1>2, <2>11, <2>13 DEF Keeps, ClientFields
    <2>15. Sound(v)
      BY <1>2, <1>5, <2>9, <2>13, <2>14 DEF Sound, Keeps, Closed
    <2>16. c \in DOMAIN k1.ctx
      BY <2>1, <2>5, <2>8 DEF SameBut
    <2> QED
      BY <1>5, <2>1, <2>14, <2>15, <2>16
  <1> QED
    BY <1>4, <1>5

\* The callback of a write, and the end of Run.
LEMMA OnWrittenSound ==
  ASSUME NEW w, Sound(w), NEW c, Free(w.sys, c), w.sys.ctx[c].cb = "OnWritten",
         NEW u \in OnWritten(w, c), NEW v, v = [u EXCEPT !.sys = AfterCallback(@, c)]
  PROVE  Sound(v)
  <1>1. PICK k : k = w.sys
    BY Zenon
  <1>2. PICK f, r : f = w.fd_ /\ r = w.recv_ctx_
    BY Zenon
  <1>3. /\ Good(k, f, r) /\ IsClient(w) /\ IsPortSystem(k, CB)
        /\ c \in DOMAIN k.ctx /\ Free(k, c) /\ k.ctx[c].cb = "OnWritten"
        /\ \A op \in k.ops : op.ctx # c
    BY <1>1, <1>2 DEF Sound, Free, Good
  <1>4. PICK kd : kd = FreeOverlapCtx(SetLazyDelete(k, c), c)
    BY Zenon
  <1>5. PICK n : n = IF w.sys.ctx[c].status = 0 /\ w.sys.ctx[c].bytes > 0 THEN w.sent_count_ + 1
                     ELSE w.sent_count_
    BY Zenon
  <1>6. n \in Nat /\ n >= w.sent_count_
    BY <1>5 DEF Sound
  <1>7. u = [w EXCEPT !.sys = kd, !.sent_count_ = n]
    BY <1>1, <1>4, <1>5, Zenon DEF OnWritten
  <1>8. PICK w1 : w1 = [w EXCEPT !.sys = kd]
    BY Zenon
  <1>9. w1.sys = kd /\ Keeps(w, w1, {"sys"})
    BY <1>3, <1>8, Set_sys
  <1>10. u = [w1 EXCEPT !.sent_count_ = n]
    BY <1>7, <1>8, Zenon
  <1>11. u.sent_count_ = n /\ Keeps(w1, u, {"sent_count_"})
    BY <1>9, <1>10, Assign DEF Keeps, ClientFields
  <1>12. u.sys = kd /\ IsClient(u)
    BY <1>9, <1>11 DEF Keeps, ClientFields
  <1>13. PICK k1 : k1 = AfterCallback(kd, c)
    BY Zenon
  <1>14. v = [u EXCEPT !.sys = k1]
    BY <1>12, <1>13, Zenon
  <1>15. v.sys = k1 /\ Keeps(u, v, {"sys"})
    BY <1>12, <1>14, Set_sys
  <1>16. /\ v.fd_ = f /\ v.recv_ctx_ = r /\ v.sent_count_ = n /\ v.recv_buf_ = w.recv_buf_
         /\ v.timer = w.timer /\ v.undefined = w.undefined
    BY <1>2, <1>9, <1>11, <1>15 DEF Keeps, ClientFields
  <1>17. /\ IsPortSystem(k1, CB)
         /\ k1.ctx = Without(k.ctx, c)
         /\ k1.ops = Abort(k.ops, k.ctx[c].fd)
         /\ k1.port = k.port /\ k1.socks = k.socks
    BY <1>3, <1>4, <1>13, PortFree
  <1>18. PICK kc : kc = CancelIoEx(k, k.ctx[c].fd)
    BY Zenon
  <1>19. /\ IsPortSystem(kc, CB)
         /\ kc.ops = Abort(k.ops, k.ctx[c].fd)
         /\ kc.ctx = k.ctx /\ kc.port = k.port /\ kc.socks = k.socks
    BY <1>3, <1>18, CancelType
  <1>20. Good(kc, f, r) /\ Free(kc, c)
    <2>1. f \in Int
      BY <1>3 DEF Good
    <2>2. PICK h : h = k.ctx[c].fd
      BY Zenon
    <2>3. kc.ops = Abort(k.ops, h)
      BY <1>19, <2>2
    <2> QED
      BY <1>3, <1>19, <2>1, <2>3, CancelsGood
  <1>21. c # r
    BY <1>3 DEF Good, ContextsInv
  <1>22. Good(k1, f, r)
    BY <1>17, <1>19, <1>20, <1>21, DeletesGood
  <1>23. r = NULL => Closed(w)
    BY <1>1, <1>2, <1>3 DEF Sound, Unconnected
  <1>24. Closed(w) => Closed(v)
    BY <1>2, <1>6, <1>16, ClientAssumption DEF Closed, Sound
  <1> QED
    BY <1>2, <1>6, <1>15, <1>16, <1>22, <1>23, <1>24 DEF Sound, Keeps

\* The callbacks of a connect and of a read that succeeded, and the end of Run.
LEMMA OnReadSound ==
  ASSUME NEW w, Sound(w), NEW c, Free(w.sys, c), w.sys.ctx[c].cb # "OnWritten",
         w.sys.ctx[c].status = 0, NEW u, u \in OnRead(w, c) \/ u \in OnConnect(w, c),
         NEW v, v = [u EXCEPT !.sys = AfterCallback(@, c)]
  PROVE  Sound(v)
  <1>1. PICK s \in StartRead(w) : u = s \/ u = [s EXCEPT !.timer = "set"]
    BY Zenon DEF OnRead, OnConnect, AddTimer
  <1>2. /\ Sound(s)
        /\ s.recv_ctx_ # NULL \/ Closed(s)
        /\ c \in DOMAIN s.sys.ctx
        /\ c = s.recv_ctx_ \/ Free(s.sys, c)
    BY StartReadSound
  <1>3. IsClient(s)
    BY <1>2 DEF Sound
  <1>4. Keeps(s, u, {"timer"})
    <2>1. CASE u = s
      BY <1>3, <2>1 DEF Keeps
    <2>2. CASE u = [s EXCEPT !.timer = "set"]
      BY <1>3, <2>2, Assign DEF Keeps, ClientFields
    <2> QED
      BY <1>1, <2>1, <2>2
  <1>5. PICK k, f, r : k = s.sys /\ f = s.fd_ /\ r = s.recv_ctx_
    BY Zenon
  <1>6. u.sys = k /\ IsClient(u)
    BY <1>4, <1>5 DEF Keeps, ClientFields
  <1>7. PICK k1 : k1 = AfterCallback(k, c)
    BY Zenon
  <1>8. v = [u EXCEPT !.sys = k1]
    BY <1>6, <1>7, Zenon
  <1>9. v.sys = k1 /\ Keeps(u, v, {"sys"})
    BY <1>6, <1>8, Set_sys
  <1>10. Keeps(s, v, {"sys", "timer"})
    BY <1>4, <1>9 DEF Keeps
  <1>11. Good(k1, f, r)
    <2>1. Good(k, f, r) /\ c \in DOMAIN k.ctx /\ (c = r \/ Free(k, c))
      BY <1>2, <1>5 DEF Sound
    <2> QED
      BY <1>7, <2>1, AfterGood
  <1>12. Good(v.sys, s.fd_, s.recv_ctx_)
    BY <1>5, <1>9, <1>11
  <1> QED
    BY <1>2, <1>10, <1>12, SoundSys

\* The client gives its context up.
LEMMA MarksGood ==
  ASSUME NEW k, NEW f, NEW r, Good(k, f, r), NEW k1, IsPortSystem(k1, CB),
         DOMAIN k1.ctx = DOMAIN k.ctx,
         \A d \in DOMAIN k.ctx \ {r} : k1.ctx[d] = k.ctx[d],
         r \in DOMAIN k.ctx, k1.ctx[r].cb = k.ctx[r].cb, k1.ctx[r].status = k.ctx[r].status,
         k1.ops = k.ops, k1.port = k.port, k1.socks = k.socks
  PROVE  Good(k1, f, NULL)
  <1>1. \A d \in DOMAIN k.ctx : k1.ctx[d].cb = k.ctx[d].cb /\ k1.ctx[d].status = k.ctx[d].status
    OBVIOUS
  <1>2. InFlight(k1)
    <2>1. Queued(k1) = Queued(k)
      BY DEF Queued
    <2> QED
      BY <2>1 DEF Good, InFlight
  <1>3. ContextsInv(k1, f, NULL)
    <2>1. NULL \notin DOMAIN k.ctx
      BY GoodTypes
    <2>2. ContextsInv(k, f, r)
      BY DEF Good
    <2>3. \A d \in DOMAIN k1.ctx : k1.ctx[d].cb \in Callbacks
      BY <1>1, <2>2 DEF ContextsInv
    <2>4. \A d \in DOMAIN k1.ctx : k1.ctx[d].cb = "OnWritten" => d # r /\ k1.ctx[d].flags = {}
      BY <1>1, <2>2 DEF ContextsInv
    <2> QED
      BY <2>1, <2>3, <2>4 DEF ContextsInv
  <1>4. \A op \in k1.ops : OpInv(k1, op, f)
    BY <1>1 DEF Good, OpInv, InFlight
  <1>5. \A j \in DOMAIN k1.port : PacketInv(k1, j)
    <2> SUFFICES ASSUME NEW j \in DOMAIN k.port PROVE PacketInv(k1, j)
      OBVIOUS
    <2>1. PacketInv(k, j) /\ k.port[j].ctx \in DOMAIN k.ctx
      BY DEF Good, InFlight, Queued
    <2> QED
      BY <1>1, <2>1 DEF PacketInv
  <1> QED
    BY <1>2, <1>3, <1>4, <1>5 DEF Good

\* The socket is closed and the context is marked.
LEMMA ClosesGood ==
  ASSUME NEW k, NEW f, NEW r, Good(k, f, r), r # NULL,
         NEW k1, k1 = FreeOverlapCtx(SetLazyDelete(closesocket(k, f), r), r)
  PROVE  Good(k1, -1, NULL)
  <1>1. PICK k0 : k0 = closesocket(k, f)
    BY Zenon
  <1>2. IsPortSystem(k, CB) /\ r \in DOMAIN k.ctx /\ k.ctx[r].fd = f
    BY DEF Good, ContextsInv
  <1>3. /\ IsPortSystem(k0, CB)
        /\ k0.ops = Abort(k.ops, f)
        /\ k0.ctx = k.ctx /\ k0.port = k.port
    BY <1>1, <1>2, CloseType
  <1>4. k1 = FreeOverlapCtx(SetLazyDelete(k0, r), r) /\ r \in DOMAIN k0.ctx
    BY <1>1, <1>2, <1>3, Zenon
  <1>5. /\ IsPortSystem(k1, CB)
        /\ DOMAIN k1.ctx = DOMAIN k0.ctx
        /\ \A d \in DOMAIN k0.ctx \ {r} : k1.ctx[d] = k0.ctx[d]
        /\ k1.ctx[r].cb = k0.ctx[r].cb /\ k1.ctx[r].status = k0.ctx[r].status
        /\ k1.ops = Abort(k0.ops, k0.ctx[r].fd)
        /\ k1.port = k0.port
    BY <1>3, <1>4, PortMark
  <1>6. k1.ops = Abort(k.ops, f) /\ k1.port = k.port
    <2>1. k.ops \in SUBSET OperationType
      BY GoodTypes
    <2>2. Abort(Abort(k.ops, f), f) = Abort(k.ops, f)
      BY <2>1, AbortTwice
    <2> QED
      BY <1>2, <1>3, <1>5, <2>2
  <1>7. PICK km : km = System(k1.ctx, k.ops, k.port, k.socks, k.faults)
    BY Zenon
  <1>8. /\ IsPortSystem(km, CB)
        /\ km.ctx = k1.ctx /\ km.ops = k.ops /\ km.port = k.port /\ km.socks = k.socks
    <2>1. /\ DOMAIN k1.ctx \in SUBSET Nat /\ IsFiniteSet(DOMAIN k1.ctx)
          /\ k1.ctx \in [DOMAIN k1.ctx -> ContextType(CB)]
      BY <1>5, SystemElim
    <2>2. /\ DOMAIN k.socks \in SUBSET Nat /\ IsFiniteSet(DOMAIN k.socks)
          /\ k.ops \in SUBSET OperationType /\ k.port \in Packets
          /\ k.socks \in [DOMAIN k.socks -> SocketType] /\ k.faults \in Int
      BY <1>2, SystemElim
    <2>3. IsPortSystem(km, CB)
      BY <1>7, <2>1, <2>2, SystemIntro
    <2> QED
      BY <1>7, <2>3, SystemFields
  <1>9. Good(km, f, NULL)
    <2>1. /\ DOMAIN km.ctx = DOMAIN k.ctx
          /\ \A d \in DOMAIN k.ctx \ {r} : km.ctx[d] = k.ctx[d]
          /\ km.ctx[r].cb = k.ctx[r].cb /\ km.ctx[r].status = k.ctx[r].status
      BY <1>3, <1>5, <1>8
    <2> QED
      BY <1>2, <1>8, <2>1, MarksGood
  <1>10. PICK f1 \in Int : f1 = -1
    OBVIOUS
  <1>11. PICK n : n = NULL
    BY Zenon
  <1>12. Good(k1, f1, n)
    <2>1. k1.ctx = km.ctx /\ k1.port = km.port /\ k1.ops = Abort(km.ops, f)
      BY <1>6, <1>8
    <2>2. Good(km, f, n) /\ n = NULL
      BY <1>9, <1>11
    <2> QED
      BY <1>5, <2>1, <2>2, CancelsGood
  <1> QED
    BY <1>10, <1>11, <1>12

\* Cleanup, when all messages were sent.
LEMMA CleanupSound ==
  ASSUME NEW w, Sound(w), w.recv_ctx_ # NULL \/ Closed(w), w.sent_count_ >= MAX_SEND_COUNT,
         NEW v, v = Cleanup(w)
  PROVE  Sound(v) /\ Closed(v)
  <1>1. PICK k, f, r : k = w.sys /\ f = w.fd_ /\ r = w.recv_ctx_
    BY Zenon
  <1>2. Good(k, f, r) /\ IsClient(w) /\ w.sent_count_ \in Nat
    BY <1>1 DEF Sound
  <1>3. PICK f1 \in Int : f1 = INVALID_SOCKET
    BY DEF INVALID_SOCKET
  <1>4. ASSUME NEW k1, Good(k1, f1, NULL), NEW w2, Keeps(w, w2, {"sys", "fd_", "recv_ctx_"}),
               w2.sys = k1, w2.fd_ = f1, w2.recv_ctx_ = NULL
        PROVE  Sound(w2) /\ Closed(w2)
    <2>1. w2.sent_count_ = w.sent_count_ /\ w2.recv_buf_ = w.recv_buf_ /\ IsClient(w2)
      BY <1>4 DEF Keeps, ClientFields
    <2>2. Closed(w2)
      BY <1>3, <1>4, <2>1 DEF Closed
    <2> QED
      BY <1>4, <2>1, <2>2 DEF Sound
  <1>5. CASE r = NULL
    <2>1. PICK k1 : k1 = closesocket(k, f)
      BY Zenon
    <2>2. PICK a : a = [w EXCEPT !.sys = k1]
      BY Zenon
    <2>3. a.sys = k1 /\ Keeps(w, a, {"sys"})
      BY <1>2, <2>2, Set_sys
    <2>4. v = [a EXCEPT !.fd_ = f1]
      <3>1. v = [w EXCEPT !.sys = closesocket(@, w.fd_), !.fd_ = INVALID_SOCKET]
        BY <1>1, <1>5, Zenon DEF Cleanup
      <3> QED
        BY <1>1, <1>3, <2>1, <2>2, <3>1, Zenon
    <2>5. IsClient(a)
      BY <2>3 DEF Keeps
    <2>6. v.fd_ = f1 /\ Keeps(a, v, {"fd_"})
      BY <2>4, <2>5, Assign DEF Keeps, ClientFields
    <2>7. v.sys = k1 /\ v.recv_ctx_ = NULL /\ Keeps(w, v, {"sys", "fd_", "recv_ctx_"})
      BY <1>1, <1>5, <2>3, <2>6 DEF Keeps, ClientFields
    <2>8. Good(k1, f1, r)
      <3>1. IsPortSystem(k, CB)
        BY <1>2 DEF Good
      <3>2. /\ IsPortSystem(k1, CB)
            /\ k1.ops = Abort(k.ops, f)
            /\ k1.ctx = k.ctx /\ k1.port = k.port
        BY <2>1, <3>1, CloseType
      <3> QED
        BY <1>2, <1>5, <3>2, CancelsGood
    <2>9. Good(k1, f1, NULL)
      BY <1>5, <2>8
    <2> QED
      BY <1>4, <2>6, <2>7, <2>9
  <1>6. CASE r # NULL
    <2>1. PICK k1 : k1 = FreeOverlapCtx(SetLazyDelete(closesocket(k, f), r), r)
      BY Zenon
    <2>2. Good(k1, -1, NULL)
      BY <1>2, <1>6, <2>1, ClosesGood
    <2>3. Good(k1, f1, NULL)
      BY <1>3, <2>2 DEF INVALID_SOCKET
    <2>4. PICK a : a = [w EXCEPT !.sys = closesocket(k, f)]
      BY Zenon
    <2>5. a.sys = closesocket(k, f) /\ Keeps(w, a, {"sys"}) /\ IsClient(a)
      BY <1>2, <2>4, Set_sys DEF Keeps
    <2>6. PICK b : b = [a EXCEPT !.fd_ = f1]
      BY Zenon
    <2>7. b.fd_ = f1 /\ Keeps(a, b, {"fd_"}) /\ IsClient(b)
      BY <2>5, <2>6, Assign DEF Keeps, ClientFields
    <2>8. b.sys = closesocket(k, f)
      BY <2>5, <2>7 DEF Keeps, ClientFields
    <2>9. PICK d : d = [b EXCEPT !.sys = k1]
      BY Zenon
    <2>10. d.sys = k1 /\ Keeps(b, d, {"sys"}) /\ IsClient(d)
      BY <2>7, <2>9, Set_sys DEF Keeps
    <2>11. v = [d EXCEPT !.recv_ctx_ = NULL]
      <3>1. b = [w EXCEPT !.sys = closesocket(@, w.fd_), !.fd_ = INVALID_SOCKET]
        BY <1>1, <1>3, <2>4, <2>6, Zenon
      <3>2. v = [b EXCEPT !.sys = FreeOverlapCtx(SetLazyDelete(@, w.recv_ctx_), w.recv_ctx_),
                          !.recv_ctx_ = NULL]
        BY <1>1, <1>6, <3>1, Zenon DEF Cleanup
      <3> QED
        BY <1>1, <2>1, <2>8, <2>9, <3>2, Zenon
    <2>12. v.recv_ctx_ = NULL /\ Keeps(d, v, {"recv_ctx_"})
      BY <2>10, <2>11, Assign DEF Keeps, ClientFields
    <2>13. v.sys = k1 /\ v.fd_ = f1 /\ Keeps(w, v, {"sys", "fd_", "recv_ctx_"})
      BY <2>5, <2>7, <2>10, <2>12 DEF Keeps, ClientFields
    <2> QED
      BY <1>4, <2>3, <2>12, <2>13
  <1> QED
    BY <1>5, <1>6

\* Write: a new context for the client's socket and its operation.
LEMMA WriteSound ==
  ASSUME NEW w, Sound(w), w.recv_ctx_ # NULL, NEW v \in Write(w)
  PROVE  Keeps(w, v, {"sys"}) /\ Good(v.sys, w.fd_, w.recv_ctx_)
  <1>1. PICK k, f, r : k = w.sys /\ f = w.fd_ /\ r = w.recv_ctx_
    BY Zenon
  <1>2. /\ Good(k, f, r) /\ IsClient(w) /\ IsPortSystem(k, CB)
        /\ f \in Int /\ f \in DOMAIN k.socks
    BY <1>1 DEF Sound, Good, ContextsInv
  <1>3. PICK len \in Int : len = w.recv_buf_
    BY DEF Sound
  <1>4. PICK a \in AllocOverlapCtx(k, f, {}) :
          \E k1 \in IF a.ctx = NULL THEN {a.sys}
                    ELSE AsyncWrite([a.sys EXCEPT !.ctx[a.ctx].len = len,
                                                  !.ctx[a.ctx].cb = "OnWritten"], a.ctx) :
            v = [w EXCEPT !.sys = k1]
    <2>1. PICK k1 \in UNION {IF a.ctx = NULL THEN {a.sys}
                             ELSE AsyncWrite([a.sys EXCEPT !.ctx[a.ctx].len = w.recv_buf_,
                                                           !.ctx[a.ctx].cb = "OnWritten"], a.ctx)
                             : a \in AllocOverlapCtx(w.sys, w.fd_, {})} :
            v = [w EXCEPT !.sys = k1]
      BY Zenon DEF Write
    <2>2. PICK a \in AllocOverlapCtx(w.sys, w.fd_, {}) :
            k1 \in IF a.ctx = NULL THEN {a.sys}
                   ELSE AsyncWrite([a.sys EXCEPT !.ctx[a.ctx].len = w.recv_buf_,
                                                 !.ctx[a.ctx].cb = "OnWritten"], a.ctx)
      BY Zenon
    <2> QED
      BY <1>1, <1>3, <2>1, <2>2, Zenon
  <1>5. a.ctx # NULL
    <2>1. ~HasFlag({}, FLAG_ASSOCIATE)
      BY DEF HasFlag
    <2>2. \/ a.ctx \in Nat \ DOMAIN k.ctx
          \/ HasFlag({}, FLAG_ASSOCIATE)
      BY <1>2, PortAlloc
    <2> QED
      BY <2>1, <2>2, GoodTypes, KernelAssumption
  <1>6. a.ctx \in Nat \ DOMAIN k.ctx /\ a.sys = Alloc(k, a.ctx, f)
    BY <1>2, <1>5, PortAllocNew
  <1>7. PICK c \in Nat \ DOMAIN k.ctx : c = a.ctx
    BY <1>6, Zenon
  <1>8. PICK ka : ka = Alloc(k, c, f)
    BY Zenon
  <1>9. PICK kx : kx = [ka EXCEPT !.ctx[c].len = len]
    BY Zenon
  <1>10. PICK b \in CB : b = "OnWritten"
    BY DEF CB, Callbacks
  <1>11. PICK kb : kb = [kx EXCEPT !.ctx[c].cb = b]
    BY Zenon
  <1>12. PICK k1 \in AsyncWrite(kb, c) : v = [w EXCEPT !.sys = k1]
    <2>1. kb = [a.sys EXCEPT !.ctx[a.ctx].len = len, !.ctx[a.ctx].cb = "OnWritten"]
      BY <1>6, <1>7, <1>8, <1>9, <1>10, <1>11, Zenon
    <2> QED
      BY <1>4, <1>5, <1>7, <2>1, Zenon
  <1>13. IsPortSystem(kb, CB) /\ Adds(k, kb, c, f, b)
    <2>1. NULL \in CB
      BY DEF CB
    <2> QED
      BY <1>2, <1>8, <1>9, <1>11, <2>1, AllocCb
  <1>14. Free(kb, c) /\ Good(kb, f, r)
    BY <1>2, <1>10, <1>13, NewContextGood
  <1>15. /\ kb.ctx[c].fd = f /\ kb.ctx[c].cb = "OnWritten" /\ kb.socks = k.socks
         /\ c \in DOMAIN kb.ctx
    BY <1>10, <1>13 DEF Adds
  <1>16. PICK kind \in {"read", "write"} : kind = "write"
    OBVIOUS
  <1>17. /\ IsPortSystem(k1, CB)
         /\ SameBut(kb, k1, c)
         /\ k1.socks = kb.socks
         /\ \/ k1.ops = kb.ops
            \/ k1.ops = kb.ops \cup {Operation(kb, c, kind, 0)} /\ IsSocket(kb, kb.ctx[c].fd)
    BY <1>12, <1>13, <1>15, <1>16, PortRead
  <1>18. kind \in {"read", "write", "connect"} /\ (kind = "write" <=> kb.ctx[c].cb = "OnWritten")
    BY <1>15, <1>16
  <1>19. \/ k1.ops = kb.ops
         \/ /\ k1.ops = kb.ops \cup {Operation(kb, c, kind, 0)}
            /\ kb.ctx[c].fd = f /\ f \in DOMAIN kb.socks
    BY <1>2, <1>15, <1>17
  <1>20. Good(k1, f, r)
    BY <1>14, <1>17, <1>18, <1>19, StartsOperation
  <1>21. v.sys = k1 /\ Keeps(w, v, {"sys"})
    BY <1>2, <1>12, Set_sys
  <1> QED
    BY <1>1, <1>20, <1>21

\* OnTimeout, of a timer that Connect or OnConnect has set.
LEMMA OnTimeoutSound ==
  ASSUME NEW w, Sound(w), w.timer # "off", NEW v \in OnTimeout(w)
  PROVE  Sound(v)
  <1>1. PICK u : /\ v = [u EXCEPT !.timer = "set"]
                 /\ u \in IF w.sent_count_ >= MAX_SEND_COUNT THEN {Cleanup(w)}
                          ELSE IF w.recv_buf_ > 0 THEN Write(w) ELSE {w}
    BY Zenon DEF OnTimeout, AddTimer
  <1>2. w.recv_ctx_ # NULL \/ Closed(w)
    BY DEF Sound, Unconnected
  <1>3. ASSUME Sound(u), u.recv_ctx_ # NULL \/ Closed(u)
        PROVE  Sound(v)
    <2>1. IsClient(u)
      BY <1>3 DEF Sound
    <2>2. Keeps(u, v, {"timer"})
      BY <1>1, <2>1, Assign DEF Keeps, ClientFields
    <2>3. Keeps(u, v, {"sys", "timer"}) /\ v.sys = u.sys
      BY <2>2 DEF Keeps, ClientFields
    <2>4. Good(v.sys, u.fd_, u.recv_ctx_)
      BY <1>3, <2>3 DEF Sound
    <2> QED
      BY <1>3, <2>3, <2>4, SoundSys
  <1>4. CASE w.sent_count_ >= MAX_SEND_COUNT
    <2>1. Sound(u) /\ Closed(u)
      BY <1>1, <1>2, <1>4, CleanupSound
    <2> QED
      BY <1>3, <2>1
  <1>5. CASE ~(w.sent_count_ >= MAX_SEND_COUNT)
    <2>1. w.recv_ctx_ # NULL
      BY <1>2, <1>5 DEF Closed
    <2>2. CASE u \in Write(w)
      <3>1. Keeps(w, u, {"sys"}) /\ Good(u.sys, w.fd_, w.recv_ctx_)
        BY <2>1, <2>2, WriteSound
      <3>2. Keeps(w, u, {"sys", "timer"}) /\ u.recv_ctx_ = w.recv_ctx_
        BY <3>1 DEF Keeps, ClientFields
      <3>3. Sound(u)
        BY <2>1, <3>1, <3>2, SoundSys
      <3> QED
        BY <1>3, <2>1, <3>2, <3>3
    <2>3. CASE u = w
      BY <1>2, <1>3, <2>3
    <2> QED
      BY <1>1, <1>5, <2>2, <2>3
  <1> QED
    BY <1>4, <1>5
-----------------------------------------------------------------------------
(* Connect. *)

\* A system without contexts has nothing on its way.
LEMMA NothingGood ==
  ASSUME NEW k, IsPortSystem(k, CB), DOMAIN k.ctx = {}, k.ops = {}, DOMAIN k.port = {}, NEW f \in Int
  PROVE  Good(k, f, NULL)
  <1>1. InFlight(k)
    BY DEF InFlight, Queued
  <1> QED
    BY <1>1 DEF Good, ContextsInv

\* A client that has not connected.
LEMMA UnconnectedSound ==
  ASSUME NEW w, Sound(w), Unconnected(w), NEW v, Keeps(w, v, {"sys", "fd_"}), v.fd_ \in Int,
         IsPortSystem(v.sys, CB), DOMAIN v.sys.ctx = {}, v.sys.ops = {}, DOMAIN v.sys.port = {}
  PROVE  Sound(v) /\ Unconnected(v)
  <1>1. /\ v.recv_ctx_ = NULL /\ v.timer = "off" /\ ~v.undefined /\ IsClient(v)
        /\ v.sent_count_ = w.sent_count_ /\ v.recv_buf_ = w.recv_buf_
    BY DEF Keeps, ClientFields, Unconnected
  <1>2. Good(v.sys, v.fd_, NULL)
    BY NothingGood
  <1> QED
    BY <1>1, <1>2 DEF Sound, Unconnected

\* The system then.
LEMMA UnconnectedSystem ==
  ASSUME NEW w, Sound(w), Unconnected(w), NEW k, k = w.sys
  PROVE  /\ IsPortSystem(k, CB) /\ DOMAIN k.ctx = {} /\ k.ops = {} /\ DOMAIN k.port = {}
         /\ IsClient(w) /\ w.fd_ \in Int
  <1>1. /\ IsPortSystem(k, CB) /\ DOMAIN k.ctx = {} /\ InFlight(k)
        /\ IsClient(w) /\ w.fd_ \in Int
    BY DEF Sound, Unconnected, Good
  <1>2. k.ops = {} /\ Queued(k) = {}
    BY <1>1 DEF InFlight
  <1>3. DOMAIN k.port = {}
    BY <1>2 DEF Queued
  <1> QED
    BY <1>1, <1>2, <1>3

\* A context for the socket of a connect.
LEMMA ConnectContext ==
  ASSUME NEW k, IsPortSystem(k, CB), NEW fd \in Int, NEW c \in Nat \ DOMAIN k.ctx,
         NEW ka, ka = Alloc(k, c, fd), NEW kb, kb = [ka EXCEPT !.ctx[c].cb = "OnConnect"]
  PROVE  IsPortSystem(kb, CB) /\ Adds(k, kb, c, fd, "OnConnect")
  <1>1. PICK b \in CB : b = "OnConnect"
    BY DEF CB, Callbacks
  <1>2. PICK k0 : k0 = ka
    BY Zenon
  <1>3. PICK kx : kx = k0
    BY Zenon
  <1>4. PICK k1 : k1 = kb
    BY Zenon
  <1>5. k0 = Alloc(k, c, fd)
    BY <1>2
  <1>6. k1 = [kx EXCEPT !.ctx[c].cb = b]
    BY <1>1, <1>2, <1>3, <1>4, Zenon
  <1>7. PICK len \in Int : len = 0
    OBVIOUS
  <1>8. NULL \in CB /\ (kx = k0 \/ kx = [k0 EXCEPT !.ctx[c].len = len])
    BY <1>3 DEF CB
  <1>9. IsPortSystem(k1, CB) /\ Adds(k, k1, c, fd, b)
    BY <1>5, <1>6, <1>8, AllocCb
  <1> QED
    BY <1>1, <1>4, <1>9

\* A connect on the first context.
LEMMA ConnectsGood ==
  ASSUME NEW k, NEW fd \in DOMAIN k.socks, NEW n, Good(k, fd, n), DOMAIN k.ctx = {}, DOMAIN k.port = {},
         NEW c \in Nat \ DOMAIN k.ctx, NEW kb, IsPortSystem(kb, CB), Adds(k, kb, c, fd, "OnConnect"),
         NEW x \in AsyncConnect(kb, c)
  PROVE  /\ Good(x.sys, fd, c)
         /\ x.ok \/ x.sys.ops = {}
         /\ DOMAIN x.sys.ctx = {c} /\ x.sys.ctx[c].flags = {} /\ DOMAIN x.sys.port = {}
  <1>1. Free(kb, c) /\ Good(kb, fd, c)
    BY NewContextGood
  <1>2. k.ops = {}
    BY DEF Good, InFlight
  <1>3. /\ DOMAIN kb.ctx = {c} /\ kb.ctx[c].fd = fd /\ kb.ctx[c].flags = {}
        /\ kb.ctx[c].cb = "OnConnect" /\ kb.ops = {} /\ DOMAIN kb.port = {}
        /\ fd \in DOMAIN kb.socks
    BY <1>2 DEF Adds
  <1>4. /\ IsPortSystem(x.sys, CB)
        /\ SameBut(kb, x.sys, c)
        /\ x.sys.socks = kb.socks
        /\ x.ok => x.sys.ops = kb.ops \cup {Operation(kb, c, "connect", 0)}
        /\ ~x.ok => x.sys.ops = kb.ops
    BY <1>3, PortConnect
  <1>5. PICK kind \in {"read", "write", "connect"} : kind = "connect"
    OBVIOUS
  <1>6. PICK k1 : k1 = x.sys
    BY Zenon
  <1>7. IsPortSystem(k1, CB) /\ SameBut(kb, k1, c) /\ k1.socks = kb.socks
    BY <1>4, <1>6
  <1>8. \/ k1.ops = kb.ops
        \/ /\ k1.ops = kb.ops \cup {Operation(kb, c, kind, 0)}
           /\ kb.ctx[c].fd = fd /\ fd \in DOMAIN kb.socks
    BY <1>3, <1>4, <1>5, <1>6
  <1>9. kind = "write" <=> kb.ctx[c].cb = "OnWritten"
    BY <1>3, <1>5
  <1>10. Good(k1, fd, c)
    BY <1>1, <1>7, <1>8, <1>9, StartsOperation
  <1>11. DOMAIN x.sys.port = {} /\ DOMAIN x.sys.ctx = {c} /\ x.sys.ctx[c].flags = {}
    BY <1>3, <1>4 DEF SameBut
  <1>12. x.ok \/ x.sys.ops = {}
    BY <1>3, <1>4
  <1> QED
    BY <1>6, <1>10, <1>11, <1>12

\* What a round of Connect leaves with the context of a, or without one.
Tried(w, fd, a) ==
  IF a.ctx = NULL THEN {[w |-> [w EXCEPT !.sys = a.sys], done |-> FALSE]}
  ELSE {IF x.ok THEN [w |-> [[w EXCEPT !.sys = x.sys, !.fd_ = fd] EXCEPT !.recv_ctx_ = a.ctx],
                      done |-> TRUE]
        ELSE [w |-> [w EXCEPT !.sys = FreeOverlapCtx(x.sys, a.ctx), !.fd_ = fd],
              done |-> FALSE]
        : x \in AsyncConnect([a.sys EXCEPT !.ctx[a.ctx].cb = "OnConnect"], a.ctx)}

\* An address: the client is connecting, or unconnected still.
LEMMA TrySound ==
  ASSUME NEW w, Sound(w), Unconnected(w), NEW r \in TryAddress(w)
  PROVE  Sound(r.w) /\ (r.done \/ Unconnected(r.w))
  <1>1. PICK k : k = w.sys
    BY Zenon
  <1>2. /\ IsPortSystem(k, CB) /\ DOMAIN k.ctx = {} /\ k.ops = {} /\ DOMAIN k.port = {}
        /\ IsClient(w) /\ w.fd_ \in Int
    BY <1>1, UnconnectedSystem
  <1>3. PICK fd : fd = FreshHandle(k)
    BY Zenon
  <1>4. \/ \E k1 \in Faulty(k) : r = [w |-> [w EXCEPT !.sys = k1], done |-> FALSE]
        \/ \E a \in AllocOverlapCtx(Socket(k, "idle"), fd, FLAG_ASSOCIATE) :
             \/ a.ctx = NULL /\ r = [w |-> [w EXCEPT !.sys = a.sys], done |-> FALSE]
             \/ /\ a.ctx # NULL
                /\ \E x \in AsyncConnect([a.sys EXCEPT !.ctx[a.ctx].cb = "OnConnect"], a.ctx) :
                     r = IF x.ok THEN [w |-> [[w EXCEPT !.sys = x.sys, !.fd_ = fd] EXCEPT !.recv_ctx_ = a.ctx],
                                       done |-> TRUE]
                         ELSE [w |-> [w EXCEPT !.sys = FreeOverlapCtx(x.sys, a.ctx), !.fd_ = fd],
                               done |-> FALSE]
    <2>1. TryAddress(w) = {[w |-> [w EXCEPT !.sys = k1], done |-> FALSE] : k1 \in Faulty(k)}
            \cup UNION {Tried(w, fd, a) : a \in AllocOverlapCtx(Socket(k, "idle"), fd, FLAG_ASSOCIATE)}
      <3>1. TryAddress(w) =
              {[w |-> [w EXCEPT !.sys = k1], done |-> FALSE] : k1 \in Faulty(w.sys)}
              \cup UNION {Tried(w, FreshHandle(w.sys), a) :
                            a \in AllocOverlapCtx(Socket(w.sys, "idle"), FreshHandle(w.sys), FLAG_ASSOCIATE)}
        BY Zenon DEF TryAddress, Tried
      <3> QED
        BY <1>1, <1>3, <3>1, Zenon
    <2>2. CASE r \in {[w |-> [w EXCEPT !.sys = k1], done |-> FALSE] : k1 \in Faulty(k)}
      BY <2>2, Zenon
    <2>3. ASSUME NEW a \in AllocOverlapCtx(Socket(k, "idle"), fd, FLAG_ASSOCIATE), r \in Tried(w, fd, a)
          PROVE  \/ a.ctx = NULL /\ r = [w |-> [w EXCEPT !.sys = a.sys], done |-> FALSE]
                 \/ /\ a.ctx # NULL
                    /\ \E x \in AsyncConnect([a.sys EXCEPT !.ctx[a.ctx].cb = "OnConnect"], a.ctx) :
                         r = IF x.ok THEN [w |-> [[w EXCEPT !.sys = x.sys, !.fd_ = fd] EXCEPT !.recv_ctx_ = a.ctx],
                                           done |-> TRUE]
                             ELSE [w |-> [w EXCEPT !.sys = FreeOverlapCtx(x.sys, a.ctx), !.fd_ = fd],
                                   done |-> FALSE]
      BY <2>3, Zenon DEF Tried
    <2> QED
      BY <2>1, <2>2, <2>3, Zenon
  <1>5. PICK v, done : v = r.w /\ done = r.done
    BY Zenon
  <1>6. ASSUME NEW k1, IsPortSystem(k1, CB), k1.ctx = k.ctx, k1.ops = k.ops, k1.port = k.port,
               v = [w EXCEPT !.sys = k1]
        PROVE  Sound(v) /\ Unconnected(v)
    <2>1. v.sys = k1 /\ Keeps(w, v, {"sys"})
      BY <1>2, <1>6, Set_sys
    <2>2. Keeps(w, v, {"sys", "fd_"}) /\ v.fd_ = w.fd_
      BY <2>1 DEF Keeps, ClientFields
    <2>3. DOMAIN v.sys.ctx = {} /\ v.sys.ops = {} /\ DOMAIN v.sys.port = {} /\ v.fd_ \in Int
      BY <1>2, <1>6, <2>1, <2>2 DEF Queued
    <2> QED
      BY <1>6, <2>1, <2>2, <2>3, UnconnectedSound
  <1>7. ASSUME NEW k1 \in Faulty(k), r = [w |-> [w EXCEPT !.sys = k1], done |-> FALSE]
        PROVE  Sound(v) /\ Unconnected(v)
    <2>1. k1 = [k EXCEPT !.faults = @ - 1]
      BY <1>7 DEF Faulty, When
    <2>2. IsPortSystem(k1, CB) /\ k1.ctx = k.ctx /\ k1.ops = k.ops /\ k1.port = k.port
      BY <1>2, <2>1, FaultyType
    <2>3. v = [w EXCEPT !.sys = k1]
      BY <1>5, <1>7
    <2> QED
      BY <1>6, <2>2, <2>3
  <1>8. ASSUME NEW a \in AllocOverlapCtx(Socket(k, "idle"), fd, FLAG_ASSOCIATE), a.ctx = NULL,
               r = [w |-> [w EXCEPT !.sys = a.sys], done |-> FALSE]
        PROVE  Sound(v) /\ Unconnected(v)
    <2>1. PICK ks : ks = Socket(k, "idle")
      BY Zenon
    <2>2. IsPortSystem(ks, CB) /\ ks.ctx = k.ctx /\ ks.ops = k.ops /\ ks.port = k.port
      BY <1>2, <2>1, NewSocketType
    <2>3. PICK k1 : k1 = a.sys
      BY Zenon
    <2>4. IsPortSystem(a.sys, CB) /\ a.sys.ctx = ks.ctx /\ a.sys.ops = ks.ops /\ a.sys.port = ks.port
      BY <1>8, <2>1, <2>2, PortAllocNone
    <2>5. v = [w EXCEPT !.sys = k1]
      BY <1>5, <1>8, <2>3
    <2>6. IsPortSystem(k1, CB) /\ k1.ctx = k.ctx /\ k1.ops = k.ops /\ k1.port = k.port
      BY <2>2, <2>3, <2>4
    <2> QED
      BY <1>6, <2>5, <2>6
  <1>9. ASSUME NEW a \in AllocOverlapCtx(Socket(k, "idle"), fd, FLAG_ASSOCIATE), a.ctx # NULL,
               NEW x \in AsyncConnect([a.sys EXCEPT !.ctx[a.ctx].cb = "OnConnect"], a.ctx),
               r = IF x.ok THEN [w |-> [[w EXCEPT !.sys = x.sys, !.fd_ = fd] EXCEPT !.recv_ctx_ = a.ctx],
                                 done |-> TRUE]
                   ELSE [w |-> [w EXCEPT !.sys = FreeOverlapCtx(x.sys, a.ctx), !.fd_ = fd],
                         done |-> FALSE]
        PROVE  Sound(v) /\ (done \/ Unconnected(v))
    <2>1. PICK c : c = a.ctx
      BY Zenon
    <2>2. PICK kb : kb = [a.sys EXCEPT !.ctx[c].cb = "OnConnect"]
      BY Zenon
    <2>3. x \in AsyncConnect(kb, c)
      BY <1>9, <2>1, <2>2, Zenon
    <2>4. /\ fd \in Int
          /\ Good(x.sys, fd, c)
          /\ x.ok \/ x.sys.ops = {}
          /\ DOMAIN x.sys.ctx = {c} /\ x.sys.ctx[c].flags = {}
          /\ DOMAIN x.sys.port = {}
      <3>1. PICK ks : ks = Socket(k, "idle")
        BY Zenon
      <3>2. /\ IsPortSystem(ks, CB)
            /\ fd \in DOMAIN ks.socks /\ fd \in Int
            /\ ks.ctx = k.ctx /\ ks.ops = k.ops /\ ks.port = k.port
        <4>1. /\ IsPortSystem(ks, CB)
              /\ FreshHandle(k) \in Nat
              /\ ks.socks = With(k.socks, FreshHandle(k), NewSocket("idle"))
              /\ ks.ctx = k.ctx /\ ks.ops = k.ops /\ ks.port = k.port
          BY <1>2, <3>1, NewSocketType
        <4>2. fd \in DOMAIN With(k.socks, fd, NewSocket("idle"))
          BY DEF With
        <4> QED
          BY <1>3, <4>1, <4>2
      <3>3. DOMAIN ks.ctx = {} /\ ks.ops = {} /\ DOMAIN ks.port = {}
        BY <1>2, <3>2
      <3>4. PICK n : n = NULL
        BY Zenon
      <3>5. Good(ks, fd, n)
        BY <3>2, <3>3, <3>4, NothingGood
      <3>6. a.ctx \in Nat \ DOMAIN ks.ctx /\ a.sys = Alloc(ks, a.ctx, fd)
        BY <1>9, <3>1, <3>2, PortAllocNew
      <3>7. PICK ka : ka = Alloc(ks, c, fd)
        BY Zenon
      <3>8. c \in Nat \ DOMAIN ks.ctx /\ kb = [ka EXCEPT !.ctx[c].cb = "OnConnect"]
        BY <2>1, <2>2, <3>6, <3>7, Zenon
      <3>9. IsPortSystem(kb, CB) /\ Adds(ks, kb, c, fd, "OnConnect")
        BY <3>2, <3>7, <3>8, ConnectContext
      <3>10. Good(x.sys, fd, c) /\ (x.ok \/ x.sys.ops = {})
               /\ DOMAIN x.sys.ctx = {c} /\ x.sys.ctx[c].flags = {} /\ DOMAIN x.sys.port = {}
        BY <2>3, <3>2, <3>3, <3>5, <3>8, <3>9, ConnectsGood
      <3> QED
        BY <3>2, <3>10
    <2>5. ASSUME x.ok
          PROVE  Sound(v) /\ done
      <3>1. PICK k1 : k1 = x.sys
        BY Zenon
      <3>2. PICK p : p = [w EXCEPT !.sys = k1]
        BY Zenon
      <3>3. p.sys = k1 /\ Keeps(w, p, {"sys"}) /\ IsClient(p)
        BY <1>2, <3>2, Set_sys DEF Keeps
      <3>4. PICK q : q = [p EXCEPT !.fd_ = fd]
        BY Zenon
      <3>5. q.fd_ = fd /\ Keeps(p, q, {"fd_"}) /\ IsClient(q)
        BY <3>3, <3>4, Assign DEF Keeps, ClientFields
      <3>6. r = [w |-> [q EXCEPT !.recv_ctx_ = c], done |-> TRUE]
        BY <1>9, <2>1, <2>5, <3>1, <3>2, <3>4, Zenon
      <3>7. v = [q EXCEPT !.recv_ctx_ = c] /\ done
        BY <1>5, <3>6
      <3>8. v.recv_ctx_ = c /\ Keeps(q, v, {"recv_ctx_"})
        <4>1. IsClient(q) /\ v = [q EXCEPT !.recv_ctx_ = c] /\ "recv_ctx_" \in ClientFields
          BY <3>5, <3>7 DEF ClientFields
        <4>2. IsClient(v) /\ v.recv_ctx_ = c /\ \A g \in ClientFields \ {"recv_ctx_"} : v[g] = q[g]
          BY <4>1, Assign
        <4> QED
          BY <4>2 DEF Keeps
      <3>9. /\ v.sys = k1 /\ v.fd_ = fd /\ v.sent_count_ = w.sent_count_ /\ v.recv_buf_ = w.recv_buf_
            /\ v.undefined = w.undefined /\ IsClient(v)
        BY <3>3, <3>5, <3>8 DEF Keeps, ClientFields
      <3>10. Good(v.sys, v.fd_, v.recv_ctx_)
        BY <2>4, <3>1, <3>8, <3>9
      <3>11. c # NULL
        BY <1>9, <2>1
      <3> QED
        BY <3>7, <3>8, <3>9, <3>10, <3>11 DEF Sound, Unconnected
    <2>6. ASSUME ~x.ok
          PROVE  Sound(v) /\ Unconnected(v)
      <3>1. PICK kf : kf = FreeOverlapCtx(x.sys, c)
        BY Zenon
      <3>2. /\ IsPortSystem(kf, CB)
            /\ kf.ctx = Without(x.sys.ctx, c)
            /\ kf.ops = x.sys.ops /\ kf.port = x.sys.port
        <4>1. IsPortSystem(x.sys, CB) /\ c \in DOMAIN x.sys.ctx /\ \A op \in x.sys.ops : op.ctx # c
          BY <2>4, <2>6 DEF Good
        <4> QED
          BY <2>4, <3>1, <4>1, PortFreeUnmarked
      <3>3. DOMAIN kf.ctx = {} /\ kf.ops = {} /\ DOMAIN kf.port = {}
        BY <2>4, <2>6, <3>2 DEF Without, Queued
      <3>4. PICK p : p = [w EXCEPT !.sys = kf]
        BY Zenon
      <3>5. p.sys = kf /\ Keeps(w, p, {"sys"}) /\ IsClient(p)
        BY <1>2, <3>4, Set_sys DEF Keeps
      <3>6. r = [w |-> [p EXCEPT !.fd_ = fd], done |-> FALSE]
        BY <1>9, <2>1, <2>6, <3>1, <3>4, Zenon
      <3>7. v = [p EXCEPT !.fd_ = fd]
        BY <1>5, <3>6
      <3>8. v.fd_ = fd /\ Keeps(p, v, {"fd_"})
        BY <3>5, <3>7, Assign DEF Keeps, ClientFields
      <3>9. v.sys = kf /\ Keeps(w, v, {"sys", "fd_"})
        BY <3>5, <3>8 DEF Keeps, ClientFields
      <3> QED
        BY <2>4, <3>2, <3>3, <3>8, <3>9, UnconnectedSound
    <2> QED
      BY <2>5, <2>6
  <1> QED
    BY <1>4, <1>5, <1>7, <1>8, <1>9

\* What Connect has reached after n addresses.
RoundNext(w, n, g) == IF n = 0 THEN {[w |-> w, done |-> FALSE]}
                      ELSE UNION {IF r.done THEN {r} ELSE TryAddress(r.w) : r \in g[n - 1]}

\* There is a function that RoundNext defines, up to any number.
LEMMA RoundsExist == ASSUME NEW w, NEW N \in Nat
                     PROVE  \E g : g = [n \in 0 .. N |-> RoundNext(w, n, g)]
  <1> DEFINE Def(m, g) == g = [n \in 0 .. m |-> RoundNext(w, n, g)]
             G == {m \in Nat : \E g : Def(m, g)}
  <1>1. 0 \in G
    <2> DEFINE g == [n \in 0 .. 0 |-> {[w |-> w, done |-> FALSE]}]
    <2>1. Def(0, g)
      BY DEF RoundNext
    <2> QED
      BY <2>1
  <1>2. ASSUME NEW m \in 0 .. N - 1, m \in G PROVE m + 1 \in G
    <2>1. m \in Nat /\ m + 1 \in Nat /\ m + 1 # 0 /\ (m + 1) - 1 = m
      OBVIOUS
    <2>2. PICK g : Def(m, g)
      BY <1>2
    <2> DEFINE h == [n \in 0 .. m + 1 |-> IF n = m + 1 THEN RoundNext(w, m + 1, g) ELSE g[n]]
    <2>3. \A n \in 0 .. m : g[n] = RoundNext(w, n, g) /\ h[n] = g[n]
      <3>1. \A n \in 0 .. m : g[n] = RoundNext(w, n, g)
        BY <2>2, Zenon
      <3>2. \A n \in 0 .. m : h[n] = g[n]
        BY <2>1
      <3> QED
        BY <3>1, <3>2
    <2>4. \A n \in 0 .. m + 1 : h[n] = RoundNext(w, n, h)
      <3> SUFFICES ASSUME NEW n \in 0 .. m + 1 PROVE h[n] = RoundNext(w, n, h)
        OBVIOUS
      <3>1. n # 0 => n - 1 \in 0 .. m
        BY <2>1
      <3>2. n # 0 => h[n - 1] = g[n - 1]
        BY <3>1, <2>3
      <3>3. RoundNext(w, n, h) = RoundNext(w, n, g)
        BY <3>2 DEF RoundNext
      <3>4. CASE n = m + 1
        BY <3>3, <3>4
      <3>5. CASE n # m + 1
        <4>1. n \in 0 .. m
          BY <3>5, <2>1
        <4> QED
          BY <4>1, <3>3, <2>3
      <3> QED
        BY <3>4, <3>5
    <2>5. Def(m + 1, h)
      BY <2>4
    <2> QED
      BY <2>1, <2>5
  <1>3. N \in G
    <2>1. N \in 0 .. N
      OBVIOUS
    <2>2. \A m \in 0 .. N - 1 : m \in G => m + 1 \in G
      BY <1>2
    <2> HIDE DEF G
    <2> QED
      BY <1>1, <2>1, <2>2, UpTo
  <1> QED
    BY <1>3

\* Connect: the client is connecting, or unconnected still.
LEMMA ConnectSound ==
  ASSUME NEW w, Sound(w), Unconnected(w), NEW v \in Connect(w)
  PROVE  Sound(v)
  <1> DEFINE A == CHOOSE g : g = [n \in 0 .. Addresses |-> RoundNext(w, n, g)]
  <1>1. Addresses \in Nat
    BY ClientAssumption
  <1>2. PICK r \in A[Addresses] : v = r.w
    BY Zenon DEF Connect, RoundNext
  <1>3. A = [n \in 0 .. Addresses |-> RoundNext(w, n, A)]
    BY <1>1, RoundsExist
  <1> HIDE DEF A
  <1>4. \A n \in 0 .. Addresses : A[n] = RoundNext(w, n, A)
    BY <1>3
  <1> DEFINE Ok(q) == Sound(q.w) /\ (q.done \/ Unconnected(q.w))
             G == {n \in 0 .. Addresses : \A q \in A[n] : Ok(q)}
  <1>5. 0 \in G
    <2>1. 0 \in 0 .. Addresses
      BY <1>1
    <2>2. A[0] = {[w |-> w, done |-> FALSE]}
      BY <1>4, <2>1, Zenon DEF RoundNext
    <2>3. \A q \in A[0] : q.w = w
      BY <2>2
    <2> QED
      BY <2>1, <2>3
  <1>6. ASSUME NEW n \in 0 .. Addresses - 1, n \in G PROVE n + 1 \in G
    <2>1. n + 1 \in 0 .. Addresses /\ n + 1 # 0 /\ (n + 1) - 1 = n
      BY <1>1
    <2>2. A[n + 1] = UNION {IF q.done THEN {q} ELSE TryAddress(q.w) : q \in A[n]}
      BY <1>4, <2>1 DEF RoundNext
    <2>3. ASSUME NEW p \in A[n + 1] PROVE Ok(p)
      <3>1. PICK q \in A[n] : p \in IF q.done THEN {q} ELSE TryAddress(q.w)
        BY <2>2, <2>3
      <3>2. Ok(q)
        BY <1>6, <3>1
      <3>3. CASE q.done
        <4>1. p = q
          BY <3>1, <3>3
        <4> QED
          BY <3>2, <4>1
      <3>4. CASE ~q.done
        <4>1. Sound(q.w) /\ Unconnected(q.w) /\ p \in TryAddress(q.w)
          BY <3>1, <3>2, <3>4
        <4> QED
          BY <4>1, TrySound
      <3> QED
        BY <3>3, <3>4
    <2> QED
      BY <2>1, <2>3
  <1>7. Addresses \in G
    <2>1. \A n \in 0 .. Addresses - 1 : n \in G => n + 1 \in G
      BY <1>6
    <2>2. Addresses \in 0 .. Addresses
      BY <1>1
    <2> HIDE DEF G
    <2> QED
      BY <1>1, <1>5, <2>1, <2>2, UpTo
  <1>8. Ok(r)
    BY <1>2, <1>7
  <1> QED
    BY <1>2, <1>8
-----------------------------------------------------------------------------
(* The steps. *)

\* The record that a handler leaves is kept in sys and client.
LEMMA Restored ==
  ASSUME NEW w, IsClient(w), NEW v, v = [w EXCEPT !.sys = NULL], NEW k, k = w.sys
  PROVE  [v EXCEPT !.sys = k] = w /\ IsClient(v) /\ v.sys = NULL /\ (Closed(w) => Closed(v))
  <1>1. v.sys = NULL /\ Keeps(w, v, {"sys"})
    BY Set_sys
  <1>2. PICK u : u = [v EXCEPT !.sys = k]
    BY Zenon
  <1>3. u.sys = k /\ Keeps(v, u, {"sys"})
    <2>1. IsClient(v)
      BY <1>1 DEF Keeps
    <2>2. \A x, s, y : IsClient(x) /\ y = [x EXCEPT !.sys = s] => y.sys = s /\ Keeps(x, y, {"sys"})
      BY Set_sys, Zenon
    <2> QED
      BY <1>2, <2>1, <2>2, Zenon
  <1>4. \A g \in ClientFields : u[g] = w[g]
    BY <1>1, <1>3 DEF Keeps, ClientFields
  <1>5. u = w
    BY <1>3, <1>4 DEF Keeps, IsClient
  <1> QED
    BY <1>1, <1>2, <1>5 DEF Keeps, ClientFields, Closed

\* A handler that leaves a sound client.
LEMMA HandledSound ==
  ASSUME NEW set, NEW to \in {"wait", "timers", "callback"}, Handled(set, to),
         \A w \in set : Sound(w), ready' = NULL
  PROVE  IInv'
  <1>1. PICK w \in set : /\ sys' = w.sys
                         /\ client' = [w EXCEPT !.sys = NULL]
                         /\ pc' = IF w.undefined THEN "undefined" ELSE to
    BY DEF Handled
  <1>2. PICK k, v : k = sys' /\ v = client'
    BY Zenon
  <1>3. Sound(w) /\ IsClient(w)
    BY DEF Sound
  <1>4. [v EXCEPT !.sys = k] = w /\ IsClient(v) /\ v.sys = NULL /\ (Closed(w) => Closed(v))
    <2>1. v = [w EXCEPT !.sys = NULL] /\ k = w.sys
      BY <1>1, <1>2
    <2> QED
      BY <1>3, <2>1, Restored
  <1>5. State' = w
    BY <1>2, <1>4, Zenon DEF State
  <1>6. Sound(State)' /\ IsClient(client') /\ client'.sys = NULL
    BY <1>2, <1>3, <1>4, <1>5, Zenon
  <1>7. pc' = "undefined" => Closed(client')
    <2>1. pc' = "undefined" => w.undefined
      BY <1>1
    <2> QED
      BY <1>2, <1>3, <1>4, <2>1 DEF Sound
  <1>8. pc' # "init"
    BY <1>1
  <1> QED
    BY <1>6, <1>7, <1>8 DEF IInv

\* The state of the client, and what Run looks at.
LEMMA StateIs ==
  ASSUME IInv
  PROVE  /\ Sound(State) /\ IsClient(State)
         /\ State.sys = sys
         /\ State.fd_ = client.fd_ /\ State.recv_ctx_ = client.recv_ctx_ /\ State.timer = client.timer
         /\ State.sent_count_ = client.sent_count_
         /\ Good(sys, client.fd_, client.recv_ctx_) /\ IsPortSystem(sys, CB)
         /\ OnPort(sys) /\ LoopTop = "timers"
  <1>1. PICK w : w = State
    BY Zenon
  <1>2. w = [client EXCEPT !.sys = sys] /\ IsClient(client)
    BY <1>1 DEF State, IInv
  <1>3. w.sys = sys /\ Keeps(client, w, {"sys"})
    BY <1>2, Set_sys
  <1>4. Sound(w)
    BY <1>1 DEF IInv
  <1>5. /\ w.fd_ = client.fd_ /\ w.recv_ctx_ = client.recv_ctx_ /\ w.timer = client.timer
        /\ w.sent_count_ = client.sent_count_
    BY <1>3 DEF Keeps, ClientFields
  <1>6. Good(sys, client.fd_, client.recv_ctx_)
    BY <1>3, <1>4, <1>5 DEF Sound
  <1>7. IsPortSystem(sys, CB) /\ OnPort(sys)
    BY <1>6, SystemElim DEF Good
  <1>8. LoopTop = "timers"
    BY <1>7 DEF LoopTop
  <1> QED
    BY <1>1, <1>3, <1>4, <1>5, <1>6, <1>7, <1>8 DEF Sound

\* Client::Start.
LEMMA BeginSound ==
  ASSUME IInv, Begin
  PROVE  IInv'
  <1>1. PICK w : w = State
    BY Zenon
  <1>2. Sound(w) /\ Unconnected(w) /\ w.sys = sys /\ LoopTop = "timers"
    BY <1>1, StateIs DEF IInv, Begin
  <1>3. PICK set : set = {[w EXCEPT !.sys = k] : k \in Faulty(sys)} \cup Connect(w)
    BY Zenon
  <1>4. Handled(set, "timers")
    BY <1>1, <1>2, <1>3, Zenon DEF Begin
  <1>5. ready' = NULL
    BY DEF Begin, IInv
  <1>6. ASSUME NEW v \in set PROVE Sound(v)
    <2>1. CASE v \in Connect(w)
      BY <1>2, <2>1, ConnectSound
    <2>2. ASSUME NEW k1 \in Faulty(sys), v = [w EXCEPT !.sys = k1]
          PROVE  Sound(v)
      <3>1. PICK k : k = sys
        BY Zenon
      <3>2. /\ IsPortSystem(k, CB) /\ DOMAIN k.ctx = {} /\ k.ops = {} /\ DOMAIN k.port = {}
            /\ IsClient(w) /\ w.fd_ \in Int
        BY <1>2, <3>1, UnconnectedSystem
      <3>3. k1 = [k EXCEPT !.faults = @ - 1]
        BY <2>2, <3>1 DEF Faulty, When
      <3>4. IsPortSystem(k1, CB) /\ k1.ctx = k.ctx /\ k1.ops = k.ops /\ k1.port = k.port
        BY <3>2, <3>3, FaultyType
      <3>5. v.sys = k1 /\ Keeps(w, v, {"sys"})
        BY <2>2, <3>2, Set_sys
      <3>6. Keeps(w, v, {"sys", "fd_"}) /\ v.fd_ = w.fd_
        BY <3>5 DEF Keeps, ClientFields
      <3>7. /\ IsPortSystem(v.sys, CB) /\ DOMAIN v.sys.ctx = {} /\ v.sys.ops = {}
            /\ DOMAIN v.sys.port = {} /\ v.fd_ \in Int
        BY <3>2, <3>4, <3>5, <3>6
      <3> QED
        BY <1>2, <3>6, <3>7, UnconnectedSound
    <2> QED
      BY <1>3, <2>1, <2>2
  <1>7. PICK to \in {"wait", "timers", "callback"} : to = "timers"
    OBVIOUS
  <1>8. Handled(set, to)
    BY <1>4, <1>7, Zenon
  <1> QED
    BY <1>5, <1>6, <1>8, HandledSound

\* The timers' turn.
LEMMA UpdateTimerSound ==
  ASSUME IInv, UpdateTimer
  PROVE  IInv'
  <1>1. PICK w : w = State
    BY Zenon
  <1>2. Sound(w) /\ w.timer = client.timer /\ OnPort(sys)
    BY <1>1, StateIs
  <1>3. PICK set : set = IF client.timer = "due" THEN OnTimeout(w) ELSE {w}
    BY Zenon
  <1>4. Handled(set, "wait")
    BY <1>1, <1>2, <1>3, Zenon DEF UpdateTimer
  <1>5. ready' = NULL
    BY DEF UpdateTimer, IInv
  <1>6. ASSUME NEW v \in set PROVE Sound(v)
    <2>1. CASE client.timer = "due"
      <3>1. w.timer # "off" /\ v \in OnTimeout(w)
        BY <1>2, <1>3, <2>1
      <3> QED
        BY <1>2, <3>1, OnTimeoutSound
    <2>2. CASE client.timer # "due"
      BY <1>2, <1>3, <2>2
    <2> QED
      BY <2>1, <2>2
  <1>7. PICK to \in {"wait", "timers", "callback"} : to = "wait"
    OBVIOUS
  <1>8. Handled(set, to)
    BY <1>4, <1>7, Zenon
  <1> QED
    BY <1>5, <1>6, <1>8, HandledSound

\* The callback.
LEMMA DispatchSound ==
  ASSUME IInv, Dispatch
  PROVE  IInv'
  <1>1. PICK w : w = State
    BY Zenon
  <1>2. PICK c : c = ready
    BY Zenon
  <1>3. Sound(w) /\ w.sys = sys /\ LoopTop = "timers" /\ Good(sys, client.fd_, client.recv_ctx_)
    BY <1>1, StateIs
  <1>4. PICK set : set = IF ready \in DOMAIN sys.ctx
                           THEN {[u EXCEPT !.sys = AfterCallback(@, ready)] : u \in Callback(w, ready)}
                           ELSE {w}
    BY Zenon
  <1>5. Handled(set, "timers")
    BY <1>1, <1>3, <1>4, Zenon DEF Dispatch
  <1>6. ready' = NULL
    BY DEF Dispatch
  <1>7. ASSUME NEW v \in set PROVE Sound(v)
    <2>1. CASE c \in DOMAIN sys.ctx
      <3>1. c # NULL
        BY <1>3, <2>1, GoodTypes
      <3>2. Free(sys, c) /\ sys.ctx[c].status = 0
        BY <1>2, <3>1 DEF IInv, Dispatch
      <3>3. sys.ctx[c].cb \in Callbacks
        BY <1>3, <2>1 DEF Good, ContextsInv
      <3>4. Free(w.sys, c) /\ w.sys.ctx[c].status = 0 /\ w.sys.ctx[c].cb \in Callbacks
        BY <1>3, <3>2, <3>3
      <3>5. PICK u \in Callback(w, c) : v = [u EXCEPT !.sys = AfterCallback(@, c)]
        BY <1>2, <1>4, <2>1, Zenon
      <3>6. CASE w.sys.ctx[c].cb = "OnWritten"
        <4>1. u \in OnWritten(w, c)
          BY <3>5, <3>6 DEF Callback
        <4> QED
          BY <1>3, <3>4, <3>5, <3>6, <4>1, OnWrittenSound
      <3>7. CASE w.sys.ctx[c].cb # "OnWritten"
        <4>1. u \in OnRead(w, c) \/ u \in OnConnect(w, c)
          BY <3>4, <3>5, <3>7 DEF Callback, Callbacks
        <4> QED
          BY <1>3, <3>4, <3>5, <3>7, <4>1, OnReadSound
      <3> QED
        BY <3>6, <3>7
    <2>2. CASE c \notin DOMAIN sys.ctx
      BY <1>2, <1>3, <1>4, <2>2
    <2> QED
      BY <2>1, <2>2
  <1>8. PICK to \in {"wait", "timers", "callback"} : to = "timers"
    OBVIOUS
  <1>9. Handled(set, to)
    BY <1>5, <1>8, Zenon
  <1> QED
    BY <1>6, <1>7, <1>9, HandledSound

\* The client is left as it is.
LEMMA SystemSound ==
  ASSUME IInv, UNCHANGED client, Good(sys', client.fd_, client.recv_ctx_),
         DOMAIN sys'.ctx = DOMAIN sys.ctx
  PROVE  /\ Sound(State)' /\ IsClient(client)' /\ client'.sys = NULL
         /\ Unconnected(State) => Unconnected(State)'
         /\ Closed(client) => Closed(client')
  <1>1. PICK w : w = State
    BY Zenon
  <1>2. Sound(w) /\ w.sys = sys /\ w.fd_ = client.fd_ /\ w.recv_ctx_ = client.recv_ctx_
    BY <1>1, StateIs
  <1>3. PICK k : k = sys'
    BY Zenon
  <1>4. PICK v : v = [w EXCEPT !.sys = k]
    BY Zenon
  <1>5. v.sys = k /\ Keeps(w, v, {"sys"})
    BY <1>2, <1>4, Set_sys DEF Sound
  <1>6. State' = v
    BY <1>1, <1>3, <1>4, Zenon DEF State
  <1>7. /\ v.fd_ = w.fd_ /\ v.recv_ctx_ = w.recv_ctx_ /\ v.sent_count_ = w.sent_count_
        /\ v.recv_buf_ = w.recv_buf_ /\ v.timer = w.timer /\ v.undefined = w.undefined /\ IsClient(v)
    BY <1>5 DEF Keeps, ClientFields
  <1>8. Good(v.sys, v.fd_, v.recv_ctx_) /\ DOMAIN v.sys.ctx = DOMAIN w.sys.ctx
    BY <1>2, <1>3, <1>5, <1>7
  <1>9. Unconnected(w) => Unconnected(v)
    BY <1>7, <1>8 DEF Unconnected
  <1>10. Closed(w) => Closed(v)
    BY <1>7 DEF Closed
  <1>11. Sound(v)
    BY <1>2, <1>7, <1>8, <1>9, <1>10 DEF Sound
  <1> QED
    BY <1>1, <1>6, <1>9, <1>11 DEF IInv

\* Run takes a packet.
LEMMA WaitSound ==
  ASSUME IInv, Wait
  PROVE  IInv'
  <1>1. pc' = "callback" /\ UNCHANGED client
    BY StateIs DEF Wait
  <1>2. Good(sys, client.fd_, client.recv_ctx_)
    BY StateIs
  <1>3. CASE sys' = sys /\ ready' = NULL
    <2>1. Good(sys', client.fd_, client.recv_ctx_) /\ DOMAIN sys'.ctx = DOMAIN sys.ctx
      BY <1>2, <1>3
    <2>2. Sound(State)' /\ IsClient(client)' /\ client'.sys = NULL
      BY <1>1, <2>1, SystemSound
    <2> QED
      BY <1>1, <1>3, <2>2 DEF IInv
  <1>4. ASSUME NEW d \in Dequeue(sys), sys' = d.sys, ready' = IF d.ok THEN d.ctx ELSE NULL
        PROVE  IInv'
    <2>1. /\ Good(d.sys, client.fd_, client.recv_ctx_)
          /\ d.sys.ctx = sys.ctx
          /\ Free(d.sys, d.ctx)
          /\ d.ok <=> d.sys.ctx[d.ctx].status = 0
      BY <1>2, TakesPacket
    <2>2. Good(sys', client.fd_, client.recv_ctx_) /\ DOMAIN sys'.ctx = DOMAIN sys.ctx
      BY <1>4, <2>1
    <2>3. Sound(State)' /\ IsClient(client)' /\ client'.sys = NULL
      BY <1>1, <2>2, SystemSound
    <2>4. ready' # NULL => Free(sys', ready') /\ sys'.ctx[ready'].status = 0
      BY <1>4, <2>1
    <2>5. (ready # NULL => Free(sys, ready) /\ sys.ctx[ready].status = 0)'
      BY <2>4 DEF Free, Queued
    <2> QED
      BY <1>1, <2>3, <2>5 DEF IInv
  <1>5. CASE sys' \in Faulty(sys) /\ ready' = NULL
    <2>1. PICK k, k1, f, r : k = sys /\ k1 = sys' /\ f = client.fd_ /\ r = client.recv_ctx_
      BY Zenon
    <2>2. Good(k, f, r) /\ IsPortSystem(k, CB)
      BY <2>1, StateIs
    <2>3. k1 = [k EXCEPT !.faults = @ - 1]
      BY <1>5, <2>1 DEF Faulty, When
    <2>4. /\ IsPortSystem(k1, CB) /\ k1.ctx = k.ctx /\ k1.ops = k.ops /\ k1.port = k.port
          /\ k1.socks = k.socks
      BY <2>2, <2>3, FaultyType
    <2>5. Good(k1, f, r)
      BY <2>2, <2>4 DEF Good, InFlight, Queued, ContextsInv, OpInv, PacketInv
    <2>6. Sound(State)' /\ IsClient(client)' /\ client'.sys = NULL
      BY <1>1, <2>1, <2>4, <2>5, SystemSound
    <2> QED
      BY <1>1, <1>5, <2>6 DEF IInv
  <1> QED
    BY <1>3, <1>4, <1>5 DEF Wait

\* The system ends an operation, or the server sends or closes.
LEMMA SystemStepSound ==
  ASSUME IInv, SystemStep \/ Server
  PROVE  IInv'
  <1>1. UNCHANGED <<client, ready, pc>> /\ pc # "undefined"
    BY DEF SystemStep, End, Server, Over
  <1>2. PICK k, k1, f, r, c : /\ k = sys /\ k1 = sys'
                              /\ f = client.fd_ /\ r = client.recv_ctx_ /\ c = ready
    BY Zenon
  <1>3. Good(k, f, r) /\ IsPortSystem(k, CB)
    BY <1>2, StateIs
  <1>4. /\ Good(k1, f, r)
        /\ DOMAIN k1.ctx = DOMAIN k.ctx
        /\ Free(k, c) => Free(k1, c) /\ k1.ctx[c].status = k.ctx[c].status
    <2>1. CASE SystemStep
      <3>1. PICK op \in k.ops : k1 \in EndOf(k, op)
        BY <1>2, <2>1 DEF SystemStep, End
      <3> QED
        BY <1>3, <3>1, EndsGood
    <2>2. CASE Server
      <3>1. PICK h \in DOMAIN k.socks : \/ k1 = Sends(k, h)
                                        \/ k1 = [k EXCEPT !.socks[h].fin = TRUE]
        BY <1>2, <2>2, Zenon DEF Server, Conns, Sends
      <3>2. IsPortSystem(k1, CB) /\ SameSockets(k, k1) /\ k1.ctx = k.ctx /\ k1.ops = k.ops /\ k1.port = k.port
        <4>1. CASE k1 = Sends(k, h)
          BY <1>3, <4>1, SentType
        <4>2. CASE k1 = [k EXCEPT !.socks[h].fin = TRUE]
          <5>1. PICK m \in Int : m = 0
            OBVIOUS
          <5> QED
            BY <1>3, <4>2, SocketFields
        <4> QED
          BY <3>1, <4>1, <4>2
      <3>3. InFlight(k1) /\ (Free(k, c) => Free(k1, c))
        BY <1>3, <3>2 DEF Good, InFlight, Free, Queued
      <3>4. ContextsInv(k1, f, r)
        BY <1>3, <3>2 DEF Good, ContextsInv, SameSockets
      <3>5. \A op \in k1.ops : OpInv(k1, op, f)
        BY <1>3, <3>2 DEF Good, OpInv, SameSockets
      <3>6. \A j \in DOMAIN k1.port : PacketInv(k1, j)
        BY <1>3, <3>2 DEF Good, PacketInv
      <3> QED
        BY <1>3, <3>2, <3>3, <3>4, <3>5, <3>6 DEF Good
    <2> QED
      BY <2>1, <2>2
  <1>5. Good(sys', client.fd_, client.recv_ctx_) /\ DOMAIN sys'.ctx = DOMAIN sys.ctx
    BY <1>2, <1>4
  <1>6. /\ Sound(State)' /\ IsClient(client)' /\ client'.sys = NULL
        /\ Unconnected(State) => Unconnected(State)'
    BY <1>1, <1>5, SystemSound
  <1>7. Free(sys, ready) => Free(sys', ready') /\ sys'.ctx[ready'].status = sys.ctx[ready].status
    BY <1>1, <1>2, <1>4
  <1>8. pc = "callback" /\ ready # NULL => Free(sys, ready)' /\ sys'.ctx[ready'].status = 0
    BY <1>7 DEF IInv, Free, Queued
  <1> QED
    BY <1>1, <1>6, <1>8 DEF IInv

\* The timer expires.
LEMMA ExpireSound ==
  ASSUME IInv, Expire
  PROVE  IInv'
  <1>1. PICK w : w = State
    BY Zenon
  <1>2. Sound(w) /\ IsClient(w) /\ w = [client EXCEPT !.sys = sys] /\ w.timer = "set"
    BY <1>1, StateIs DEF State, Expire
  <1>3. IsClient(client) /\ client.sys = NULL
    BY DEF IInv
  <1>4. PICK v : v = [w EXCEPT !.timer = "due"]
    BY Zenon
  <1>5. Keeps(w, v, {"timer"})
    <2>1. IsClient(w)
      BY <1>2, Zenon
    <2> QED
      BY <1>4, <2>1, Assign DEF Keeps, ClientFields
  <1>6. Sound(v)
    <2>1. Keeps(w, v, {"sys", "timer"}) /\ v.sys = w.sys
      BY <1>5 DEF Keeps, ClientFields
    <2>2. w.recv_ctx_ # NULL \/ Closed(w)
      BY <1>2 DEF Sound, Unconnected
    <2>3. Good(v.sys, w.fd_, w.recv_ctx_)
      BY <1>2, <2>1 DEF Sound
    <2> QED
      BY <1>2, <2>1, <2>2, <2>3, SoundSys
  <1>7. PICK d : d = [client EXCEPT !.timer = "due"]
    BY Zenon
  <1>8. client' = d /\ UNCHANGED <<sys, ready, pc>> /\ pc # "init" /\ pc # "undefined"
    BY <1>7 DEF Expire
  <1>9. d.timer = "due" /\ Keeps(client, d, {"timer"})
    BY <1>3, <1>7, Assign DEF Keeps, ClientFields
  <1>10. State' = v
    <2>1. State' = [[client EXCEPT !.timer = "due"] EXCEPT !.sys = sys]
      BY <1>7, <1>8, Zenon DEF State
    <2>2. v = [[client EXCEPT !.sys = sys] EXCEPT !.timer = "due"]
      BY <1>2, <1>4, Zenon
    <2> QED
      BY <2>1, <2>2
  <1>11. IsClient(client') /\ client'.sys = NULL
    BY <1>3, <1>8, <1>9 DEF Keeps, ClientFields
  <1>12. (pc = "callback" /\ ready # NULL => Free(sys, ready) /\ sys.ctx[ready].status = 0)'
    BY <1>8 DEF IInv, Free, Queued
  <1>13. Sound(State)'
    BY <1>6, <1>10, Zenon
  <1> QED
    BY <1>8, <1>11, <1>12, <1>13 DEF IInv

\* A client that has not started, on a service that was just made.
LEMMA NewClientSound ==
  ASSUME NEW k, k = EmptySystem("IOCompletionPort"), NEW w, w = [NewClient EXCEPT !.sys = k]
  PROVE  Sound(w) /\ Unconnected(w) /\ IsClient(NewClient) /\ NewClient.sys = NULL
  <1>1. IsPortSystem(k, CB) /\ DOMAIN k.ctx = {} /\ k.ops = {} /\ DOMAIN k.port = {}
    BY EmptyType
  <1>2. IsClient(NewClient) /\ NewClient.sys = NULL
    BY DEF NewClient, IsClient, ClientFields
  <1>3. w.sys = k /\ Keeps(NewClient, w, {"sys"})
    BY <1>2, Set_sys
  <1>4. /\ w.fd_ = -1 /\ w.recv_ctx_ = NULL /\ w.timer = "off" /\ ~w.undefined
        /\ w.sent_count_ = 0 /\ w.recv_buf_ = 0 /\ IsClient(w)
    BY <1>3 DEF Keeps, ClientFields, NewClient, INVALID_SOCKET
  <1>5. PICK f \in Int : f = -1
    OBVIOUS
  <1>6. PICK k1 : k1 = k
    BY Zenon
  <1>7. Good(k1, f, NULL)
    <2>1. IsPortSystem(k1, CB) /\ DOMAIN k1.ctx = {} /\ k1.ops = {} /\ DOMAIN k1.port = {}
      BY <1>1, <1>6
    <2> QED
      BY <2>1, NothingGood
  <1>8. Unconnected(w)
    BY <1>1, <1>3, <1>4 DEF Unconnected
  <1>9. Good(w.sys, w.fd_, w.recv_ctx_)
    BY <1>3, <1>4, <1>5, <1>6, <1>7
  <1> QED
    BY <1>2, <1>4, <1>8, <1>9 DEF Sound
-----------------------------------------------------------------------------
(* The theorems, for a program started on the completion port. *)

\* The client starts in the invariant,
LEMMA InitIInv ==
  ASSUME Services = {"IOCompletionPort"}, Init
  PROVE  IInv
  <1>1. /\ sys = EmptySystem("IOCompletionPort") /\ client = NewClient /\ ready = NULL /\ pc = "init"
    BY DEF Init, CreateIOService
  <1>2. PICK k : k = sys
    BY Zenon
  <1>3. PICK w : w = State
    BY Zenon
  <1>4. k = EmptySystem("IOCompletionPort") /\ w = [NewClient EXCEPT !.sys = k]
    BY <1>1, <1>2, <1>3, Zenon DEF State
  <1>5. Sound(w) /\ Unconnected(w) /\ IsClient(NewClient) /\ NewClient.sys = NULL
    BY <1>4, NewClientSound
  <1> QED
    BY <1>1, <1>3, <1>5 DEF IInv

\* main deletes the service: nothing is left.
LEMMA StopSound ==
  ASSUME IInv, Stop
  PROVE  IInv'
  <1>1. sys.service = "IOCompletionPort"
    BY StateIs DEF OnPort
  <1>2. /\ sys' = EmptySystem("IOCompletionPort") /\ client' = NewClient /\ pc' = "stopped"
        /\ ready' = NULL
    BY <1>1, StateIs DEF Stop, IInv
  <1>3. PICK k : k = sys'
    BY Zenon
  <1>4. PICK w : w = State'
    BY Zenon
  <1>5. k = EmptySystem("IOCompletionPort") /\ w = [NewClient EXCEPT !.sys = k]
    BY <1>2, <1>3, <1>4, Zenon DEF State
  <1>6. Sound(w) /\ Unconnected(w) /\ IsClient(NewClient) /\ NewClient.sys = NULL
    BY <1>5, NewClientSound
  <1>7. Sound(State)' /\ IsClient(client)' /\ client'.sys = NULL
    BY <1>2, <1>4, <1>6, Zenon
  <1> QED
    BY <1>2, <1>7 DEF IInv

\* and every step keeps it.
LEMMA NextIInv ==
  ASSUME IInv, [Next]_vars
  PROVE  IInv'
  <1>1. CASE UNCHANGED vars
    BY <1>1 DEF IInv, vars, State, Free, Queued
  <1> QED
    BY <1>1, BeginSound, WaitSound, UpdateTimerSound, DispatchSound, ExpireSound, StopSound,
       SystemStepSound DEF Next, Run, Halted

\* The client keeps the invariant whatever the server, the system and the
\* faults do (src/examples/pingpong/Client.cpp).
THEOREM Invariance ==
  ASSUME Services = {"IOCompletionPort"}
  PROVE  Spec => []IInv
  <1>1. Init => IInv
    BY InitIInv
  <1>2. IInv /\ [Next]_vars => IInv'
    BY NextIInv
  <1> QED
    BY <1>1, <1>2, PTL DEF Spec

\* What is on its way and not cancelled is about the client's socket, and a
\* connect or a read works on recv_ctx_ (Client::Connect, StartRead, Cleanup).
THEOREM OwnedCorrect ==
  ASSUME Services = {"IOCompletionPort"}
  PROVE  Spec => []OperationsOwned
  <1>1. IInv => OperationsOwned
    <2> SUFFICES ASSUME IInv PROVE OperationsOwned
      OBVIOUS
    <2>1. PICK k, f, r : k = sys /\ f = client.fd_ /\ r = client.recv_ctx_
      BY Zenon
    <2>2. Good(k, f, r)
      BY <2>1, StateIs
    <2>3. ASSUME NEW op \in k.ops PROVE OpInv(k, op, f) /\ op.ctx \in DOMAIN k.ctx
      BY <2>2 DEF Good, InFlight
    <2>4. r = NULL => DOMAIN k.ctx = {} \/ f \notin DOMAIN k.socks
      <3>1. r = NULL => DOMAIN k.ctx = {} \/ f = -1
        <4>1. PICK w : w = State
          BY Zenon
        <4>2. Sound(w) /\ w.sys = k /\ w.fd_ = f /\ w.recv_ctx_ = r
          BY <2>1, <4>1, StateIs
        <4> QED
          BY <4>2 DEF Sound, Unconnected, Closed, INVALID_SOCKET
      <3>2. -1 \notin DOMAIN k.socks
        BY <2>2, GoodTypes
      <3> QED
        BY <3>1, <3>2
    <2>5. ASSUME NEW op \in k.ops, op.kind # "write", ~op.aborted PROVE op.ctx = r
      <3>1. k.ctx[op.ctx].cb # "OnWritten" /\ f \in DOMAIN k.socks /\ op.ctx \in DOMAIN k.ctx
        BY <2>3, <2>5 DEF OpInv
      <3>2. r # NULL
        BY <2>4, <3>1
      <3> QED
        BY <2>2, <3>1, <3>2 DEF Good, ContextsInv
    <2>6. \A o1, o2 \in k.ops : o1.ctx = o2.ctx => o1 = o2
      BY <2>2 DEF Good, InFlight
    <2>7. \A op \in k.ops : (~op.aborted => op.fd = f) /\ ~op.orphan
      BY <2>3 DEF OpInv
    <2> QED
      BY <2>1, <2>5, <2>6, <2>7 DEF OperationsOwned
  <1> QED
    BY <1>1, Invariance, PTL

\* recv_ctx_ may be used whenever the timer may use it (Client::OnTimeout,
\* Client::Cleanup).
THEOREM RecvContextCorrect ==
  ASSUME Services = {"IOCompletionPort"}
  PROVE  Spec => []RecvContextAlive
  <1>1. IInv => RecvContextAlive
    BY StateIs DEF Good, ContextsInv, RecvContextAlive, Contexts
  <1> QED
    BY <1>1, Invariance, PTL

\* OnRead reads through the pointer that Cleanup has set to NULL only when all
\* messages were sent (Client::OnRead, Client::StartRead).
THEOREM UndefinedCorrect ==
  ASSUME Services = {"IOCompletionPort"}
  PROVE  Spec => []UndefinedOnlyOnPort
  <1>1. IInv => UndefinedOnlyOnPort
    BY StateIs DEF IInv, Closed, UndefinedOnlyOnPort
  <1> QED
    BY <1>1, Invariance, PTL
=============================================================================
