--------------------------- MODULE IOServiceProofs ---------------------------
(* What the calls of the completion-port service change and what they leave *)
(* alone, for every state of the system.                                    *)
EXTENDS IOServiceBase, TablesProofs

OperationType == [ctx : Nat, fd : Int, kind : {"accept", "read", "write", "connect"}, sock : Nat,
                  n : Int, aborted : BOOLEAN, orphan : BOOLEAN]
PacketType    == [ctx : Nat, ok : BOOLEAN]
SocketType    == [kind : {"idle", "listen", "conn"}, rx : Int, fin : BOOLEAN, sent : Int, got : Int]

FlagSets == SUBSET {0, 1}
Packets  == Seq(PacketType)

\* CB: the callbacks of the program.
ContextType(CB) == [fd : Int, flags : FlagSets, udata : Nat, len : Int, cb : CB,
                    status : Int, bytes : Int, set : BOOLEAN]

System(t, o, p, s, f) == [service |-> "IOCompletionPort", ctx |-> t, ops |-> o, port |-> p,
                          socks |-> s, faults |-> f]

IsPortSystem(k, CB) ==
  \E D \in SUBSET Nat, E \in SUBSET Nat :
    /\ IsFiniteSet(D) /\ IsFiniteSet(E)
    /\ \E t \in [D -> ContextType(CB)], o \in SUBSET OperationType, p \in Packets,
          s \in [E -> SocketType], f \in Int : k = System(t, o, p, s, f)

Queued(k) == {k.port[j].ctx : j \in DOMAIN k.port}

\* A context that exists has one operation on its way, or one packet, or none.
InFlight(k) ==
  /\ \A op \in k.ops : op.ctx \in DOMAIN k.ctx /\ op.ctx \notin Queued(k)
  /\ Queued(k) \subseteq DOMAIN k.ctx
  /\ \A o1, o2 \in k.ops : o1.ctx = o2.ctx => o1 = o2
  /\ \A i, j \in DOMAIN k.port : k.port[i].ctx = k.port[j].ctx => i = j

\* Nothing is on its way that uses the context.
Free(k, c) == /\ c \in DOMAIN k.ctx
              /\ \A op \in k.ops : op.ctx # c
              /\ c \notin Queued(k)

-----------------------------------------------------------------------------
(* The service in terms of the kernel this module extends, rather than of  *)
(* the copy of it that is instantiated with the service.                   *)

Cleared(k, c) == [k EXCEPT !.ctx[c].status = 0, !.ctx[c].bytes = 0]

\* The calls of CompletionPortService.cpp are about the same kernel.
LEMMA KernelOfPort ==
  ASSUME NEW k, NEW c
  PROVE  /\ Port!FreshContext(k) = FreshContext(k)
         /\ Port!FreshHandle(k) = FreshHandle(k)
         /\ Port!Faulty(k) = Faulty(k)
         /\ \A fd : Port!Alloc(k, c, fd) = Alloc(k, c, fd)
         /\ \A fd : Port!IsSocket(k, fd) = IsSocket(k, fd)
         /\ \A kind : Port!Socket(k, kind) = Socket(k, kind)
         /\ \A h : Port!closesocket(k, h) = closesocket(k, h)
         /\ Port!Delete(k, c) = Delete(k, c)
         /\ Port!Cleared(k, c) = Cleared(k, c)
  <1>1. \A S : Port!Cardinality(S) = Cardinality(S)
    BY DEF Port!Cardinality, Cardinality
  <1>2. \A S : Port!LeastFree(S) = LeastFree(S)
    BY <1>1, Zenon DEF Port!LeastFree, LeastFree
  <1> QED
    BY <1>2, Zenon DEF Port!FreshContext, FreshContext, Port!FreshHandle, FreshHandle,
      Port!Faulty, Faulty, Port!When, When, Port!Alloc, Alloc, Port!With, With,
      Port!NewContext, NewContext, Port!IsSocket, IsSocket, Port!Socket, Socket,
      Port!NewSocket, NewSocket, Port!closesocket, closesocket, Port!Abort, Abort,
      Port!Without, Without, Port!Delete, Delete, Port!Orphan, Orphan, Port!Cleared, Cleared

-----------------------------------------------------------------------------
(* The record of the system. *)

\* A record of the system's fields is a state of the system,
LEMMA SystemIntro ==
  ASSUME NEW CB, NEW D \in SUBSET Nat, NEW E \in SUBSET Nat, IsFiniteSet(D), IsFiniteSet(E),
         NEW t \in [D -> ContextType(CB)], NEW o \in SUBSET OperationType, NEW p \in Packets,
         NEW s \in [E -> SocketType], NEW f \in Int
  PROVE  IsPortSystem(System(t, o, p, s, f), CB)
  BY Zenon DEF IsPortSystem

\* and a state of the system is the record of its fields, of these types.
LEMMA SystemElim ==
  ASSUME NEW CB, NEW k, IsPortSystem(k, CB)
  PROVE  /\ k = System(k.ctx, k.ops, k.port, k.socks, k.faults)
         /\ DOMAIN k.ctx \in SUBSET Nat /\ IsFiniteSet(DOMAIN k.ctx)
         /\ DOMAIN k.socks \in SUBSET Nat /\ IsFiniteSet(DOMAIN k.socks)
         /\ k.ctx \in [DOMAIN k.ctx -> ContextType(CB)]
         /\ k.ops \in SUBSET OperationType
         /\ k.port \in Packets
         /\ k.socks \in [DOMAIN k.socks -> SocketType]
         /\ k.faults \in Int
         /\ OnPort(k)
  <1>1. PICK D \in SUBSET Nat, E \in SUBSET Nat :
          /\ IsFiniteSet(D) /\ IsFiniteSet(E)
          /\ \E t \in [D -> ContextType(CB)], o \in SUBSET OperationType, p \in Packets,
                s \in [E -> SocketType], f \in Int : k = System(t, o, p, s, f)
    BY Zenon DEF IsPortSystem
  <1>2. PICK t \in [D -> ContextType(CB)], o \in SUBSET OperationType, p \in Packets,
             s \in [E -> SocketType], f \in Int : k = System(t, o, p, s, f)
    BY <1>1, Zenon
  <1>3. k.ctx = t /\ k.ops = o /\ k.port = p /\ k.socks = s /\ k.faults = f /\ OnPort(k)
    BY <1>2 DEF System, OnPort
  <1>4. DOMAIN t = D /\ DOMAIN s = E
    OBVIOUS
  <1> QED
    BY <1>1, <1>2, <1>3, <1>4, Zenon

\* The fields of the record.
LEMMA SystemFields ==
  ASSUME NEW t, NEW o, NEW p, NEW s, NEW f, NEW k, k = System(t, o, p, s, f)
  PROVE  k.ctx = t /\ k.ops = o /\ k.port = p /\ k.socks = s /\ k.faults = f
  BY DEF System

\* A service that was just made has nothing.
LEMMA EmptyType ==
  ASSUME NEW CB, NEW k, k = EmptySystem("IOCompletionPort")
  PROVE  IsPortSystem(k, CB) /\ DOMAIN k.ctx = {} /\ k.ops = {} /\ k.port = <<>>
  <1> DEFINE t == [c \in {} |-> NewContext(0)]
             s == [h \in {} |-> NewSocket("idle")]
  <1>1. k = System(t, {}, <<>>, s, MaxFaults)
    BY Zenon DEF EmptySystem, System
  <1>2. t \in [{} -> ContextType(CB)] /\ s \in [{} -> SocketType] /\ DOMAIN t = {}
    OBVIOUS
  <1>3. <<>> \in Packets /\ {} \in SUBSET OperationType /\ {} \in SUBSET Nat /\ MaxFaults \in Int
    BY KernelAssumption DEF Packets
  <1>4. IsFiniteSet({})
    BY FS_EmptySet
  <1> HIDE DEF t, s
  <1>5. PICK k0 : k0 = System(t, {}, <<>>, s, MaxFaults)
    BY Zenon
  <1>6. IsPortSystem(k0, CB)
    BY <1>2, <1>3, <1>4, <1>5, SystemIntro
  <1>7. k0.ctx = t /\ k0.ops = {} /\ k0.port = <<>>
    BY <1>5, SystemFields
  <1> QED
    BY <1>1, <1>2, <1>5, <1>6, <1>7, Zenon

\* Another record in the memory of the context c.
Put(k, c, x) == System([k.ctx EXCEPT ![c] = x], k.ops, k.port, k.socks, k.faults)

\* k1 is k but for the context c.
OnlyCtx(k, k1, c) == /\ k1.ops = k.ops
                     /\ k1.port = k.port
                     /\ k1.socks = k.socks
                     /\ DOMAIN k1.ctx = DOMAIN k.ctx
                     /\ \A d \in DOMAIN k.ctx \ {c} : k1.ctx[d] = k.ctx[d]

\* A context with another record is the only thing that changed.
LEMMA PutType ==
  ASSUME NEW CB, NEW k, IsPortSystem(k, CB), NEW c \in DOMAIN k.ctx, NEW x \in ContextType(CB)
  PROVE  /\ IsPortSystem(Put(k, c, x), CB)
         /\ OnlyCtx(k, Put(k, c, x), c)
         /\ Put(k, c, x).ctx[c] = x
  <1> DEFINE D == DOMAIN k.ctx
             t == [k.ctx EXCEPT ![c] = x]
             k1 == Put(k, c, x)
  <1>1. k.ctx \in [D -> ContextType(CB)]
    BY SystemElim
  <1>2. /\ t \in [D -> ContextType(CB)]
        /\ DOMAIN t = D
        /\ t[c] = x
        /\ \A d \in D \ {c} : t[d] = k.ctx[d]
    <2> HIDE DEF D
    <2> QED
      BY <1>1 DEF D
  <1> HIDE DEF t, D
  <1>3. k1 = System(t, k.ops, k.port, k.socks, k.faults)
    BY DEF Put, t
  <1>4. IsPortSystem(k1, CB)
    BY <1>2, <1>3, SystemElim, SystemIntro DEF D
  <1>5. k1.ctx = t /\ k1.ops = k.ops /\ k1.port = k.port /\ k1.socks = k.socks
    BY <1>3, SystemFields
  <1> HIDE DEF k1
  <1> QED
    BY <1>2, <1>4, <1>5 DEF OnlyCtx, D, k1

\* One field of the record gets a new value.
LEMMA PutCtx ==
  ASSUME NEW CB, NEW k, IsPortSystem(k, CB), NEW v
  PROVE  [k EXCEPT !.ctx = v] = System(v, k.ops, k.port, k.socks, k.faults)
  <1>1. k = System(k.ctx, k.ops, k.port, k.socks, k.faults)
    BY SystemElim
  <1>2. PICK t, o, p, s, f : k = System(t, o, p, s, f)
    BY <1>1, Zenon
  <1> QED
    BY <1>2 DEF System

\* So with the operations,
LEMMA PutOps ==
  ASSUME NEW CB, NEW k, IsPortSystem(k, CB), NEW v \in SUBSET OperationType, NEW k1, k1 = [k EXCEPT !.ops = v]
  PROVE  /\ IsPortSystem(k1, CB)
         /\ k1.ops = v
         /\ k1.ctx = k.ctx /\ k1.port = k.port /\ k1.socks = k.socks
  <1>1. k = System(k.ctx, k.ops, k.port, k.socks, k.faults)
    BY SystemElim
  <1>2. PICK t, o, p, s, f : k = System(t, o, p, s, f)
    BY <1>1, Zenon
  <1>3. k1 = System(k.ctx, v, k.port, k.socks, k.faults)
    BY <1>2 DEF System
  <1>4. IsPortSystem(System(k.ctx, v, k.port, k.socks, k.faults), CB)
    BY SystemElim, SystemIntro
  <1> QED
    BY <1>3, <1>4, SystemFields

\* the packets,
LEMMA PutPort ==
  ASSUME NEW CB, NEW k, IsPortSystem(k, CB), NEW v \in Packets, NEW k1, k1 = [k EXCEPT !.port = v]
  PROVE  /\ IsPortSystem(k1, CB)
         /\ k1.port = v
         /\ k1.ctx = k.ctx /\ k1.ops = k.ops /\ k1.socks = k.socks
  <1>1. k = System(k.ctx, k.ops, k.port, k.socks, k.faults)
    BY SystemElim
  <1>2. PICK t, o, p, s, f : k = System(t, o, p, s, f)
    BY <1>1, Zenon
  <1>3. k1 = System(k.ctx, k.ops, v, k.socks, k.faults)
    BY <1>2 DEF System
  <1>4. IsPortSystem(System(k.ctx, k.ops, v, k.socks, k.faults), CB)
    BY SystemElim, SystemIntro
  <1> QED
    BY <1>3, <1>4, SystemFields

\* the faults,
LEMMA PutFaults ==
  ASSUME NEW CB, NEW k, IsPortSystem(k, CB), NEW v \in Int, NEW k1, k1 = [k EXCEPT !.faults = v]
  PROVE  /\ IsPortSystem(k1, CB)
         /\ k1.faults = v
         /\ k1.ctx = k.ctx /\ k1.ops = k.ops /\ k1.port = k.port /\ k1.socks = k.socks
  <1>1. k = System(k.ctx, k.ops, k.port, k.socks, k.faults)
    BY SystemElim
  <1>2. PICK t, o, p, s, f : k = System(t, o, p, s, f)
    BY <1>1, Zenon
  <1>3. k1 = System(k.ctx, k.ops, k.port, k.socks, v)
    BY <1>2 DEF System
  <1>4. IsPortSystem(System(k.ctx, k.ops, k.port, k.socks, v), CB)
    BY SystemElim, SystemIntro
  <1> QED
    BY <1>3, <1>4, SystemFields

\* the sockets
LEMMA PutSocks ==
  ASSUME NEW CB, NEW k, IsPortSystem(k, CB), NEW E \in SUBSET Nat, IsFiniteSet(E),
         NEW v \in [E -> SocketType], NEW k1, k1 = [k EXCEPT !.socks = v]
  PROVE  /\ IsPortSystem(k1, CB)
         /\ k1.socks = v
         /\ k1.ctx = k.ctx /\ k1.ops = k.ops /\ k1.port = k.port
  <1>1. k = System(k.ctx, k.ops, k.port, k.socks, k.faults)
    BY SystemElim
  <1>2. PICK t, o, p, s, f : k = System(t, o, p, s, f)
    BY <1>1, Zenon
  <1>3. k1 = System(k.ctx, k.ops, k.port, v, k.faults)
    BY <1>2 DEF System
  <1>4. IsPortSystem(System(k.ctx, k.ops, k.port, v, k.faults), CB)
    BY SystemElim, SystemIntro
  <1> QED
    BY <1>3, <1>4, SystemFields

\* and the contexts.
LEMMA PutContexts ==
  ASSUME NEW CB, NEW k, IsPortSystem(k, CB), NEW D \in SUBSET Nat, IsFiniteSet(D),
         NEW v \in [D -> ContextType(CB)], NEW k1, k1 = [k EXCEPT !.ctx = v]
  PROVE  /\ IsPortSystem(k1, CB)
         /\ k1.ctx = v
         /\ k1.ops = k.ops /\ k1.port = k.port /\ k1.socks = k.socks
  <1>1. k1 = System(v, k.ops, k.port, k.socks, k.faults)
    BY PutCtx
  <1>2. IsPortSystem(System(v, k.ops, k.port, k.socks, k.faults), CB)
    BY SystemElim, SystemIntro
  <1> QED
    BY <1>1, <1>2, SystemFields

\* A field of the context c gets a new value.
Updated(k, k1, c, CB) == IsPortSystem(k1, CB) /\ OnlyCtx(k, k1, c)

\* An assignment through the pointer ctx, and to each field of *ctx.
LEMMA UpdateCtx ==
  ASSUME NEW CB, NEW k, IsPortSystem(k, CB), NEW c \in DOMAIN k.ctx, NEW x \in ContextType(CB),
         NEW k1, k1 = [k EXCEPT !.ctx[c] = x]
  PROVE  Updated(k, k1, c, CB) /\ k1.ctx[c] = x
  <1>1. k1 = Put(k, c, x)
    BY PutCtx DEF Put
  <1> QED
    BY <1>1, PutType DEF Updated

\* ctx->cb = v
LEMMA Set_cb ==
  ASSUME NEW CB, NEW k, IsPortSystem(k, CB), NEW c \in DOMAIN k.ctx, NEW v \in CB,
         NEW k1, k1 = [k EXCEPT !.ctx[c].cb = v]
  PROVE  Updated(k, k1, c, CB) /\ k1.ctx[c] = [k.ctx[c] EXCEPT !.cb = v]
  <1> DEFINE x == [k.ctx[c] EXCEPT !.cb = v]
  <1>1. k.ctx[c] \in ContextType(CB)
    BY SystemElim
  <1>2. x \in ContextType(CB)
    BY <1>1 DEF ContextType
  <1>3. k1 = [k EXCEPT !.ctx[c] = x]
    BY Zenon
  <1> HIDE DEF x
  <1> QED
    BY <1>2, <1>3, UpdateCtx DEF x

\* ctx->buf.len = v
LEMMA Set_len ==
  ASSUME NEW CB, NEW k, IsPortSystem(k, CB), NEW c \in DOMAIN k.ctx, NEW v \in Int,
         NEW k1, k1 = [k EXCEPT !.ctx[c].len = v]
  PROVE  Updated(k, k1, c, CB) /\ k1.ctx[c] = [k.ctx[c] EXCEPT !.len = v]
  <1> DEFINE x == [k.ctx[c] EXCEPT !.len = v]
  <1>1. k.ctx[c] \in ContextType(CB)
    BY SystemElim
  <1>2. x \in ContextType(CB)
    BY <1>1 DEF ContextType
  <1>3. k1 = [k EXCEPT !.ctx[c] = x]
    BY Zenon
  <1> HIDE DEF x
  <1> QED
    BY <1>2, <1>3, UpdateCtx DEF x

\* ctx->udata = v
LEMMA Set_udata ==
  ASSUME NEW CB, NEW k, IsPortSystem(k, CB), NEW c \in DOMAIN k.ctx, NEW v \in Nat,
         NEW k1, k1 = [k EXCEPT !.ctx[c].udata = v]
  PROVE  Updated(k, k1, c, CB) /\ k1.ctx[c] = [k.ctx[c] EXCEPT !.udata = v]
  <1> DEFINE x == [k.ctx[c] EXCEPT !.udata = v]
  <1>1. k.ctx[c] \in ContextType(CB)
    BY SystemElim
  <1>2. x \in ContextType(CB)
    BY <1>1 DEF ContextType
  <1>3. k1 = [k EXCEPT !.ctx[c] = x]
    BY Zenon
  <1> HIDE DEF x
  <1> QED
    BY <1>2, <1>3, UpdateCtx DEF x

\* ctx->fd = v
LEMMA Set_fd ==
  ASSUME NEW CB, NEW k, IsPortSystem(k, CB), NEW c \in DOMAIN k.ctx, NEW v \in Int,
         NEW k1, k1 = [k EXCEPT !.ctx[c].fd = v]
  PROVE  Updated(k, k1, c, CB) /\ k1.ctx[c] = [k.ctx[c] EXCEPT !.fd = v]
  <1> DEFINE x == [k.ctx[c] EXCEPT !.fd = v]
  <1>1. k.ctx[c] \in ContextType(CB)
    BY SystemElim
  <1>2. x \in ContextType(CB)
    BY <1>1 DEF ContextType
  <1>3. k1 = [k EXCEPT !.ctx[c] = x]
    BY Zenon
  <1> HIDE DEF x
  <1> QED
    BY <1>2, <1>3, UpdateCtx DEF x

\* ctx->flags = v
LEMMA Set_flags ==
  ASSUME NEW CB, NEW k, IsPortSystem(k, CB), NEW c \in DOMAIN k.ctx, NEW v \in FlagSets,
         NEW k1, k1 = [k EXCEPT !.ctx[c].flags = v]
  PROVE  Updated(k, k1, c, CB) /\ k1.ctx[c] = [k.ctx[c] EXCEPT !.flags = v]
  <1> DEFINE x == [k.ctx[c] EXCEPT !.flags = v]
  <1>1. k.ctx[c] \in ContextType(CB)
    BY SystemElim
  <1>2. x \in ContextType(CB)
    BY <1>1 DEF ContextType
  <1>3. k1 = [k EXCEPT !.ctx[c] = x]
    BY Zenon
  <1> HIDE DEF x
  <1> QED
    BY <1>2, <1>3, UpdateCtx DEF x

\* ctx->overlap.Internal = v
LEMMA Set_status ==
  ASSUME NEW CB, NEW k, IsPortSystem(k, CB), NEW c \in DOMAIN k.ctx, NEW v \in Int,
         NEW k1, k1 = [k EXCEPT !.ctx[c].status = v]
  PROVE  Updated(k, k1, c, CB) /\ k1.ctx[c] = [k.ctx[c] EXCEPT !.status = v]
  <1> DEFINE x == [k.ctx[c] EXCEPT !.status = v]
  <1>1. k.ctx[c] \in ContextType(CB)
    BY SystemElim
  <1>2. x \in ContextType(CB)
    BY <1>1 DEF ContextType
  <1>3. k1 = [k EXCEPT !.ctx[c] = x]
    BY Zenon
  <1> HIDE DEF x
  <1> QED
    BY <1>2, <1>3, UpdateCtx DEF x

\* ctx->overlap.InternalHigh = v
LEMMA Set_bytes ==
  ASSUME NEW CB, NEW k, IsPortSystem(k, CB), NEW c \in DOMAIN k.ctx, NEW v \in Int,
         NEW k1, k1 = [k EXCEPT !.ctx[c].bytes = v]
  PROVE  Updated(k, k1, c, CB) /\ k1.ctx[c] = [k.ctx[c] EXCEPT !.bytes = v]
  <1> DEFINE x == [k.ctx[c] EXCEPT !.bytes = v]
  <1>1. k.ctx[c] \in ContextType(CB)
    BY SystemElim
  <1>2. x \in ContextType(CB)
    BY <1>1 DEF ContextType
  <1>3. k1 = [k EXCEPT !.ctx[c] = x]
    BY Zenon
  <1> HIDE DEF x
  <1> QED
    BY <1>2, <1>3, UpdateCtx DEF x

\* The event of the context is set or reset.
LEMMA Set_set ==
  ASSUME NEW CB, NEW k, IsPortSystem(k, CB), NEW c \in DOMAIN k.ctx, NEW v \in BOOLEAN,
         NEW k1, k1 = [k EXCEPT !.ctx[c].set = v]
  PROVE  Updated(k, k1, c, CB) /\ k1.ctx[c] = [k.ctx[c] EXCEPT !.set = v]
  <1> DEFINE x == [k.ctx[c] EXCEPT !.set = v]
  <1>1. k.ctx[c] \in ContextType(CB)
    BY SystemElim
  <1>2. x \in ContextType(CB)
    BY <1>1 DEF ContextType
  <1>3. k1 = [k EXCEPT !.ctx[c] = x]
    BY Zenon
  <1> HIDE DEF x
  <1> QED
    BY <1>2, <1>3, UpdateCtx DEF x

-----------------------------------------------------------------------------
(* What the calls of the service leave. *)

\* AllocOverlapCtx gives a new context, or none when it is to be tied to the port.
LEMMA PortAlloc ==
  ASSUME NEW CB, NEW k, IsPortSystem(k, CB), NEW fd, NEW flags,
         NEW a \in AllocOverlapCtx(k, fd, flags)
  PROVE  \/ /\ a.ctx \in Nat \ DOMAIN k.ctx
            /\ a.sys = Alloc(k, a.ctx, fd)
            /\ HasFlag(flags, FLAG_ASSOCIATE) => IsSocket(k, fd)
         \/ /\ a.ctx = NULL
            /\ HasFlag(flags, FLAG_ASSOCIATE)
            /\ a.sys = k \/ a.sys = [k EXCEPT !.faults = @ - 1]
  <1>1. OnPort(k) /\ IsFiniteSet(DOMAIN k.ctx)
    BY SystemElim
  <1>2. FreshContext(k) \in Nat \ DOMAIN k.ctx
    BY <1>1, LeastFreeFacts DEF FreshContext
  <1>3. Port!HasFlag(flags, Port!FLAG_ASSOCIATE) = HasFlag(flags, FLAG_ASSOCIATE)
    BY Zenon DEF Port!HasFlag, HasFlag, Port!FLAG_ASSOCIATE, FLAG_ASSOCIATE
  <1>4. a \in Port!AllocOverlapCtx(k, fd, flags)
    BY <1>1, Zenon DEF AllocOverlapCtx
  <1>5. /\ Port!FreshContext(k) = FreshContext(k)
        /\ Port!Alloc(k, FreshContext(k), fd) = Alloc(k, FreshContext(k), fd)
        /\ Port!IsSocket(k, fd) = IsSocket(k, fd)
        /\ Port!Faulty(k) \subseteq {[k EXCEPT !.faults = @ - 1]}
    BY KernelOfPort, Zenon DEF Faulty, When
  <1> QED
    BY <1>2, <1>3, <1>4, <1>5 DEF Port!AllocOverlapCtx, Port!When

\* A context that is not NULL is new.
LEMMA PortAllocNew ==
  ASSUME NEW CB, NEW k, IsPortSystem(k, CB), NEW fd, NEW flags,
         NEW a \in AllocOverlapCtx(k, fd, flags), a.ctx # NULL
  PROVE  a.ctx \in Nat \ DOMAIN k.ctx /\ a.sys = Alloc(k, a.ctx, fd)
  <1>1. \/ /\ a.ctx \in Nat \ DOMAIN k.ctx
           /\ a.sys = Alloc(k, a.ctx, fd)
           /\ HasFlag(flags, FLAG_ASSOCIATE) => IsSocket(k, fd)
        \/ /\ a.ctx = NULL
           /\ HasFlag(flags, FLAG_ASSOCIATE)
           /\ a.sys = k \/ a.sys = [k EXCEPT !.faults = @ - 1]
    BY PortAlloc
  <1> QED
    BY <1>1

\* k1 is k but for the context c, which keeps its socket, its callback and
\* its flags, and for sockets, operations and faults.
SameBut(k, k1, c) == /\ k1.port = k.port
                     /\ DOMAIN k1.ctx = DOMAIN k.ctx
                     /\ \A d \in DOMAIN k.ctx \ {c} : k1.ctx[d] = k.ctx[d]
                     /\ k1.ctx[c].fd = k.ctx[c].fd
                     /\ k1.ctx[c].flags = k.ctx[c].flags
                     /\ k1.ctx[c].cb = k.ctx[c].cb

Operation(k, c, kind, sock) == [ctx |-> c, fd |-> k.ctx[c].fd, kind |-> kind, sock |-> sock,
                                n |-> k.ctx[c].len, aborted |-> FALSE, orphan |-> FALSE]

\* overlap.Internal and InternalHigh are cleared.
LEMMA ClearedType ==
  ASSUME NEW CB, NEW k, IsPortSystem(k, CB), NEW c \in DOMAIN k.ctx, NEW kc, kc = Cleared(k, c)
  PROVE  /\ IsPortSystem(kc, CB)
         /\ SameBut(k, kc, c)
         /\ kc.ctx[c].udata = k.ctx[c].udata
         /\ kc.ctx[c].len = k.ctx[c].len
         /\ kc.ctx[c].status = 0
         /\ kc.socks = k.socks
         /\ kc.ops = k.ops
  <1>1. PICK k0 : k0 = [k EXCEPT !.ctx[c].status = 0]
    BY Zenon
  <1>2. kc = [k0 EXCEPT !.ctx[c].bytes = 0]
    BY <1>1, Zenon DEF Cleared
  <1>3. Updated(k, k0, c, CB) /\ k0.ctx[c] = [k.ctx[c] EXCEPT !.status = 0]
    BY <1>1, Set_status
  <1>4. IsPortSystem(k0, CB) /\ c \in DOMAIN k0.ctx
    BY <1>3 DEF Updated, OnlyCtx
  <1>5. Updated(k0, kc, c, CB) /\ kc.ctx[c] = [k0.ctx[c] EXCEPT !.bytes = 0]
    BY <1>2, <1>4, Set_bytes
  <1>6. k.ctx[c] \in ContextType(CB) /\ k0.ctx[c] \in ContextType(CB)
    BY <1>4, SystemElim
  <1>7. LET x == k.ctx[c]
            y == [x EXCEPT !.status = 0]
            z == [y EXCEPT !.bytes = 0]
        IN  /\ z.fd = x.fd /\ z.flags = x.flags /\ z.cb = x.cb /\ z.udata = x.udata /\ z.len = x.len
            /\ z.status = 0
    BY <1>6 DEF ContextType
  <1> QED
    BY <1>3, <1>5, <1>7, Zenon DEF Updated, OnlyCtx, SameBut

\* An operation that has started is one more, on the context's socket.
LEMMA StartedType ==
  ASSUME NEW CB, NEW k, IsPortSystem(k, CB), NEW c \in DOMAIN k.ctx,
         NEW kind \in {"accept", "read", "write", "connect"}, NEW sock \in Nat,
         NEW k1, k1 = Started(k, c, kind, sock)
  PROVE  /\ IsPortSystem(k1, CB)
         /\ SameBut(k, k1, c)
         /\ k1.ctx[c].udata = k.ctx[c].udata
         /\ k1.ctx[c].status = k.ctx[c].status
         /\ k1.socks = k.socks
         /\ k1.ops = k.ops \cup {Operation(k, c, kind, sock)}
  <1>1. PICK k0 : k0 = [k EXCEPT !.ctx[c].set = FALSE]
    BY Zenon
  <1> DEFINE o == k.ops \cup {Operation(k, c, kind, sock)}
  <1>2. k1 = [k0 EXCEPT !.ops = k0.ops \cup {Operation(k, c, kind, sock)}]
    BY <1>1, Zenon DEF Started, Operation
  <1>3. Updated(k, k0, c, CB) /\ k0.ctx[c] = [k.ctx[c] EXCEPT !.set = FALSE]
    <2>1. PICK v \in BOOLEAN : v = FALSE
      OBVIOUS
    <2>2. k0 = [k EXCEPT !.ctx[c].set = v]
      BY <1>1, <2>1, Zenon
    <2>3. Updated(k, k0, c, CB) /\ k0.ctx[c] = [k.ctx[c] EXCEPT !.set = v]
      BY <2>2, Set_set
    <2> QED
      BY <2>1, <2>3, Zenon
  <1>4. k0.ops = k.ops /\ IsPortSystem(k0, CB)
    BY <1>3 DEF Updated, OnlyCtx
  <1>5. k1 = [k0 EXCEPT !.ops = o]
    BY <1>2, <1>4, Zenon
  <1>6. k.ctx[c] \in ContextType(CB) /\ c \in Nat
    BY SystemElim
  <1>7. o \in SUBSET OperationType
    <2>1. Operation(k, c, kind, sock) \in OperationType
      BY <1>6 DEF Operation, OperationType, ContextType
    <2> QED
      BY <2>1, SystemElim
  <1> HIDE DEF o
  <1>8. IsPortSystem(k1, CB)
    BY <1>4, <1>5, <1>7, PutOps
  <1>9. k1.ctx = k0.ctx /\ k1.ops = o /\ k1.port = k0.port /\ k1.socks = k0.socks
    BY <1>4, <1>5, <1>7, PutOps
  <1>10. LET x == k.ctx[c]
             y == [x EXCEPT !.set = FALSE]
         IN  /\ y.fd = x.fd /\ y.flags = x.flags /\ y.cb = x.cb /\ y.udata = x.udata
             /\ y.status = x.status
    BY <1>6 DEF ContextType
  <1> QED
    BY <1>3, <1>8, <1>9, <1>10, Zenon DEF Updated, OnlyCtx, SameBut, o

\* AsyncRead and AsyncWrite start their operation, or none.
LEMMA PortRead ==
  ASSUME NEW CB, NEW k, IsPortSystem(k, CB), NEW c \in DOMAIN k.ctx,
         NEW kind \in {"read", "write"}, NEW k1,
         \/ kind = "read" /\ k1 \in AsyncRead(k, c)
         \/ kind = "write" /\ k1 \in AsyncWrite(k, c)
  PROVE  /\ IsPortSystem(k1, CB)
         /\ SameBut(k, k1, c)
         /\ k1.ctx[c].udata = k.ctx[c].udata
         /\ k1.ctx[c].status = 0
         /\ k1.socks = k.socks
         /\ \/ k1.ops = k.ops
            \/ k1.ops = k.ops \cup {Operation(k, c, kind, 0)} /\ IsSocket(k, k.ctx[c].fd)
  <1>1. OnPort(k)
    BY SystemElim
  <1> DEFINE kc == Cleared(k, c)
  <1>2. /\ kind = "read" => k1 \in Port!StartOrFail(Port!Cleared(k, c), c, "read", 0, Port!Cleared(k, c))
        /\ kind = "write" => k1 \in Port!StartOrFail(Port!Cleared(k, c), c, "write", 0, Port!Cleared(k, c))
    BY <1>1, Zenon DEF AsyncRead, AsyncWrite, Port!AsyncRead, Port!AsyncWrite,
      Port!WSARecv, Port!WSASend
  <1>3. Port!Cleared(k, c) = kc
    BY KernelOfPort
  <1>4. /\ IsPortSystem(kc, CB)
        /\ SameBut(k, kc, c)
        /\ kc.ctx[c].udata = k.ctx[c].udata
        /\ kc.ctx[c].len = k.ctx[c].len
        /\ kc.ctx[c].status = 0
        /\ kc.socks = k.socks
        /\ kc.ops = k.ops
    BY ClearedType
  <1> HIDE DEF kc
  <1>5. /\ Port!Started(kc, c, kind, 0) = Started(kc, c, kind, 0)
        /\ Port!Faulty(kc) \subseteq {[kc EXCEPT !.faults = @ - 1]}
        /\ Port!IsSocket(kc, kc.ctx[c].fd) = IsSocket(kc, kc.ctx[c].fd)
    BY KernelOfPort, Zenon DEF Port!Started, Started, Faulty, When
  <1>6. \/ k1 = kc
        \/ k1 = [kc EXCEPT !.faults = @ - 1]
        \/ k1 = Started(kc, c, kind, 0) /\ IsSocket(kc, kc.ctx[c].fd)
    BY <1>2, <1>3, <1>5 DEF Port!StartOrFail, Port!When
  <1>7. CASE k1 = kc
    BY <1>4, <1>7
  <1>8. CASE k1 = [kc EXCEPT !.faults = @ - 1]
    <2>1. kc.faults - 1 \in Int
      BY <1>4, SystemElim
    <2>2. /\ IsPortSystem(k1, CB)
          /\ k1.ctx = kc.ctx /\ k1.ops = kc.ops /\ k1.port = kc.port /\ k1.socks = kc.socks
      BY <1>4, <1>8, <2>1, PutFaults
    <2> QED
      BY <1>4, <2>2 DEF SameBut
  <1>9. CASE k1 = Started(kc, c, kind, 0) /\ IsSocket(kc, kc.ctx[c].fd)
    <2>1. c \in DOMAIN kc.ctx
      BY <1>4 DEF SameBut
    <2>2. /\ IsPortSystem(k1, CB)
          /\ SameBut(kc, k1, c)
          /\ k1.ctx[c].udata = kc.ctx[c].udata
          /\ k1.ctx[c].status = kc.ctx[c].status
          /\ k1.socks = kc.socks
          /\ k1.ops = kc.ops \cup {Operation(kc, c, kind, 0)}
      BY <1>4, <1>9, <2>1, StartedType
    <2>3. Operation(kc, c, kind, 0) = Operation(k, c, kind, 0)
      BY <1>4 DEF Operation, SameBut
    <2> QED
      BY <1>4, <1>9, <2>2, <2>3 DEF SameBut, IsSocket
  <1> QED
    BY <1>6, <1>7, <1>8, <1>9

\* A call that fails uses up a fault.
LEMMA FaultyType ==
  ASSUME NEW CB, NEW k, IsPortSystem(k, CB), NEW k1, k1 = [k EXCEPT !.faults = @ - 1]
  PROVE  /\ IsPortSystem(k1, CB)
         /\ k1.ctx = k.ctx /\ k1.ops = k.ops /\ k1.port = k.port /\ k1.socks = k.socks
  <1>1. k.faults - 1 \in Int
    BY SystemElim
  <1> QED
    BY <1>1, PutFaults

\* AsyncConnect starts the connect and says so, or does not.
LEMMA PortConnect ==
  ASSUME NEW CB, NEW k, IsPortSystem(k, CB), NEW c \in DOMAIN k.ctx, NEW r \in AsyncConnect(k, c)
  PROVE  /\ IsPortSystem(r.sys, CB)
         /\ SameBut(k, r.sys, c)
         /\ r.sys.socks = k.socks
         /\ r.ok => r.sys.ops = k.ops \cup {Operation(k, c, "connect", 0)} /\ r.sys.ctx[c].status = 0
         /\ ~r.ok => r.sys.ops = k.ops
  <1>1. OnPort(k)
    BY SystemElim
  <1>2. PICK kc : kc = Cleared(k, c)
    BY Zenon
  <1>3. Port!Cleared(k, c) = kc
    BY <1>2, KernelOfPort, Zenon
  <1>4. /\ IsPortSystem(kc, CB)
        /\ SameBut(k, kc, c)
        /\ kc.ctx[c].len = k.ctx[c].len
        /\ kc.ctx[c].status = 0
        /\ kc.socks = k.socks
        /\ kc.ops = k.ops
    BY <1>2, ClearedType
  <1>5. r \in Port!AsyncConnect(k, c)
    BY <1>1, Zenon DEF AsyncConnect
  <1>6. \/ r = [sys |-> Started(kc, c, "connect", 0), ok |-> TRUE]
        \/ \E k1 : /\ r = [sys |-> k1, ok |-> FALSE]
                   /\ k1 = [k EXCEPT !.faults = @ - 1] \/ k1 = [kc EXCEPT !.faults = @ - 1]
    <2>1. Port!Started(kc, c, "connect", 0) = Started(kc, c, "connect", 0)
      BY Zenon DEF Port!Started, Started
    <2>2. /\ Port!Faulty(k) \subseteq {[k EXCEPT !.faults = @ - 1]}
          /\ Port!Faulty(kc) \subseteq {[kc EXCEPT !.faults = @ - 1]}
      BY Zenon DEF Port!Faulty, Port!When
    <2> QED
      BY <1>3, <1>5, <2>1, <2>2, Zenon DEF Port!AsyncConnect
  <1>7. PICK k1 : k1 = r.sys
    BY Zenon
  <1>8. CASE r = [sys |-> Started(kc, c, "connect", 0), ok |-> TRUE]
    <2>1. k1 = Started(kc, c, "connect", 0) /\ r.ok
      BY <1>7, <1>8
    <2>2. c \in DOMAIN kc.ctx
      BY <1>4 DEF SameBut
    <2>3. PICK sock \in Nat : sock = 0
      OBVIOUS
    <2>4. /\ IsPortSystem(k1, CB)
          /\ SameBut(kc, k1, c)
          /\ k1.ctx[c].status = kc.ctx[c].status
          /\ k1.socks = kc.socks
          /\ k1.ops = kc.ops \cup {Operation(kc, c, "connect", sock)}
      BY <1>4, <2>1, <2>2, <2>3, StartedType
    <2>5. Operation(kc, c, "connect", sock) = Operation(k, c, "connect", 0)
      BY <1>4, <2>3 DEF Operation, SameBut
    <2> QED
      BY <1>4, <1>7, <2>1, <2>4, <2>5 DEF SameBut
  <1>9. CASE \E k2 : /\ r = [sys |-> k2, ok |-> FALSE]
                     /\ k2 = [k EXCEPT !.faults = @ - 1] \/ k2 = [kc EXCEPT !.faults = @ - 1]
    <2>1. ~r.ok /\ (k1 = [k EXCEPT !.faults = @ - 1] \/ k1 = [kc EXCEPT !.faults = @ - 1])
      BY <1>7, <1>9
    <2>2. CASE k1 = [k EXCEPT !.faults = @ - 1]
      <3>1. /\ IsPortSystem(k1, CB)
            /\ k1.ctx = k.ctx /\ k1.ops = k.ops /\ k1.port = k.port /\ k1.socks = k.socks
        BY <2>2, FaultyType
      <3> QED
        BY <1>7, <2>1, <3>1 DEF SameBut
    <2>3. CASE k1 = [kc EXCEPT !.faults = @ - 1]
      <3>1. /\ IsPortSystem(k1, CB)
            /\ k1.ctx = kc.ctx /\ k1.ops = kc.ops /\ k1.port = kc.port /\ k1.socks = kc.socks
        BY <1>4, <2>3, FaultyType
      <3> QED
        BY <1>4, <1>7, <2>1, <3>1 DEF SameBut
    <2> QED
      BY <2>1, <2>2, <2>3
  <1> QED
    BY <1>6, <1>8, <1>9

\* Operations that are cancelled, or orphaned, are the ones they were.
LEMMA AbortType ==
  ASSUME NEW ops \in SUBSET OperationType, NEW h
  PROVE  /\ Abort(ops, h) \in SUBSET OperationType
         /\ \A op1 \in Abort(ops, h) : \E op \in ops :
              /\ op1.ctx = op.ctx /\ op1.fd = op.fd /\ op1.kind = op.kind /\ op1.sock = op.sock
              /\ op.aborted => op1.aborted
              /\ op1 = IF op.fd = h THEN [op EXCEPT !.aborted = TRUE] ELSE op
              /\ op1.orphan = op.orphan
              /\ op.fd = h => op1.aborted
  BY DEF Abort, OperationType

\* Cancelling a second time changes nothing.
LEMMA AbortTwice ==
  ASSUME NEW ops \in SUBSET OperationType, NEW h
  PROVE  Abort(Abort(ops, h), h) = Abort(ops, h)
  <1>1. Abort(ops, h) \in SUBSET OperationType /\ \A op \in Abort(ops, h) : op.fd = h => op.aborted
    <2>1. \A op1 \in Abort(ops, h) : \E op \in ops : op1.fd = op.fd /\ (op.fd = h => op1.aborted)
      BY AbortType
    <2> QED
      BY <2>1, AbortType
  <1> DEFINE o == Abort(ops, h)
  <1>2. o \in SUBSET OperationType /\ \A op \in o : op.fd = h => op.aborted
    BY <1>1
  <1> HIDE DEF o
  <1>3. \A op \in o : op.fd = h => [op EXCEPT !.aborted = TRUE] = op
    BY <1>2 DEF OperationType
  <1>4. \A op \in o : (IF op.fd = h THEN [op EXCEPT !.aborted = TRUE] ELSE op) = op
    BY <1>3, Zenon
  <1>5. Abort(o, h) = o
    BY <1>4 DEF Abort
  <1> QED
    BY <1>5 DEF o

\* Nothing is orphaned when no operation uses the context.
LEMMA OrphanNone ==
  ASSUME NEW ops, NEW c, \A op \in ops : op.ctx # c
  PROVE  Orphan(ops, c) = ops
  BY DEF Orphan

\* CancelIoEx cancels,
LEMMA CancelType ==
  ASSUME NEW CB, NEW k, IsPortSystem(k, CB), NEW h, NEW k1, k1 = CancelIoEx(k, h)
  PROVE  /\ IsPortSystem(k1, CB)
         /\ k1.ops = Abort(k.ops, h)
         /\ k1.ctx = k.ctx /\ k1.port = k.port /\ k1.socks = k.socks
  <1>1. Abort(k.ops, h) \in SUBSET OperationType
    BY SystemElim, AbortType
  <1>2. k1 = [k EXCEPT !.ops = Abort(k.ops, h)]
    BY Zenon DEF CancelIoEx
  <1> QED
    BY <1>1, <1>2, PutOps

\* closesocket cancels and closes,
LEMMA CloseType ==
  ASSUME NEW CB, NEW k, IsPortSystem(k, CB), NEW h, NEW k1, k1 = closesocket(k, h)
  PROVE  /\ IsPortSystem(k1, CB)
         /\ k1.ops = Abort(k.ops, h)
         /\ k1.socks = Without(k.socks, h)
         /\ k1.ctx = k.ctx /\ k1.port = k.port
  <1>1. PICK k0 : k0 = CancelIoEx(k, h)
    BY Zenon
  <1>2. /\ IsPortSystem(k0, CB)
        /\ k0.ops = Abort(k.ops, h)
        /\ k0.ctx = k.ctx /\ k0.port = k.port /\ k0.socks = k.socks
    BY <1>1, CancelType
  <1>3. k1 = [k0 EXCEPT !.socks = Without(k0.socks, h)]
    BY <1>1, Zenon DEF closesocket, CancelIoEx
  <1> DEFINE E == DOMAIN k.socks \ {h}
  <1>4. E \in SUBSET Nat /\ IsFiniteSet(E) /\ Without(k0.socks, h) \in [E -> SocketType]
    BY <1>2, SystemElim, FS_Subset DEF Without
  <1> HIDE DEF E
  <1> QED
    BY <1>2, <1>3, <1>4, PutSocks

\* and a context that no operation uses is deleted.
LEMMA DeleteType ==
  ASSUME NEW CB, NEW k, IsPortSystem(k, CB), NEW c, \A op \in k.ops : op.ctx # c,
         NEW k1, k1 = Delete(k, c)
  PROVE  /\ IsPortSystem(k1, CB)
         /\ k1.ctx = Without(k.ctx, c)
         /\ k1.ops = k.ops /\ k1.port = k.port /\ k1.socks = k.socks
  <1>1. PICK k0 : k0 = [k EXCEPT !.ctx = Without(k.ctx, c)]
    BY Zenon
  <1>2. k1 = [k0 EXCEPT !.ops = Orphan(k0.ops, c)]
    BY <1>1, Zenon DEF Delete
  <1> DEFINE D == DOMAIN k.ctx \ {c}
  <1>3. D \in SUBSET Nat /\ IsFiniteSet(D) /\ Without(k.ctx, c) \in [D -> ContextType(CB)]
    BY SystemElim, FS_Subset DEF Without
  <1> HIDE DEF D
  <1>4. /\ IsPortSystem(k0, CB)
        /\ k0.ctx = Without(k.ctx, c)
        /\ k0.ops = k.ops /\ k0.port = k.port /\ k0.socks = k.socks
    BY <1>1, <1>3, PutContexts
  <1>5. k1 = [k0 EXCEPT !.ops = k.ops] /\ k.ops \in SUBSET OperationType
    BY <1>2, <1>4, OrphanNone, SystemElim
  <1> QED
    BY <1>4, <1>5, PutOps

\* The context is marked, its socket cancelled; it stays.
LEMMA PortMark ==
  ASSUME NEW CB, NEW k, IsPortSystem(k, CB), NEW c \in DOMAIN k.ctx,
         NEW k1, k1 = FreeOverlapCtx(SetLazyDelete(k, c), c)
  PROVE  /\ IsPortSystem(k1, CB)
         /\ DOMAIN k1.ctx = DOMAIN k.ctx
         /\ \A d \in DOMAIN k.ctx \ {c} : k1.ctx[d] = k.ctx[d]
         /\ FLAG_LAZY_DELETE \subseteq k1.ctx[c].flags
         /\ k1.ctx[c].cb = k.ctx[c].cb /\ k1.ctx[c].status = k.ctx[c].status
         /\ k1.ops = Abort(k.ops, k.ctx[c].fd)
         /\ k1.port = k.port /\ k1.socks = k.socks
  <1>1. PICK ka : ka = SetLazyDelete(k, c)
    BY Zenon
  <1>2. k.ctx[c] \in ContextType(CB)
    BY SystemElim
  <1> DEFINE fl == k.ctx[c].flags \cup {0, 1}
  <1>3. ka = [k EXCEPT !.ctx[c].flags = fl]
    BY <1>1, Zenon DEF SetLazyDelete, FLAG_LAZY_DELETE
  <1>4. fl \in FlagSets /\ 0 \in fl /\ 1 \in fl
    BY <1>2 DEF ContextType, FlagSets
  <1> HIDE DEF fl
  <1>5. Updated(k, ka, c, CB) /\ ka.ctx[c] = [k.ctx[c] EXCEPT !.flags = fl]
    BY <1>3, <1>4, Set_flags
  <1>6. /\ ka.ctx[c].flags = fl /\ ka.ctx[c].fd = k.ctx[c].fd
        /\ ka.ctx[c].cb = k.ctx[c].cb /\ ka.ctx[c].status = k.ctx[c].status
    BY <1>2, <1>5 DEF ContextType
  <1>7. IsPortSystem(ka, CB) /\ OnPort(ka) /\ c \in DOMAIN ka.ctx
    BY <1>5, SystemElim DEF Updated, OnlyCtx
  <1>8. PICK kb : kb = CancelIoEx(ka, ka.ctx[c].fd)
    BY Zenon
  <1>9. /\ IsPortSystem(kb, CB)
        /\ kb.ops = Abort(k.ops, k.ctx[c].fd)
        /\ kb.ctx = ka.ctx /\ kb.port = k.port /\ kb.socks = k.socks
    BY <1>5, <1>6, <1>7, <1>8, CancelType DEF Updated, OnlyCtx
  <1>10. k1 = [kb EXCEPT !.ctx[c].fd = -1]
    <2>1. /\ Port!HasFlag(ka.ctx[c].flags, Port!FLAG_CANCEL_IO)
          /\ Port!HasFlag(ka.ctx[c].flags, Port!FLAG_LAZY_DELETE)
      BY <1>4, <1>6 DEF Port!HasFlag, Port!FLAG_CANCEL_IO, Port!FLAG_LAZY_DELETE
    <2>2. Port!CancelIoEx(ka, ka.ctx[c].fd) = kb
      BY <1>8, Zenon DEF Port!CancelIoEx, CancelIoEx, Port!Abort, Abort
    <2>3. FreeOverlapCtx(ka, c) = Port!FreeOverlapCtx(ka, c)
      BY <1>7, Zenon DEF FreeOverlapCtx
    <2>4. Port!FreeOverlapCtx(ka, c) = [kb EXCEPT !.ctx[c].fd = Port!INVALID_SOCKET]
      BY <2>1, <2>2, Zenon DEF Port!FreeOverlapCtx
    <2> QED
      BY <1>1, <2>3, <2>4, Zenon DEF Port!INVALID_SOCKET
  <1>11. Updated(kb, k1, c, CB) /\ k1.ctx[c] = [kb.ctx[c] EXCEPT !.fd = -1]
    <2>1. PICK n \in Int : n = -1
      OBVIOUS
    <2>2. k1 = [kb EXCEPT !.ctx[c].fd = n] /\ c \in DOMAIN kb.ctx
      BY <1>7, <1>9, <1>10, <2>1, Zenon
    <2>3. Updated(kb, k1, c, CB) /\ k1.ctx[c] = [kb.ctx[c] EXCEPT !.fd = n]
      BY <1>9, <2>2, Set_fd
    <2> QED
      BY <2>1, <2>3, Zenon
  <1>12. kb.ctx[c] \in ContextType(CB)
    BY <1>7, <1>9, SystemElim
  <1>13. /\ k1.ctx[c].flags = fl
         /\ k1.ctx[c].cb = k.ctx[c].cb /\ k1.ctx[c].status = k.ctx[c].status
    BY <1>6, <1>9, <1>11, <1>12 DEF ContextType
  <1> QED
    BY <1>4, <1>5, <1>9, <1>11, <1>13 DEF Updated, OnlyCtx, FLAG_LAZY_DELETE

\* A marked context is deleted after its callback.
LEMMA PortAfterMarked ==
  ASSUME NEW CB, NEW k, IsPortSystem(k, CB), NEW c \in DOMAIN k.ctx,
         FLAG_LAZY_DELETE \subseteq k.ctx[c].flags
  PROVE  AfterCallback(k, c) = Delete(k, c)
  <1>1. OnPort(k)
    BY SystemElim
  <1>2. Port!HasFlag(k.ctx[c].flags, Port!FLAG_LAZY_DELETE)
    BY DEF Port!HasFlag, Port!FLAG_LAZY_DELETE, FLAG_LAZY_DELETE
  <1>3. Port!Delete(k, c) = Delete(k, c)
    BY KernelOfPort
  <1> QED
    BY <1>1, <1>2, <1>3, Zenon DEF AfterCallback, Port!AfterCallback

\* Close and AfterCallback on the context of the callback: marked, its socket
\* cancelled, and deleted.
LEMMA PortFree ==
  ASSUME NEW CB, NEW k, IsPortSystem(k, CB), NEW c \in DOMAIN k.ctx, \A op \in k.ops : op.ctx # c,
         NEW k1, k1 = AfterCallback(FreeOverlapCtx(SetLazyDelete(k, c), c), c)
  PROVE  /\ IsPortSystem(k1, CB)
         /\ k1.ctx = Without(k.ctx, c)
         /\ k1.ops = Abort(k.ops, k.ctx[c].fd)
         /\ k1.port = k.port /\ k1.socks = k.socks
  <1>1. PICK kd : kd = FreeOverlapCtx(SetLazyDelete(k, c), c)
    BY Zenon
  <1>2. /\ IsPortSystem(kd, CB)
        /\ DOMAIN kd.ctx = DOMAIN k.ctx
        /\ \A d \in DOMAIN k.ctx \ {c} : kd.ctx[d] = k.ctx[d]
        /\ FLAG_LAZY_DELETE \subseteq kd.ctx[c].flags
        /\ kd.ops = Abort(k.ops, k.ctx[c].fd)
        /\ kd.port = k.port /\ kd.socks = k.socks
    BY <1>1, PortMark
  <1>3. \A op \in kd.ops : op.ctx # c
    <2>1. k.ops \in SUBSET OperationType
      BY SystemElim
    <2>2. \A op1 \in Abort(k.ops, k.ctx[c].fd) : \E op \in k.ops : op1.ctx = op.ctx
      BY <2>1, AbortType
    <2> QED
      BY <1>2, <2>2, Zenon
  <1>4. k1 = Delete(kd, c)
    <2>1. AfterCallback(kd, c) = Delete(kd, c)
      BY <1>2, PortAfterMarked
    <2> QED
      BY <1>1, <2>1, Zenon
  <1>5. /\ IsPortSystem(k1, CB)
        /\ k1.ctx = Without(kd.ctx, c)
        /\ k1.ops = kd.ops /\ k1.port = kd.port /\ k1.socks = kd.socks
    BY <1>2, <1>3, <1>4, DeleteType
  <1>6. Without(kd.ctx, c) = Without(k.ctx, c)
    BY <1>2 DEF Without
  <1> QED
    BY <1>2, <1>5, <1>6

\* A context that is not marked is deleted at once.
LEMMA PortFreeUnmarked ==
  ASSUME NEW CB, NEW k, IsPortSystem(k, CB), NEW c \in DOMAIN k.ctx, \A op \in k.ops : op.ctx # c,
         k.ctx[c].flags = {}, NEW k1, k1 = FreeOverlapCtx(k, c)
  PROVE  /\ IsPortSystem(k1, CB)
         /\ k1.ctx = Without(k.ctx, c)
         /\ k1.ops = k.ops /\ k1.port = k.port /\ k1.socks = k.socks
  <1>1. PICK kd : kd = [k EXCEPT !.ctx[c].fd = -1]
    BY Zenon
  <1>2. Updated(k, kd, c, CB)
    <2>1. PICK n \in Int : n = -1
      OBVIOUS
    <2>2. kd = [k EXCEPT !.ctx[c].fd = n]
      BY <1>1, <2>1, Zenon
    <2> QED
      BY <2>2, Set_fd
  <1>3. k1 = Delete(kd, c)
    <2>1. OnPort(k)
      BY SystemElim
    <2>2. /\ ~Port!HasFlag(k.ctx[c].flags, Port!FLAG_CANCEL_IO)
          /\ ~Port!HasFlag(k.ctx[c].flags, Port!FLAG_LAZY_DELETE)
      BY DEF Port!HasFlag
    <2>3. Port!Delete(kd, c) = Delete(kd, c)
      BY KernelOfPort
    <2>4. FreeOverlapCtx(k, c) = Port!FreeOverlapCtx(k, c)
      BY <2>1, Zenon DEF FreeOverlapCtx
    <2>5. Port!FreeOverlapCtx(k, c) = Port!Delete(kd, c)
      BY <1>1, <2>2, Zenon DEF Port!FreeOverlapCtx, Port!INVALID_SOCKET
    <2> QED
      BY <2>3, <2>4, <2>5, Zenon
  <1>4. /\ IsPortSystem(k1, CB)
        /\ k1.ctx = Without(kd.ctx, c)
        /\ k1.ops = kd.ops /\ k1.port = kd.port /\ k1.socks = kd.socks
    <2>1. IsPortSystem(kd, CB) /\ kd.ops = k.ops
      BY <1>2 DEF Updated, OnlyCtx
    <2> QED
      BY <1>3, <2>1, DeleteType
  <1>5. Without(kd.ctx, c) = Without(k.ctx, c)
    BY <1>2 DEF Without, Updated, OnlyCtx
  <1> QED
    BY <1>2, <1>4, <1>5 DEF Updated, OnlyCtx

\* A context that is not marked is left as it is.
LEMMA PortAfter ==
  ASSUME NEW CB, NEW k, IsPortSystem(k, CB), NEW c \in DOMAIN k.ctx, k.ctx[c].flags = {}
  PROVE  AfterCallback(k, c) = k
  <1>1. OnPort(k)
    BY SystemElim
  <1>2. ~Port!HasFlag(k.ctx[c].flags, Port!FLAG_LAZY_DELETE)
    BY DEF Port!HasFlag, Port!FLAG_LAZY_DELETE
  <1> QED
    BY <1>1, <1>2, Zenon DEF AfterCallback, Port!AfterCallback

\* Run takes the first packet.
LEMMA PortDequeue ==
  ASSUME NEW CB, NEW k, IsPortSystem(k, CB), NEW d \in Dequeue(k)
  PROVE  /\ k.port # <<>>
         /\ IsPortSystem(d.sys, CB)
         /\ d.ctx = k.port[1].ctx /\ d.ok = k.port[1].ok
         /\ d.sys.port = Tail(k.port)
         /\ d.sys.ctx = k.ctx /\ d.sys.ops = k.ops /\ d.sys.socks = k.socks
  <1>1. OnPort(k) /\ k.port \in Seq(PacketType)
    BY SystemElim DEF Packets
  <1>2. d \in Port!Dequeue(k)
    BY <1>1, Zenon DEF Dequeue
  <1>3. PICK q : q = Tail(k.port)
    BY Zenon
  <1>4. PICK k1 : k1 = [k EXCEPT !.port = q]
    BY Zenon
  <1>5. k.port # <<>> /\ d = [sys |-> k1, ctx |-> Head(k.port).ctx, ok |-> Head(k.port).ok]
    BY <1>2, <1>3, <1>4 DEF Port!Dequeue
  <1>6. q \in Packets /\ Head(k.port) = k.port[1]
    BY <1>1, <1>3, <1>5 DEF Packets
  <1>7. /\ IsPortSystem(k1, CB)
        /\ k1.port = q
        /\ k1.ctx = k.ctx /\ k1.ops = k.ops /\ k1.socks = k.socks
    BY <1>6, <1>4, PutPort
  <1> QED
    BY <1>3, <1>5, <1>6, <1>7

\* A new context, and its callback.
LEMMA AllocType ==
  ASSUME NEW CB, NULL \in CB, NEW k, IsPortSystem(k, CB), NEW c \in Nat \ DOMAIN k.ctx,
         NEW fd \in Int, NEW k1, k1 = Alloc(k, c, fd)
  PROVE  /\ IsPortSystem(k1, CB)
         /\ DOMAIN k1.ctx = DOMAIN k.ctx \cup {c}
         /\ \A d \in DOMAIN k.ctx : k1.ctx[d] = k.ctx[d]
         /\ k1.ctx[c] = NewContext(fd)
         /\ k1.ops = k.ops /\ k1.port = k.port /\ k1.socks = k.socks
  <1>1. NewContext(fd) \in ContextType(CB)
    BY DEF NewContext, ContextType, FlagSets
  <1>2. PICK x \in ContextType(CB) : x = NewContext(fd)
    BY <1>1
  <1>3. PICK D : D = DOMAIN k.ctx \cup {c}
    OBVIOUS
  <1>4. PICK t : t = With(k.ctx, c, x)
    OBVIOUS
  <1>5. /\ D \in SUBSET Nat /\ IsFiniteSet(D)
        /\ t \in [D -> ContextType(CB)]
        /\ t[c] = x /\ \A d \in DOMAIN k.ctx : t[d] = k.ctx[d]
    BY <1>3, <1>4, SystemElim, FS_AddElement DEF With
  <1>6. k1 = [k EXCEPT !.ctx = t]
    BY <1>2, <1>4, Zenon DEF Alloc
  <1>7. /\ IsPortSystem(k1, CB)
        /\ k1.ctx = t
        /\ k1.ops = k.ops /\ k1.port = k.port /\ k1.socks = k.socks
    BY <1>5, <1>6, PutContexts
  <1> QED
    BY <1>2, <1>3, <1>5, <1>7

\* k1 is k with a new context c for fd, of callback b.
Adds(k, k1, c, fd, b) ==
  /\ DOMAIN k1.ctx = DOMAIN k.ctx \cup {c}
  /\ \A d \in DOMAIN k.ctx : k1.ctx[d] = k.ctx[d]
  /\ k1.ctx[c].fd = fd /\ k1.ctx[c].flags = {} /\ k1.ctx[c].cb = b
  /\ k1.ctx[c].status = 0 /\ k1.ctx[c].udata = 0
  /\ k1.ops = k.ops /\ k1.port = k.port /\ k1.socks = k.socks

\* A new context gets its length and its callback.
LEMMA AllocCb ==
  ASSUME NEW CB, NULL \in CB, NEW k, IsPortSystem(k, CB), NEW c \in Nat \ DOMAIN k.ctx,
         NEW fd \in Int, NEW len \in Int, NEW b \in CB, NEW ka, ka = Alloc(k, c, fd),
         NEW kx, kx = ka \/ kx = [ka EXCEPT !.ctx[c].len = len],
         NEW k1, k1 = [kx EXCEPT !.ctx[c].cb = b]
  PROVE  IsPortSystem(k1, CB) /\ Adds(k, k1, c, fd, b)
  <1>1. /\ IsPortSystem(ka, CB)
        /\ DOMAIN ka.ctx = DOMAIN k.ctx \cup {c}
        /\ \A d \in DOMAIN k.ctx : ka.ctx[d] = k.ctx[d]
        /\ ka.ctx[c] = NewContext(fd)
        /\ ka.ops = k.ops /\ ka.port = k.port /\ ka.socks = k.socks
    BY AllocType
  <1>2. c \in DOMAIN ka.ctx
    BY <1>1
  <1>3. ka.ctx[c] \in ContextType(CB)
    BY <1>1, <1>2, SystemElim
  <1>4. /\ IsPortSystem(kx, CB) /\ c \in DOMAIN kx.ctx
        /\ kx.ops = k.ops /\ kx.port = k.port /\ kx.socks = k.socks
        /\ DOMAIN kx.ctx = DOMAIN k.ctx \cup {c}
        /\ \A d \in DOMAIN k.ctx : kx.ctx[d] = k.ctx[d]
        /\ kx.ctx[c].fd = fd /\ kx.ctx[c].flags = {}
        /\ kx.ctx[c].status = 0 /\ kx.ctx[c].udata = 0
    <2>1. CASE kx = ka
      BY <1>1, <1>2, <2>1 DEF NewContext
    <2>2. CASE kx = [ka EXCEPT !.ctx[c].len = len]
      <3>1. Updated(ka, kx, c, CB) /\ kx.ctx[c] = [ka.ctx[c] EXCEPT !.len = len]
        BY <1>1, <1>2, <2>2, Set_len
      <3>2. LET y == [ka.ctx[c] EXCEPT !.len = len]
            IN  y.fd = fd /\ y.flags = {} /\ y.status = 0 /\ y.udata = 0
        BY <1>1, <1>3 DEF ContextType, NewContext
      <3> QED
        BY <1>1, <1>2, <3>1, <3>2, Zenon DEF Updated, OnlyCtx
    <2> QED
      BY <2>1, <2>2
  <1>5. Updated(kx, k1, c, CB) /\ k1.ctx[c] = [kx.ctx[c] EXCEPT !.cb = b]
    BY <1>4, Set_cb
  <1>6. kx.ctx[c] \in ContextType(CB)
    BY <1>4, SystemElim
  <1>7. LET y == [kx.ctx[c] EXCEPT !.cb = b]
        IN  y.fd = fd /\ y.flags = {} /\ y.cb = b /\ y.status = 0 /\ y.udata = 0
    BY <1>4, <1>6 DEF ContextType
  <1> QED
    BY <1>4, <1>5, <1>7, Zenon DEF Updated, OnlyCtx, Adds

\* What the end of op does, with some status, but for the sockets.
Finishes(k, k1, op, status) ==
  /\ DOMAIN k1.ctx = DOMAIN k.ctx
  /\ \A d \in DOMAIN k.ctx \ {op.ctx} : k1.ctx[d] = k.ctx[d]
  /\ k1.ctx[op.ctx].fd = k.ctx[op.ctx].fd
  /\ k1.ctx[op.ctx].flags = k.ctx[op.ctx].flags
  /\ k1.ctx[op.ctx].cb = k.ctx[op.ctx].cb
  /\ k1.ctx[op.ctx].udata = k.ctx[op.ctx].udata
  /\ k1.ctx[op.ctx].status = status
  /\ k1.ops = k.ops \ {op}
  /\ k1.port = Append(k.port, [ctx |-> op.ctx, ok |-> status = 0])

\* An operation that ends leaves its result and a packet.
LEMMA EndedType ==
  ASSUME NEW CB, NEW k, IsPortSystem(k, CB), NEW op \in k.ops, op.ctx \in DOMAIN k.ctx,
         NEW status \in Int, NEW bytes \in Int, NEW k1, k1 = Ended(k, op, status, bytes)
  PROVE  /\ IsPortSystem(k1, CB)
         /\ k1.socks = k.socks
         /\ Finishes(k, k1, op, status)
  <1>1. PICK c : c = op.ctx
    BY Zenon
  <1>2. PICK o : o = k.ops \ {op}
    BY Zenon
  <1>3. PICK ka : ka = [k EXCEPT !.ops = o]
    BY Zenon
  <1>4. PICK kb : kb = [ka EXCEPT !.ctx[c].status = status]
    BY Zenon
  <1>5. PICK kc : kc = [kb EXCEPT !.ctx[c].bytes = bytes]
    BY Zenon
  <1>6. o \in SUBSET OperationType
    BY <1>2, SystemElim
  <1>7. /\ IsPortSystem(ka, CB)
        /\ ka.ops = o
        /\ ka.ctx = k.ctx /\ ka.port = k.port /\ ka.socks = k.socks
    BY <1>3, <1>6, PutOps
  <1>8. c \in DOMAIN ka.ctx
    BY <1>1, <1>7
  <1>9. Updated(ka, kb, c, CB) /\ kb.ctx[c] = [ka.ctx[c] EXCEPT !.status = status]
    BY <1>4, <1>7, <1>8, Set_status
  <1>10. IsPortSystem(kb, CB) /\ c \in DOMAIN kb.ctx
    BY <1>8, <1>9 DEF Updated, OnlyCtx
  <1>11. Updated(kb, kc, c, CB) /\ kc.ctx[c] = [kb.ctx[c] EXCEPT !.bytes = bytes]
    BY <1>5, <1>10, Set_bytes
  <1>12. IsPortSystem(kc, CB) /\ OnPort(kc)
    BY <1>11, SystemElim DEF Updated
  <1>13. PICK q : q = Append(kc.port, [ctx |-> op.ctx, ok |-> status = 0])
    BY Zenon
  <1>14. k1 = [kc EXCEPT !.port = q]
    <2>1. kc = Finished(k, op, status, bytes)
      <3>1. ka = [k EXCEPT !.ops = k.ops \ {op}]
        BY <1>2, <1>3, Zenon
      <3>2. kb = [ka EXCEPT !.ctx[op.ctx].status = status]
        BY <1>1, <1>4, Zenon
      <3>3. kc = [kb EXCEPT !.ctx[op.ctx].bytes = bytes]
        BY <1>1, <1>5, Zenon
      <3> QED
        BY <3>1, <3>2, <3>3, Zenon DEF Finished
    <2>2. OnPort(k)
      BY SystemElim
    <2> QED
      BY <1>13, <2>1, <2>2, Zenon DEF Ended
  <1>15. q \in Packets
    <2>1. kc.port \in Packets
      BY <1>12, SystemElim
    <2>2. c \in Nat
      BY <1>1, SystemElim
    <2> QED
      BY <1>1, <1>13, <2>1, <2>2 DEF Packets, PacketType
  <1>16. /\ IsPortSystem(k1, CB)
         /\ k1.port = q
         /\ k1.ctx = kc.ctx /\ k1.ops = kc.ops /\ k1.socks = kc.socks
    BY <1>12, <1>14, <1>15, PutPort
  <1>17. LET x == k.ctx[c]
             y == [x EXCEPT !.status = status]
             z == [y EXCEPT !.bytes = bytes]
         IN  /\ z.fd = x.fd /\ z.flags = x.flags /\ z.cb = x.cb /\ z.udata = x.udata
             /\ z.status = status
    <2>1. k.ctx[c] \in ContextType(CB)
      BY <1>1, SystemElim
    <2> QED
      BY <2>1 DEF ContextType
  <1>18. /\ kc.port = k.port /\ kc.ops = o /\ kc.socks = k.socks
         /\ DOMAIN kc.ctx = DOMAIN k.ctx
         /\ \A d \in DOMAIN k.ctx \ {c} : kc.ctx[d] = k.ctx[d]
         /\ kc.ctx[c] = [[k.ctx[c] EXCEPT !.status = status] EXCEPT !.bytes = bytes]
    BY <1>7, <1>9, <1>11, Zenon DEF Updated, OnlyCtx
  <1> QED
    BY <1>1, <1>2, <1>13, <1>16, <1>17, <1>18, Zenon DEF Finishes

\* A new socket.
LEMMA NewSocketType ==
  ASSUME NEW CB, NEW k, IsPortSystem(k, CB), NEW kind \in {"idle", "listen", "conn"},
         NEW k1, k1 = Socket(k, kind)
  PROVE  /\ IsPortSystem(k1, CB)
         /\ FreshHandle(k) \in Nat \ DOMAIN k.socks
         /\ FreshHandle(k) # 0
         /\ k1.socks = With(k.socks, FreshHandle(k), NewSocket(kind))
         /\ k1.ctx = k.ctx /\ k1.ops = k.ops /\ k1.port = k.port
  <1>1. FreshHandle(k) \in Nat \ DOMAIN k.socks /\ FreshHandle(k) # 0
    BY LeastFreeFacts, SystemElim DEF FreshHandle
  <1>2. PICK h : h = FreshHandle(k)
    BY Zenon
  <1>3. PICK E : E = DOMAIN k.socks \cup {h}
    BY Zenon
  <1>4. PICK v : v = With(k.socks, h, NewSocket(kind))
    BY Zenon
  <1>5. E \in SUBSET Nat /\ IsFiniteSet(E)
    BY <1>1, <1>2, <1>3, SystemElim, FS_AddElement
  <1>6. v \in [E -> SocketType]
    <2>1. NewSocket(kind) \in SocketType
      BY DEF NewSocket, SocketType
    <2>2. k.socks \in [DOMAIN k.socks -> SocketType]
      BY SystemElim
    <2> QED
      BY <1>3, <1>4, <2>1, <2>2 DEF With
  <1>7. k1 = [k EXCEPT !.socks = v]
    BY <1>2, <1>4, Zenon DEF Socket
  <1>8. /\ IsPortSystem(k1, CB)
        /\ k1.socks = v
        /\ k1.ctx = k.ctx /\ k1.ops = k.ops /\ k1.port = k.port
    BY <1>5, <1>6, <1>7, PutSocks
  <1> QED
    BY <1>1, <1>2, <1>4, <1>8

\* AllocOverlapCtx that fails leaves the system as it was, but for a fault.
LEMMA PortAllocNone ==
  ASSUME NEW CB, NEW k, IsPortSystem(k, CB), NEW fd, NEW flags,
         NEW a \in AllocOverlapCtx(k, fd, flags), a.ctx = NULL
  PROVE  /\ IsPortSystem(a.sys, CB)
         /\ a.sys.ctx = k.ctx /\ a.sys.ops = k.ops /\ a.sys.port = k.port /\ a.sys.socks = k.socks
  <1>1. \/ /\ a.ctx \in Nat \ DOMAIN k.ctx
           /\ a.sys = Alloc(k, a.ctx, fd)
           /\ HasFlag(flags, FLAG_ASSOCIATE) => IsSocket(k, fd)
        \/ /\ a.ctx = NULL
           /\ HasFlag(flags, FLAG_ASSOCIATE)
           /\ a.sys = k \/ a.sys = [k EXCEPT !.faults = @ - 1]
    BY PortAlloc
  <1>2. PICK k1 : k1 = a.sys
    BY Zenon
  <1>3. k1 = k \/ k1 = [k EXCEPT !.faults = @ - 1]
    BY <1>1, <1>2, KernelAssumption
  <1>4. /\ IsPortSystem(k1, CB)
        /\ k1.ctx = k.ctx /\ k1.ops = k.ops /\ k1.port = k.port /\ k1.socks = k.socks
    <2>1. CASE k1 = k
      BY <2>1
    <2>2. CASE k1 = [k EXCEPT !.faults = @ - 1]
      BY <2>2, FaultyType
    <2> QED
      BY <1>3, <2>1, <2>2
  <1> QED
    BY <1>2, <1>4, Zenon

\* AsyncAccept fails early, fails with its socket closed, or waits on a new one.
LEMMA PortAccept ==
  ASSUME NEW CB, NEW k, IsPortSystem(k, CB), NEW c \in DOMAIN k.ctx, NEW k1 \in AsyncAccept(k, c)
  PROVE  /\ IsPortSystem(k1, CB)
         /\ SameBut(k, k1, c)
         /\ \/ /\ k1.ctx[c].udata = k.ctx[c].udata
               /\ k1.ctx[c].status = k.ctx[c].status
               /\ k1.ops = k.ops
               /\ k1.socks = k.socks
            \/ \E h \in Nat \ DOMAIN k.socks :
                 /\ h # 0
                 /\ k1.ctx[c].udata = h
                 /\ k1.ctx[c].status = 0
                 /\ \/ k1.ops = Abort(k.ops, h) /\ k1.socks = k.socks
                    \/ /\ k1.ops = k.ops \cup {Operation(k, c, "accept", h)}
                       /\ IsSocket(k1, k.ctx[c].fd)
                       /\ k1.socks = With(k.socks, h, NewSocket("idle"))
  <1>1. OnPort(k)
    BY SystemElim
  <1>2. PICK h : h = FreshHandle(k)
    BY Zenon
  <1>3. PICK kS : kS = Socket(k, "idle")
    BY Zenon
  <1>4. PICK kC : kC = Cleared(kS, c)
    BY Zenon
  <1>5. PICK kU : kU = [kC EXCEPT !.ctx[c].udata = h]
    BY Zenon
  <1>6. PICK kF : kF = closesocket(kU, h)
    BY Zenon
  <1>7. /\ IsPortSystem(kS, CB)
        /\ h \in Nat \ DOMAIN k.socks /\ h # 0
        /\ kS.socks = With(k.socks, h, NewSocket("idle"))
        /\ kS.ctx = k.ctx /\ kS.ops = k.ops /\ kS.port = k.port
    BY <1>2, <1>3, NewSocketType
  <1>8. c \in DOMAIN kS.ctx
    BY <1>7
  <1>9. /\ IsPortSystem(kC, CB)
        /\ SameBut(kS, kC, c)
        /\ kC.ctx[c].len = kS.ctx[c].len
        /\ kC.ctx[c].status = 0
        /\ kC.socks = kS.socks
        /\ kC.ops = kS.ops
    BY <1>4, <1>7, <1>8, ClearedType
  <1>10. c \in DOMAIN kC.ctx
    BY <1>8, <1>9 DEF SameBut
  <1>11. Updated(kC, kU, c, CB) /\ kU.ctx[c] = [kC.ctx[c] EXCEPT !.udata = h]
    BY <1>5, <1>7, <1>9, <1>10, Set_udata
  <1>12. LET x == kC.ctx[c]
             y == [x EXCEPT !.udata = h]
         IN  /\ y.fd = x.fd /\ y.flags = x.flags /\ y.cb = x.cb /\ y.len = x.len
             /\ y.status = x.status /\ y.udata = h
    <2>1. kC.ctx[c] \in ContextType(CB)
      BY <1>9, <1>10, SystemElim
    <2> QED
      BY <2>1 DEF ContextType
  <1>13. /\ IsPortSystem(kU, CB) /\ SameBut(k, kU, c) /\ c \in DOMAIN kU.ctx
         /\ kU.ctx[c].udata = h /\ kU.ctx[c].status = 0 /\ kU.ctx[c].len = k.ctx[c].len
         /\ kU.socks = With(k.socks, h, NewSocket("idle")) /\ kU.ops = k.ops
    <2>1. /\ IsPortSystem(kU, CB) /\ DOMAIN kU.ctx = DOMAIN kC.ctx
          /\ \A d \in DOMAIN kC.ctx \ {c} : kU.ctx[d] = kC.ctx[d]
          /\ kU.ops = kC.ops /\ kU.port = kC.port /\ kU.socks = kC.socks
      BY <1>11, Zenon DEF Updated, OnlyCtx
    <2>2. SameBut(k, kU, c) /\ c \in DOMAIN kU.ctx
      BY <1>7, <1>9, <1>10, <1>11, <1>12, <2>1, Zenon DEF SameBut
    <2>3. kU.ctx[c].udata = h /\ kU.ctx[c].status = 0 /\ kU.ctx[c].len = k.ctx[c].len
      BY <1>7, <1>9, <1>11, <1>12, Zenon
    <2> QED
      BY <1>7, <1>9, <2>1, <2>2, <2>3, Zenon
  <1>14. /\ IsPortSystem(kF, CB)
         /\ kF.ops = Abort(kU.ops, h)
         /\ kF.socks = Without(kU.socks, h)
         /\ kF.ctx = kU.ctx /\ kF.port = kU.port
    BY <1>6, <1>13, CloseType
  <1>15. kF.socks = k.socks
    <2>1. k.socks \in [DOMAIN k.socks -> SocketType]
      BY SystemElim
    <2> QED
      BY <1>7, <1>13, <1>14, <2>1 DEF With, Without
  <1>16. \/ k1 = Started(kU, c, "accept", h) /\ IsSocket(kU, kU.ctx[c].fd)
         \/ k1 = kF
         \/ k1 = [kF EXCEPT !.faults = @ - 1]
         \/ k1 = [k EXCEPT !.faults = @ - 1]
    <2>1. k1 \in Port!AsyncAccept(k, c)
      BY <1>1, Zenon DEF AsyncAccept
    <2>2. /\ Port!FreshHandle(k) = h
          /\ Port!Socket(k, "idle") = kS
          /\ Port!Cleared(kS, c) = kC
          /\ Port!closesocket(kU, h) = kF
          /\ Port!Faulty(k) = Faulty(k)
      BY <1>2, <1>3, <1>4, <1>6, KernelOfPort, Zenon
    <2>3. k1 \in Port!AcceptEx(kU, c, h, kF) \cup Faulty(k)
      BY <1>5, <2>1, <2>2, Zenon DEF Port!AsyncAccept
    <2>4. /\ Port!Started(kU, c, "accept", h) = Started(kU, c, "accept", h)
          /\ Port!Faulty(kF) = Faulty(kF)
          /\ Port!IsSocket(kU, kU.ctx[c].fd) = IsSocket(kU, kU.ctx[c].fd)
      BY KernelOfPort, Zenon DEF Port!Started, Started
    <2> QED
      BY <2>3, <2>4, Zenon DEF Port!AcceptEx, Port!StartOrFail, Port!When, Faulty, When
  <1>17. CASE k1 = Started(kU, c, "accept", h) /\ IsSocket(kU, kU.ctx[c].fd)
    <2>1. /\ IsPortSystem(k1, CB)
          /\ SameBut(kU, k1, c)
          /\ k1.ctx[c].udata = kU.ctx[c].udata
          /\ k1.ctx[c].status = kU.ctx[c].status
          /\ k1.socks = kU.socks
          /\ k1.ops = kU.ops \cup {Operation(kU, c, "accept", h)}
      BY <1>7, <1>13, <1>17, StartedType
    <2>2. Operation(kU, c, "accept", h) = Operation(k, c, "accept", h)
      BY <1>13 DEF Operation, SameBut
    <2> QED
      BY <1>7, <1>13, <1>17, <2>1, <2>2 DEF SameBut, IsSocket
  <1>18. CASE k1 = kF
    BY <1>7, <1>13, <1>14, <1>15, <1>18 DEF SameBut
  <1>19. CASE k1 = [kF EXCEPT !.faults = @ - 1]
    <2>1. /\ IsPortSystem(k1, CB)
          /\ k1.ctx = kF.ctx /\ k1.ops = kF.ops /\ k1.port = kF.port /\ k1.socks = kF.socks
      BY <1>14, <1>19, FaultyType
    <2> QED
      BY <1>7, <1>13, <1>14, <1>15, <2>1 DEF SameBut
  <1>20. CASE k1 = [k EXCEPT !.faults = @ - 1]
    <2>1. /\ IsPortSystem(k1, CB)
          /\ k1.ctx = k.ctx /\ k1.ops = k.ops /\ k1.port = k.port /\ k1.socks = k.socks
      BY <1>20, FaultyType
    <2> QED
      BY <2>1 DEF SameBut
  <1> QED
    BY <1>16, <1>17, <1>18, <1>19, <1>20

\* Another record for the open socket h.
LEMMA SetSocket ==
  ASSUME NEW CB, NEW k, IsPortSystem(k, CB), NEW h \in DOMAIN k.socks, NEW x \in SocketType,
         NEW k1, k1 = [k EXCEPT !.socks[h] = x]
  PROVE  /\ IsPortSystem(k1, CB)
         /\ DOMAIN k1.socks = DOMAIN k.socks
         /\ k1.socks[h] = x
         /\ \A g \in DOMAIN k.socks \ {h} : k1.socks[g] = k.socks[g]
         /\ k1.ctx = k.ctx /\ k1.ops = k.ops /\ k1.port = k.port
  <1>1. PICK E : E = DOMAIN k.socks
    BY Zenon
  <1>2. PICK v : v = [k.socks EXCEPT ![h] = x]
    BY Zenon
  <1>3. E \in SUBSET Nat /\ IsFiniteSet(E) /\ k.socks \in [E -> SocketType]
    BY <1>1, SystemElim
  <1>4. /\ v \in [E -> SocketType] /\ v[h] = x
        /\ \A g \in E \ {h} : v[g] = k.socks[g]
    BY <1>1, <1>2, <1>3
  <1>5. k1 = [k EXCEPT !.socks = v]
    BY <1>2, Zenon
  <1>6. /\ IsPortSystem(k1, CB)
        /\ k1.socks = v
        /\ k1.ctx = k.ctx /\ k1.ops = k.ops /\ k1.port = k.port
    BY <1>3, <1>4, <1>5, PutSocks
  <1> QED
    BY <1>1, <1>4, <1>6

\* The sockets are open as before, and those of clients are.
SameSockets(k, k1) == /\ DOMAIN k1.socks = DOMAIN k.socks
                      /\ \A h \in DOMAIN k.socks : k1.socks[h].kind = k.socks[h].kind

\* A client's message or close changes what is counted of its socket.
LEMMA SocketFields ==
  ASSUME NEW CB, NEW k, IsPortSystem(k, CB), NEW h \in DOMAIN k.socks, NEW n \in Int, NEW k1,
         \/ k1 = [k EXCEPT !.socks[h].rx = n]
         \/ k1 = [k EXCEPT !.socks[h].got = n]
         \/ k1 = [k EXCEPT !.socks[h].sent = n]
         \/ k1 = [k EXCEPT !.socks[h].fin = TRUE]
  PROVE  /\ IsPortSystem(k1, CB)
         /\ SameSockets(k, k1)
         /\ k1.ctx = k.ctx /\ k1.ops = k.ops /\ k1.port = k.port
  <1>1. k.socks[h] \in SocketType
    BY SystemElim
  <1>2. PICK s : s = k.socks[h]
    BY Zenon
  <1>3. PICK x : /\ x \in {[s EXCEPT !.rx = n], [s EXCEPT !.got = n], [s EXCEPT !.sent = n],
                           [s EXCEPT !.fin = TRUE]}
                 /\ k1 = [k EXCEPT !.socks[h] = x]
    BY <1>2, Zenon
  <1>4. x \in SocketType /\ x.kind = k.socks[h].kind
    BY <1>1, <1>2, <1>3 DEF SocketType
  <1>5. k1 = [k EXCEPT !.socks[h] = x]
    BY <1>3
  <1>6. /\ IsPortSystem(k1, CB)
        /\ DOMAIN k1.socks = DOMAIN k.socks
        /\ k1.socks[h] = x
        /\ \A g \in DOMAIN k.socks \ {h} : k1.socks[g] = k.socks[g]
        /\ k1.ctx = k.ctx /\ k1.ops = k.ops /\ k1.port = k.port
    BY <1>4, <1>5, SetSocket
  <1> QED
    BY <1>4, <1>6 DEF SameSockets

\* The other side of the socket h sends a message, which is received.
Sends(k, h) == [k EXCEPT !.socks[h].sent = @ + 1, !.socks[h].rx = @ + 1]

\* That is no call of the program's.
LEMMA SentType ==
  ASSUME NEW CB, NEW k, IsPortSystem(k, CB), NEW h \in DOMAIN k.socks,
         NEW k1, k1 = Sends(k, h)
  PROVE  /\ IsPortSystem(k1, CB)
         /\ SameSockets(k, k1)
         /\ k1.ctx = k.ctx /\ k1.ops = k.ops /\ k1.port = k.port
  <1>1. PICK m : m = k.socks[h].sent + 1
    BY Zenon
  <1>2. PICK k0 : k0 = [k EXCEPT !.socks[h].sent = m]
    BY Zenon
  <1>3. PICK r : r = k0.socks[h].rx + 1
    BY Zenon
  <1>4. PICK k2 : k2 = [k0 EXCEPT !.socks[h].rx = r]
    BY Zenon
  <1>5. k1 = k2
    BY <1>1, <1>2, <1>3, <1>4, Zenon DEF Sends
  <1>6. m \in Int
    BY <1>1, SystemElim DEF SocketType
  <1>7. IsPortSystem(k0, CB) /\ SameSockets(k, k0) /\ k0.ctx = k.ctx /\ k0.ops = k.ops /\ k0.port = k.port
    BY <1>2, <1>6, SocketFields
  <1>8. h \in DOMAIN k0.socks
    BY <1>7 DEF SameSockets
  <1>9. r \in Int
    BY <1>3, <1>7, <1>8, SystemElim DEF SocketType
  <1>10. IsPortSystem(k2, CB) /\ SameSockets(k0, k2) /\ k2.ctx = k0.ctx /\ k2.ops = k0.ops /\ k2.port = k0.port
    BY <1>4, <1>7, <1>8, <1>9, SocketFields
  <1>11. SameSockets(k, k2)
    BY <1>7, <1>10 DEF SameSockets
  <1> QED
    BY <1>5, <1>7, <1>10, <1>11

\* Any end but of an accept or a connect that succeeds leaves the sockets
\* open, each what it was; an accept or a connect that fails has status 1.
LEMMA EndOfType ==
  ASSUME NEW CB, NEW k, IsPortSystem(k, CB), NEW op \in k.ops, op.ctx \in DOMAIN k.ctx,
         ~op.aborted => op.fd \in DOMAIN k.socks, op.kind # "connect",
         NEW k1 \in EndOf(k, op)
  PROVE  \E status \in {0, 1} : /\ IsPortSystem(k1, CB)
                                /\ SameSockets(k, k1)
                                /\ Finishes(k, k1, op, status)
                                /\ op.kind = "accept" => status = 1
  <1>1. \A k0 : \A status \in Int, bytes \in Int :
          IsPortSystem(k0, CB) /\ SameSockets(k, k0) /\ k0.ctx = k.ctx /\ k0.ops = k.ops /\ k0.port = k.port
            /\ k1 = Ended(k0, op, status, bytes)
          => IsPortSystem(k1, CB) /\ SameSockets(k, k1) /\ Finishes(k, k1, op, status)
    <2> SUFFICES ASSUME NEW k0, NEW status \in Int, NEW bytes \in Int,
                        IsPortSystem(k0, CB), SameSockets(k, k0),
                        k0.ctx = k.ctx, k0.ops = k.ops, k0.port = k.port,
                        k1 = Ended(k0, op, status, bytes)
                 PROVE  IsPortSystem(k1, CB) /\ SameSockets(k, k1) /\ Finishes(k, k1, op, status)
      BY Zenon
    <2>1. op \in k0.ops /\ op.ctx \in DOMAIN k0.ctx
      OBVIOUS
    <2>2. /\ IsPortSystem(k1, CB)
          /\ Finishes(k0, k1, op, status)
          /\ k1.socks = k0.socks
      BY <2>1, EndedType
    <2> QED
      BY <2>2, Zenon DEF Finishes, SameSockets
  <1>2. SameSockets(k, k) /\ op \in OperationType
    BY SystemElim DEF SameSockets
  <1>3. CASE k1 \in EndFailed(k, op)
    <2>1. PICK k0 : k1 = Ended(k0, op, 1, 0) /\ (k0 = k \/ k0 = [k EXCEPT !.faults = @ - 1])
      BY <1>3, Zenon DEF EndFailed, When, Faulty
    <2>2. IsPortSystem(k0, CB) /\ SameSockets(k, k0) /\ k0.ctx = k.ctx /\ k0.ops = k.ops /\ k0.port = k.port
      BY <1>2, <2>1, FaultyType DEF SameSockets
    <2>3. 1 \in Int /\ 0 \in Int /\ 1 \in {0, 1}
      OBVIOUS
    <2> QED
      BY <1>1, <2>1, <2>2, <2>3, Zenon
  <1>4. CASE ~op.aborted /\ op.kind = "read" /\ k1 \in EndRead(k, op)
    <2>1. op.fd \in DOMAIN k.socks
      BY <1>4
    <2>2. k.socks[op.fd] \in SocketType
      BY <2>1, SystemElim
    <2>3. \/ \E n \in 1 .. k.socks[op.fd].rx :
               k1 = Ended([k EXCEPT !.socks[op.fd].rx = @ - n], op, 0, n)
          \/ k1 = Ended(k, op, 0, 0)
      BY <1>4, Zenon DEF EndRead, When
    <2>4. ASSUME NEW n \in 1 .. k.socks[op.fd].rx,
                 k1 = Ended([k EXCEPT !.socks[op.fd].rx = @ - n], op, 0, n)
          PROVE  IsPortSystem(k1, CB) /\ SameSockets(k, k1) /\ Finishes(k, k1, op, 0)
      <3>1. PICK m : m = k.socks[op.fd].rx - n
        OBVIOUS
      <3>2. m \in Int /\ n \in Int
        BY <2>2, <3>1 DEF SocketType
      <3>3. PICK k0 : k0 = [k EXCEPT !.socks[op.fd].rx = m]
        BY Zenon
      <3>4. IsPortSystem(k0, CB) /\ SameSockets(k, k0) /\ k0.ctx = k.ctx /\ k0.ops = k.ops /\ k0.port = k.port
        BY <2>1, <3>2, <3>3, SocketFields
      <3>5. k1 = Ended(k0, op, 0, n)
        BY <2>4, <3>1, <3>3, Zenon
      <3>6. 0 \in Int
        OBVIOUS
      <3> QED
        BY <1>1, <3>2, <3>4, <3>5, <3>6, Zenon
    <2>5. ASSUME k1 = Ended(k, op, 0, 0)
          PROVE  IsPortSystem(k1, CB) /\ SameSockets(k, k1) /\ Finishes(k, k1, op, 0)
      <3>1. 0 \in Int
        OBVIOUS
      <3> QED
        BY <1>1, <1>2, <2>5, <3>1, Zenon
    <2>6. 0 \in {0, 1}
      OBVIOUS
    <2> QED
      BY <1>4, <2>3, <2>4, <2>5, <2>6, Zenon
  <1>5. CASE ~op.aborted /\ op.kind = "write" /\ k1 \in EndWrite(k, op)
    <2>1. op.fd \in DOMAIN k.socks
      BY <1>5
    <2>2. k.socks[op.fd] \in SocketType
      BY <2>1, SystemElim
    <2>3. k1 = Ended([k EXCEPT !.socks[op.fd].got = @ + op.n], op, 0, op.n)
      BY <1>5, Zenon DEF EndWrite
    <2>4. PICK m : m = k.socks[op.fd].got + op.n
      OBVIOUS
    <2>5. m \in Int /\ op.n \in Int /\ 0 \in Int
      BY <1>2, <2>2, <2>4 DEF SocketType, OperationType
    <2>6. PICK k0 : k0 = [k EXCEPT !.socks[op.fd].got = m]
      BY Zenon
    <2>7. IsPortSystem(k0, CB) /\ SameSockets(k, k0) /\ k0.ctx = k.ctx /\ k0.ops = k.ops /\ k0.port = k.port
      BY <2>1, <2>5, <2>6, SocketFields
    <2>8. k1 = Ended(k0, op, 0, op.n)
      BY <2>3, <2>4, <2>6, Zenon
    <2>9. 0 \in {0, 1}
      OBVIOUS
    <2> QED
      BY <1>1, <1>5, <2>5, <2>7, <2>8, <2>9, Zenon
  <1> QED
    BY <1>2, <1>3, <1>4, <1>5, Zenon DEF EndOf, When

\* A connect that succeeds leaves a client's socket.
LEMMA EndConnectType ==
  ASSUME NEW CB, NEW k, IsPortSystem(k, CB), NEW op \in k.ops, op.ctx \in DOMAIN k.ctx,
         op.fd \in DOMAIN k.socks, NEW k1 \in EndConnect(k, op)
  PROVE  /\ IsPortSystem(k1, CB)
         /\ DOMAIN k1.socks = DOMAIN k.socks
         /\ Finishes(k, k1, op, 0)
  <1>1. PICK h \in DOMAIN k.socks : h = op.fd
    OBVIOUS
  <1>2. PICK s : s = k.socks[h]
    BY Zenon
  <1>3. s \in SocketType
    BY <1>2, SystemElim
  <1>4. PICK x : x = [s EXCEPT !.kind = "conn"]
    BY Zenon
  <1>5. x \in SocketType
    BY <1>3, <1>4 DEF SocketType
  <1>6. PICK k0 : k0 = [k EXCEPT !.socks[h] = x]
    BY Zenon
  <1>7. [k EXCEPT !.socks[h].kind = "conn"] = k0
    BY <1>2, <1>4, <1>6, Zenon
  <1>8. PICK status \in Int : status = 0
    OBVIOUS
  <1>9. k1 = Ended(k0, op, status, status)
    BY <1>1, <1>7, <1>8, Zenon DEF EndConnect
  <1>10. /\ IsPortSystem(k0, CB)
         /\ DOMAIN k0.socks = DOMAIN k.socks
         /\ k0.ctx = k.ctx /\ k0.ops = k.ops /\ k0.port = k.port
    BY <1>5, <1>6, SetSocket
  <1>11. op \in k0.ops /\ op.ctx \in DOMAIN k0.ctx
    BY <1>10
  <1>12. IsPortSystem(k1, CB) /\ k1.socks = k0.socks /\ Finishes(k0, k1, op, status)
    BY <1>9, <1>10, <1>11, EndedType
  <1> QED
    BY <1>8, <1>10, <1>12, Zenon DEF Finishes
=============================================================================
