---------------------------- MODULE OverlapKernel ----------------------------
(***************************************************************************)
(* The part of Windows the two I/O services stand on: sockets, overlapped  *)
(* operations, completion packets, event objects and the remote clients.   *)
(* It is external to the repository, modelled from how the services use it.*)
(*                                                                         *)
(* A handler makes several calls one after the other, so a call is an      *)
(* operator from a system state k to the set of states it may leave (or to *)
(* the one state it leaves); a handler chains them and assigns sys once.   *)
(* Socket handles and addresses of contexts are small numbers, given out   *)
(* again as soon as they are free.  Data is counted in messages.           *)
(***************************************************************************)
EXTENDS Tables, Sequences

CONSTANTS MaxFaults,  \* bound: system calls and operations that fail
          NULL

ASSUME KernelAssumption == MaxFaults \in Nat /\ NULL \notin Nat

INVALID_SOCKET == -1

\* FLAG_* of OverlapFd.h, as the sets of their bits: 1, 2 and 3.
FLAG_ASSOCIATE   == {0}
FLAG_CANCEL_IO   == {1}
FLAG_LAZY_DELETE == {0, 1}

\* The flag test (flags & flag).
HasFlag(flags, flag) == flags \cap flag # {}

\* sys.ctx: the OverlapContexts that exist.  set: its event object is set.
NewContext(fd) == [fd |-> fd, flags |-> {}, udata |-> 0, len |-> 0, cb |-> NULL,
                   status |-> 0, bytes |-> 0, set |-> FALSE]

\* sys.socks: the open sockets.  rx: messages received and not yet read;
\* sent, got: messages the client sent and echoes it got; fin: it has closed.
NewSocket(kind) == [kind |-> kind, rx |-> 0, fin |-> FALSE, sent |-> 0, got |-> 0]

\* sys.ops: the operations the system is working on.  orphan: its context was
\* deleted, and its event with it.
\* sys.port: the queue of completion packets.
\* sys.faults: failures that may still happen.
EmptySystem(service) ==
  [service |-> service, ctx |-> [c \in {} |-> NewContext(0)], ops |-> {}, port |-> <<>>,
   socks |-> [h \in {} |-> NewSocket("idle")], faults |-> MaxFaults]

OnPort(k) == k.service = "IOCompletionPort"

Alloc(k, c, fd)   == [k EXCEPT !.ctx = With(@, c, NewContext(fd))]
Orphan(ops, c)    == {IF op.ctx = c THEN [op EXCEPT !.orphan = TRUE] ELSE op : op \in ops}
Delete(k, c)      == [k EXCEPT !.ctx = Without(@, c), !.ops = Orphan(@, c)]
FreshContext(k)   == LeastFree(DOMAIN k.ctx)
FreshHandle(k)    == LeastFree(DOMAIN k.socks)
Socket(k, kind)   == [k EXCEPT !.socks = With(@, FreshHandle(k), NewSocket(kind))]
Abort(ops, h)     == {IF op.fd = h THEN [op EXCEPT !.aborted = TRUE] ELSE op : op \in ops}
CancelIoEx(k, h)  == [k EXCEPT !.ops = Abort(@, h)]
closesocket(k, h) == [k EXCEPT !.ops = Abort(@, h), !.socks = Without(@, h)]
-----------------------------------------------------------------------------
(* Starting an operation.  It resets the event of its context.  A call that*)
(* fails leaves no operation behind; on a handle that is no socket it fails.*)

Started(k, c, kind, sock) ==
  [k EXCEPT !.ctx[c].set = FALSE,
            !.ops = @ \cup {[ctx |-> c, fd |-> k.ctx[c].fd, kind |-> kind, sock |-> sock,
                             n |-> k.ctx[c].len, aborted |-> FALSE, orphan |-> FALSE]}]

IsSocket(k, fd) == fd \in DOMAIN k.socks

StartOrFail(k, c, kind, sock, failed) ==
  When(IsSocket(k, k.ctx[c].fd), {Started(k, c, kind, sock)})
    \cup When(~IsSocket(k, k.ctx[c].fd), {failed}) \cup Faulty(failed)

WSARecv(k, c) == StartOrFail(k, c, "read", 0, k)
WSASend(k, c) == StartOrFail(k, c, "write", 0, k)
AcceptEx(k, c, sock, failed) == StartOrFail(k, c, "accept", sock, failed)
-----------------------------------------------------------------------------
(* The end of an operation: the result goes into the memory of the context, *)
(* whosoever it is by now, and a packet to the port, or the event the       *)
(* operation was started with is set.                                       *)

Finished(k, op, status, bytes) == [k EXCEPT !.ops = @ \ {op},
                                            !.ctx[op.ctx].status = status,
                                            !.ctx[op.ctx].bytes = bytes]

Ended(k, op, status, bytes) ==
  LET k1 == Finished(k, op, status, bytes)
  IN  IF OnPort(k)
        THEN [k1 EXCEPT !.port = Append(@, [ctx |-> op.ctx, ok |-> status = 0])]
        ELSE [k1 EXCEPT !.ctx[op.ctx].set = @ \/ ~op.orphan]

\* Some of the received messages, or the end of the stream.
EndRead(k, op) ==
  LET s == k.socks[op.fd]
  IN  {Ended([k EXCEPT !.socks[op.fd].rx = @ - n], op, 0, n) : n \in 1 .. s.rx}
        \cup When(s.rx = 0 /\ s.fin, {Ended(k, op, 0, 0)})

EndWrite(k, op) == {Ended([k EXCEPT !.socks[op.fd].got = @ + op.n], op, 0, op.n)}

EndConnect(k, op) == {Ended([k EXCEPT !.socks[op.fd].kind = "conn"], op, 0, 0)}

\* Cancelled, its socket closed, or failed.
EndFailed(k, op) == {Ended(k1, op, 1, 0) : k1 \in When(op.aborted, {k}) \cup Faulty(k)}

\* The states the system may leave when it ends op, any but an accept.
EndOf(k, op) == EndFailed(k, op)
                  \cup When(~op.aborted /\ op.kind = "read", EndRead(k, op))
                  \cup When(~op.aborted /\ op.kind = "write", EndWrite(k, op))
                  \cup When(~op.aborted /\ op.kind = "connect", EndConnect(k, op))

Conns(k) == {h \in DOMAIN k.socks : k.socks[h].kind = "conn"}
=============================================================================
