------------------------- MODULE OverlappedIOService -------------------------
(***************************************************************************)
(* The event-object service (src/src/OverlappedIOService.cpp).  A context  *)
(* and its event live and die together, so the map fds_ from events to     *)
(* contexts is sys.ctx.                                                    *)
(***************************************************************************)
EXTENDS OverlapKernel

CONSTANT WSA_MAXIMUM_WAIT_EVENTS

\* NULL at the limit, or when no event can be made.
AllocOverlapCtx(k, fd, flags) ==
  LET c == FreshContext(k)
      full == Cardinality(DOMAIN k.ctx) >= WSA_MAXIMUM_WAIT_EVENTS
  IN  When(~full, {[sys |-> Alloc(k, c, fd), ctx |-> c]})
        \cup {[sys |-> k1, ctx |-> NULL] : k1 \in When(full, {k}) \cup Faulty(k)}

FreeOverlapCtx(k, c) == Delete(k, c)

\* overlap.Internal and InternalHigh are cleared before an operation.
Cleared(k, c) == [k EXCEPT !.ctx[c].status = 0, !.ctx[c].bytes = 0]

AsyncAccept(k, c) ==
  LET fd == FreshHandle(k)
      k1 == [Cleared(Socket(k, "idle"), c) EXCEPT !.ctx[c].udata = fd]
  IN  AcceptEx(k1, c, fd, closesocket(k1, fd)) \cup Faulty(k)

\* BindAnyAddr or ConnectEx fails, or the connection is on its way.
AsyncConnect(k, c) == {[sys |-> Started(Cleared(k, c), c, "connect", 0), ok |-> TRUE]}
                        \cup {[sys |-> k1, ok |-> FALSE] : k1 \in Faulty(k) \cup Faulty(Cleared(k, c))}

AsyncRead(k, c)  == WSARecv(Cleared(k, c), c)
AsyncWrite(k, c) == WSASend(Cleared(k, c), c)

\* Run waits for the events in the order of the hash map fds_, which is any,
\* and serves the first one that is set.  It goes on to the callback whatever
\* WSAGetOverlappedResult says, and leaves the event set.
Dequeue(k) == {[sys |-> k, ctx |-> c, ok |-> TRUE] : c \in {d \in DOMAIN k.ctx : k.ctx[d].set}}

\* Run touches nothing after the callback.
AfterCallback(k, c) == k
=============================================================================
