------------------------ MODULE CompletionPortService ------------------------
(***************************************************************************)
(* The completion-port service (src/src/CompletionPortService.cpp): the    *)
(* operations of IOServiceBase, from a system state k to the states they   *)
(* may leave, and the two halves of Run around the callback.               *)
(***************************************************************************)
EXTENDS OverlapKernel

\* A new context, or NULL: a socket that cannot be tied to the port leaves
\* nothing behind.
AllocOverlapCtx(k, fd, flags) ==
  LET c == FreshContext(k)
      associate == HasFlag(flags, FLAG_ASSOCIATE)
  IN  When(associate => IsSocket(k, fd), {[sys |-> Alloc(k, c, fd), ctx |-> c]})
        \cup When(associate, {[sys |-> k1, ctx |-> NULL] :
                              k1 \in When(~IsSocket(k, fd), {k}) \cup Faulty(k)})

\* FLAG_LAZY_DELETE contains the bit of FLAG_CANCEL_IO: a lazy delete cancels
\* every operation on the socket.
FreeOverlapCtx(k, c) ==
  LET k1 == IF HasFlag(k.ctx[c].flags, FLAG_CANCEL_IO) THEN CancelIoEx(k, k.ctx[c].fd) ELSE k
      k2 == [k1 EXCEPT !.ctx[c].fd = INVALID_SOCKET]
  IN  IF HasFlag(k.ctx[c].flags, FLAG_LAZY_DELETE) THEN k2 ELSE Delete(k2, c)

\* overlap.Internal and InternalHigh are cleared before an operation.
Cleared(k, c) == [k EXCEPT !.ctx[c].status = 0, !.ctx[c].bytes = 0]

\* socket() fails; or AcceptEx fails, the socket is closed, udata keeps it;
\* or AcceptEx waits for a client.  All callers ignore the result.
AsyncAccept(k, c) ==
  LET fd == FreshHandle(k)
      k1 == [Cleared(Socket(k, "idle"), c) EXCEPT !.ctx[c].udata = fd]
  IN  AcceptEx(k1, c, fd, closesocket(k1, fd)) \cup Faulty(k)

\* BindAnyAddr or ConnectEx fails, or the connection is on its way.
AsyncConnect(k, c) == {[sys |-> Started(Cleared(k, c), c, "connect", 0), ok |-> TRUE]}
                        \cup {[sys |-> k1, ok |-> FALSE] : k1 \in Faulty(k) \cup Faulty(Cleared(k, c))}

AsyncRead(k, c)  == WSARecv(Cleared(k, c), c)
AsyncWrite(k, c) == WSASend(Cleared(k, c), c)

\* Run takes the first packet from the port.
Dequeue(k) == IF k.port = <<>> THEN {}
              ELSE {[sys |-> [k EXCEPT !.port = Tail(@)], ctx |-> Head(k.port).ctx,
                     ok |-> Head(k.port).ok]}

\* Run deletes a context that its callback marked.
AfterCallback(k, c) ==
  IF HasFlag(k.ctx[c].flags, FLAG_LAZY_DELETE) THEN Delete(k, c) ELSE k
=============================================================================
