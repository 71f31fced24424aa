----------------------------- MODULE SocketOpts -----------------------------
(***************************************************************************)
(* The socket helpers (src/src/SocketOpts.cpp) that the examples on pollers*)
(* use, from a system state k to the set of [sys, n] or [sys, fd] they may *)
(* leave and return.  Data and buffers are counted in messages.            *)
(***************************************************************************)
EXTENDS NetworkEvents

CONSTANT Addresses  \* number of addresses the host name has

\* recv until it would block.  When the buffer is full, recv with length 0
\* returns 0, or would block if nothing is left; 0 is taken for the end of the
\* stream.  The end of the stream and an error drop what was read before.
ReadSome(k, h, size) ==
  LET s == k.socks[h]
      n == IF s.rx < size THEN s.rx ELSE size
      k1 == Take(k, h, n, "FD_READ")
      readable == IsOpen(k, h) /\ IsConnected(s)
      zero == s.fin \/ s.rx >= size
      blocks == ~s.fin /\ s.rx <= size
  IN  When(readable /\ blocks, {[sys |-> k1, n |-> n]})
        \cup When(readable /\ zero, {[sys |-> k1, n |-> -1]})
        \cup {[sys |-> k2, n |-> -1] : k2 \in When(~readable, {k}) \cup Faulty(k)}

\* send until all is sent or it would block.
WriteSome(k, h, size) ==
  LET writable == IsOpen(k, h) /\ IsConnected(k.socks[h])
      Wrote(k1, n) == [sys |-> [k1 EXCEPT !.socks[h].got = @ + n], n |-> n]
  IN  When(writable, {Wrote(k, size)})
        \cup When(writable, {Wrote(k1, n) : k1 \in Faulty(k), n \in 0 .. size - 1})
        \cup {[sys |-> k1, n |-> -1] :
              k1 \in When(~writable \/ k.socks[h].fin, {k}) \cup Faulty(k)}

\* Local and remote address are the same; FALSE when there is no connection.
IsSelfConnection(k, h) == IsOpen(k, h) /\ k.socks[h].kind = "self"

\* n addresses fail, one after the other; their sockets are closed.
Failing(k, n) == When(k.faults >= n, {[k EXCEPT !.faults = @ - n]})
AfterFailures(k) == UNION {Failing(k, n) : n \in 0 .. Addresses - 1}

\* getaddrinfo fails, or every address does.
NoSocket(k) == {[sys |-> k1, fd |-> INVALID_SOCKET] : k1 \in Faulty(k) \cup Failing(k, Addresses)}

CreateTCPAcceptor(k) ==
  {[sys |-> Socket(k1, FreshHandle(k1), "listen"), fd |-> FreshHandle(k1)] : k1 \in AfterFailures(k)}
    \cup NoSocket(k)

\* A connect that fails at once ends the loop with `return false`: handle 0.
CreateTcpConnector(k) ==
  {[sys |-> Socket(k1, FreshHandle(k1), "connecting"), fd |-> FreshHandle(k1)] : k1 \in AfterFailures(k)}
    \cup {[sys |-> k2, fd |-> 0] : k2 \in UNION {Faulty(k1) : k1 \in AfterFailures(k)}}
    \cup NoSocket(k)
=============================================================================
