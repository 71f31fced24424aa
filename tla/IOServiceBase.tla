---------------------------- MODULE IOServiceBase ----------------------------
(* The I/O service a program runs on (src/src/IOServiceBase.cpp): one of    *)
(* the two, as CreateIOService makes it.                                    *)
EXTENDS OverlapKernel

CONSTANTS Services,  \* the IOServiceTypes the program may be started with
          WSA_MAXIMUM_WAIT_EVENTS

ASSUME ServiceAssumption == /\ Services \subseteq {"IOCompletionPort", "IOOverlapped"}
                            /\ WSA_MAXIMUM_WAIT_EVENTS \in Nat

VARIABLE sys  \* see OverlapKernel

Port   == INSTANCE CompletionPortService
Events == INSTANCE OverlappedIOService

CreateIOService == sys \in {EmptySystem(service) : service \in Services}

AllocOverlapCtx(k, fd, flags) == IF OnPort(k) THEN Port!AllocOverlapCtx(k, fd, flags)
                                              ELSE Events!AllocOverlapCtx(k, fd, flags)
FreeOverlapCtx(k, c) == IF OnPort(k) THEN Port!FreeOverlapCtx(k, c) ELSE Events!FreeOverlapCtx(k, c)
AsyncConnect(k, c)   == IF OnPort(k) THEN Port!AsyncConnect(k, c) ELSE Events!AsyncConnect(k, c)
AsyncAccept(k, c)    == IF OnPort(k) THEN Port!AsyncAccept(k, c) ELSE Events!AsyncAccept(k, c)
AsyncRead(k, c)      == IF OnPort(k) THEN Port!AsyncRead(k, c) ELSE Events!AsyncRead(k, c)
AsyncWrite(k, c)     == IF OnPort(k) THEN Port!AsyncWrite(k, c) ELSE Events!AsyncWrite(k, c)
Dequeue(k)           == IF OnPort(k) THEN Port!Dequeue(k) ELSE Events!Dequeue(k)
AfterCallback(k, c)  == IF OnPort(k) THEN Port!AfterCallback(k, c) ELSE Events!AfterCallback(k, c)

\* ctx->flags |= FLAG_LAZY_DELETE
SetLazyDelete(k, c) == [k EXCEPT !.ctx[c].flags = @ \cup FLAG_LAZY_DELETE]

\* Contexts of operations that have ended and wait in the port.
PacketContexts == {sys.port[j].ctx : j \in DOMAIN sys.port}
=============================================================================
