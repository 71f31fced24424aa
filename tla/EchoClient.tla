----------------------------- MODULE EchoClient -----------------------------
(***************************************************************************)
(* The echo client (src/examples/echo/EchoClient.cpp).  A handler is an    *)
(* operator from a state w, the record of the system and of the client, to *)
(* the set of states it may leave.  The client is sink 0.  Its timers all  *)
(* have the same delay and the same sink: they are counted.                *)
(***************************************************************************)
EXTENDS PollerBase, SocketOpts

CONSTANTS MAX_SEND_COUNT,
          RecvBuf  \* the buffer of OnReadable, in messages

\* chains: history, how many times OnWritable has started a timer.
NewClient(k) == [sys |-> k, aborted |-> FALSE, fd_ |-> INVALID_SOCKET, sent_count_ |-> 0,
                 buf_ |-> 0, timers |-> 0, chains |-> 0]

AddTimer(w) == [w EXCEPT !.timers = @ + 1]

Cleanup(w) == [w EXCEPT !.sys = closesocket(RemoveFd(@, w.fd_), w.fd_), !.fd_ = INVALID_SOCKET]

\* The CHECK ends the process when there is no socket; handle 0 passes it.  The
\* result of AddFd is ignored.
Start(w) ==
  UNION {IF c.fd = INVALID_SOCKET THEN {[w EXCEPT !.sys = c.sys, !.aborted = TRUE]}
         ELSE {[w EXCEPT !.sys = SetPollOut(SetPollIn(r.sys, c.fd), c.fd), !.fd_ = c.fd]
               : r \in AddFd(c.sys, c.fd, 0)}
         : c \in CreateTcpConnector(w.sys)}

OnReadable(w) == {IF r.n < 0 THEN Cleanup([w EXCEPT !.sys = r.sys])
                  ELSE [w EXCEPT !.sys = r.sys, !.buf_ = IF r.n > 0 THEN r.n ELSE @]
                  : r \in ReadSome(w.sys, w.fd_, RecvBuf)}

\* Mutant: no timer is started.
OnWritableNoTimer(w) ==
  IF IsSelfConnection(w.sys, w.fd_) THEN Start(Cleanup(w))
  ELSE {[w EXCEPT !.chains = @ + 1, !.sys = ResetPollOut(@, w.fd_)]}

\* Connected, or the connection failed: which one is not asked.
OnWritable(w) ==
  IF IsSelfConnection(w.sys, w.fd_) THEN Start(Cleanup(w))
  ELSE {[AddTimer(w) EXCEPT !.chains = @ + 1, !.sys = ResetPollOut(@, w.fd_)]}

SendData(w) ==
  LET len == IF w.sent_count_ > 0 /\ w.buf_ > 0 THEN w.buf_ ELSE 1
      w1 == [w EXCEPT !.sent_count_ = @ + 1]
  IN  {IF x.n < 0 THEN Cleanup([w1 EXCEPT !.sys = x.sys]) ELSE [w1 EXCEPT !.sys = x.sys, !.buf_ = 0]
       : x \in WriteSome(w.sys, w.fd_, len)}

\* Mutant: the timer is set again in any case.
OnTimeoutAlways(w) ==
  {AddTimer(w1) : w1 \in IF w.fd_ = INVALID_SOCKET THEN {w} ELSE SendData(w)}

OnTimeout(w) ==
  {IF w1.sent_count_ < MAX_SEND_COUNT THEN AddTimer(w1) ELSE w1
   : w1 \in IF w.fd_ = INVALID_SOCKET THEN {w} ELSE SendData(w)}

Callback(w, readable) == IF readable THEN OnReadable(w) ELSE OnWritable(w)

\* UpdateTimer: one of the timers is due.
TimerFires(w) == OnTimeout([w EXCEPT !.timers = @ - 1])
=============================================================================
