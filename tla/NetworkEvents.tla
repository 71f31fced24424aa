---------------------------- MODULE NetworkEvents ----------------------------
(***************************************************************************)
(* The part of Windows under the two pollers that are told of network      *)
(* events: sockets, event objects, the message queue of a window, and the  *)
(* remote side.  It is external to the repository, modelled from how the   *)
(* pollers use it.                                                         *)
(*                                                                         *)
(* A condition of a socket that is selected is reported once: recorded with*)
(* the socket while its event object is set (WSAEventSelect), or posted as *)
(* a message (WSAAsyncSelect).  recv and accept make the report of data and*)
(* of connections possible again; selecting anew reports all that holds.   *)
(* Messages of a socket stay in the queue when the socket is closed.       *)
(*                                                                         *)
(* The record os also holds the tables of the poller, so that a callback is*)
(* a chain of calls from one os to the next.                               *)
(***************************************************************************)
EXTENDS Tables, Sequences, FiniteSetsExt

CONSTANTS Pollers,                 \* the PollerTypes that CreatePoller may be given
          WSA_MAXIMUM_WAIT_EVENTS, \* limit of AsyncEventPoller
          FD_SETSIZE,              \* limit of AsyncSelectPoller
          MaxFaults,               \* bound: system calls that fail
          MaxQueue,                \* bound: messages in the window's queue
          NULL

ASSUME NetworkAssumption ==
  /\ Pollers \subseteq {"PollerAsyncSelect", "PollerAsyncEvent"}
  /\ WSA_MAXIMUM_WAIT_EVENTS \in Nat \ {0} /\ FD_SETSIZE \in Nat \ {0}
  /\ MaxFaults \in Nat /\ MaxQueue \in Nat
  /\ NULL \notin Nat

VARIABLES
  os,    \* [poller, socks, events, queue, faults] and the poller's fds_, has_retired_
  pc,    \* where control is in Poll
  wait,  \* the event object WSAWaitForMultipleEvents returned, or NULL
  calls  \* events of the running Poll that are still to be delivered

poll == <<pc, wait, calls>>

INVALID_SOCKET    == -1
WSA_INVALID_EVENT == 0

\* In the order HandleEvents looks at them.
EventOrder  == <<"FD_READ", "FD_CLOSE", "FD_ACCEPT", "FD_WRITE", "FD_CONNECT">>
ReadEvents  == {"FD_READ", "FD_ACCEPT", "FD_CLOSE"}
WriteEvents == {"FD_WRITE", "FD_CONNECT", "FD_CLOSE"}

\* rx: messages, or connections, that wait to be taken; fin: the peer closed;
\* sent, got: what the peer sent and received; sel, hEvent: what is selected;
\* told: reported and not possible again; rec: recorded.
NewSocket(kind) == [kind |-> kind, rx |-> 0, fin |-> FALSE, sent |-> 0, got |-> 0,
                    sel |-> {}, hEvent |-> WSA_INVALID_EVENT, told |-> {}, rec |-> {}]

EmptySystem(type) == [poller |-> type, socks |-> [h \in {} |-> NewSocket("conn")],
                      events |-> [e \in {} |-> FALSE], queue |-> <<>>, fds_ |-> <<>>,
                      has_retired_ |-> FALSE, faults |-> MaxFaults]

NetworkInit == /\ os \in {EmptySystem(type) : type \in Pollers}
               /\ pc = "idle"
               /\ wait = NULL
               /\ calls = <<>>

OnEvents(k)  == k.poller = "PollerAsyncEvent"
IsOpen(k, h) == h \in DOMAIN k.socks
Conns(k)     == {h \in DOMAIN k.socks : k.socks[h].kind = "conn"}

\* A socket listens, is connecting, is connected, or is connected to itself.
IsConnected(s) == s.kind \in {"conn", "self"}

Conditions(s) == When(s.kind = "listen" /\ s.rx > 0, {"FD_ACCEPT"})
                   \cup When(s.kind = "conn" /\ s.rx > 0, {"FD_READ"})
                   \cup When(s.fin, {"FD_CLOSE"})
                   \cup When(IsConnected(s), {"FD_WRITE"})

InOrder(evs)     == SelectSeq(EventOrder, LAMBDA ev : ev \in evs)
Messages(h, evs) == [i \in 1 .. Cardinality(evs) |-> [fd |-> h, ev |-> InOrder(evs)[i]]]

\* The conditions conds of socket h have come to hold.
Report(k, h, conds) ==
  LET s    == k.socks[h]
      news == (conds \cap s.sel) \ s.told
  IN  [k EXCEPT !.socks[h] = [s EXCEPT !.told = @ \cup news,
                                       !.rec  = IF OnEvents(k) THEN @ \cup news ELSE @],
                !.events = IF OnEvents(k) /\ news # {} THEN With(@, s.hEvent, TRUE) ELSE @,
                !.queue  = IF OnEvents(k) THEN @ ELSE @ \o Messages(h, news)]

\* WSAEventSelect and WSAAsyncSelect; SOCKET_ERROR on what is no socket.
Select(k, h, hEvent, mask) ==
  IF ~IsOpen(k, h) THEN k
  ELSE LET s == [k.socks[h] EXCEPT !.sel = mask, !.hEvent = hEvent, !.told = {}, !.rec = {}]
       IN  Report([k EXCEPT !.socks[h] = s], h, Conditions(s))

\* n messages or connections are taken; what is left is reported again.
Take(k, h, n, ev) ==
  LET k1 == [k EXCEPT !.socks[h].rx = @ - n, !.socks[h].told = @ \ {ev}]
  IN  Report(k1, h, Conditions(k1.socks[h]) \cap {ev})

Socket(k, h, kind) == [k EXCEPT !.socks = With(@, h, NewSocket(kind))]
FreshHandle(k)     == LeastFree(DOMAIN k.socks)
closesocket(k, h)  == [k EXCEPT !.socks = Without(@, h)]

\* The remote side: something arrives, or the end of the stream.
Arrive(k, h, ev) == Report([k EXCEPT !.socks[h].rx = @ + 1], h, {ev})
PeerClose(k, h)  == Report([k EXCEPT !.socks[h].fin = TRUE], h, {"FD_CLOSE"})
=============================================================================
