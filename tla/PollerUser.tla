----------------------------- MODULE PollerUser -----------------------------
(***************************************************************************)
(* Code that uses one of the two pollers that are told of network events,  *)
(* in every way PollerBase allows: in the main loop, in timers and in      *)
(* callbacks it registers sockets, changes interest, reads and removes     *)
(* sockets, while data and the ends of streams arrive.  What the examples  *)
(* of the repository do is a part of this.                                 *)
(*                                                                         *)
(* Handles and addresses of sinks are small numbers, given out again as    *)
(* soon as they are free.  A call on a sink that was deleted is undefined  *)
(* behaviour: pc becomes "undefined".                                      *)
(***************************************************************************)
EXTENDS PollerBase

CONSTANT MaxSockets  \* bound: open sockets

ASSUME UserAssumption == MaxSockets \in Nat

VARIABLES alive,  \* the sinks that exist
          callee  \* the sink whose callback is running, or NULL

vars == <<os, poll, alive, callee>>

Init == /\ NetworkInit
        /\ alive = {}
        /\ callee = NULL

UserCode     == pc \in {"idle", "timers", "callback"}
QueueBounded == Len(os'.queue) <= MaxQueue

\* socket, new, AddFd; on a failure closesocket and delete.
Register ==
  LET h == FreshHandle(os)
      s == LeastFree(alive)
  IN  /\ UserCode
      /\ h <= MaxSockets
      /\ \E r \in AddFd(Socket(os, h, "conn"), h, s) :
           IF r.ok THEN os' = r.sys /\ alive' = alive \cup {s}
                   ELSE os' = closesocket(r.sys, h) /\ UNCHANGED alive
      /\ UNCHANGED <<poll, callee>>

SinkOf(h) == os.fds_[CHOOSE i \in LiveEntries : os.fds_[i].fd = h].sink

\* RemoveFd, closesocket, delete of the sink, in this order.
Unregister(h) == /\ UserCode
                 /\ os' = closesocket(RemoveFd(os, h), h)
                 /\ alive' = alive \ {SinkOf(h)}
                 /\ UNCHANGED <<poll, callee>>

ChangeInterest(h) ==
  /\ UserCode
  /\ os' \in {SetPollIn(os, h), ResetPollIn(os, h), SetPollOut(os, h), ResetPollOut(os, h)}
  /\ QueueBounded
  /\ UNCHANGED <<poll, alive, callee>>

\* recv until nothing is left.
Read(h) == /\ UserCode
           /\ os.socks[h].rx > 0
           /\ os' = Take(os, h, os.socks[h].rx, "FD_READ")
           /\ UNCHANGED <<poll, alive, callee>>

\* entry->sink->OnReadable() or OnWritable().
Call == /\ Calling
        /\ IF CalledSink \in alive THEN pc' = "callback" /\ callee' = CalledSink
                                   ELSE pc' = "undefined" /\ UNCHANGED callee
        /\ calls' = Tail(calls)
        /\ UNCHANGED <<os, wait, alive>>

CallbackReturn == /\ pc = "callback"
                  /\ pc' = "dispatch"
                  /\ callee' = NULL
                  /\ UNCHANGED <<os, wait, calls, alive>>

Poll == PollStep /\ UNCHANGED <<alive, callee>>

\* One message or the end of the stream arrives at a socket.
Network(h) == /\ ~os.socks[h].fin
              /\ os' \in When(os.socks[h].rx = 0, {Arrive(os, h, "FD_READ")}) \cup {PeerClose(os, h)}
              /\ QueueBounded
              /\ UNCHANGED <<poll, alive, callee>>

Undefined == pc = "undefined" /\ UNCHANGED vars

Next == \/ Register
        \/ \E h \in Registered \cap DOMAIN os.socks : Unregister(h) \/ ChangeInterest(h) \/ Read(h)
        \/ Poll
        \/ Call
        \/ CallbackReturn
        \/ pc # "undefined" /\ \E h \in DOMAIN os.socks : Network(h)
        \/ Undefined

Spec == Init /\ [][Next]_vars

\* main calls Poll in a loop, and user code returns to it.
Fairness == /\ SF_vars(Poll)
            /\ WF_vars(Call)
            /\ SF_vars(CallbackReturn)

FairSpec == Spec /\ Fairness
-----------------------------------------------------------------------------
(* Properties *)

TypeOK ==
  /\ \A h \in DOMAIN os.socks : /\ os.socks[h].rx \in {0, 1}
                                /\ os.socks[h].rec \cup os.socks[h].told \subseteq os.socks[h].sel
  /\ Len(os.fds_) <= IF OnEvents(os) THEN WSA_MAXIMUM_WAIT_EVENTS ELSE FD_SETSIZE
  /\ pc \in {"idle", "peek", "timers", "dispatch", "callback", "undefined"}
  /\ wait \in Nat \cup {NULL}
  /\ \A n \in DOMAIN calls : calls[n].slot \in DOMAIN os.fds_
  /\ alive \subseteq 1 .. MaxSockets
  /\ callee \in 1 .. MaxSockets \cup {NULL}

\* The descriptor under service was removed and more of its events wait.
ServedIsGone == /\ pc \in {"dispatch", "callback"}
                /\ calls # <<>>
                /\ os.fds_[Head(calls).slot].fd = INVALID_SOCKET

Promise == INSTANCE Reactor WITH
  Descriptors <- 1 .. MaxSockets,
  Sinks  <- 1 .. MaxSockets,
  reg    <- [h \in Registered |-> SinkOf(h)],
  sink   <- callee,
  gone   <- ServedIsGone,
  broken <- pc = "undefined"

\* Both pollers keep the promise of a reactor: though timers run between the
\* wait and the lookup of the event, messages outlive their sockets and
\* handles and events are reused, no sink is called that is not registered,
\* except through the entry of the descriptor whose callback removed it.
ImplementsReactor == Promise!RSpec

\* A report waits for Poll: recorded with the socket, or queued.
Waits(h) == /\ h \in Registered
            /\ IF OnEvents(os) THEN os.socks[h].rec # {}
                               ELSE \E n \in DOMAIN os.queue : os.queue[n].fd = h

\* Poll is about to call the sink of socket h.
Served(h) == Calling /\ os.fds_[Head(calls).slot].fd = h

\* WSAWaitForMultipleEvents returns the first event that is set.
Overtaken(h) == OnEvents(os) /\ \E i, j \in LiveEntries :
  i < j /\ os.fds_[j].fd = h /\ os.socks[os.fds_[i].fd].rec # {}

\* No report is forgotten: what the system reported of a socket is taken by
\* Poll in the end or withdrawn by user code.  With event objects only the
\* first one set is served, so a busy socket in front may hold it up for ever.
EveryReportTaken == \A h \in 1 .. MaxSockets :
  Waits(h) ~> (~Waits(h) \/ Served(h) \/ Overtaken(h) \/ pc = "undefined")

\* Poll takes a message from the queue of its window.
TakesMessage == pc = "peek" /\ os.queue # <<>> /\ os'.queue = Tail(os.queue)

\* One call of Poll takes messages for ever and never finds the queue empty.
PollsForEver == /\ ~OnEvents(os)
                /\ <>[](pc \in {"peek", "dispatch", "callback"})
                /\ []<><<TakesMessage>>_vars

\* Timers run again and again, whatever callbacks and timers do.  Only the Poll of
\* AsyncSelectPoller may hold them up, by messages that never come to an end: it
\* serves messages until there are none, and whenever there are none timers run.
TimersServed == []<>(pc \in {"timers", "undefined"}) \/ PollsForEver
=============================================================================
