-------------------------- MODULE AsyncEventPoller --------------------------
(***************************************************************************)
(* The WSAEventSelect poller (src/src/AsyncEventPoller.cpp).  Poll waits   *)
(* for the event objects of its entries, lets the timers run, and only then*)
(* looks up the entry of the event that was set and calls its sink for     *)
(* every network event recorded.                                           *)
(*                                                                         *)
(* An entry's mask is left out: it is tested with | and never 0.  fds_ has *)
(* room for all entries from the start, so an entry keeps its address, its *)
(* place here, until RemoveRetired.                                        *)
(***************************************************************************)
EXTENDS NetworkEvents

Entry(fd, hEvent, sink) == [fd |-> fd, hEvent |-> hEvent, lEvents |-> {}, sink |-> sink]

\* The first place that fits, 0 if there is none.
FirstOf(places)            == IF places = {} THEN 0 ELSE Min(places)
FindEntry(k, fd)           == FirstOf({i \in DOMAIN k.fds_ : k.fds_[i].fd = fd})
FindEntryByEvent(k, event) == FirstOf({i \in DOMAIN k.fds_ : k.fds_[i].hEvent = event})

\* Mutant: one entry too many.
FullLate(k) == Len(k.fds_) > WSA_MAXIMUM_WAIT_EVENTS

Full(k) == Len(k.fds_) >= WSA_MAXIMUM_WAIT_EVENTS

\* Fails at the limit, retired entries included, or when no event can be made.
AddFd(k, fd, sink) ==
  LET hEvent == LeastFree(DOMAIN k.events)
      added == [k EXCEPT !.events = With(@, hEvent, FALSE),
                         !.fds_ = Append(@, Entry(fd, hEvent, sink))]
  IN  When(~Full(k), {[sys |-> added, ok |-> TRUE]})
        \cup {[sys |-> k1, ok |-> FALSE] : k1 \in When(Full(k), {k}) \cup Faulty(k)}

Retired(entry) == [entry EXCEPT !.hEvent = WSA_INVALID_EVENT, !.fd = INVALID_SOCKET]

\* Mutant: the event object is not closed.
RemoveKeepsEvent(k, fd) ==
  LET i == FindEntry(k, fd)
      k1 == IF i = 0 THEN k
            ELSE [k EXCEPT !.fds_[i] = Retired(@)]
  IN  Select([k1 EXCEPT !.has_retired_ = TRUE], fd, WSA_INVALID_EVENT, {})

RemoveFd(k, fd) ==
  LET i == FindEntry(k, fd)
      k1 == IF i = 0 THEN k
            ELSE [k EXCEPT !.events = Without(@, k.fds_[i].hEvent),
                           !.fds_[i] = Retired(@)]
  IN  Select([k1 EXCEPT !.has_retired_ = TRUE], fd, WSA_INVALID_EVENT, {})

ChangeEvents(k, fd, on, off) ==
  LET i == FindEntry(k, fd)
      lEvents == (k.fds_[i].lEvents \cup on) \ off
  IN  IF i = 0 THEN k
      ELSE Select([k EXCEPT !.fds_[i].lEvents = lEvents], fd, k.fds_[i].hEvent, lEvents)

SetPollIn(k, fd)    == ChangeEvents(k, fd, ReadEvents, {})
ResetPollIn(k, fd)  == ChangeEvents(k, fd, {}, ReadEvents)
SetPollOut(k, fd)   == ChangeEvents(k, fd, WriteEvents, {})
ResetPollOut(k, fd) == ChangeEvents(k, fd, {}, WriteEvents)

RemoveRetired(k) ==
  [k EXCEPT !.fds_ = IF k.has_retired_ THEN Swept(@, INVALID_SOCKET) ELSE @,
            !.has_retired_ = FALSE]
-----------------------------------------------------------------------------
(* Poll *)

\* The entries Poll waits for whose event is set.
Signalled(k) == {j \in DOMAIN k.fds_ : /\ k.fds_[j].fd # INVALID_SOCKET
                                       /\ k.fds_[j].hEvent # WSA_INVALID_EVENT
                                       /\ k.events[k.fds_[j].hEvent]}

\* Mutant: the last entry is left out.
AllButLastSignalled(k) == LET i == FirstOf(Signalled(k) \ {Len(k.fds_)})
                          IN  IF i = 0 THEN NULL ELSE k.fds_[i].hEvent

FirstSignalled(k) == LET i == FirstOf(Signalled(k))
                     IN  IF i = 0 THEN NULL ELSE k.fds_[i].hEvent

\* The wait ends with an event, a timeout or a failure; then come the timers.
PollWait == /\ pc = "idle"
            /\ pc' = "timers"
            /\ \/ wait' = FirstSignalled(os) /\ UNCHANGED os
               \/ wait' = NULL /\ os' \in Faulty(os)
            /\ UNCHANGED calls

PollNothing == /\ pc = "timers"
               /\ wait = NULL
               /\ os' = RemoveRetired(os)
               /\ pc' = "idle"
               /\ UNCHANGED <<wait, calls>>

\* A timer removed the entry, or WSAEnumNetworkEvents fails: no sweep.
PollLost == /\ pc = "timers"
            /\ wait # NULL
            /\ os' \in When(FindEntryByEvent(os, wait) = 0, {os}) \cup Faulty(os)
            /\ wait' = NULL
            /\ pc' = "idle"
            /\ UNCHANGED calls

\* HandleEvents looks at each of the five bits, and calls for each that is set.
HandleEvents(i, evs) == [n \in 1 .. Cardinality(evs) |-> [slot |-> i, ev |-> InOrder(evs)[n]]]

\* WSAEnumNetworkEvents takes the record and resets the event.
PollEnumerate ==
  LET i == FindEntryByEvent(os, wait)
      fd == os.fds_[i].fd
  IN  /\ pc = "timers"
      /\ wait # NULL
      /\ i # 0
      /\ os' = [os EXCEPT !.socks[fd].rec = {}, !.events = With(@, wait, FALSE)]
      /\ calls' = HandleEvents(i, os.socks[fd].rec)
      /\ pc' = "dispatch"
      /\ wait' = NULL

\* HandleEvents is done: Poll returns 1, without a sweep.
PollReturns == /\ pc = "dispatch"
               /\ calls = <<>>
               /\ pc' = "idle"
               /\ UNCHANGED <<os, wait, calls>>

PollStep == PollWait \/ PollNothing \/ PollLost \/ PollEnumerate \/ PollReturns
=============================================================================
