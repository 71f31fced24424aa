-------------------------- MODULE AsyncSelectPoller --------------------------
(***************************************************************************)
(* The WSAAsyncSelect poller (src/src/AsyncSelectPoller.cpp).  Poll takes  *)
(* the messages of its hidden window one by one, finds the entry of the    *)
(* socket each names and calls its sink, until the queue is empty; then the*)
(* timers run and retired entries are swept.                               *)
(*                                                                         *)
(* An entry's mask is left out: it is tested with | and never 0.           *)
(***************************************************************************)
EXTENDS NetworkEvents

Entry(fd, sink) == [fd |-> fd, hEvent |-> WSA_INVALID_EVENT, lEvents |-> {}, sink |-> sink]

FindEntry(k, fd) ==
  LET places == {i \in DOMAIN k.fds_ : k.fds_[i].fd = fd}
  IN  IF places = {} THEN 0 ELSE Min(places)

\* Mutant: one entry too many.
FullLate(k) == Len(k.fds_) > FD_SETSIZE

Full(k) == Len(k.fds_) >= FD_SETSIZE

AddFd(k, fd, sink) ==
  IF Full(k)
    THEN {[sys |-> k, ok |-> FALSE]}
    ELSE {[sys |-> [k EXCEPT !.fds_ = Append(@, Entry(fd, sink))], ok |-> TRUE]}

\* Nothing else of a retired entry is read again.
RetiredEntry == Entry(INVALID_SOCKET, NULL)

\* Mutant: the entry is not retired.
RemoveForgetsEntry(k, fd) == Select([k EXCEPT !.has_retired_ = TRUE], fd, WSA_INVALID_EVENT, {})

RemoveFd(k, fd) ==
  LET i == FindEntry(k, fd)
      k1 == IF i = 0 THEN k ELSE [k EXCEPT !.fds_[i] = RetiredEntry]
  IN  Select([k1 EXCEPT !.has_retired_ = TRUE], fd, WSA_INVALID_EVENT, {})

ChangeEvents(k, fd, on, off) ==
  LET i == FindEntry(k, fd)
      lEvents == (k.fds_[i].lEvents \cup on) \ off
  IN  IF i = 0 THEN k
      ELSE Select([k EXCEPT !.fds_[i].lEvents = lEvents], fd, WSA_INVALID_EVENT, lEvents)

SetPollIn(k, fd)    == ChangeEvents(k, fd, ReadEvents, {})
ResetPollIn(k, fd)  == ChangeEvents(k, fd, {}, ReadEvents)
SetPollOut(k, fd)   == ChangeEvents(k, fd, WriteEvents, {})
ResetPollOut(k, fd) == ChangeEvents(k, fd, {}, WriteEvents)

RemoveRetired(k) ==
  [k EXCEPT !.fds_ = IF k.has_retired_ THEN Swept(@, INVALID_SOCKET) ELSE @,
            !.has_retired_ = FALSE]
-----------------------------------------------------------------------------
(* Poll *)

PollBegin == /\ pc = "idle"
             /\ pc' = "peek"
             /\ UNCHANGED <<os, wait, calls>>

Dequeued == [os EXCEPT !.queue = Tail(@)]

\* HandleEvent: the message of a socket that has an entry.
PollMessage == /\ pc = "peek"
               /\ os.queue # <<>>
               /\ FindEntry(os, Head(os.queue).fd) # 0
               /\ os' = Dequeued
               /\ calls' = <<[slot |-> FindEntry(os, Head(os.queue).fd), ev |-> Head(os.queue).ev]>>
               /\ pc' = "dispatch"
               /\ UNCHANGED wait

\* HandleEvent: no entry, the message is dropped.
PollUnknown == /\ pc = "peek"
               /\ os.queue # <<>>
               /\ FindEntry(os, Head(os.queue).fd) = 0
               /\ os' = Dequeued
               /\ UNCHANGED poll

PollNext == /\ pc = "dispatch"
            /\ calls = <<>>
            /\ pc' = "peek"
            /\ UNCHANGED <<os, wait, calls>>

\* Mutant: Poll returns when the queue is empty.
PollDrainedReturns == /\ pc = "peek"
                      /\ os.queue = <<>>
                      /\ os' = RemoveRetired(os)
                      /\ pc' = "idle"
                      /\ UNCHANGED <<wait, calls>>

PollDrained == /\ pc = "peek"
               /\ os.queue = <<>>
               /\ pc' = "timers"
               /\ UNCHANGED <<os, wait, calls>>

PollEnd == /\ pc = "timers"
           /\ os' = RemoveRetired(os)
           /\ pc' = "idle"
           /\ UNCHANGED <<wait, calls>>

PollStep == PollBegin \/ PollMessage \/ PollUnknown \/ PollNext \/ PollDrained \/ PollEnd
=============================================================================
