----------------------------- MODULE PollerBase -----------------------------
(* PollerBase (src/src/PollerBase.h) on the poller that CreatePoller made. *)
EXTENDS NetworkEvents

\* CreatePoller
Event   == INSTANCE AsyncEventPoller
Message == INSTANCE AsyncSelectPoller

AddFd(k, fd, sink)  == IF OnEvents(k) THEN Event!AddFd(k, fd, sink) ELSE Message!AddFd(k, fd, sink)
RemoveFd(k, fd)     == IF OnEvents(k) THEN Event!RemoveFd(k, fd) ELSE Message!RemoveFd(k, fd)
SetPollIn(k, fd)    == IF OnEvents(k) THEN Event!SetPollIn(k, fd) ELSE Message!SetPollIn(k, fd)
ResetPollIn(k, fd)  == IF OnEvents(k) THEN Event!ResetPollIn(k, fd) ELSE Message!ResetPollIn(k, fd)
SetPollOut(k, fd)   == IF OnEvents(k) THEN Event!SetPollOut(k, fd) ELSE Message!SetPollOut(k, fd)
ResetPollOut(k, fd) == IF OnEvents(k) THEN Event!ResetPollOut(k, fd) ELSE Message!ResetPollOut(k, fd)

\* Poll between the callbacks and the timers.
PollStep == \/ OnEvents(os) /\ Event!PollStep
            \/ ~OnEvents(os) /\ Message!PollStep

\* Poll is about to call the sink of an entry: OnReadable or OnWritable.
Calling    == pc = "dispatch" /\ calls # <<>>
CalledSink == os.fds_[Head(calls).slot].sink
Readable   == Head(calls).ev \in ReadEvents

LiveEntries == {i \in DOMAIN os.fds_ : os.fds_[i].fd # INVALID_SOCKET}
Registered  == {os.fds_[i].fd : i \in LiveEntries}

\* The tables of the poller and the system agree at all times, although
\* callbacks and timers change them in the middle of Poll: a socket has one
\* entry; what the system has selected for it is what the entry says; it
\* signals the entry's own event, which exists; and no other event exists, so
\* none is leaked and none is shared.
SelectionsMatch ==
  /\ \A i, j \in LiveEntries : os.fds_[i].fd = os.fds_[j].fd => i = j
  /\ \A i \in LiveEntries : IsOpen(os, os.fds_[i].fd) =>
       LET s == os.socks[os.fds_[i].fd]
       IN  s.sel = os.fds_[i].lEvents /\ (s.sel # {} => s.hEvent = os.fds_[i].hEvent)
  /\ DOMAIN os.events = When(OnEvents(os), {os.fds_[i].hEvent : i \in LiveEntries})
  /\ Cardinality(DOMAIN os.events) = IF OnEvents(os) THEN Cardinality(LiveEntries) ELSE 0
=============================================================================
