---------------------------- MODULE SelectPoller ----------------------------
(***************************************************************************)
(* The select() reactor (src/src/SelectPoller.cpp) with the code that uses *)
(* it.  Poll copies the three interest sets, calls select, walks the vector*)
(* of registered descriptors and calls the sinks of the ready ones, lets   *)
(* the due timers run, and sweeps the entries retired on the way.  Between *)
(* Polls, in a sink and in a timer the user code may register, unregister  *)
(* and change interest: Poll's loop runs over a vector its own callbacks   *)
(* change, with ready sets that were computed before.                      *)
(*                                                                         *)
(* UpdateTimer is TimerSched's; here it is a window in which user code     *)
(* runs.  Socket handles are small integers the system reuses at once, sink*)
(* objects are addresses the allocator reuses at once.                     *)
(***************************************************************************)
EXTENDS Tables

CONSTANTS Handles,           \* values of SOCKET that the system hands out
          Objs,              \* addresses of IPollEvent objects
          FD_SETSIZE,        \* capacity of an fd_set, limit of AddFd
          INVALID_SOCKET,
          NULL,
          RemoveBetweenPolls \* does user code call RemoveFd outside Poll?

ASSUME SelectAssumption == /\ FD_SETSIZE \in Nat \ {0}
                           /\ INVALID_SOCKET \notin Handles
                           /\ NULL \notin Objs
                           /\ RemoveBetweenPolls \in BOOLEAN

VARIABLES
  fds_,         \* vector of registered descriptors with their sinks
  has_retired_,
  readfds_, writefds_, exceptfds_,  \* interest sets
  open,         \* open sockets that user code handed to the poller
  alive,        \* their sink objects
  pc,           \* where control is
  ret,          \* where the running sink returns to
  callee,       \* history: the sink whose callback is running, or NULL
  i,            \* Poll's loop index
  fd,           \* Poll's local copy of fds_[i].fd
  rdset, wrset, exptset,            \* select's results
  due           \* history: <<descriptor, set>> pairs still to be served

interest == <<readfds_, writefds_, exceptfds_>>
ready    == <<rdset, wrset, exptset>>
system   == <<open, alive>>
flow     == <<ret, callee>>
vars     == <<fds_, has_retired_, interest, system, pc, flow, i, fd, ready, due>>

Entry(f, s)   == [fd |-> f, sink |-> s]
RetiredEntry  == Entry(INVALID_SOCKET, NULL)
Entries       == {fds_[k] : k \in DOMAIN fds_}
Registered    == {e.fd : e \in Entries} \ {INVALID_SOCKET}
SinkOf(f)     == (CHOOSE e \in Entries : e.fd = f).sink

\* FD_SET ignores a descriptor when the set is full.
FdSet(f, set) == IF Cardinality(set) < FD_SETSIZE THEN set \cup {f} ELSE set
FdClr(f, set) == set \ {f}

Init == /\ fds_ = <<>>
        /\ has_retired_ = FALSE
        /\ readfds_ = {} /\ writefds_ = {} /\ exceptfds_ = {}
        /\ open = {} /\ alive = {}
        /\ pc = "idle" /\ ret = "idle" /\ callee = NULL
        /\ i = 0 /\ fd = INVALID_SOCKET
        /\ rdset = {} /\ wrset = {} /\ exptset = {}
        /\ due = {}
-----------------------------------------------------------------------------
(* The API *)

\* Mutant: one entry too many.
AddFdFailsLate == Len(fds_) > FD_SETSIZE

AddFdFails == Len(fds_) >= FD_SETSIZE

AddFd(f, event) == /\ ~AddFdFails
                   /\ fds_' = Append(fds_, Entry(f, event))
                   /\ exceptfds_' = FdSet(f, exceptfds_)

\* Mutant: the sink stays in the retired entry.
MarkRetiredKeepsSink(f) ==
  LET hits == {k \in DOMAIN fds_ : fds_[k].fd = f}
      first == CHOOSE k \in hits : \A m \in hits : k <= m
  IN  /\ fds_' = IF hits = {} THEN fds_ ELSE [fds_ EXCEPT ![first].fd = INVALID_SOCKET]
      /\ has_retired_' = TRUE

\* The first entry of the descriptor becomes a retired one; it keeps its place.
MarkRetired(f) ==
  LET hits == {k \in DOMAIN fds_ : fds_[k].fd = f}
      first == CHOOSE k \in hits : \A m \in hits : k <= m
  IN  /\ fds_' = IF hits = {} THEN fds_ ELSE [fds_ EXCEPT ![first] = RetiredEntry]
      /\ has_retired_' = TRUE

\* Mutant: write interest is left behind.
RemoveKeepsWrite(f) == /\ MarkRetired(f)
                       /\ readfds_' = FdClr(f, readfds_)
                       /\ exceptfds_' = FdClr(f, exceptfds_)
                       /\ UNCHANGED writefds_

RemoveFd(f) == /\ MarkRetired(f)
               /\ readfds_' = FdClr(f, readfds_)
               /\ writefds_' = FdClr(f, writefds_)
               /\ exceptfds_' = FdClr(f, exceptfds_)

RemoveRetired == /\ fds_' = IF has_retired_ THEN Swept(fds_, INVALID_SOCKET) ELSE fds_
                 /\ has_retired_' = FALSE
-----------------------------------------------------------------------------
(* User code: in the main loop, in a sink's callback, in a timer's callback.*)

UserCode == pc \in {"idle", "callback", "timers"}

\* accept or socket, a new sink, AddFd.
Register(f, event) == /\ UserCode
                      /\ f \notin open
                      /\ event \notin alive
                      /\ AddFd(f, event)
                      /\ open' = open \cup {f}
                      /\ alive' = alive \cup {event}
                      /\ UNCHANGED <<has_retired_, readfds_, writefds_, pc, flow, i, fd, ready, due>>

\* AddFd returned -1 and changed nothing: the descriptor is not the poller's.
RegisterFails == /\ UserCode
                 /\ AddFdFails
                 /\ UNCHANGED vars

\* RemoveFd, closesocket, delete of the sink, in this order.
Unregister(f) == /\ UserCode
                 /\ pc = "idle" => RemoveBetweenPolls
                 /\ f \in open
                 /\ RemoveFd(f)
                 /\ open' = open \ {f}
                 /\ alive' = alive \ {SinkOf(f)}
                 /\ due' = {d \in due : d[1] # f}
                 /\ UNCHANGED <<pc, flow, i, fd, ready>>

SetPollIn(f)    == readfds_' = FdSet(f, readfds_) /\ UNCHANGED writefds_
ResetPollIn(f)  == readfds_' = FdClr(f, readfds_) /\ UNCHANGED writefds_
SetPollOut(f)   == writefds_' = FdSet(f, writefds_) /\ UNCHANGED readfds_
ResetPollOut(f) == writefds_' = FdClr(f, writefds_) /\ UNCHANGED readfds_

ChangeInterest(f) == /\ UserCode
                     /\ f \in open
                     /\ \/ SetPollIn(f)
                        \/ ResetPollIn(f)
                        \/ SetPollOut(f)
                        \/ ResetPollOut(f)
                     /\ UNCHANGED <<fds_, has_retired_, exceptfds_, system, pc, flow, i, fd, ready, due>>

\* A sink's callback returns into Poll.
CallbackReturn == /\ pc = "callback"
                  /\ pc' = ret
                  /\ ret' = "idle"
                  /\ callee' = NULL
                  /\ UNCHANGED <<fds_, has_retired_, interest, system, i, fd, ready, due>>
-----------------------------------------------------------------------------
(* Poll *)

Interest == readfds_ \cup writefds_ \cup exceptfds_

\* select always fails with WSAEINVAL when the three sets are empty, and with
\* WSAENOTSOCK when one holds a closed socket.
SelectFails == Interest = {} \/ ~(Interest \subseteq open)

Pairs(r, w, e) == (r \X {"read"}) \cup (w \X {"write"}) \cup (e \X {"except"})

\* Nothing is registered: Sleep, then timers.
PollSleep == /\ pc = "idle"
             /\ fds_ = <<>>
             /\ pc' = "timers"
             /\ UNCHANGED <<fds_, has_retired_, interest, system, flow, i, fd, ready, due>>

\* select returned SOCKET_ERROR, as it must for the sets it was given or for
\* want of resources: Poll returns at once.
PollError == /\ pc = "idle"
             /\ fds_ # <<>>
             /\ UNCHANGED vars

\* select returned 0: nothing is ready.
PollTimeout == /\ pc = "idle"
               /\ fds_ # <<>>
               /\ ~SelectFails
               /\ pc' = "timers"
               /\ UNCHANGED <<fds_, has_retired_, interest, system, flow, i, fd, ready, due>>

\* select returned r > 0: the sets hold the descriptors that are ready.
PollReady == /\ pc = "idle"
             /\ fds_ # <<>>
             /\ ~SelectFails
             /\ \E r \in SUBSET readfds_, w \in SUBSET writefds_, e \in SUBSET exceptfds_ :
                  /\ r \cup w \cup e # {}
                  /\ rdset' = r
                  /\ wrset' = w
                  /\ exptset' = e
                  /\ due' = Pairs(r, w, e)
             /\ pc' = "next"
             /\ i' = 1
             /\ UNCHANGED <<fds_, has_retired_, interest, system, flow, fd>>

\* The head of the loop over fds_, whose size is read in every iteration.
LoopNext == /\ pc = "next"
            /\ i <= Len(fds_)
            /\ IF fds_[i].fd = INVALID_SOCKET
                 THEN pc' = "advance" /\ UNCHANGED fd
                 ELSE pc' = "except" /\ fd' = fds_[i].fd
            /\ UNCHANGED <<fds_, has_retired_, interest, system, flow, i, ready, due>>

\* Mutant: Poll returns after serving descriptors, without timers.
LoopEndSkipsTimers == /\ pc = "next"
                      /\ i > Len(fds_)
                      /\ RemoveRetired
                      /\ pc' = "idle"
                      /\ i' = 0
                      /\ fd' = INVALID_SOCKET
                      /\ rdset' = {} /\ wrset' = {} /\ exptset' = {}
                      /\ UNCHANGED <<interest, system, flow, due>>

LoopEnd == /\ pc = "next"
           /\ i > Len(fds_)
           /\ pc' = "timers"
           /\ i' = 0
           /\ fd' = INVALID_SOCKET
           /\ rdset' = {} /\ wrset' = {} /\ exptset' = {}
           /\ UNCHANGED <<fds_, has_retired_, interest, system, flow, due>>

\* One of the loop's three tests: FD_ISSET(fd, &set) and the call of the sink.
\* A sink that is NULL is called all the same.  The tests of fd between the
\* three look at the local copy, which never changes.
Dispatch(from, set, to) ==
  /\ pc = from
  /\ IF fd \in set
       THEN /\ pc' = IF fds_[i].sink = NULL THEN "crashed" ELSE "callback"
            /\ callee' = fds_[i].sink
            /\ ret' = to
            /\ due' = due \ {<<fd, from>>}
       ELSE pc' = to /\ UNCHANGED <<flow, due>>
  /\ UNCHANGED <<fds_, has_retired_, interest, system, i, fd, ready>>

TestExcept == Dispatch("except", exptset, "write")
TestWrite  == Dispatch("write", wrset, "read")
TestRead   == Dispatch("read", rdset, "advance")

\* Mutant: the sweep runs in the loop, and entries move up.
AdvanceSweeps == /\ pc = "advance"
                 /\ RemoveRetired
                 /\ pc' = "next"
                 /\ i' = i + 1
                 /\ UNCHANGED <<interest, system, flow, fd, ready, due>>

\* i++, at the end of an iteration or after `continue`.
Advance == /\ pc = "advance"
           /\ pc' = "next"
           /\ i' = i + 1
           /\ UNCHANGED <<fds_, has_retired_, interest, system, flow, fd, ready, due>>

\* Mutant: Poll forgets to sweep.
PollEndNoSweep == /\ pc = "timers"
                  /\ pc' = "idle"
                  /\ UNCHANGED <<fds_, has_retired_, interest, system, flow, i, fd, ready, due>>

\* UpdateTimer has returned; RemoveRetired; Poll returns.
PollEnd == /\ pc = "timers"
           /\ RemoveRetired
           /\ pc' = "idle"
           /\ UNCHANGED <<interest, system, flow, i, fd, ready, due>>

Crashed == pc = "crashed" /\ UNCHANGED vars

PollWorks == PollSleep \/ PollTimeout \/ PollReady
PollStep  == \/ LoopNext \/ LoopEnd
             \/ TestExcept \/ TestWrite \/ TestRead \/ Advance

Next == \/ \E f \in Handles, event \in Objs : Register(f, event)
        \/ RegisterFails
        \/ \E f \in Handles : Unregister(f) \/ ChangeInterest(f)
        \/ CallbackReturn
        \/ PollWorks
        \/ PollError
        \/ PollStep
        \/ PollEnd
        \/ Crashed

Spec == Init /\ [][Next]_vars

\* The main loop keeps calling Poll, and select does not fail for ever where
\* it can succeed; Poll's own code runs; sinks and timers return.
Fairness == /\ SF_vars(PollWorks)
            /\ WF_vars(PollStep)
            /\ SF_vars(CallbackReturn)
            /\ SF_vars(PollEnd)

FairSpec == Spec /\ Fairness
-----------------------------------------------------------------------------
(* Properties *)

TypeOK ==
  /\ fds_ \in Seq([fd : Handles \cup {INVALID_SOCKET}, sink : Objs \cup {NULL}])
  /\ Len(fds_) <= FD_SETSIZE
  /\ has_retired_ \in BOOLEAN
  /\ readfds_ \subseteq Handles /\ writefds_ \subseteq Handles /\ exceptfds_ \subseteq Handles
  /\ open \subseteq Handles /\ alive \subseteq Objs
  /\ pc \in {"idle", "next", "except", "write", "read", "advance", "callback", "timers", "crashed"}
  /\ ret \in {"idle", "write", "read", "advance"}
  /\ callee \in Objs \cup {NULL}
  /\ i \in 0 .. FD_SETSIZE + 1
  /\ fd \in Handles \cup {INVALID_SOCKET}
  /\ rdset \subseteq Handles /\ wrset \subseteq Handles /\ exptset \subseteq Handles
  /\ due \subseteq Handles \X {"read", "write", "except"}

\* The vector, the interest sets and the system agree at all times, although
\* callbacks change them in the middle of Poll's loop: every open socket has
\* exactly one entry, whose sink exists; error polling covers exactly the
\* registered descriptors; no interest is left behind for a descriptor that
\* was removed, so select is never given a closed socket.
SetsMatchEntries ==
  /\ Registered = open
  /\ exceptfds_ = open
  /\ readfds_ \cup writefds_ \subseteq open
  /\ \A j, k \in DOMAIN fds_ :
       fds_[j].fd # INVALID_SOCKET /\ fds_[j].fd = fds_[k].fd => j = k
  /\ \A k \in DOMAIN fds_ : IF fds_[k].fd = INVALID_SOCKET
                              THEN fds_[k].sink = NULL
                              ELSE fds_[k].sink \in alive

\* Retired entries keep their place while Poll walks the vector, so removing
\* one descriptor never makes the loop miss another: when the loop ends, every
\* readiness select reported was delivered or its descriptor removed.
AllServed == pc = "timers" => due = {}

\* Entries retired by sinks and timers are gone when Poll returns, so they
\* do not count against AddFd's limit between Polls.
NoRetiredBetweenPolls ==
  pc = "idle" => ~has_retired_ /\ RetiredEntry \notin Entries

\* Poll comes to run the due timers again and again, whatever sinks do.
TimersServed == []<>(pc \in {"timers", "crashed"})

\* The descriptor under service was removed.
ServedIsGone == pc \in {"callback", "write", "read"} /\ fds_[i].fd # fd

Promise == INSTANCE Reactor WITH
  Descriptors <- Handles,
  Sinks  <- Objs,
  reg    <- [f \in Registered |-> SinkOf(f)],
  sink   <- callee,
  gone   <- ServedIsGone,
  broken <- pc = "crashed"

\* The poller keeps the promise of a reactor: although Poll walks a vector
\* that callbacks change, with ready sets as old as the call of select and
\* handles that are reused, no sink is called that is not registered, except
\* through the entry of the descriptor whose own callback removed it.
ImplementsReactor == Promise!RSpec
=============================================================================
