------------------------- MODULE SelectPollerProofs -------------------------
(***************************************************************************)
(* Proofs about SelectPoller, for every set of handles and sinks and every *)
(* capacity of an fd_set.                                                  *)
(***************************************************************************)
EXTENDS SelectPoller, TablesProofs

EntryType == [fd : Handles \cup {INVALID_SOCKET}, sink : Objs \cup {NULL}]

InLoop  == pc \in {"next", "except", "write", "read", "advance", "callback"}
Serving == pc \in {"except", "write", "read", "callback"}

\* The test Poll makes next, or returns to from the callback.
At == IF pc = "callback" THEN ret ELSE pc

\* The tests Poll still makes for the entry at index i.
Untested == CASE At \in {"next", "except"} -> {"except", "write", "read"}
              [] At = "write"              -> {"write", "read"}
              [] At = "read"               -> {"read"}
              [] OTHER                     -> {}

\* The locals of Poll: the index stays inside the vector, and the entry at it
\* is the one Poll serves or was retired since; nothing else takes its place.
ControlInv ==
  /\ pc = "callback" <=> callee # NULL
  /\ pc = "callback" => ret # "idle"
  /\ InLoop => i \in 1 .. Len(fds_) + 1
  /\ InLoop /\ pc # "next" => i <= Len(fds_)
  /\ Serving => fd # INVALID_SOCKET /\ fds_[i].fd \in {fd, INVALID_SOCKET}
  /\ pc = "except" => fds_[i].fd = fd
  /\ pc = "callback" /\ fds_[i].fd = fd => callee = fds_[i].sink
  /\ ~InLoop /\ pc # "crashed" => i = 0 /\ due = {}

\* has_retired_ is set while there are retired entries.
RetiredInv ==
  /\ \A k \in DOMAIN fds_ : fds_[k].fd = INVALID_SOCKET => has_retired_
  /\ ~RemoveBetweenPolls /\ pc = "idle" => ~has_retired_

\* What is still to be served is ahead of Poll in the vector.
DueInv ==
  pc # "crashed" =>
    /\ due \subseteq Pairs(rdset, wrset, exptset)
    /\ \A d \in due : \E k \in DOMAIN fds_ : /\ fds_[k].fd = d[1]
                                             /\ k >= i
                                             /\ k = i => d[2] \in Untested

\* No sink serves two descriptors.
SinkInv == \A j, k \in DOMAIN fds_ :
             fds_[j].fd # INVALID_SOCKET /\ fds_[j].sink = fds_[k].sink => j = k

IInv == TypeOK /\ SetsMatchEntries /\ SinkInv /\ ControlInv /\ RetiredInv /\ DueInv
-----------------------------------------------------------------------------
(* The invariant *)

\* The registered descriptors are those of the entries that are not retired.
LEMMA RegisteredIs == \A f : f \in Registered <=>
                        f # INVALID_SOCKET /\ \E k \in DOMAIN fds_ : fds_[k].fd = f
  BY DEF Registered, Entries

\* An entry's fields.
LEMMA EntryAt == ASSUME TypeOK, NEW k \in DOMAIN fds_
                 PROVE  /\ fds_[k].fd \in Handles \cup {INVALID_SOCKET}
                        /\ fds_[k].sink \in Objs \cup {NULL}
  <1>1. fds_ \in Seq(EntryType)
    BY DEF TypeOK, EntryType
  <1>2. fds_[k] \in EntryType
    BY <1>1
  <1> QED
    BY <1>2 DEF EntryType

\* There are no more registered descriptors than entries.
LEMMA RegisteredBound == ASSUME TypeOK
                         PROVE  /\ IsFiniteSet(Registered)
                                /\ Cardinality(Registered) \in Nat
                                /\ Cardinality(Registered) <= Len(fds_)
  <1> DEFINE g == [k \in 1 .. Len(fds_) |-> fds_[k].fd]
             T == {fds_[k].fd : k \in 1 .. Len(fds_)}
  <1>1. Len(fds_) \in Nat /\ DOMAIN fds_ = 1 .. Len(fds_)
    BY DEF TypeOK
  <1>2. g \in Surjection(1 .. Len(fds_), T)
    BY DEF Surjection
  <1>3. IsFiniteSet(1 .. Len(fds_)) /\ Cardinality(1 .. Len(fds_)) = Len(fds_)
    <2>1. /\ IsFiniteSet(1 .. Len(fds_))
          /\ Cardinality(1 .. Len(fds_)) = IF 1 > Len(fds_) THEN 0 ELSE Len(fds_) - 1 + 1
      BY <1>1, FS_Interval, 1 \in Int, Len(fds_) \in Int
    <2> QED
      BY <1>1, <2>1
  <1> HIDE DEF g, T
  <1>4. IsFiniteSet(T) /\ Cardinality(T) <= Len(fds_)
    BY <1>2, <1>3, FS_Surjection
  <1>5. Registered \subseteq T
    BY <1>1, RegisteredIs DEF T
  <1>6. Cardinality(T) \in Nat
    BY <1>4, FS_CardinalityType
  <1> QED
    BY <1>1, <1>4, <1>5, <1>6, FS_Subset, FS_CardinalityType

\* An empty poller satisfies the invariant.
LEMMA InitIInv == Init => IInv
  <1> SUFFICES ASSUME Init PROVE IInv
    OBVIOUS
  <1> USE DEF Init
  <1>1. TypeOK
    <2>1. fds_ \in Seq([fd : Handles \cup {INVALID_SOCKET}, sink : Objs \cup {NULL}])
      OBVIOUS
    <2>2. Len(fds_) = 0
      OBVIOUS
    <2>3. Len(fds_) <= FD_SETSIZE /\ i \in 0 .. FD_SETSIZE + 1
      BY <2>2, SelectAssumption
    <2> QED
      BY <2>1, <2>3 DEF TypeOK
  <1>2. SetsMatchEntries
    BY DEF SetsMatchEntries, Registered, Entries
  <1>3. SinkInv /\ RetiredInv
    BY DEF SinkInv, RetiredInv
  <1>4. ControlInv /\ DueInv
    BY DEF ControlInv, DueInv, InLoop, Serving
  <1> QED
    BY <1>1, <1>2, <1>3, <1>4 DEF IInv

\* A new entry at the end of the vector.
LEMMA RegisterIInv == ASSUME IInv, NEW f \in Handles, NEW event \in Objs, Register(f, event)
                      PROVE  IInv'
  <1> USE SelectAssumption DEF IInv, Register, AddFd, AddFdFails, interest, ready, system, flow
  <1>1. /\ Len(fds_) \in Nat /\ DOMAIN fds_ = 1 .. Len(fds_)
        /\ fds_ \in Seq(EntryType) /\ Entry(f, event) \in EntryType
    BY DEF TypeOK, EntryType, Entry
  <1>2. /\ fds_' \in Seq(EntryType)
        /\ Len(fds_') = Len(fds_) + 1
        /\ DOMAIN fds_' = 1 .. Len(fds_) + 1
        /\ \A k \in DOMAIN fds_ : fds_'[k] = fds_[k]
        /\ fds_'[Len(fds_) + 1] = Entry(f, event)
    BY <1>1
  <1>3. \A k \in DOMAIN fds_' : k \in DOMAIN fds_ \/ k = Len(fds_) + 1
    BY <1>1, <1>2
  <1>4. Entry(f, event).fd = f /\ Entry(f, event).sink = event /\ f # INVALID_SOCKET
    BY DEF Entry
  <1>5. exceptfds_' = exceptfds_ \cup {f}
    <2>1. exceptfds_ = Registered
      BY DEF SetsMatchEntries
    <2>2. Cardinality(exceptfds_) \in Nat /\ Cardinality(exceptfds_) <= Len(fds_)
      BY <2>1, RegisteredBound
    <2>3. Cardinality(exceptfds_) < FD_SETSIZE
      BY <1>1, <2>2
    <2> QED
      BY <2>3 DEF FdSet
  <1>6. TypeOK'
    BY <1>1, <1>2, <1>5 DEF TypeOK, EntryType
  <1>7. SetsMatchEntries'
    <2>1. Registered' = Registered \cup {f}
      <3>1. Registered' = {e.fd : e \in Entries'} \ {INVALID_SOCKET}
        BY DEF Registered
      <3>2. \A g : g \in Registered' <=> g # INVALID_SOCKET /\ \E k \in DOMAIN fds_' : fds_'[k].fd = g
        BY <3>1 DEF Entries
      <3> QED
        BY <1>1, <1>2, <1>3, <1>4, <3>2, RegisteredIs
    <2>2. \A k \in DOMAIN fds_ : fds_[k].fd # f
      BY <1>4, RegisteredIs DEF SetsMatchEntries
    <2> QED
      BY <1>1, <1>2, <1>3, <1>4, <1>5, <2>1, <2>2 DEF SetsMatchEntries
  <1>8. SinkInv'
    <2>1. \A k \in DOMAIN fds_ : fds_[k].sink # event
      BY DEF SetsMatchEntries
    <2> QED
      BY <1>1, <1>2, <1>3, <1>4, <2>1 DEF SinkInv
  <1>9. RetiredInv'
    BY <1>1, <1>2, <1>3, <1>4 DEF RetiredInv
  <1>10. ControlInv'
    BY <1>1, <1>2 DEF ControlInv, InLoop, Serving, TypeOK
  <1>11. DueInv'
    BY <1>1, <1>2 DEF DueInv, Untested, At
  <1> QED
    BY <1>6, <1>7, <1>8, <1>9, <1>10, <1>11

\* RemoveFd retires the one entry of the descriptor, in its place.
LEMMA RetireFacts ==
  ASSUME TypeOK, SetsMatchEntries, NEW f \in open, MarkRetired(f)
  PROVE  \E k \in DOMAIN fds_ : /\ fds_[k].fd = f
                                /\ fds_' = [fds_ EXCEPT ![k] = RetiredEntry]
                                /\ SinkOf(f) = fds_[k].sink
  <1>1. PICK k \in DOMAIN fds_ : fds_[k].fd = f
    BY RegisteredIs DEF SetsMatchEntries
  <1>2. f # INVALID_SOCKET
    BY RegisteredIs DEF SetsMatchEntries
  <1>3. \A m \in DOMAIN fds_ : fds_[m].fd = f => m = k
    BY <1>1, <1>2 DEF SetsMatchEntries
  <1> DEFINE hits == {m \in DOMAIN fds_ : fds_[m].fd = f}
  <1>4. hits = {k}
    BY <1>1, <1>3
  <1>5. (CHOOSE m \in hits : \A n \in hits : m <= n) = k
    <2>1. k <= k
      BY <1>1 DEF TypeOK
    <2> HIDE DEF hits
    <2> QED
      BY <1>4, <2>1
  <1>6. fds_' = [fds_ EXCEPT ![k] = RetiredEntry]
    BY <1>4, <1>5 DEF MarkRetired
  <1>7. SinkOf(f) = fds_[k].sink
    <2>1. fds_[k] \in Entries /\ \A e \in Entries : e.fd = f => e = fds_[k]
      BY <1>1, <1>3 DEF Entries
    <2> QED
      BY <1>1, <2>1 DEF SinkOf
  <1> QED
    BY <1>1, <1>6, <1>7

\* RemoveFd, closesocket and delete, from wherever user code runs.
LEMMA UnregisterIInv == ASSUME IInv, NEW f \in Handles, Unregister(f)
                        PROVE  IInv'
  <1> USE SelectAssumption DEF IInv, Unregister, RemoveFd, FdClr, interest, ready, system, flow
  <1>1. PICK k \in DOMAIN fds_ : /\ fds_[k].fd = f
                                 /\ fds_' = [fds_ EXCEPT ![k] = RetiredEntry]
                                 /\ SinkOf(f) = fds_[k].sink
    BY RetireFacts
  <1>2. /\ Len(fds_) \in Nat /\ DOMAIN fds_ = 1 .. Len(fds_)
        /\ fds_ \in Seq(EntryType) /\ RetiredEntry \in EntryType
    BY DEF TypeOK, EntryType, Entry, RetiredEntry
  <1>3. /\ fds_' \in Seq(EntryType)
        /\ Len(fds_') = Len(fds_)
        /\ DOMAIN fds_' = DOMAIN fds_
        /\ fds_'[k] = RetiredEntry
        /\ \A m \in DOMAIN fds_ : m # k => fds_'[m] = fds_[m]
    BY <1>1, <1>2
  <1>4. RetiredEntry.fd = INVALID_SOCKET /\ RetiredEntry.sink = NULL /\ f # INVALID_SOCKET
    BY DEF RetiredEntry, Entry
  <1>5. has_retired_' = TRUE
    BY DEF MarkRetired
  <1>6. TypeOK'
    BY <1>2, <1>3, <1>5 DEF TypeOK, EntryType
  <1>7. \A m \in DOMAIN fds_ : fds_[m].fd = f => m = k
    BY <1>1, <1>4 DEF SetsMatchEntries
  <1>8. SetsMatchEntries'
    <2>1. Registered' = Registered \ {f}
      <3>1. Registered' = {e.fd : e \in Entries'} \ {INVALID_SOCKET}
        BY DEF Registered
      <3>2. \A g : g \in Registered' <=> g # INVALID_SOCKET /\ \E m \in DOMAIN fds_' : fds_'[m].fd = g
        BY <3>1 DEF Entries
      <3> QED
        BY <1>1, <1>3, <1>4, <1>7, <3>2, RegisteredIs
    <2>2. \A m \in DOMAIN fds_ : m # k /\ fds_[m].fd # INVALID_SOCKET => fds_[m].sink # fds_[k].sink
      BY <1>1 DEF SinkInv
    <2>3. /\ Registered' = open'
          /\ exceptfds_' = open'
          /\ readfds_' \cup writefds_' \subseteq open'
      BY <2>1 DEF SetsMatchEntries
    <2>4. \A j, m \in DOMAIN fds_' :
            fds_'[j].fd # INVALID_SOCKET /\ fds_'[j].fd = fds_'[m].fd => j = m
      BY <1>3, <1>4 DEF SetsMatchEntries
    <2>5. \A m \in DOMAIN fds_' : IF fds_'[m].fd = INVALID_SOCKET
                                    THEN fds_'[m].sink = NULL
                                    ELSE fds_'[m].sink \in alive'
      BY <1>1, <1>3, <1>4, <2>2 DEF SetsMatchEntries
    <2> QED
      BY <2>3, <2>4, <2>5 DEF SetsMatchEntries
  <1>9. SinkInv'
    <2>1. \A m \in DOMAIN fds_ : fds_[m].fd # INVALID_SOCKET => fds_[m].sink # NULL
      BY DEF SetsMatchEntries, TypeOK
    <2> QED
      BY <1>3, <1>4, <2>1 DEF SinkInv
  <1>10. RetiredInv'
    <2>1. ~RemoveBetweenPolls => pc' # "idle"
      OBVIOUS
    <2> QED
      BY <1>5, <2>1 DEF RetiredInv
  <1>11. ControlInv'
    BY <1>2, <1>3, <1>4 DEF ControlInv, InLoop, Serving, TypeOK, UserCode
  <1>12. DueInv'
    <2> SUFFICES ASSUME pc # "crashed" PROVE DueInv'
      BY DEF DueInv
    <2>1. \A d \in due' : d \in due /\ d[1] # f
      OBVIOUS
    <2>2. ASSUME NEW d \in due'
          PROVE  \E m \in DOMAIN fds_' : fds_'[m].fd = d[1] /\ m >= i /\ (m = i => d[2] \in Untested)
      <3>1. PICK m \in DOMAIN fds_ : fds_[m].fd = d[1] /\ m >= i /\ (m = i => d[2] \in Untested)
        BY <2>1 DEF DueInv
      <3>2. m # k
        BY <1>1, <2>1, <3>1
      <3> QED
        BY <1>3, <3>1, <3>2
    <2>3. Untested' = Untested
      BY DEF Untested, At
    <2> QED
      BY <2>1, <2>2, <2>3 DEF DueInv
  <1> QED
    BY <1>6, <1>8, <1>9, <1>10, <1>11, <1>12

\* The steps that leave the vector and the interest sets alone keep what is
\* said about them.
LEMMA TablesUnchanged ==
  ASSUME IInv, UNCHANGED <<fds_, has_retired_, interest, system>>,
         pc' = "idle" => pc = "idle"
  PROVE  SetsMatchEntries' /\ SinkInv' /\ RetiredInv'
  <1> USE DEF IInv, interest, system
  <1>1. SetsMatchEntries'
    BY DEF SetsMatchEntries, Registered, Entries
  <1>2. SinkInv' /\ RetiredInv'
    BY DEF SinkInv, RetiredInv
  <1> QED
    BY <1>1, <1>2

\* SetPollIn and its kind: a full set ignores the descriptor.
LEMMA ChangeInterestIInv == ASSUME IInv, NEW f \in Handles, ChangeInterest(f)
                            PROVE  IInv'
  <1> USE DEF IInv, ChangeInterest, SetPollIn, ResetPollIn, SetPollOut, ResetPollOut, system, flow, ready
  <1>1. readfds_' \subseteq readfds_ \cup {f} /\ writefds_' \subseteq writefds_ \cup {f}
    BY DEF FdSet, FdClr
  <1>2. TypeOK'
    BY <1>1 DEF TypeOK
  <1>3. SetsMatchEntries'
    BY <1>1 DEF SetsMatchEntries, Registered, Entries
  <1>4. SinkInv' /\ RetiredInv'
    BY DEF SinkInv, RetiredInv
  <1>5. ControlInv' /\ DueInv'
    BY DEF ControlInv, InLoop, Serving, DueInv, Untested, At
  <1> QED
    BY <1>2, <1>3, <1>4, <1>5

\* A callback returns to the next test.
LEMMA CallbackReturnIInv == ASSUME IInv, CallbackReturn PROVE IInv'
  <1> USE DEF IInv, CallbackReturn, ready
  <1>1. pc' # "idle"
    BY DEF ControlInv
  <1>2. TypeOK'
    BY <1>1 DEF TypeOK, interest, system
  <1>3. SetsMatchEntries' /\ SinkInv' /\ RetiredInv'
    BY <1>1, TablesUnchanged
  <1>4. pc' \in {"write", "read", "advance"} /\ callee' = NULL
    BY <1>1 DEF TypeOK
  <1>5. ControlInv'
    BY <1>4 DEF ControlInv, InLoop, Serving
  <1>6. DueInv'
    BY <1>4 DEF DueInv, Untested, At
  <1> QED
    BY <1>2, <1>3, <1>5, <1>6

\* select returns.
LEMMA PollWorksIInv == ASSUME IInv, PollWorks PROVE IInv'
  <1> USE DEF IInv, PollWorks, PollSleep, PollTimeout, PollReady, flow
  <1>1. CASE PollSleep \/ PollTimeout
    <2> USE <1>1 DEF ready
    <2>1. TypeOK'
      BY DEF TypeOK, interest, system
    <2>2. SetsMatchEntries' /\ SinkInv' /\ RetiredInv'
      BY TablesUnchanged
    <2>3. ControlInv'
      BY DEF ControlInv, InLoop, Serving
    <2>4. DueInv'
      BY <2>3 DEF ControlInv, DueInv, InLoop
    <2> QED
      BY <2>1, <2>2, <2>3, <2>4
  <1>2. CASE PollReady
    <2> USE <1>2
    <2>1. rdset' \subseteq readfds_ /\ wrset' \subseteq writefds_ /\ exptset' \subseteq exceptfds_
      OBVIOUS
    <2>2. due' = Pairs(rdset', wrset', exptset')
      OBVIOUS
    <2>3. TypeOK'
      <3>1. due' \subseteq Handles \X {"read", "write", "except"}
        BY <2>1, <2>2 DEF Pairs, TypeOK
      <3>2. i' \in 0 .. FD_SETSIZE + 1
        BY SelectAssumption
      <3> QED
        BY <2>1, <3>1, <3>2 DEF TypeOK, interest, system
    <2>4. SetsMatchEntries' /\ SinkInv' /\ RetiredInv'
      BY TablesUnchanged
    <2>5. ControlInv'
      BY DEF ControlInv, InLoop, Serving, TypeOK
    <2>6. DueInv'
      <3> SUFFICES ASSUME NEW d \in due'
                   PROVE  \E k \in DOMAIN fds_ : fds_[k].fd = d[1] /\ k >= 1 /\ d[2] \in Untested'
        BY <2>2 DEF DueInv
      <3>1. d[1] \in open /\ d[2] \in {"except", "write", "read"}
        BY <2>1, <2>2 DEF Pairs, SetsMatchEntries
      <3>2. PICK k \in DOMAIN fds_ : fds_[k].fd = d[1]
        BY <3>1, RegisteredIs DEF SetsMatchEntries
      <3>3. k >= 1
        BY DEF TypeOK
      <3>4. Untested' = {"except", "write", "read"}
        BY DEF Untested, At
      <3> QED
        BY <3>1, <3>2, <3>3, <3>4
    <2> QED
      BY <2>3, <2>4, <2>5, <2>6
  <1> QED
    BY <1>1, <1>2

\* The head of the loop, on a live entry or on a retired one.
LEMMA LoopNextIInv == ASSUME IInv, LoopNext PROVE IInv'
  <1> USE DEF IInv, LoopNext, flow, ready
  <1>1. i \in DOMAIN fds_ /\ i \in Nat
    BY DEF ControlInv, InLoop, TypeOK
  <1>2. fds_[i].fd \in Handles \cup {INVALID_SOCKET}
    BY <1>1, EntryAt
  <1>3. TypeOK'
    BY <1>2 DEF TypeOK, interest, system
  <1>4. SetsMatchEntries' /\ SinkInv' /\ RetiredInv'
    BY TablesUnchanged
  <1>5. ControlInv'
    BY <1>1 DEF ControlInv, InLoop, Serving
  <1>6. DueInv'
    <2>1. CASE fds_[i].fd = INVALID_SOCKET
      <3>1. \A d \in due : d[1] # INVALID_SOCKET
        BY SelectAssumption DEF TypeOK
      <3> QED
        BY <2>1, <3>1 DEF DueInv
    <2>2. CASE fds_[i].fd # INVALID_SOCKET
      <3>1. Untested' = {"except", "write", "read"} /\ Untested = {"except", "write", "read"}
        BY <2>2 DEF Untested, At
      <3> QED
        BY <2>2, <3>1 DEF DueInv
    <2> QED
      BY <2>1, <2>2
  <1> QED
    BY <1>3, <1>4, <1>5, <1>6

\* At the end of the vector nothing is left to be served.
LEMMA LoopEndIInv == ASSUME IInv, LoopEnd PROVE IInv'
  <1> USE DEF IInv, LoopEnd, flow
  <1>1. due = {}
    <2> SUFFICES ASSUME NEW d \in due PROVE FALSE
      OBVIOUS
    <2>1. PICK k \in DOMAIN fds_ : k >= i
      BY DEF DueInv
    <2> QED
      BY <2>1 DEF TypeOK
  <1>2. TypeOK'
    BY SelectAssumption DEF TypeOK, interest, system
  <1>3. SetsMatchEntries' /\ SinkInv' /\ RetiredInv'
    BY TablesUnchanged
  <1>4. ControlInv' /\ DueInv'
    BY <1>1 DEF ControlInv, InLoop, Serving, DueInv
  <1> QED
    BY <1>2, <1>3, <1>4

\* A test with its call: what was ready is delivered, what was not is not due.
LEMMA DispatchIInv ==
  ASSUME IInv, NEW from, NEW set, NEW to, Dispatch(from, set, to),
         \/ from = "except" /\ set = exptset /\ to = "write"
         \/ from = "write" /\ set = wrset /\ to = "read"
         \/ from = "read" /\ set = rdset /\ to = "advance"
  PROVE  IInv'
  <1> USE DEF IInv, Dispatch, ready
  <1>1. i \in DOMAIN fds_ /\ i \in Nat /\ fds_[i].sink \in Objs \cup {NULL}
    <2>1. i \in DOMAIN fds_ /\ i \in Nat
      BY DEF ControlInv, InLoop, TypeOK
    <2> QED
      BY <2>1, EntryAt
  <1>2. /\ pc' \in {to, "callback", "crashed"}
        /\ pc' = "callback" => ret' = to /\ callee' = fds_[i].sink /\ callee' # NULL
        /\ pc' # "callback" => callee' = NULL
        /\ pc' = to \/ ret' = to
        /\ callee = NULL /\ (pc' # "callback" /\ pc' # "crashed" => ret' = ret)
    BY DEF flow, ControlInv
  <1>3. (due' \subseteq due /\ <<fd, from>> \notin due') \/ pc' = "crashed"
    <2>1. CASE fd \in set
      BY <2>1
    <2>2. CASE fd \notin set
      <3>1. pc # "crashed" => due \subseteq Pairs(rdset, wrset, exptset)
        BY DEF DueInv
      <3>2. <<fd, from>> \notin Pairs(rdset, wrset, exptset)
        BY <2>2 DEF Pairs
      <3> QED
        BY <2>2, <3>1, <3>2
    <2> QED
      BY <2>1, <2>2
  <1>4. TypeOK'
    <2>1. due' \subseteq due
      OBVIOUS
    <2>2. ret' \in {"idle", "write", "read", "advance"} /\ callee' \in Objs \cup {NULL}
      BY <1>1 DEF TypeOK, flow
    <2> QED
      BY <1>2, <2>1, <2>2 DEF TypeOK, interest, system
  <1>5. SetsMatchEntries' /\ SinkInv' /\ RetiredInv'
    BY <1>2, TablesUnchanged
  <1>6. ControlInv'
    BY <1>1, <1>2 DEF ControlInv, InLoop, Serving
  <1>7. DueInv'
    <2> SUFFICES ASSUME pc' # "crashed", NEW d \in due'
                 PROVE  \E k \in DOMAIN fds_ : fds_[k].fd = d[1] /\ k >= i /\ (k = i => d[2] \in Untested')
      BY <1>3 DEF DueInv
    <2>1. PICK k \in DOMAIN fds_ : fds_[k].fd = d[1] /\ k >= i /\ (k = i => d[2] \in Untested)
      BY <1>3 DEF DueInv
    <2>2. At' = to /\ At = from
      BY <1>2 DEF At
    <2>3. Untested \ {from} \subseteq Untested'
      BY <2>2 DEF Untested
    <2>4. k = i => d[2] # from
      <3> SUFFICES ASSUME k = i, d[2] = from PROVE FALSE
        OBVIOUS
      <3>1. d[1] # INVALID_SOCKET /\ d = <<d[1], d[2]>>
        BY SelectAssumption, <1>4 DEF TypeOK
      <3>2. fds_[i].fd = fd
        BY <2>1, <3>1 DEF ControlInv, Serving
      <3> QED
        BY <1>3, <2>1, <3>1, <3>2
    <2> QED
      BY <2>1, <2>3, <2>4
  <1> QED
    BY <1>4, <1>5, <1>6, <1>7

\* The index moves on when all tests of the entry were made.
LEMMA AdvanceIInv == ASSUME IInv, Advance PROVE IInv'
  <1> USE DEF IInv, Advance, flow, ready
  <1>1. i \in 1 .. Len(fds_) /\ Len(fds_) \in Nat /\ Len(fds_) <= FD_SETSIZE
    BY DEF ControlInv, InLoop, TypeOK
  <1>2. TypeOK'
    BY <1>1, SelectAssumption DEF TypeOK, interest, system
  <1>3. SetsMatchEntries' /\ SinkInv' /\ RetiredInv'
    BY TablesUnchanged
  <1>4. ControlInv'
    BY <1>1 DEF ControlInv, InLoop, Serving
  <1>5. DueInv'
    <2> SUFFICES ASSUME NEW d \in due
                 PROVE  \E k \in DOMAIN fds_ : fds_[k].fd = d[1] /\ k >= i + 1 /\ d[2] \in Untested'
      BY DEF DueInv
    <2>1. PICK k \in DOMAIN fds_ : fds_[k].fd = d[1] /\ k >= i /\ (k = i => d[2] \in Untested)
      BY DEF DueInv
    <2>2. Untested = {} /\ Untested' = {"except", "write", "read"}
      BY DEF Untested, At
    <2>3. d[2] \in {"except", "write", "read"}
      BY DEF TypeOK
    <2>4. k \in Nat
      BY DEF TypeOK
    <2> QED
      BY <1>1, <2>1, <2>2, <2>3, <2>4
  <1> QED
    BY <1>2, <1>3, <1>4, <1>5

\* The sweep keeps every live entry.
LEMMA PollEndIInv == ASSUME IInv, PollEnd PROVE IInv'
  <1> USE DEF IInv
  <1>1. fds_ \in Seq(EntryType) /\ Len(fds_) \in Nat /\ DOMAIN fds_ = 1 .. Len(fds_)
    BY DEF TypeOK, EntryType
  <1>2. OneEach(fds_, INVALID_SOCKET)
    BY DEF SetsMatchEntries, OneEach
  <1>3. Left(fds_, Len(fds_), fds_', EntryType, INVALID_SOCKET)
    <2>1. CASE has_retired_
      BY <1>1, <2>1, SweptFacts DEF PollEnd, RemoveRetired
    <2>2. CASE ~has_retired_
      BY <1>1, <2>2 DEF Left, RetiredInv, PollEnd, RemoveRetired
    <2> QED
      BY <2>1, <2>2 DEF TypeOK
  <1>4. /\ DOMAIN fds_' = 1 .. Len(fds_')
        /\ \A k \in DOMAIN fds_' : fds_'[k].fd # INVALID_SOCKET /\ \E j \in DOMAIN fds_ : fds_'[k] = fds_[j]
        /\ \A j \in DOMAIN fds_ : fds_[j].fd # INVALID_SOCKET => \E k \in DOMAIN fds_' : fds_'[k] = fds_[j]
        /\ OneEach(fds_', INVALID_SOCKET)
    <2>1. DOMAIN fds_' = 1 .. Len(fds_')
      BY <1>3 DEF Left
    <2>2. \A k \in DOMAIN fds_' : fds_'[k].fd # INVALID_SOCKET /\ \E j \in DOMAIN fds_ : fds_'[k] = fds_[j]
      BY <1>1, <1>3, <2>1, Zenon DEF Left
    <2>3. \A j \in DOMAIN fds_ : fds_[j].fd # INVALID_SOCKET => \E k \in DOMAIN fds_' : fds_'[k] = fds_[j]
      BY <1>1, <1>3, <2>1, Zenon DEF Left
    <2>4. OneEach(fds_', INVALID_SOCKET)
      BY <1>2, <1>3 DEF Left
    <2> QED
      BY <2>1, <2>2, <2>3, <2>4
  <1> HIDE DEF IInv
  <1> USE DEF PollEnd, flow, ready, interest, system
  <1>5. TypeOK'
    <2>1. fds_' \in Seq(EntryType) /\ Len(fds_') <= Len(fds_)
      BY <1>3 DEF Left
    <2>2. Len(fds_') <= FD_SETSIZE
      <3>1. Len(fds_') \in Nat
        <4> HIDE DEF EntryType
        <4> QED
          BY <2>1
      <3> QED
        BY <1>1, <2>1, <3>1, SelectAssumption DEF TypeOK, IInv
    <2>3. has_retired_' \in BOOLEAN
      BY DEF RemoveRetired
    <2> QED
      BY <2>1, <2>2, <2>3 DEF TypeOK, EntryType, IInv
  <1>6. SetsMatchEntries'
    <2>1. Registered' = Registered
      <3>1. Registered' = {e.fd : e \in Entries'} \ {INVALID_SOCKET}
        BY DEF Registered
      <3>2. \A g : g \in Registered' <=> g # INVALID_SOCKET /\ \E k \in DOMAIN fds_' : fds_'[k].fd = g
        BY <3>1 DEF Entries
      <3>3. \A g : (\E k \in DOMAIN fds_' : fds_'[k].fd = g) /\ g # INVALID_SOCKET
                   <=> (\E j \in DOMAIN fds_ : fds_[j].fd = g) /\ g # INVALID_SOCKET
        BY <1>4
      <3>4. \A g : g \in Registered' <=> g \in Registered
        BY <3>2, <3>3, RegisteredIs, Zenon
      <3> QED
        BY <3>4
    <2>2. \A k \in DOMAIN fds_' : fds_'[k].sink \in alive /\ fds_'[k].fd # INVALID_SOCKET
      BY <1>4 DEF IInv, SetsMatchEntries
    <2> QED
      BY <1>4, <2>1, <2>2 DEF IInv, SetsMatchEntries, OneEach
  <1>7. SinkInv'
    <2> SUFFICES ASSUME NEW a \in DOMAIN fds_', NEW b \in DOMAIN fds_', fds_'[a].sink = fds_'[b].sink
                 PROVE  a = b
      BY DEF SinkInv
    <2>1. PICK j \in DOMAIN fds_ : fds_'[a] = fds_[j] /\ fds_[j].fd # INVALID_SOCKET
      BY <1>4
    <2>2. PICK k \in DOMAIN fds_ : fds_'[b] = fds_[k]
      BY <1>4
    <2>3. j = k
      BY <2>1, <2>2 DEF IInv, SinkInv
    <2> QED
      BY <1>4, <2>1, <2>2, <2>3 DEF OneEach
  <1>8. RetiredInv'
    BY <1>4 DEF RetiredInv, RemoveRetired
  <1>9. ControlInv' /\ DueInv'
    BY DEF IInv, ControlInv, InLoop, Serving, DueInv
  <1> QED
    BY <1>5, <1>6, <1>7, <1>8, <1>9 DEF IInv

\* Every step keeps the invariant.
LEMMA NextIInv == IInv /\ [Next]_vars => IInv'
  <1> SUFFICES ASSUME IInv, [Next]_vars PROVE IInv'
    OBVIOUS
  <1>1. CASE \E f \in Handles, event \in Objs : Register(f, event)
    BY <1>1, RegisterIInv
  <1>2. CASE \E f \in Handles : Unregister(f) \/ ChangeInterest(f)
    BY <1>2, UnregisterIInv, ChangeInterestIInv
  <1>3. CASE CallbackReturn
    BY <1>3, CallbackReturnIInv
  <1>4. CASE PollWorks
    BY <1>4, PollWorksIInv
  <1>5. CASE PollStep
    <2>1. CASE TestExcept \/ TestWrite \/ TestRead
      BY <2>1, DispatchIInv DEF TestExcept, TestWrite, TestRead
    <2> QED
      BY <1>5, <2>1, LoopNextIInv, LoopEndIInv, AdvanceIInv DEF PollStep
  <1>6. CASE PollEnd
    BY <1>6, PollEndIInv
  <1>7. CASE RegisterFails \/ PollError \/ Crashed \/ UNCHANGED vars
    <2>1. UNCHANGED vars
      BY <1>7 DEF RegisterFails, PollError, Crashed
    <2> USE <2>1 DEF IInv, vars, interest, system, flow, ready
    <2>2. TypeOK'
      BY DEF TypeOK
    <2>3. SetsMatchEntries' /\ SinkInv' /\ RetiredInv'
      BY TablesUnchanged
    <2>4. ControlInv' /\ DueInv'
      BY DEF ControlInv, InLoop, Serving, DueInv, Untested, At
    <2> QED
      BY <2>2, <2>3, <2>4
  <1> QED
    BY <1>1, <1>2, <1>3, <1>4, <1>5, <1>6, <1>7 DEF Next

\* The invariant holds in every reachable state.
THEOREM Invariance == Spec => []IInv
  BY InitIInv, NextIInv, PTL DEF Spec

\* Type correctness; in particular Poll's index never leaves the vector, and
\* the vector never outgrows an fd_set.
THEOREM TypeCorrect == Spec => []TypeOK
  BY Invariance, PTL DEF IInv

\* The vector, the interest sets and the system agree at all times, for any
\* number of descriptors and whatever callbacks remove and add: FD_SET never
\* drops a descriptor, and select is never given a closed socket.
THEOREM SetsCorrect == Spec => []SetsMatchEntries
  BY Invariance, PTL DEF IInv

\* Every readiness that select reported is delivered in the same Poll unless
\* its descriptor is removed: removals never make the loop miss an entry.
THEOREM ServedCorrect == Spec => []AllServed
  <1>1. IInv => AllServed
    BY DEF IInv, AllServed, ControlInv, InLoop
  <1> QED
    BY <1>1, Invariance, PTL

\* When user code removes descriptors only from callbacks and timers, none of
\* the retired entries is left when Poll returns.
THEOREM SweepCorrect == ASSUME ~RemoveBetweenPolls
                        PROVE  Spec => []NoRetiredBetweenPolls
  <1>1. IInv => NoRetiredBetweenPolls
    BY DEF IInv, NoRetiredBetweenPolls, RetiredInv, Entries, RetiredEntry, Entry
  <1> QED
    BY <1>1, Invariance, PTL
-----------------------------------------------------------------------------
(* The refinement of Reactor *)

Reg == [f \in Registered |-> SinkOf(f)]

\* A live entry is the entry of its descriptor.
LEMMA SinkOfIs == ASSUME SetsMatchEntries, NEW k \in DOMAIN fds_, fds_[k].fd # INVALID_SOCKET
                  PROVE  fds_[k].fd \in Registered /\ SinkOf(fds_[k].fd) = fds_[k].sink
  <1>1. fds_[k].fd \in Registered
    BY RegisteredIs
  <1>2. fds_[k] \in Entries /\ \A e \in Entries : e.fd = fds_[k].fd => e = fds_[k]
    BY DEF Entries, SetsMatchEntries
  <1> QED
    BY <1>1, <1>2 DEF SinkOf

\* Steps that keep the entries keep the registrations.
LEMMA RegUnchanged == ASSUME UNCHANGED fds_ PROVE Reg' = Reg
  BY DEF Reg, Registered, SinkOf, Entries

\* The sweep keeps the registrations.
LEMMA SweepRefines == ASSUME IInv, IInv', PollEnd PROVE Reg' = Reg
  <1>1. Registered' = Registered
    BY DEF IInv, SetsMatchEntries, PollEnd, system
  <1>2. ASSUME NEW f \in Registered PROVE SinkOf(f)' = SinkOf(f)
    <2>1. PICK j \in DOMAIN fds_ : fds_[j].fd = f /\ f # INVALID_SOCKET
      BY RegisteredIs
    <2>2. \E k \in DOMAIN fds_' : fds_'[k] = fds_[j]
      <3>1. CASE has_retired_
        <4>1. fds_ \in Seq(EntryType) /\ DOMAIN fds_ = 1 .. Len(fds_)
          BY DEF IInv, TypeOK, EntryType
        <4>2. fds_' = Swept(fds_, INVALID_SOCKET)
          BY <3>1 DEF PollEnd, RemoveRetired
        <4>3. Left(fds_, Len(fds_), fds_', EntryType, INVALID_SOCKET)
          BY <4>1, <4>2, SweptFacts
        <4>4. DOMAIN fds_' = 1 .. Len(fds_')
          BY <4>3 DEF Left
        <4> QED
          BY <2>1, <4>1, <4>3, <4>4, Zenon DEF Left
      <3>2. CASE ~has_retired_
        BY <3>2 DEF PollEnd, RemoveRetired
      <3> QED
        BY <3>1, <3>2
    <2>3. PICK k \in DOMAIN fds_' : fds_'[k] = fds_[j]
      BY <2>2
    <2>4. SinkOf(f) = fds_[j].sink
      BY <2>1, SinkOfIs DEF IInv
    <2>5. fds_'[k] \in Entries' /\ \A e \in Entries' : e.fd = f => e = fds_'[k]
      BY <2>1, <2>3 DEF Entries, IInv, SetsMatchEntries
    <2>6. SinkOf(f)' = fds_'[k].sink
      BY <2>1, <2>3, <2>5 DEF SinkOf
    <2> QED
      BY <2>3, <2>4, <2>6
  <1> QED
    BY <1>1, <1>2 DEF Reg

\* A call of AddFd is a registration.
LEMMA RegisterRefines ==
  ASSUME IInv, IInv', NEW f \in Handles, NEW event \in Objs, Register(f, event)
  PROVE  f \notin Registered /\ Reg' = Promise!With(Reg, f, event) /\ ServedIsGone' = ServedIsGone
  <1> USE DEF Register, AddFd, AddFdFails
  <1>1. /\ Len(fds_) \in Nat /\ DOMAIN fds_ = 1 .. Len(fds_)
        /\ DOMAIN fds_' = 1 .. Len(fds_) + 1
        /\ \A k \in DOMAIN fds_ : fds_'[k] = fds_[k]
        /\ fds_'[Len(fds_) + 1] = Entry(f, event)
    BY DEF IInv, TypeOK, Entry
  <1>2. Registered = open /\ Registered' = open \cup {f} /\ f \notin open
    BY DEF IInv, SetsMatchEntries
  <1>3. Entry(f, event).fd = f /\ Entry(f, event).sink = event /\ f # INVALID_SOCKET
    BY SelectAssumption DEF Entry
  <1>4. ASSUME NEW g, g # INVALID_SOCKET, NEW k \in DOMAIN fds_', fds_'[k].fd = g
        PROVE  SinkOf(g)' = fds_'[k].sink
    <2>1. fds_'[k] \in Entries' /\ \A e \in Entries' : e.fd = g => e = fds_'[k]
      BY <1>4 DEF Entries, IInv, SetsMatchEntries
    <2> QED
      BY <1>4, <2>1 DEF SinkOf
  <1>5. SinkOf(f)' = event
    <2>1. Len(fds_) + 1 \in DOMAIN fds_'
      BY <1>1
    <2>2. fds_'[Len(fds_) + 1].fd = f /\ fds_'[Len(fds_) + 1].sink = event
      BY <1>1, <1>3
    <2> QED
      BY <1>3, <1>4, <2>1, <2>2
  <1>6. ASSUME NEW g \in Registered PROVE SinkOf(g)' = SinkOf(g)
    <2>1. PICK k \in DOMAIN fds_ : fds_[k].fd = g /\ g # INVALID_SOCKET
      BY RegisteredIs
    <2>2. SinkOf(g) = fds_[k].sink
      BY <2>1, SinkOfIs DEF IInv
    <2>3. k \in DOMAIN fds_' /\ fds_'[k] = fds_[k]
      BY <1>1
    <2> QED
      BY <1>4, <2>1, <2>2, <2>3
  <1>7. Reg' = Promise!With(Reg, f, event)
    BY <1>2, <1>5, <1>6 DEF Reg, Promise!With
  <1>8. ServedIsGone' = ServedIsGone
    <2>1. CASE pc = "callback"
      <3>1. i \in DOMAIN fds_
        BY <1>1, <2>1 DEF IInv, ControlInv, InLoop
      <3>2. fds_'[i] = fds_[i]
        BY <1>1, <3>1
      <3> QED
        BY <2>1, <3>2 DEF ServedIsGone
    <2>2. CASE pc # "callback"
      BY <2>2 DEF ServedIsGone, UserCode
    <2> QED
      BY <2>1, <2>2
  <1> QED
    BY <1>2, <1>7, <1>8

\* RemoveFd ends the registration; when the descriptor is the one under
\* service, it was its own callback that removed it.
LEMMA UnregisterRefines ==
  ASSUME IInv, IInv', NEW f \in Handles, Unregister(f)
  PROVE  /\ f \in Registered
         /\ Reg' = Promise!Without(Reg, f)
         /\ \/ ServedIsGone' = ServedIsGone
            \/ ServedIsGone' = (callee = Reg[f])
  <1>1. PICK k \in DOMAIN fds_ : /\ fds_[k].fd = f
                                 /\ fds_' = [fds_ EXCEPT ![k] = RetiredEntry]
                                 /\ SinkOf(f) = fds_[k].sink
    BY RetireFacts DEF IInv, Unregister, RemoveFd
  <1>2. Registered = open /\ Registered' = open \ {f} /\ f \in open
    BY DEF IInv, SetsMatchEntries, Unregister
  <1>3. /\ DOMAIN fds_' = DOMAIN fds_
        /\ fds_'[k] = RetiredEntry
        /\ \A m \in DOMAIN fds_ : m # k => fds_'[m] = fds_[m]
        /\ RetiredEntry.fd = INVALID_SOCKET
    BY <1>1 DEF RetiredEntry, Entry, IInv, TypeOK
  <1>4. ASSUME NEW g \in Registered, g # f PROVE SinkOf(g)' = SinkOf(g)
    <2>1. PICK m \in DOMAIN fds_ : fds_[m].fd = g /\ g # INVALID_SOCKET
      BY RegisteredIs
    <2>2. SinkOf(g) = fds_[m].sink
      BY <2>1, SinkOfIs DEF IInv
    <2>3. m # k /\ m \in DOMAIN fds_' /\ fds_'[m] = fds_[m]
      BY <1>1, <1>3, <1>4, <2>1
    <2>4. fds_'[m] \in Entries' /\ \A e \in Entries' : e.fd = g => e = fds_'[m]
      BY <2>1, <2>3 DEF Entries, IInv, SetsMatchEntries
    <2>5. SinkOf(g)' = fds_'[m].sink
      BY <2>1, <2>3, <2>4 DEF SinkOf
    <2> QED
      BY <2>2, <2>3, <2>5
  <1>5. Reg' = Promise!Without(Reg, f)
    BY <1>2, <1>4 DEF Reg, Promise!Without
  <1>6. ServedIsGone' = ServedIsGone \/ ServedIsGone' = (callee = Reg[f])
    <2>1. CASE pc = "callback" /\ k = i
      <3>1. f # INVALID_SOCKET /\ fd = f
        BY <1>1, <2>1, <1>2, SelectAssumption DEF IInv, ControlInv, Serving
      <3>2. ServedIsGone' = TRUE
        BY <1>3, <2>1, <3>1 DEF ServedIsGone, Unregister, flow
      <3>3. callee = fds_[k].sink
        BY <1>1, <2>1, <3>1 DEF IInv, ControlInv
      <3>4. Reg[f] = SinkOf(f)
        BY <1>2 DEF Reg
      <3> QED
        BY <1>1, <3>2, <3>3, <3>4
    <2>2. CASE pc = "callback" /\ k # i
      <3>1. i \in DOMAIN fds_
        BY <2>2 DEF IInv, ControlInv, InLoop, TypeOK
      <3>2. fds_'[i] = fds_[i]
        BY <1>3, <2>2, <3>1
      <3> QED
        BY <2>2, <3>2 DEF ServedIsGone, Unregister
    <2>3. CASE pc # "callback"
      BY <2>3 DEF ServedIsGone, Unregister, UserCode
    <2> QED
      BY <2>1, <2>2, <2>3
  <1> QED
    BY <1>2, <1>5, <1>6

\* Poll calls through the entry it serves: it is the registered sink's, or it
\* was retired after the entry's first call.
LEMMA DispatchRefines ==
  ASSUME IInv, IInv', NEW from, NEW set, NEW to, Dispatch(from, set, to),
         \/ from = "except" /\ to = "write"
         \/ from = "write" /\ to = "read"
         \/ from = "read" /\ to = "advance"
  PROVE  Promise!RNext \/ UNCHANGED Promise!rvars
  <1>1. i \in DOMAIN fds_ /\ fd # INVALID_SOCKET /\ fds_[i].fd \in {fd, INVALID_SOCKET}
    BY DEF Dispatch, IInv, ControlInv, InLoop, Serving, TypeOK
  <1>2. Reg' = Reg
    BY RegUnchanged DEF Dispatch
  <1>3. callee = NULL /\ pc # "crashed"
    BY DEF Dispatch, IInv, ControlInv
  <1>4. from = "except" => fds_[i].fd = fd
    BY DEF Dispatch, IInv, ControlInv
  <1>5. ServedIsGone <=> from # "except" /\ fds_[i].fd # fd
    BY DEF Dispatch, ServedIsGone
  <1>6. CASE fd \in set /\ fds_[i].sink # NULL
    <2>1. fds_[i].fd = fd
      BY <1>1, <1>6 DEF IInv, SetsMatchEntries
    <2>2. fd \in Registered /\ Reg[fd] = fds_[i].sink
      BY <1>1, <2>1, SinkOfIs DEF Reg, IInv
    <2>3. callee' = fds_[i].sink /\ callee' \in Objs /\ pc' = "callback"
      BY <1>1, <1>6, EntryAt DEF Dispatch, IInv
    <2>4. ServedIsGone' = FALSE
      BY <2>1, <2>3 DEF Dispatch, ServedIsGone
    <2>5. Promise!Call(callee')
      BY <1>2, <1>3, <2>2, <2>3, <2>4 DEF Promise!Call, Reg
    <2> QED
      BY <1>3, <2>3, <2>5 DEF Promise!RNext
  <1>7. CASE fd \in set /\ fds_[i].sink = NULL
    <2>1. fds_[i].fd # fd
      BY <1>1, <1>7, SelectAssumption DEF IInv, SetsMatchEntries, TypeOK
    <2>2. ServedIsGone
      BY <1>4, <1>5, <2>1
    <2>3. callee' = NULL /\ pc' = "crashed"
      BY <1>7 DEF Dispatch
    <2>4. ServedIsGone' = FALSE
      BY <2>3 DEF ServedIsGone
    <2>5. Promise!Misfire
      BY <1>2, <1>3, <2>2, <2>3, <2>4 DEF Promise!Misfire, Reg
    <2> QED
      BY <1>3, <2>5 DEF Promise!RNext
  <1>8. CASE fd \notin set
    <2>1. callee' = callee /\ pc' = to
      BY <1>8 DEF Dispatch, flow
    <2>2. ServedIsGone' <=> to # "advance" /\ fds_[i].fd # fd
      BY <2>1 DEF Dispatch, ServedIsGone
    <2>3. CASE ServedIsGone' = ServedIsGone
      BY <1>2, <1>3, <2>1, <2>3 DEF Promise!rvars, Reg
    <2>4. CASE ServedIsGone' # ServedIsGone
      <3>1. ServedIsGone /\ ServedIsGone' = FALSE
        BY <1>4, <1>5, <2>2, <2>4
      <3> QED
        BY <1>2, <1>3, <2>1, <3>1 DEF Promise!RNext, Promise!Leave, Reg
    <2> QED
      BY <2>3, <2>4
  <1> QED
    BY <1>6, <1>7, <1>8

\* Every step of the poller is a step of a reactor, or none.
LEMMA StepRefines == IInv /\ IInv' /\ [Next]_vars => [Promise!RNext]_(Promise!rvars)
  <1> SUFFICES ASSUME IInv, IInv', [Next]_vars PROVE Promise!RNext \/ UNCHANGED Promise!rvars
    OBVIOUS
  <1>0. ASSUME Reg' = Reg, callee' = callee, ServedIsGone' = ServedIsGone,
               pc' = "crashed" <=> pc = "crashed"
        PROVE  UNCHANGED Promise!rvars
    BY <1>0 DEF Promise!rvars, Reg
  <1>1. ASSUME NEW f \in Handles, NEW event \in Objs, Register(f, event) PROVE Promise!RNext
    <2>1. f \notin Registered /\ Reg' = Promise!With(Reg, f, event) /\ ServedIsGone' = ServedIsGone
      BY <1>1, RegisterRefines
    <2>2. callee' = callee /\ pc' = pc /\ pc # "crashed"
      BY <1>1 DEF Register, flow, UserCode
    <2>3. Promise!Register(f, event)
      BY <2>1, <2>2 DEF Promise!Register, Reg
    <2> QED
      BY <2>2, <2>3 DEF Promise!RNext
  <1>2. ASSUME NEW f \in Handles, Unregister(f) PROVE Promise!RNext
    <2>1. /\ f \in Registered
          /\ Reg' = Promise!Without(Reg, f)
          /\ ServedIsGone' = ServedIsGone \/ ServedIsGone' = (callee = Reg[f])
      BY <1>2, UnregisterRefines
    <2>2. callee' = callee /\ pc' = pc /\ pc # "crashed"
      BY <1>2 DEF Unregister, flow, UserCode
    <2>3. Promise!Unregister(f)
      BY <2>1, <2>2 DEF Promise!Unregister, Reg
    <2> QED
      BY <2>2, <2>3 DEF Promise!RNext
  <1>3. ASSUME NEW f \in Handles, ChangeInterest(f) PROVE UNCHANGED Promise!rvars
    <2>1. Reg' = Reg
      BY <1>3, RegUnchanged DEF ChangeInterest
    <2>2. callee' = callee /\ pc' = pc /\ ServedIsGone' = ServedIsGone
      BY <1>3 DEF ChangeInterest, flow, ServedIsGone
    <2> QED
      BY <1>0, <2>1, <2>2
  <1>4. CASE CallbackReturn
    <2>1. Reg' = Reg
      BY <1>4, RegUnchanged DEF CallbackReturn
    <2>2. callee # NULL /\ callee' = NULL /\ pc # "crashed" /\ pc' # "crashed"
      BY <1>4 DEF CallbackReturn, IInv, ControlInv, TypeOK
    <2>3. ServedIsGone' = ServedIsGone \/ ServedIsGone' = FALSE
      BY <1>4 DEF CallbackReturn, ServedIsGone
    <2> QED
      BY <2>1, <2>2, <2>3 DEF Promise!RNext, Promise!Return, Reg
  <1>5. CASE PollWorks \/ LoopNext \/ LoopEnd \/ Advance
    <2>1. Reg' = Reg
      BY <1>5, RegUnchanged DEF PollWorks, PollSleep, PollTimeout, PollReady, LoopNext, LoopEnd, Advance
    <2>2. callee' = callee /\ pc # "crashed" /\ pc' # "crashed"
      BY <1>5 DEF PollWorks, PollSleep, PollTimeout, PollReady, LoopNext, LoopEnd, Advance, flow
    <2>3. ServedIsGone' = FALSE /\ ServedIsGone = FALSE
      BY <1>5 DEF PollWorks, PollSleep, PollTimeout, PollReady, LoopNext, LoopEnd, Advance, ServedIsGone
    <2> QED
      BY <1>0, <2>1, <2>2, <2>3
  <1>6. CASE TestExcept \/ TestWrite \/ TestRead
    BY <1>6, DispatchRefines DEF TestExcept, TestWrite, TestRead
  <1>7. CASE PollEnd
    <2>1. Reg' = Reg
      BY <1>7, SweepRefines
    <2>2. callee' = callee /\ pc # "crashed" /\ pc' # "crashed"
      BY <1>7 DEF PollEnd, flow
    <2>3. ServedIsGone' = FALSE /\ ServedIsGone = FALSE
      BY <1>7 DEF PollEnd, ServedIsGone
    <2> QED
      BY <1>0, <2>1, <2>2, <2>3
  <1>8. CASE RegisterFails \/ PollError \/ Crashed \/ UNCHANGED vars
    <2>1. UNCHANGED vars
      BY <1>8 DEF RegisterFails, PollError, Crashed
    <2>2. Reg' = Reg
      BY <2>1, RegUnchanged DEF vars
    <2>3. callee' = callee /\ pc' = pc /\ ServedIsGone' = ServedIsGone
      BY <2>1 DEF vars, flow, ServedIsGone
    <2> QED
      BY <1>0, <2>2, <2>3
  <1> QED
    BY <1>1, <1>2, <1>3, <1>4, <1>5, <1>6, <1>7, <1>8 DEF Next, PollStep

\* The poller keeps the promise of a reactor for any number of descriptors,
\* however callbacks and timers change the vector Poll walks and however soon
\* handles and sinks are reused.
THEOREM Refinement == Spec => ImplementsReactor
  <1>1. Init => Promise!RInit
    BY DEF Init, Promise!RInit, Registered, Entries, ServedIsGone
  <1> QED
    BY <1>1, StepRefines, Invariance, PTL DEF Spec, ImplementsReactor, Promise!RSpec
=============================================================================
