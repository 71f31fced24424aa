-------------------------- MODULE PollerUserProofs --------------------------
(***************************************************************************)
(* Proofs about PollerUser on both pollers, for any number of sockets,     *)
(* entries, messages and faults.                                           *)
(*                                                                         *)
(* Good(k, A, X) relates a state k of the system and the poller, the set A *)
(* of the sinks that exist and the set X of sockets without an entry: one  *)
(* that is about to be registered, or was just removed.                    *)
(***************************************************************************)
EXTENDS PollerUser, TablesProofs

Events  == {"FD_READ", "FD_CLOSE", "FD_ACCEPT", "FD_WRITE", "FD_CONNECT"}
Handles == Nat \ {0}

\* A socket holds no report of an event that is not selected.
SocketType == {s \in [kind : {"conn"}, rx : {0, 1}, fin : BOOLEAN, sent : Int, got : Int,
                      sel : SUBSET Events, hEvent : Nat, told : SUBSET Events,
                      rec : SUBSET Events] : s.rec \cup s.told \subseteq s.sel}

EntryType == [fd : Handles \cup {INVALID_SOCKET}, hEvent : Nat, lEvents : SUBSET Events,
              sink : Nat \cup {NULL}]

Reported == UNION {{InOrder(evs)[i] : i \in 1 .. Cardinality(evs)} : evs \in SUBSET Events}

MessageType == [fd : Handles, ev : Reported]
CallType    == [slot : Nat, ev : Reported]

SystemFields == {"poller", "socks", "events", "queue", "fds_", "has_retired_", "faults"}

IsSystem(k) == k = [x \in SystemFields |-> k[x]]

Types(k) == /\ k.poller \in {"PollerAsyncSelect", "PollerAsyncEvent"}
            /\ DOMAIN k.socks \subseteq Handles /\ IsFiniteSet(DOMAIN k.socks)
            /\ k.socks \in [DOMAIN k.socks -> SocketType]
            /\ DOMAIN k.events \subseteq Handles /\ IsFiniteSet(DOMAIN k.events)
            /\ k.events \in [DOMAIN k.events -> BOOLEAN]
            /\ k.queue \in Seq(MessageType)
            /\ k.fds_ \in Seq(EntryType)
            /\ k.has_retired_ \in BOOLEAN
            /\ k.faults \in Nat

System(k) == IsSystem(k) /\ Types(k)

Live(k) == {i \in DOMAIN k.fds_ : k.fds_[i].fd # INVALID_SOCKET}

\* A socket that is not in X has one entry, every other entry is retired.
FdsInv(k, X) ==
  /\ OneEach(k.fds_, INVALID_SOCKET)
  /\ \A i \in Live(k) : k.fds_[i].fd \in DOMAIN k.socks /\ k.fds_[i].fd \notin X
  /\ \A h \in DOMAIN k.socks \ X : \E i \in Live(k) : k.fds_[i].fd = h

\* What the system has selected is what the entry says.
SelInv(k) ==
  \A i \in Live(k) :
    /\ k.socks[k.fds_[i].fd].sel = k.fds_[i].lEvents
    /\ k.fds_[i].lEvents # {} => k.socks[k.fds_[i].fd].hEvent = k.fds_[i].hEvent

\* Each entry has an event object of its own, or none has one.
EventInv(k) ==
  /\ \A i \in DOMAIN k.fds_ : i \notin Live(k) \/ ~OnEvents(k) => k.fds_[i].hEvent = WSA_INVALID_EVENT
  /\ OnEvents(k) => /\ \A i \in Live(k) : k.fds_[i].hEvent \in DOMAIN k.events
                    /\ \A i, j \in Live(k) : k.fds_[i].hEvent = k.fds_[j].hEvent => i = j
  /\ \A e \in DOMAIN k.events : OnEvents(k) /\ \E i \in Live(k) : k.fds_[i].hEvent = e

\* Each entry has a sink of its own.
SinkInv(k, A) == /\ A \subseteq Handles
                 /\ \A i \in Live(k) : k.fds_[i].sink \in A
                 /\ \A i, j \in Live(k) : k.fds_[i].sink = k.fds_[j].sink => i = j
                 /\ \A s \in A : \E i \in Live(k) : k.fds_[i].sink = s

Room(k) == Len(k.fds_) <= IF OnEvents(k) THEN WSA_MAXIMUM_WAIT_EVENTS ELSE FD_SETSIZE

Good(k, A, X) == /\ System(k)
                 /\ FdsInv(k, X)
                 /\ SelInv(k)
                 /\ EventInv(k)
                 /\ SinkInv(k, A)
                 /\ Room(k)

\* The calls that Poll has still to make are through one entry; the sink that
\* is running is that of this entry, also when it was retired.
CallsInv == /\ calls \in Seq(CallType)
            /\ \A n \in DOMAIN calls : calls[n].slot \in DOMAIN os.fds_
            /\ \A m, n \in DOMAIN calls : calls[m].slot = calls[n].slot
            /\ pc \notin {"dispatch", "callback", "undefined"} => calls = <<>>
            /\ ~OnEvents(os) => Len(calls) <= 1
            /\ ~OnEvents(os) /\ pc = "callback" => calls = <<>>
            /\ pc = "callback" /\ calls # <<>> => os.fds_[Head(calls).slot].sink = callee

IInv == /\ Good(os, alive, {})
        /\ DOMAIN os.socks \subseteq 1 .. MaxSockets
        /\ alive \subseteq 1 .. MaxSockets
        /\ callee \in 1 .. MaxSockets \cup {NULL}
        /\ callee # NULL <=> pc = "callback"
        /\ pc \in {"idle", "peek", "timers", "dispatch", "callback", "undefined"}
        /\ wait \in Handles \cup {NULL}
        /\ CallsInv
-----------------------------------------------------------------------------
(* The pollers in terms of the system this module extends, rather than of  *)
(* the copies of it that are instantiated with them.                       *)

\* Report, with the messages it posts as a parameter.
Marked(s, news, on) == [s EXCEPT !.told = @ \cup news, !.rec = IF on THEN @ \cup news ELSE @]

ReportWith(k, h, news, messages) ==
  [k EXCEPT !.socks[h] = Marked(k.socks[h], news, OnEvents(k)),
            !.events = IF OnEvents(k) /\ news # {} THEN With(@, k.socks[h].hEvent, TRUE) ELSE @,
            !.queue  = IF OnEvents(k) THEN @ ELSE @ \o messages]

\* AsyncEventPoller.cpp
LEMMA SystemOfEvent ==
  ASSUME NEW k, NEW h
  PROVE  /\ \A e, mask : Event!Select(k, h, e, mask) = Select(k, h, e, mask)
         /\ \A S : Event!LeastFree(S) = LeastFree(S)
         /\ Event!Faulty(k) = Faulty(k)
         /\ \A s : Event!Swept(s, h) = Swept(s, h)
         /\ \A S : Event!Cardinality(S) = Cardinality(S)
         /\ \A S : Event!InOrder(S) = InOrder(S)
  <1>1. \A S : Event!Cardinality(S) = Cardinality(S)
    BY DEF Event!Cardinality, Cardinality
  <1>2. \A S : Event!InOrder(S) = InOrder(S)
    BY Zenon DEF Event!InOrder, InOrder, Event!EventOrder, EventOrder
  <1>3. \A g, S : Event!Messages(g, S) = Messages(g, S)
    BY <1>1, <1>2, Zenon DEF Event!Messages, Messages
  <1>4. \A S : Event!LeastFree(S) = LeastFree(S)
    BY <1>1, Zenon DEF Event!LeastFree, LeastFree
  <1>5. \A s : Event!Swept(s, h) = Swept(s, h)
    BY Zenon DEF Event!Swept, Swept
  <1>6. ASSUME NEW j, NEW g, NEW S PROVE Event!Report(j, g, S) = Report(j, g, S)
    <2> DEFINE news == (S \cap j.socks[g].sel) \ j.socks[g].told
    <2>1. Report(j, g, S) = ReportWith(j, g, news, Messages(g, news))
      BY Zenon DEF Report, ReportWith, Marked
    <2>2. Event!Report(j, g, S) = ReportWith(j, g, news, Event!Messages(g, news))
      BY Zenon DEF Event!Report, ReportWith, Marked, Event!OnEvents, OnEvents, Event!With, With
    <2> HIDE DEF news
    <2>3. Event!Messages(g, news) = Messages(g, news)
      BY <1>3
    <2> QED
      BY <2>1, <2>2, <2>3, Zenon
  <1>7. ASSUME NEW e, NEW mask PROVE Event!Select(k, h, e, mask) = Select(k, h, e, mask)
    <2> DEFINE s == [k.socks[h] EXCEPT !.sel = mask, !.hEvent = e, !.told = {}, !.rec = {}]
               j == [k EXCEPT !.socks[h] = s]
    <2>1. Event!Conditions(s) = Conditions(s)
      BY Zenon DEF Event!Conditions, Conditions, Event!When, When, Event!IsConnected, IsConnected
    <2>2. Select(k, h, e, mask) = IF IsOpen(k, h) THEN Report(j, h, Conditions(s)) ELSE k
      BY Zenon DEF Select
    <2>3. Event!Select(k, h, e, mask) = IF IsOpen(k, h) THEN Event!Report(j, h, Event!Conditions(s)) ELSE k
      BY Zenon DEF Event!Select, Event!IsOpen, IsOpen
    <2> HIDE DEF s, j
    <2>4. Event!Report(j, h, Conditions(s)) = Report(j, h, Conditions(s))
      BY <1>6
    <2> QED
      BY <2>1, <2>2, <2>3, <2>4, Zenon
  <1> QED
    BY <1>1, <1>2, <1>4, <1>5, <1>7, Zenon DEF Event!Faulty, Faulty, Event!When, When

\* AsyncSelectPoller.cpp
LEMMA SystemOfMessage ==
  ASSUME NEW k, NEW h
  PROVE  /\ \A e, mask : Message!Select(k, h, e, mask) = Select(k, h, e, mask)
         /\ \A s : Message!Swept(s, h) = Swept(s, h)
  <1>1. \A S : Message!Cardinality(S) = Cardinality(S)
    BY DEF Message!Cardinality, Cardinality
  <1>2. \A S : Message!InOrder(S) = InOrder(S)
    BY Zenon DEF Message!InOrder, InOrder, Message!EventOrder, EventOrder
  <1>3. \A g, S : Message!Messages(g, S) = Messages(g, S)
    BY <1>1, <1>2, Zenon DEF Message!Messages, Messages
  <1>4. \A s : Message!Swept(s, h) = Swept(s, h)
    BY Zenon DEF Message!Swept, Swept
  <1>5. ASSUME NEW j, NEW g, NEW S PROVE Message!Report(j, g, S) = Report(j, g, S)
    <2> DEFINE news == (S \cap j.socks[g].sel) \ j.socks[g].told
    <2>1. Report(j, g, S) = ReportWith(j, g, news, Messages(g, news))
      BY Zenon DEF Report, ReportWith, Marked
    <2>2. Message!Report(j, g, S) = ReportWith(j, g, news, Message!Messages(g, news))
      BY Zenon DEF Message!Report, ReportWith, Marked, Message!OnEvents, OnEvents, Message!With, With
    <2> HIDE DEF news
    <2>3. Message!Messages(g, news) = Messages(g, news)
      BY <1>3
    <2> QED
      BY <2>1, <2>2, <2>3, Zenon
  <1>6. ASSUME NEW e, NEW mask PROVE Message!Select(k, h, e, mask) = Select(k, h, e, mask)
    <2> DEFINE s == [k.socks[h] EXCEPT !.sel = mask, !.hEvent = e, !.told = {}, !.rec = {}]
               j == [k EXCEPT !.socks[h] = s]
    <2>1. Message!Conditions(s) = Conditions(s)
      BY Zenon DEF Message!Conditions, Conditions, Message!When, When, Message!IsConnected, IsConnected
    <2>2. Select(k, h, e, mask) = IF IsOpen(k, h) THEN Report(j, h, Conditions(s)) ELSE k
      BY Zenon DEF Select
    <2>3. Message!Select(k, h, e, mask) = IF IsOpen(k, h) THEN Message!Report(j, h, Message!Conditions(s)) ELSE k
      BY Zenon DEF Message!Select, Message!IsOpen, IsOpen
    <2> HIDE DEF s, j
    <2>4. Message!Report(j, h, Conditions(s)) = Report(j, h, Conditions(s))
      BY <1>5
    <2> QED
      BY <2>1, <2>2, <2>3, <2>4, Zenon
  <1> QED
    BY <1>4, <1>6
-----------------------------------------------------------------------------
(* The record of the system. *)

\* The fields of k other than those in F are those of k1.
Keeps(k, k1, F) == IsSystem(k1) /\ \A g \in SystemFields \ F : k1[g] = k[g]

\* One field of the record gets a new value.
LEMMA Assign ==
  ASSUME NEW k, IsSystem(k), NEW x, NEW g \in SystemFields, NEW k1, k1 = [k EXCEPT ![g] = x]
  PROVE  k1[g] = x /\ Keeps(k, k1, {g})
  <1>1. DOMAIN k = SystemFields
    BY DEF IsSystem
  <1>2. k1 = [h \in SystemFields |-> IF h = g THEN x ELSE k[h]]
    BY <1>1
  <1> QED
    BY <1>2 DEF IsSystem, Keeps

\* The socket h gets another record.
LEMMA SetSocket ==
  ASSUME NEW k, System(k), NEW h \in DOMAIN k.socks, NEW x \in SocketType,
         NEW k1, Keeps(k, k1, {"socks"}), k1.socks = [k.socks EXCEPT ![h] = x]
  PROVE  /\ System(k1)
         /\ DOMAIN k1.socks = DOMAIN k.socks
         /\ k1.socks[h] = x
         /\ \A g \in DOMAIN k.socks \ {h} : k1.socks[g] = k.socks[g]
  <1>1. k.socks \in [DOMAIN k.socks -> SocketType]
    BY DEF System, Types
  <1> HIDE DEF SocketType
  <1>2. PICK D, s : D = DOMAIN k.socks /\ s = k1.socks
    BY Zenon
  <1>3. DOMAIN s = D /\ s \in [D -> SocketType] /\ s[h] = x /\ \A g \in D \ {h} : s[g] = k.socks[g]
    BY <1>1, <1>2
  <1>4. Types(k1)
    BY <1>2, <1>3 DEF System, Types, Keeps, SystemFields
  <1> QED
    BY <1>2, <1>3, <1>4 DEF System, Keeps
-----------------------------------------------------------------------------
(* Reports. *)

\* A set of events is finite.
LEMMA EventSets == ASSUME NEW evs \in SUBSET Events
                   PROVE  IsFiniteSet(evs) /\ Cardinality(evs) \in Nat
  <1>1. IsFiniteSet({"FD_READ"})
    BY FS_Singleton
  <1>2. IsFiniteSet({"FD_READ", "FD_CLOSE"})
    <2>1. {"FD_READ", "FD_CLOSE"} = {"FD_READ"} \cup {"FD_CLOSE"}
      OBVIOUS
    <2> QED
      BY <1>1, <2>1, FS_AddElement
  <1>3. IsFiniteSet({"FD_READ", "FD_CLOSE", "FD_ACCEPT"})
    <2>1. {"FD_READ", "FD_CLOSE", "FD_ACCEPT"} = {"FD_READ", "FD_CLOSE"} \cup {"FD_ACCEPT"}
      OBVIOUS
    <2> QED
      BY <1>2, <2>1, FS_AddElement
  <1>4. IsFiniteSet({"FD_READ", "FD_CLOSE", "FD_ACCEPT", "FD_WRITE"})
    <2>1. {"FD_READ", "FD_CLOSE", "FD_ACCEPT", "FD_WRITE"}
            = {"FD_READ", "FD_CLOSE", "FD_ACCEPT"} \cup {"FD_WRITE"}
      OBVIOUS
    <2> QED
      BY <1>3, <2>1, FS_AddElement
  <1>5. IsFiniteSet(Events)
    <2>1. Events = {"FD_READ", "FD_CLOSE", "FD_ACCEPT", "FD_WRITE"} \cup {"FD_CONNECT"}
      BY DEF Events
    <2> QED
      BY <1>4, <2>1, FS_AddElement
  <1>6. IsFiniteSet(evs)
    BY <1>5, FS_Subset
  <1> QED
    BY <1>6, FS_CardinalityType

\* The messages of a socket.
LEMMA MessagesType == ASSUME NEW h \in Handles, NEW evs \in SUBSET Events
                      PROVE  Messages(h, evs) \in Seq(MessageType)
  <1>1. PICK n \in Nat : n = Cardinality(evs)
    BY EventSets
  <1>2. \A i \in 1 .. n : InOrder(evs)[i] \in Reported
    BY <1>1 DEF Reported
  <1>3. Messages(h, evs) = [i \in 1 .. n |-> [fd |-> h, ev |-> InOrder(evs)[i]]]
    BY <1>1, Zenon DEF Messages
  <1>4. \A i \in 1 .. n : [fd |-> h, ev |-> InOrder(evs)[i]] \in MessageType
    BY <1>2 DEF MessageType
  <1> HIDE DEF MessageType
  <1>5. Messages(h, evs) \in [1 .. n -> MessageType]
    BY <1>3, <1>4
  <1> QED
    BY <1>5

\* Only the socket h, marks of event objects and messages may differ.
Touched(k, k1, h) == /\ System(k1)
                     /\ k1.poller = k.poller
                     /\ k1.fds_ = k.fds_
                     /\ k1.has_retired_ = k.has_retired_
                     /\ DOMAIN k1.socks = DOMAIN k.socks
                     /\ DOMAIN k1.events = DOMAIN k.events
                     /\ \A g \in DOMAIN k.socks \ {h} : k1.socks[g] = k.socks[g]

\* The record of a socket when events are reported.
LEMMA MarkedType ==
  ASSUME NEW s \in SocketType, NEW news \in SUBSET Events, news \subseteq s.sel, NEW on \in BOOLEAN
  PROVE  /\ Marked(s, news, on) \in SocketType
         /\ Marked(s, news, on).sel = s.sel
         /\ Marked(s, news, on).hEvent = s.hEvent
  BY DEF Marked, SocketType

\* A mark of an event object that exists.
LEMMA SetEvent ==
  ASSUME NEW D, NEW e \in [D -> BOOLEAN], NEW a \in D, NEW b \in BOOLEAN
  PROVE  With(e, a, b) \in [D -> BOOLEAN] /\ DOMAIN With(e, a, b) = D
  <1>1. D \cup {a} = D /\ DOMAIN e = D
    OBVIOUS
  <1> QED
    BY <1>1 DEF With

\* Conditions of the socket h are reported.
LEMMA ReportTouches ==
  ASSUME NEW k, System(k), NEW h \in DOMAIN k.socks, NEW conds,
         OnEvents(k) /\ k.socks[h].sel # {} => k.socks[h].hEvent \in DOMAIN k.events
  PROVE  /\ Touched(k, Report(k, h, conds), h)
         /\ Report(k, h, conds).socks[h].sel = k.socks[h].sel
         /\ Report(k, h, conds).socks[h].hEvent = k.socks[h].hEvent
  <1> DEFINE news == (conds \cap k.socks[h].sel) \ k.socks[h].told
             x == Marked(k.socks[h], news, OnEvents(k))
             v == [k.socks EXCEPT ![h] = x]
             e == IF OnEvents(k) /\ news # {} THEN With(k.events, k.socks[h].hEvent, TRUE) ELSE k.events
             q == IF OnEvents(k) THEN k.queue ELSE k.queue \o Messages(h, news)
             k1 == Report(k, h, conds)
  <1>1. k1 = [k EXCEPT !.socks = v, !.events = e, !.queue = q]
    BY Zenon DEF Report, Marked
  <1>2. k.socks[h] \in SocketType /\ h \in Handles /\ OnEvents(k) \in BOOLEAN
    BY DEF System, Types, OnEvents
  <1>3. news \in SUBSET Events /\ news \subseteq k.socks[h].sel
    BY <1>2 DEF SocketType
  <1>4. Messages(h, news) \in Seq(MessageType)
    BY <1>2, <1>3, MessagesType
  <1> HIDE DEF news
  <1>5. x \in SocketType /\ x.sel = k.socks[h].sel /\ x.hEvent = k.socks[h].hEvent
    BY <1>2, <1>3, MarkedType
  <1>6. e \in [DOMAIN k.events -> BOOLEAN] /\ DOMAIN e = DOMAIN k.events
    <2>1. k.events \in [DOMAIN k.events -> BOOLEAN]
      BY DEF System, Types
    <2>2. OnEvents(k) /\ news # {} => k.socks[h].hEvent \in DOMAIN k.events
      BY <1>3
    <2> QED
      BY <2>1, <2>2, SetEvent
  <1>7. q \in Seq(MessageType)
    <2>1. k.queue \in Seq(MessageType)
      BY DEF System, Types
    <2> HIDE DEF MessageType
    <2> QED
      BY <1>4, <2>1
  <1>8. /\ DOMAIN v = DOMAIN k.socks /\ v[h] = x /\ v \in [DOMAIN k.socks -> SocketType]
        /\ \A g \in DOMAIN k.socks \ {h} : v[g] = k.socks[g]
    <2>1. k.socks \in [DOMAIN k.socks -> SocketType]
      BY DEF System, Types
    <2> HIDE DEF SocketType, x
    <2> QED
      BY <1>5, <2>1
  <1> HIDE DEF x, v, e, q, k1
  <1>9. /\ k1.socks = v /\ k1.events = e /\ k1.queue = q
        /\ Keeps(k, k1, {"socks", "events", "queue"})
    <2>1. DOMAIN k = SystemFields /\ IsSystem(k)
      BY DEF System, IsSystem
    <2>2. k1 = [x1 \in SystemFields |-> IF x1 = "socks" THEN v ELSE IF x1 = "events" THEN e
                                       ELSE IF x1 = "queue" THEN q ELSE k[x1]]
      BY <1>1, <2>1 DEF SystemFields
    <2> QED
      BY <2>2 DEF IsSystem, Keeps, SystemFields
  <1>10. System(k1)
    <2>1. /\ k1.poller = k.poller /\ k1.fds_ = k.fds_ /\ k1.has_retired_ = k.has_retired_
          /\ k1.faults = k.faults /\ IsSystem(k1)
      BY <1>9 DEF Keeps, SystemFields
    <2> QED
      BY <1>6, <1>7, <1>8, <1>9, <2>1 DEF System, Types
  <1> QED
    BY <1>5, <1>6, <1>8, <1>9, <1>10 DEF Touched, Keeps, SystemFields, k1

\* Touching a socket twice.
LEMMA TouchedTwice ==
  ASSUME NEW k, NEW k1, NEW k2, NEW h, Touched(k, k1, h), Touched(k1, k2, h)
  PROVE  Touched(k, k2, h)
  BY DEF Touched

\* A new selection of events.
LEMMA SelectTouches ==
  ASSUME NEW k, System(k), NEW h \in DOMAIN k.socks, NEW e \in Nat, NEW mask \in SUBSET Events,
         OnEvents(k) /\ mask # {} => e \in DOMAIN k.events
  PROVE  /\ Touched(k, Select(k, h, e, mask), h)
         /\ Select(k, h, e, mask).socks[h].sel = mask
         /\ Select(k, h, e, mask).socks[h].hEvent = e
  <1> DEFINE s  == [k.socks[h] EXCEPT !.sel = mask, !.hEvent = e, !.told = {}, !.rec = {}]
             v  == [k.socks EXCEPT ![h] = s]
             k1 == [k EXCEPT !.socks = v]
  <1>1. Select(k, h, e, mask) = Report(k1, h, Conditions(s))
    <2>1. IsOpen(k, h)
      BY DEF IsOpen
    <2> QED
      BY <2>1, Zenon DEF Select
  <1>2. s \in SocketType /\ s.sel = mask /\ s.hEvent = e
    <2>1. k.socks[h] \in SocketType
      BY DEF System, Types
    <2> QED
      BY <2>1 DEF SocketType
  <1> HIDE DEF s
  <1>3. PICK k2 : k2 = k1
    BY Zenon
  <1>4. k2.socks = v /\ Keeps(k, k2, {"socks"})
    BY <1>3, Assign DEF System, SystemFields
  <1>5. /\ System(k2) /\ DOMAIN k2.socks = DOMAIN k.socks /\ k2.socks[h] = s
        /\ \A g \in DOMAIN k.socks \ {h} : k2.socks[g] = k.socks[g]
    BY <1>2, <1>4, SetSocket
  <1>6. Touched(k, k2, h) /\ OnEvents(k2) = OnEvents(k)
    BY <1>4, <1>5 DEF Touched, Keeps, SystemFields, OnEvents
  <1>7. OnEvents(k2) /\ k2.socks[h].sel # {} => k2.socks[h].hEvent \in DOMAIN k2.events
    BY <1>2, <1>5, <1>6 DEF Touched
  <1>8. PICK k3 : k3 = Report(k2, h, Conditions(s))
    BY Zenon
  <1>9. Touched(k2, k3, h) /\ k3.socks[h].sel = mask /\ k3.socks[h].hEvent = e
    BY <1>2, <1>5, <1>7, <1>8, ReportTouches
  <1>10. Touched(k, k3, h)
    BY <1>6, <1>9, TouchedTwice
  <1>11. Select(k, h, e, mask) = k3
    BY <1>1, <1>3, <1>8, Zenon
  <1> QED
    BY <1>9, <1>10, <1>11, Zenon
-----------------------------------------------------------------------------
(* What keeps a state good. *)

\* The types of the parts.
LEMMA GoodTypes ==
  ASSUME NEW k, NEW A, NEW X, Good(k, A, X)
  PROVE  /\ System(k) /\ IsSystem(k)
         /\ Len(k.fds_) \in Nat /\ DOMAIN k.fds_ = 1 .. Len(k.fds_)
         /\ \A i \in DOMAIN k.fds_ : k.fds_[i] \in EntryType
         /\ \A h \in DOMAIN k.socks : k.socks[h] \in SocketType /\ h \in Handles
         /\ \A i \in Live(k) : k.fds_[i].fd \in Handles /\ k.fds_[i].fd \in DOMAIN k.socks
  <1> HIDE DEF EntryType
  <1>1. k.fds_ \in Seq(EntryType) /\ System(k) /\ IsSystem(k)
    BY DEF Good, System, Types
  <1>2. \A h \in DOMAIN k.socks : k.socks[h] \in SocketType /\ h \in Handles
    BY DEF Good, System, Types
  <1>3. \A i \in Live(k) : k.fds_[i].fd \in DOMAIN k.socks
    BY DEF Good, FdsInv
  <1> QED
    BY <1>1, <1>2, <1>3

\* The same entries and selections.
LEMMA TouchedGood ==
  ASSUME NEW k, NEW A, NEW X, Good(k, A, X), NEW h \in DOMAIN k.socks, NEW k1, Touched(k, k1, h),
         k1.socks[h].sel = k.socks[h].sel, k1.socks[h].hEvent = k.socks[h].hEvent
  PROVE  Good(k1, A, X)
  <1>1. System(k1) /\ k1.fds_ = k.fds_ /\ DOMAIN k1.socks = DOMAIN k.socks
        /\ DOMAIN k1.events = DOMAIN k.events
    BY DEF Touched
  <1>2. Live(k1) = Live(k) /\ OnEvents(k1) = OnEvents(k)
    BY DEF Touched, Live, OnEvents
  <1>3. FdsInv(k1, X) /\ EventInv(k1) /\ SinkInv(k1, A) /\ Room(k1)
    BY <1>1, <1>2 DEF Good, FdsInv, EventInv, SinkInv, Room
  <1>4. \A g \in DOMAIN k.socks : /\ k1.socks[g].sel = k.socks[g].sel
                                  /\ k1.socks[g].hEvent = k.socks[g].hEvent
    BY DEF Touched
  <1>5. SelInv(k1)
    BY <1>1, <1>2, <1>4, GoodTypes DEF Good, SelInv
  <1> QED
    BY <1>1, <1>3, <1>5 DEF Good

\* The entry at i is retired.
LEMMA RetireGood ==
  ASSUME NEW k, NEW A, Good(k, A, {}), NEW i \in Live(k), NEW k1, System(k1), k1.poller = k.poller,
         Len(k1.fds_) = Len(k.fds_),
         \A j \in DOMAIN k.fds_ \ {i} : k1.fds_[j] = k.fds_[j],
         k1.fds_[i].fd = INVALID_SOCKET, k1.fds_[i].hEvent = WSA_INVALID_EVENT,
         DOMAIN k1.events = DOMAIN k.events \ {k.fds_[i].hEvent},
         DOMAIN k1.socks = DOMAIN k.socks,
         \A g \in DOMAIN k.socks \ {k.fds_[i].fd} : k1.socks[g] = k.socks[g]
  PROVE  Good(k1, A \ {k.fds_[i].sink}, {k.fds_[i].fd})
  <1>1. DOMAIN k1.fds_ = DOMAIN k.fds_ /\ i \in DOMAIN k.fds_
    <2> HIDE DEF EntryType
    <2>1. k1.fds_ \in Seq(EntryType) /\ k.fds_ \in Seq(EntryType)
      BY DEF Good, System, Types
    <2> QED
      BY <2>1 DEF Live
  <1>2. Live(k1) = Live(k) \ {i} /\ OnEvents(k1) = OnEvents(k)
    BY <1>1 DEF Live, OnEvents
  <1>3. \A j \in Live(k1) : k1.fds_[j] = k.fds_[j] /\ j # i
    BY <1>1, <1>2 DEF Live
  <1>4. \A j \in Live(k) : k.fds_[j].fd = k.fds_[i].fd => j = i
    BY DEF Good, FdsInv, OneEach, Live
  <1>5. FdsInv(k1, {k.fds_[i].fd})
    <2>1. OneEach(k1.fds_, INVALID_SOCKET)
      <3> SUFFICES ASSUME NEW m \in DOMAIN k.fds_, NEW n \in DOMAIN k.fds_,
                          k1.fds_[m].fd # INVALID_SOCKET, k1.fds_[m].fd = k1.fds_[n].fd
                   PROVE  m = n
        BY <1>1 DEF OneEach
      <3>1. m # i /\ n # i
        OBVIOUS
      <3> QED
        BY <3>1 DEF Good, FdsInv, OneEach
    <2> QED
      BY <1>2, <1>3, <1>4, <2>1 DEF Good, FdsInv
  <1>6. SelInv(k1)
    <2> SUFFICES ASSUME NEW j \in Live(k1)
                 PROVE  /\ k1.socks[k1.fds_[j].fd].sel = k1.fds_[j].lEvents
                        /\ k1.fds_[j].lEvents # {} => k1.socks[k1.fds_[j].fd].hEvent = k1.fds_[j].hEvent
      BY DEF SelInv
    <2>1. j \in Live(k) /\ k1.fds_[j] = k.fds_[j] /\ k.fds_[j].fd # k.fds_[i].fd
      BY <1>2, <1>3, <1>4
    <2>2. k.fds_[j].fd \in DOMAIN k.socks
      BY <2>1, GoodTypes
    <2> QED
      BY <2>1, <2>2 DEF Good, SelInv
  <1>7. EventInv(k1)
    <2>1. \A j \in DOMAIN k1.fds_ : j \notin Live(k1) \/ ~OnEvents(k1) => k1.fds_[j].hEvent = WSA_INVALID_EVENT
      BY <1>1, <1>2, <1>3 DEF Good, EventInv
    <2>2. OnEvents(k) => \A j \in Live(k1) : k.fds_[j].hEvent # k.fds_[i].hEvent
      BY <1>2 DEF Good, EventInv
    <2>3. OnEvents(k) => /\ \A j \in Live(k1) : k1.fds_[j].hEvent \in DOMAIN k1.events
                         /\ \A j, n \in Live(k1) : k1.fds_[j].hEvent = k1.fds_[n].hEvent => j = n
      BY <1>2, <1>3, <2>2 DEF Good, EventInv
    <2>4. ASSUME NEW e \in DOMAIN k1.events PROVE OnEvents(k) /\ \E j \in Live(k1) : k1.fds_[j].hEvent = e
      <3>1. e \in DOMAIN k.events /\ e # k.fds_[i].hEvent
        OBVIOUS
      <3>2. PICK j \in Live(k) : OnEvents(k) /\ k.fds_[j].hEvent = e
        BY <3>1 DEF Good, EventInv
      <3>3. j \in Live(k1) /\ k1.fds_[j] = k.fds_[j]
        BY <1>2, <1>3, <3>1, <3>2
      <3> QED
        BY <3>2, <3>3
    <2> QED
      BY <1>2, <2>1, <2>3, <2>4 DEF EventInv
  <1>8. SinkInv(k1, A \ {k.fds_[i].sink})
    BY <1>2, <1>3 DEF Good, SinkInv
  <1>9. Room(k1)
    BY <1>2 DEF Good, Room
  <1> QED
    BY <1>5, <1>6, <1>7, <1>8, <1>9 DEF Good

\* An entry is added for the socket h, which has selected nothing yet.
LEMMA AddGood ==
  ASSUME NEW k, NEW A, NEW h \in DOMAIN k.socks, Good(k, A, {h}), NEW s \in Handles, s \notin A,
         k.socks[h].sel = {},
         NEW x \in EntryType, x.fd = h, x.sink = s, x.lEvents = {},
         NEW k1, System(k1), k1.poller = k.poller, k1.fds_ = Append(k.fds_, x), k1.socks = k.socks,
         DOMAIN k1.events = DOMAIN k.events \cup (IF OnEvents(k) THEN {x.hEvent} ELSE {}),
         IF OnEvents(k) THEN x.hEvent \notin DOMAIN k.events ELSE x.hEvent = WSA_INVALID_EVENT,
         Room(k1)
  PROVE  Good(k1, A \cup {s}, {})
  <1> DEFINE n == Len(k.fds_) + 1
  <1>1. /\ n \in Nat /\ n \notin DOMAIN k.fds_ /\ DOMAIN k1.fds_ = DOMAIN k.fds_ \cup {n}
        /\ k1.fds_[n] = x /\ \A j \in DOMAIN k.fds_ : k1.fds_[j] = k.fds_[j]
    <2> HIDE DEF EntryType
    <2>1. k.fds_ \in Seq(EntryType)
      BY DEF Good, System, Types
    <2>2. PICK t, t1 : t = k.fds_ /\ t1 = k1.fds_
      BY Zenon
    <2>3. t \in Seq(EntryType) /\ t1 = Append(t, x)
      BY <2>1, <2>2
    <2>4. /\ Len(t) \in Nat /\ DOMAIN t = 1 .. Len(t) /\ DOMAIN t1 = 1 .. Len(t) + 1
          /\ t1[Len(t) + 1] = x /\ \A j \in 1 .. Len(t) : t1[j] = t[j]
      BY <2>3
    <2> QED
      BY <2>2, <2>4
  <1> HIDE DEF n
  <1>2. x.fd # INVALID_SOCKET
    BY GoodTypes DEF Handles, INVALID_SOCKET
  <1>3. Live(k1) = Live(k) \cup {n} /\ OnEvents(k1) = OnEvents(k) /\ n \notin Live(k)
    BY <1>1, <1>2 DEF Live, OnEvents
  <1>4. \A j \in Live(k) : k1.fds_[j] = k.fds_[j] /\ k.fds_[j].fd # h /\ k.fds_[j].fd \in DOMAIN k.socks
    BY <1>1 DEF Good, FdsInv, Live
  <1>5. FdsInv(k1, {})
    <2>1. OneEach(k1.fds_, INVALID_SOCKET)
      <3> SUFFICES ASSUME NEW l \in DOMAIN k1.fds_, NEW m \in DOMAIN k1.fds_,
                          k1.fds_[l].fd # INVALID_SOCKET, k1.fds_[l].fd = k1.fds_[m].fd
                   PROVE  l = m
        BY DEF OneEach
      <3>1. l \in Live(k1) /\ m \in Live(k1)
        BY DEF Live
      <3>2. CASE l = n \/ m = n
        BY <1>1, <1>3, <1>4, <3>1, <3>2
      <3>3. CASE l # n /\ m # n
        BY <1>1, <3>3 DEF Good, FdsInv, OneEach
      <3> QED
        BY <3>2, <3>3
    <2>2. \A g \in DOMAIN k1.socks : \E j \in Live(k1) : k1.fds_[j].fd = g
      <3> SUFFICES ASSUME NEW g \in DOMAIN k.socks PROVE \E j \in Live(k1) : k1.fds_[j].fd = g
        OBVIOUS
      <3>1. CASE g = h
        BY <1>1, <1>3, <3>1
      <3>2. CASE g # h
        <4>1. PICK j \in Live(k) : k.fds_[j].fd = g
          BY <3>2 DEF Good, FdsInv
        <4> QED
          BY <1>3, <1>4, <4>1
      <3> QED
        BY <3>1, <3>2
    <2>3. \A j \in Live(k1) : k1.fds_[j].fd \in DOMAIN k1.socks
      BY <1>1, <1>3, <1>4
    <2> QED
      BY <2>1, <2>2, <2>3 DEF FdsInv
  <1>6. SelInv(k1)
    <2>1. k1.socks[x.fd].sel = x.lEvents /\ x.lEvents = {}
      OBVIOUS
    <2>2. SelInv(k)
      BY DEF Good
    <2>3. ASSUME NEW j \in Live(k)
          PROVE  /\ k1.socks[k1.fds_[j].fd].sel = k1.fds_[j].lEvents
                 /\ k1.fds_[j].lEvents # {} => k1.socks[k1.fds_[j].fd].hEvent = k1.fds_[j].hEvent
      BY <1>4, <2>2, Zenon DEF SelInv
    <2>4. /\ k1.socks[k1.fds_[n].fd].sel = k1.fds_[n].lEvents
          /\ k1.fds_[n].lEvents = {}
      BY <1>1, <2>1
    <2> QED
      BY <1>3, <2>3, <2>4, Zenon DEF SelInv
  <1>7. EventInv(k1)
    <2>1. \A j \in DOMAIN k1.fds_ : j \notin Live(k1) \/ ~OnEvents(k1) => k1.fds_[j].hEvent = WSA_INVALID_EVENT
      BY <1>1, <1>3 DEF Good, EventInv
    <2>2. OnEvents(k) => \A j \in Live(k) : k1.fds_[j].hEvent \in DOMAIN k.events /\ k1.fds_[j].hEvent # x.hEvent
      BY <1>4 DEF Good, EventInv
    <2>3. OnEvents(k) => \A i, j \in Live(k) : k1.fds_[i].hEvent = k1.fds_[j].hEvent => i = j
      BY <1>4 DEF Good, EventInv
    <2>4. OnEvents(k) => /\ \A j \in Live(k1) : k1.fds_[j].hEvent \in DOMAIN k1.events
                         /\ \A i, j \in Live(k1) : k1.fds_[i].hEvent = k1.fds_[j].hEvent => i = j
      BY <1>1, <1>3, <2>2, <2>3
    <2>5. ASSUME NEW e \in DOMAIN k1.events PROVE OnEvents(k) /\ \E j \in Live(k1) : k1.fds_[j].hEvent = e
      <3>1. CASE e \in DOMAIN k.events
        <4>1. PICK j \in Live(k) : OnEvents(k) /\ k.fds_[j].hEvent = e
          BY <3>1 DEF Good, EventInv
        <4> QED
          BY <1>3, <1>4, <4>1
      <3>2. CASE e \notin DOMAIN k.events
        <4>1. OnEvents(k) /\ e = x.hEvent
          BY <3>2
        <4> QED
          BY <1>1, <1>3, <4>1
      <3> QED
        BY <3>1, <3>2
    <2> QED
      BY <1>3, <2>1, <2>4, <2>5 DEF EventInv
  <1>8. SinkInv(k1, A \cup {s})
    <2>1. \A j \in Live(k) : k1.fds_[j].sink \in A /\ k1.fds_[j].sink # s
      BY <1>4 DEF Good, SinkInv
    <2>2. \A i, j \in Live(k1) : k1.fds_[i].sink = k1.fds_[j].sink => i = j
      <3>1. \A i, j \in Live(k) : k1.fds_[i].sink = k1.fds_[j].sink => i = j
        BY <1>4 DEF Good, SinkInv
      <3> QED
        BY <1>1, <1>3, <2>1, <3>1
    <2>3. \A a \in A \cup {s} : \E j \in Live(k1) : k1.fds_[j].sink = a
      <3> SUFFICES ASSUME NEW a \in A \cup {s} PROVE \E j \in Live(k1) : k1.fds_[j].sink = a
        OBVIOUS
      <3>1. CASE a = s
        BY <1>1, <1>3, <3>1
      <3>2. CASE a # s
        <4>1. PICK j \in Live(k) : k.fds_[j].sink = a
          BY <3>2 DEF Good, SinkInv
        <4> QED
          BY <1>3, <1>4, <4>1
      <3> QED
        BY <3>1, <3>2
    <2>4. A \cup {s} \subseteq Handles
      BY DEF Good, SinkInv
    <2>5. \A j \in Live(k1) : k1.fds_[j].sink \in A \cup {s}
      BY <1>1, <1>3, <2>1
    <2> QED
      BY <2>2, <2>3, <2>4, <2>5 DEF SinkInv
  <1> QED
    BY <1>5, <1>6, <1>7, <1>8 DEF Good

\* The entry at i gets other events, and its socket the same selection.
LEMMA ChangeGood ==
  ASSUME NEW k, NEW A, Good(k, A, {}), NEW i \in Live(k), NEW k1, System(k1), k1.poller = k.poller,
         Len(k1.fds_) = Len(k.fds_),
         \A j \in DOMAIN k.fds_ \ {i} : k1.fds_[j] = k.fds_[j],
         k1.fds_[i].fd = k.fds_[i].fd, k1.fds_[i].hEvent = k.fds_[i].hEvent,
         k1.fds_[i].sink = k.fds_[i].sink,
         DOMAIN k1.events = DOMAIN k.events,
         DOMAIN k1.socks = DOMAIN k.socks,
         \A g \in DOMAIN k.socks \ {k.fds_[i].fd} : k1.socks[g] = k.socks[g],
         k1.socks[k.fds_[i].fd].sel = k1.fds_[i].lEvents,
         k1.socks[k.fds_[i].fd].hEvent = k.fds_[i].hEvent
  PROVE  Good(k1, A, {})
  <1>1. DOMAIN k1.fds_ = DOMAIN k.fds_ /\ i \in DOMAIN k.fds_
    <2> HIDE DEF EntryType
    <2>1. k1.fds_ \in Seq(EntryType) /\ k.fds_ \in Seq(EntryType)
      BY DEF Good, System, Types
    <2> QED
      BY <2>1 DEF Live
  <1>2. \A j \in DOMAIN k.fds_ : /\ k1.fds_[j].fd = k.fds_[j].fd
                                 /\ k1.fds_[j].hEvent = k.fds_[j].hEvent
                                 /\ k1.fds_[j].sink = k.fds_[j].sink
    OBVIOUS
  <1>3. Live(k1) = Live(k) /\ OnEvents(k1) = OnEvents(k) /\ Live(k) \subseteq DOMAIN k.fds_
    BY <1>1, <1>2 DEF Live, OnEvents
  <1>4. FdsInv(k1, {})
    BY <1>1, <1>2, <1>3 DEF Good, FdsInv, OneEach
  <1>5. SelInv(k1)
    <2> SUFFICES ASSUME NEW j \in Live(k)
                 PROVE  /\ k1.socks[k1.fds_[j].fd].sel = k1.fds_[j].lEvents
                        /\ k1.fds_[j].lEvents # {} => k1.socks[k1.fds_[j].fd].hEvent = k1.fds_[j].hEvent
      BY <1>3 DEF SelInv
    <2>1. CASE j = i
      BY <2>1
    <2>2. CASE j # i
      <3>1. k.fds_[j].fd # k.fds_[i].fd /\ k.fds_[j].fd \in DOMAIN k.socks
        BY <2>2 DEF Good, FdsInv, OneEach, Live
      <3> QED
        BY <1>3, <2>2, <3>1 DEF Good, SelInv
    <2> QED
      BY <2>1, <2>2
  <1>6. EventInv(k1)
    <2>1. \A j \in DOMAIN k1.fds_ : j \notin Live(k1) \/ ~OnEvents(k1) => k1.fds_[j].hEvent = WSA_INVALID_EVENT
      BY <1>1, <1>2, <1>3 DEF Good, EventInv
    <2>2. OnEvents(k) => /\ \A j \in Live(k) : k1.fds_[j].hEvent \in DOMAIN k1.events
                         /\ \A j, n \in Live(k) : k1.fds_[j].hEvent = k1.fds_[n].hEvent => j = n
      BY <1>2, <1>3 DEF Good, EventInv
    <2>3. ASSUME NEW e \in DOMAIN k1.events PROVE OnEvents(k) /\ \E j \in Live(k) : k1.fds_[j].hEvent = e
      <3>1. PICK j \in Live(k) : OnEvents(k) /\ k.fds_[j].hEvent = e
        BY DEF Good, EventInv
      <3> QED
        BY <1>2, <1>3, <3>1
    <2> QED
      BY <1>3, <2>1, <2>2, <2>3 DEF EventInv
  <1>7. SinkInv(k1, A)
    BY <1>2, <1>3 DEF Good, SinkInv
  <1>8. Room(k1)
    BY <1>3 DEF Good, Room
  <1> QED
    BY <1>4, <1>5, <1>6, <1>7, <1>8 DEF Good

\* The entries of k1 are those of k that are live.
LEMMA SweepGood ==
  ASSUME NEW k, NEW A, Good(k, A, {}), NEW k1, System(k1), k1.poller = k.poller,
         Left(k.fds_, Len(k.fds_), k1.fds_, EntryType, INVALID_SOCKET),
         k1.socks = k.socks, k1.events = k.events
  PROVE  Good(k1, A, {})
  <1>1. Len(k1.fds_) \in Nat /\ DOMAIN k1.fds_ = 1 .. Len(k1.fds_) /\ Len(k1.fds_) <= Len(k.fds_)
    <2> HIDE DEF EntryType
    <2>1. k1.fds_ \in Seq(EntryType)
      BY DEF Left
    <2> QED
      BY <2>1 DEF Left
  <1>2. /\ \A m \in DOMAIN k1.fds_ : /\ k1.fds_[m].fd # INVALID_SOCKET
                                     /\ \E j \in Live(k) : k1.fds_[m] = k.fds_[j]
        /\ \A j \in Live(k) : \E m \in DOMAIN k1.fds_ : k1.fds_[m] = k.fds_[j]
    <2>1. DOMAIN k.fds_ = 1 .. Len(k.fds_)
      BY GoodTypes
    <2>2. ASSUME NEW m \in DOMAIN k1.fds_
          PROVE  k1.fds_[m].fd # INVALID_SOCKET /\ \E j \in Live(k) : k1.fds_[m] = k.fds_[j]
      <3>1. PICK j \in DOMAIN k.fds_ : k1.fds_[m] = k.fds_[j] /\ k1.fds_[m].fd # INVALID_SOCKET
        BY <1>1, <2>1 DEF Left
      <3> QED
        BY <3>1 DEF Live
    <2>3. ASSUME NEW j \in Live(k) PROVE \E m \in DOMAIN k1.fds_ : k1.fds_[m] = k.fds_[j]
      BY <1>1, <2>1 DEF Left, Live
    <2> QED
      BY <2>2, <2>3
  <1>3. Live(k1) = DOMAIN k1.fds_ /\ OnEvents(k1) = OnEvents(k)
    BY <1>2 DEF Live, OnEvents
  <1>4. OneEach(k1.fds_, INVALID_SOCKET)
    BY DEF Left, Good, FdsInv
  <1>5. \A m \in Live(k1) : k1.fds_[m].fd \in DOMAIN k1.socks
    BY <1>2, <1>3, GoodTypes
  <1>6. \A h \in DOMAIN k1.socks : \E m \in Live(k1) : k1.fds_[m].fd = h
    <2> SUFFICES ASSUME NEW h \in DOMAIN k.socks PROVE \E m \in Live(k1) : k1.fds_[m].fd = h
      OBVIOUS
    <2>1. PICK j \in Live(k) : k.fds_[j].fd = h
      BY DEF Good, FdsInv
    <2> QED
      BY <1>2, <1>3, <2>1
  <1>7. FdsInv(k1, {})
    BY <1>4, <1>5, <1>6 DEF FdsInv
  <1>8. SelInv(k1)
    BY <1>2, <1>3 DEF Good, SelInv
  \* Two entries of k1 are the same if they come from the same entry of k.
  <1>9. ASSUME NEW m \in Live(k1), NEW n \in Live(k1), NEW i \in Live(k), NEW j \in Live(k),
               k1.fds_[m] = k.fds_[i], k1.fds_[n] = k.fds_[j], i = j
        PROVE  m = n
    BY <1>3, <1>4, <1>9 DEF OneEach, Live
  <1>10. EventInv(k1)
    <2>1. \A m \in DOMAIN k1.fds_ : m \notin Live(k1) \/ ~OnEvents(k1) => k1.fds_[m].hEvent = WSA_INVALID_EVENT
      BY <1>2, <1>3 DEF Good, EventInv, Live
    <2>2. OnEvents(k) => \A m \in Live(k1) : k1.fds_[m].hEvent \in DOMAIN k1.events
      BY <1>2, <1>3 DEF Good, EventInv
    <2>3. ASSUME OnEvents(k), NEW m \in Live(k1), NEW n \in Live(k1), k1.fds_[m].hEvent = k1.fds_[n].hEvent
          PROVE  m = n
      <3>1. PICK i \in Live(k), j \in Live(k) : k1.fds_[m] = k.fds_[i] /\ k1.fds_[n] = k.fds_[j]
        BY <1>2, <1>3
      <3>2. i = j
        BY <2>3, <3>1 DEF Good, EventInv
      <3> QED
        BY <1>9, <3>1, <3>2
    <2>4. ASSUME NEW e \in DOMAIN k1.events PROVE OnEvents(k) /\ \E m \in Live(k1) : k1.fds_[m].hEvent = e
      <3>1. PICK j \in Live(k) : OnEvents(k) /\ k.fds_[j].hEvent = e
        BY DEF Good, EventInv
      <3> QED
        BY <1>2, <1>3, <3>1
    <2> QED
      BY <1>3, <2>1, <2>2, <2>3, <2>4 DEF EventInv
  <1>11. SinkInv(k1, A)
    <2>1. A \subseteq Handles /\ \A m \in Live(k1) : k1.fds_[m].sink \in A
      BY <1>2, <1>3 DEF Good, SinkInv
    <2>2. ASSUME NEW m \in Live(k1), NEW n \in Live(k1), k1.fds_[m].sink = k1.fds_[n].sink
          PROVE  m = n
      <3>1. PICK i \in Live(k), j \in Live(k) : k1.fds_[m] = k.fds_[i] /\ k1.fds_[n] = k.fds_[j]
        BY <1>2, <1>3
      <3>2. i = j
        BY <2>2, <3>1 DEF Good, SinkInv
      <3> QED
        BY <1>9, <3>1, <3>2
    <2>3. ASSUME NEW a \in A PROVE \E m \in Live(k1) : k1.fds_[m].sink = a
      <3>1. PICK j \in Live(k) : k.fds_[j].sink = a
        BY DEF Good, SinkInv
      <3> QED
        BY <1>2, <1>3, <3>1
    <2> QED
      BY <2>1, <2>2, <2>3 DEF SinkInv
  <1>12. Room(k1)
    <2>1. Len(k.fds_) \in Nat
      BY GoodTypes
    <2>2. PICK l \in Nat : l = IF OnEvents(k) THEN WSA_MAXIMUM_WAIT_EVENTS ELSE FD_SETSIZE
      BY NetworkAssumption
    <2>3. Len(k.fds_) <= l
      BY <2>2 DEF Good, Room
    <2>4. Len(k1.fds_) <= l
      BY <1>1, <2>1, <2>2, <2>3
    <2> QED
      BY <1>3, <2>2, <2>4 DEF Room
  <1> QED
    BY <1>7, <1>8, <1>10, <1>11, <1>12 DEF Good

\* A socket is created: socket().
LEMMA OpenGood ==
  ASSUME NEW k, NEW A, Good(k, A, {}), NEW h \in Handles, h \notin DOMAIN k.socks
  PROVE  /\ Good(Socket(k, h, "conn"), A, {h})
         /\ Socket(k, h, "conn").socks[h].sel = {}
         /\ DOMAIN Socket(k, h, "conn").socks = DOMAIN k.socks \cup {h}
         /\ Socket(k, h, "conn").fds_ = k.fds_ /\ Socket(k, h, "conn").poller = k.poller
  <1>1. PICK v : v = With(k.socks, h, NewSocket("conn"))
    BY Zenon
  <1>2. /\ DOMAIN v = DOMAIN k.socks \cup {h} /\ v[h].sel = {}
        /\ v \in [DOMAIN k.socks \cup {h} -> SocketType]
        /\ \A g \in DOMAIN k.socks : v[g] = k.socks[g]
    <2>1. NewSocket("conn") \in SocketType /\ NewSocket("conn").sel = {}
      BY DEF NewSocket, SocketType, WSA_INVALID_EVENT
    <2>2. k.socks \in [DOMAIN k.socks -> SocketType]
      BY DEF Good, System, Types
    <2> HIDE DEF SocketType
    <2> QED
      BY <1>1, <2>1, <2>2 DEF With
  <1>3. PICK k1 : k1 = Socket(k, h, "conn")
    BY Zenon
  <1>4. k1 = [k EXCEPT !.socks = v]
    BY <1>1, <1>3, Zenon DEF Socket
  <1>5. k1.socks = v /\ Keeps(k, k1, {"socks"})
    BY <1>4, GoodTypes, Assign DEF SystemFields
  <1>6. /\ k1.fds_ = k.fds_ /\ k1.poller = k.poller /\ k1.events = k.events /\ k1.queue = k.queue
        /\ k1.has_retired_ = k.has_retired_ /\ k1.faults = k.faults /\ IsSystem(k1)
    BY <1>5 DEF Keeps, SystemFields
  <1>7. System(k1)
    <2>1. IsFiniteSet(DOMAIN k.socks \cup {h})
      BY FS_AddElement DEF Good, System, Types
    <2> QED
      BY <1>2, <1>5, <1>6, <2>1 DEF Good, System, Types
  <1>8. Live(k1) = Live(k) /\ OnEvents(k1) = OnEvents(k)
    BY <1>6 DEF Live, OnEvents
  <1>9. FdsInv(k1, {h})
    BY <1>2, <1>5, <1>6, <1>8 DEF Good, FdsInv
  <1>10. SelInv(k1)
    BY <1>2, <1>5, <1>6, <1>8, GoodTypes DEF Good, SelInv
  <1>11. EventInv(k1) /\ SinkInv(k1, A) /\ Room(k1)
    BY <1>6, <1>8 DEF Good, EventInv, SinkInv, Room
  <1> QED
    BY <1>2, <1>3, <1>5, <1>6, <1>7, <1>9, <1>10, <1>11 DEF Good

\* A socket without an entry is closed.
LEMMA CloseGood ==
  ASSUME NEW k, NEW A, NEW h \in DOMAIN k.socks, Good(k, A, {h})
  PROVE  /\ Good(closesocket(k, h), A, {})
         /\ DOMAIN closesocket(k, h).socks = DOMAIN k.socks \ {h}
         /\ closesocket(k, h).fds_ = k.fds_ /\ closesocket(k, h).poller = k.poller
  <1>1. PICK v : v = Without(k.socks, h)
    BY Zenon
  <1>2. /\ DOMAIN v = DOMAIN k.socks \ {h}
        /\ v \in [DOMAIN k.socks \ {h} -> SocketType]
        /\ \A g \in DOMAIN k.socks \ {h} : v[g] = k.socks[g]
    <2>1. k.socks \in [DOMAIN k.socks -> SocketType]
      BY DEF Good, System, Types
    <2> HIDE DEF SocketType
    <2> QED
      BY <1>1, <2>1 DEF Without
  <1>3. PICK k1 : k1 = closesocket(k, h)
    BY Zenon
  <1>4. k1 = [k EXCEPT !.socks = v]
    BY <1>1, <1>3, Zenon DEF closesocket
  <1>5. k1.socks = v /\ Keeps(k, k1, {"socks"})
    <2>1. IsSystem(k)
      BY GoodTypes
    <2> QED
      BY <1>4, <2>1, Assign DEF SystemFields
  <1>6. /\ k1.fds_ = k.fds_ /\ k1.poller = k.poller /\ k1.events = k.events /\ k1.queue = k.queue
        /\ k1.has_retired_ = k.has_retired_ /\ k1.faults = k.faults /\ IsSystem(k1)
    BY <1>5 DEF Keeps, SystemFields
  <1>7. System(k1)
    <2>1. IsFiniteSet(DOMAIN k.socks \ {h})
      BY FS_Subset DEF Good, System, Types
    <2> QED
      BY <1>2, <1>5, <1>6, <2>1 DEF Good, System, Types
  <1>8. Live(k1) = Live(k) /\ OnEvents(k1) = OnEvents(k)
    BY <1>6 DEF Live, OnEvents
  <1>9. FdsInv(k1, {})
    BY <1>2, <1>5, <1>6, <1>8 DEF Good, FdsInv
  <1>10. SelInv(k1)
    BY <1>2, <1>5, <1>6, <1>8 DEF Good, SelInv, FdsInv
  <1>11. EventInv(k1) /\ SinkInv(k1, A) /\ Room(k1)
    BY <1>6, <1>8 DEF Good, EventInv, SinkInv, Room
  <1> QED
    BY <1>2, <1>3, <1>5, <1>6, <1>7, <1>9, <1>10, <1>11 DEF Good

\* A call fails: only the number of faults changes.
LEMMA FaultyGood ==
  ASSUME NEW k, NEW A, NEW X, Good(k, A, X), NEW k1 \in Faulty(k)
  PROVE  /\ Good(k1, A, X)
         /\ k1.fds_ = k.fds_ /\ k1.poller = k.poller /\ k1.socks = k.socks
         /\ k1.has_retired_ = k.has_retired_
  <1>1. PICK n : n = k.faults - 1
    BY Zenon
  <1>2. k.faults \in Nat /\ k.faults > 0 /\ k1 = [k EXCEPT !.faults = n]
    BY <1>1 DEF Good, System, Types, Faulty, When
  <1>3. n \in Nat
    BY <1>1, <1>2
  <1>4. k1.faults = n /\ Keeps(k, k1, {"faults"})
    <2>1. IsSystem(k)
      BY GoodTypes
    <2>2. k1 = [k EXCEPT !.faults = n]
      BY <1>2
    <2> QED
      BY <2>1, <2>2, Assign DEF SystemFields
  <1>5. /\ k1.fds_ = k.fds_ /\ k1.poller = k.poller /\ k1.events = k.events /\ k1.queue = k.queue
        /\ k1.has_retired_ = k.has_retired_ /\ k1.socks = k.socks /\ IsSystem(k1)
    BY <1>4 DEF Keeps, SystemFields
  <1>6. System(k1)
    BY <1>3, <1>4, <1>5 DEF Good, System, Types
  <1>7. Live(k1) = Live(k) /\ OnEvents(k1) = OnEvents(k)
    BY <1>5 DEF Live, OnEvents
  <1>8. FdsInv(k1, X) /\ SelInv(k1) /\ EventInv(k1) /\ SinkInv(k1, A) /\ Room(k1)
    BY <1>5, <1>7 DEF Good, FdsInv, SelInv, EventInv, SinkInv, Room
  <1> QED
    BY <1>5, <1>6, <1>8 DEF Good
-----------------------------------------------------------------------------
(* The calls of the pollers. *)

\* An entry that another one replaces.
LEMMA PutEntry ==
  ASSUME NEW f \in Seq(EntryType), NEW i \in DOMAIN f, NEW x \in EntryType,
         NEW g, g = [f EXCEPT ![i] = x]
  PROVE  /\ g \in Seq(EntryType) /\ Len(g) = Len(f) /\ DOMAIN g = DOMAIN f
         /\ g[i] = x
         /\ \A j \in DOMAIN f \ {i} : g[j] = f[j]
  <1> HIDE DEF EntryType
  <1> QED
    OBVIOUS

\* The first place, if there is one.
LEMMA FirstPlace ==
  ASSUME NEW T, T \subseteq Nat, T # {}
  PROVE  Event!FirstOf(T) \in T
  <1>1. \E n \in T : \A m \in T : n <= m
    BY LeastNumber
  <1>2. Event!Min(T) \in T
    BY <1>1 DEF Event!Min
  <1> QED
    BY <1>2 DEF Event!FirstOf

\* The searches in fds_.
LEMMA Found ==
  ASSUME NEW k, NEW A, NEW X, Good(k, A, X), NEW h
  PROVE  /\ \/ Event!FindEntry(k, h) = 0 /\ \A i \in DOMAIN k.fds_ : k.fds_[i].fd # h
            \/ \E i \in DOMAIN k.fds_ : i # 0 /\ Event!FindEntry(k, h) = i /\ k.fds_[i].fd = h
         /\ Message!FindEntry(k, h) = Event!FindEntry(k, h)
         /\ \/ Event!FindEntryByEvent(k, h) = 0
            \/ \E i \in DOMAIN k.fds_ : i # 0 /\ Event!FindEntryByEvent(k, h) = i /\ k.fds_[i].hEvent = h
  <1>1. DOMAIN k.fds_ \subseteq Nat \ {0}
    BY GoodTypes
  <1>2. ASSUME NEW T \in SUBSET DOMAIN k.fds_, T # {}
        PROVE  Event!FirstOf(T) \in T
    BY <1>1, <1>2, FirstPlace
  <1>3. Event!FirstOf({}) = 0
    BY DEF Event!FirstOf
  <1>4. PICK S : S = {i \in DOMAIN k.fds_ : k.fds_[i].fd = h}
    BY Zenon
  <1>5. PICK T : T = {i \in DOMAIN k.fds_ : k.fds_[i].hEvent = h}
    BY Zenon
  <1>6. Event!FindEntry(k, h) = Event!FirstOf(S)
    BY <1>4, Zenon DEF Event!FindEntry
  <1>7. Message!FindEntry(k, h) = Event!FindEntry(k, h)
    <2>1. Message!Min(S) = Event!Min(S)
      BY Zenon DEF Message!Min, Event!Min
    <2>2. Message!FindEntry(k, h) = IF S = {} THEN 0 ELSE Message!Min(S)
      BY <1>4, Zenon DEF Message!FindEntry
    <2>3. Event!FirstOf(S) = IF S = {} THEN 0 ELSE Event!Min(S)
      BY Zenon DEF Event!FirstOf
    <2> QED
      BY <1>6, <2>1, <2>2, <2>3
  <1>8. Event!FindEntryByEvent(k, h) = Event!FirstOf(T)
    BY <1>5, Zenon DEF Event!FindEntryByEvent
  <1>9. \/ Event!FindEntry(k, h) = 0 /\ \A i \in DOMAIN k.fds_ : k.fds_[i].fd # h
        \/ \E i \in DOMAIN k.fds_ : i # 0 /\ Event!FindEntry(k, h) = i /\ k.fds_[i].fd = h
    <2>1. CASE S = {}
      BY <1>3, <1>4, <1>6, <2>1
    <2>2. CASE S # {}
      <3>1. Event!FirstOf(S) \in S
        BY <1>2, <1>4, <2>2
      <3> QED
        BY <1>1, <1>4, <1>6, <3>1
    <2> QED
      BY <2>1, <2>2
  <1>10. \/ Event!FindEntryByEvent(k, h) = 0
         \/ \E i \in DOMAIN k.fds_ : i # 0 /\ Event!FindEntryByEvent(k, h) = i /\ k.fds_[i].hEvent = h
    <2>1. CASE T = {}
      BY <1>3, <1>8, <2>1
    <2>2. CASE T # {}
      <3>1. Event!FirstOf(T) \in T
        BY <1>2, <1>5, <2>2
      <3> QED
        BY <1>1, <1>5, <1>8, <3>1
    <2> QED
      BY <2>1, <2>2
  <1> QED
    BY <1>7, <1>9, <1>10

\* The entry of a registered socket is the one that is found.
LEMMA FoundLive ==
  ASSUME NEW k, NEW A, NEW X, Good(k, A, X), NEW i \in Live(k)
  PROVE  /\ Event!FindEntry(k, k.fds_[i].fd) = i /\ Message!FindEntry(k, k.fds_[i].fd) = i
         /\ i # 0 /\ i \in DOMAIN k.fds_
  <1>1. i \in DOMAIN k.fds_ /\ i # 0 /\ k.fds_[i].fd # INVALID_SOCKET
    BY GoodTypes DEF Live
  <1>2. \A j \in DOMAIN k.fds_ : k.fds_[j].fd = k.fds_[i].fd => j = i
    BY <1>1 DEF Good, FdsInv, OneEach
  <1>3. PICK h : h = k.fds_[i].fd
    BY Zenon
  <1>4. Event!FindEntry(k, h) = i /\ Message!FindEntry(k, h) = i
    BY <1>1, <1>2, <1>3, Found
  <1> QED
    BY <1>1, <1>3, <1>4

\* Entries and event objects change.
LEMMA SetEntries ==
  ASSUME NEW k, System(k), NEW k1, Keeps(k, k1, {"events", "fds_"}), k1.fds_ \in Seq(EntryType),
         DOMAIN k1.events \subseteq Handles, IsFiniteSet(DOMAIN k1.events),
         k1.events \in [DOMAIN k1.events -> BOOLEAN]
  PROVE  System(k1) /\ k1.socks = k.socks /\ k1.poller = k.poller
  <1> HIDE DEF EntryType
  <1>1. /\ k1.poller = k.poller /\ k1.socks = k.socks /\ k1.queue = k.queue
        /\ k1.has_retired_ = k.has_retired_ /\ k1.faults = k.faults /\ IsSystem(k1)
    BY DEF Keeps, SystemFields
  <1>2. Types(k1)
    <2>1. k1.fds_ \in Seq(EntryType) /\ k1.has_retired_ \in BOOLEAN /\ k1.faults \in Nat
      BY <1>1 DEF System, Types
    <2>2. k1.queue \in Seq(MessageType) /\ k1.poller \in {"PollerAsyncSelect", "PollerAsyncEvent"}
      BY <1>1 DEF System, Types
    <2>3. /\ DOMAIN k1.socks \subseteq Handles /\ IsFiniteSet(DOMAIN k1.socks)
          /\ k1.socks \in [DOMAIN k1.socks -> SocketType]
      BY <1>1 DEF System, Types
    <2> QED
      BY <2>1, <2>2, <2>3 DEF Types
  <1> QED
    BY <1>1, <1>2 DEF System

\* has_retired_ is set.
LEMMA SetRetired ==
  ASSUME NEW k, System(k), NEW b \in BOOLEAN, NEW k1, k1 = [k EXCEPT !.has_retired_ = b]
  PROVE  /\ System(k1) /\ k1.fds_ = k.fds_ /\ k1.events = k.events /\ k1.socks = k.socks
         /\ k1.poller = k.poller
  <1>1. PICK k2 : k2 = k1
    BY Zenon
  <1>2. k2.has_retired_ = b /\ Keeps(k, k2, {"has_retired_"})
    BY <1>1, Assign DEF System, SystemFields
  <1>3. /\ k2.poller = k.poller /\ k2.socks = k.socks /\ k2.queue = k.queue
        /\ k2.fds_ = k.fds_ /\ k2.events = k.events /\ k2.faults = k.faults /\ IsSystem(k2)
    BY <1>2 DEF Keeps, SystemFields
  <1>4. System(k2)
    BY <1>2, <1>3 DEF System, Types
  <1> QED
    BY <1>1, <1>3, <1>4, Zenon

\* Nothing is selected for the socket h.
Unselected(k, h) == k.socks[h].sel = {}

\* What AddFd of the socket h with the sink s returns.
Added(k, A, h, s, r) ==
  /\ r.ok => /\ Good(r.sys, A \cup {s}, {})
             /\ \E x \in EntryType : x.fd = h /\ x.sink = s /\ r.sys.fds_ = Append(k.fds_, x)
  /\ ~r.ok => Good(r.sys, A, {h}) /\ r.sys.fds_ = k.fds_
  /\ r.sys.socks = k.socks /\ r.sys.poller = k.poller

\* AddFd of AsyncEventPoller.
LEMMA EventAddFd ==
  ASSUME NEW k, NEW A, NEW h \in DOMAIN k.socks, Good(k, A, {h}), OnEvents(k), NEW s \in Handles,
         s \notin A, Unselected(k, h), NEW r \in Event!AddFd(k, h, s)
  PROVE  Added(k, A, h, s, r)
  <1>1. PICK e : e = Event!LeastFree(DOMAIN k.events)
    BY Zenon
  <1>2. e \in Handles /\ e \notin DOMAIN k.events
    <2>1. e = LeastFree(DOMAIN k.events)
      BY <1>1, SystemOfEvent
    <2>2. IsFiniteSet(DOMAIN k.events)
      BY DEF Good, System, Types
    <2> QED
      BY <2>1, <2>2, LeastFreeFacts DEF Handles
  <1>3. PICK x, v : x = Event!Entry(h, e, s) /\ v = Event!With(k.events, e, FALSE)
    BY Zenon
  <1>4. x \in EntryType /\ x.fd = h /\ x.sink = s /\ x.lEvents = {} /\ x.hEvent = e
    BY <1>2, <1>3, GoodTypes DEF Event!Entry, EntryType, Handles
  <1>5. v \in [DOMAIN k.events \cup {e} -> BOOLEAN] /\ DOMAIN v = DOMAIN k.events \cup {e}
    <2>1. k.events \in [DOMAIN k.events -> BOOLEAN]
      BY DEF Good, System, Types
    <2> QED
      BY <1>3, <2>1 DEF Event!With
  <1>6. PICK f : f = Append(k.fds_, x)
    BY Zenon
  <1>7. PICK added : added = [k EXCEPT !.events = v, !.fds_ = f]
    BY Zenon
  <1>8. Event!AddFd(k, h, s) = Event!When(~Event!Full(k), {[sys |-> added, ok |-> TRUE]})
          \cup {[sys |-> k1, ok |-> FALSE] : k1 \in Event!When(Event!Full(k), {k}) \cup Event!Faulty(k)}
    BY <1>1, <1>3, <1>6, <1>7, Zenon DEF Event!AddFd
  <1>9. CASE ~Event!Full(k) /\ r = [sys |-> added, ok |-> TRUE]
    <2>1. added.events = v /\ added.fds_ = f /\ Keeps(k, added, {"events", "fds_"})
      <3>1. DOMAIN k = SystemFields
        BY GoodTypes DEF IsSystem
      <3>2. added = [y \in SystemFields |-> IF y = "events" THEN v ELSE IF y = "fds_" THEN f ELSE k[y]]
        BY <1>7, <3>1 DEF SystemFields
      <3> QED
        BY <3>2 DEF IsSystem, Keeps, SystemFields
    <2>2. f \in Seq(EntryType) /\ Len(f) = Len(k.fds_) + 1 /\ Len(k.fds_) \in Nat
      <3> HIDE DEF EntryType
      <3>1. k.fds_ \in Seq(EntryType)
        BY DEF Good, System, Types
      <3> QED
        BY <1>4, <1>6, <3>1
    <2>3. System(added) /\ added.socks = k.socks /\ added.poller = k.poller
      <3>1. DOMAIN k.events \cup {e} \subseteq Handles /\ IsFiniteSet(DOMAIN k.events \cup {e})
        BY <1>2, FS_AddElement DEF Good, System, Types
      <3>2. System(k)
        BY GoodTypes
      <3> QED
        BY <1>5, <2>1, <2>2, <3>1, <3>2, SetEntries
    <2>4. Room(added)
      <3>1. ~(Len(k.fds_) >= WSA_MAXIMUM_WAIT_EVENTS) /\ WSA_MAXIMUM_WAIT_EVENTS \in Nat
        BY <1>9, NetworkAssumption DEF Event!Full
      <3>2. Len(f) <= WSA_MAXIMUM_WAIT_EVENTS
        BY <2>2, <3>1
      <3> QED
        BY <2>1, <2>3, <3>2 DEF Room, OnEvents
    <2>5. Good(added, A \cup {s}, {})
      BY <1>2, <1>4, <1>5, <1>6, <2>1, <2>3, <2>4, AddGood DEF Unselected
    <2> QED
      BY <1>4, <1>6, <1>9, <2>1, <2>3, <2>5 DEF Added
  <1>10. CASE \E k1 \in Event!When(Event!Full(k), {k}) \cup Event!Faulty(k) : r = [sys |-> k1, ok |-> FALSE]
    <2>1. PICK k1 : k1 = r.sys
      BY Zenon
    <2>2. k1 = k \/ k1 \in Faulty(k)
      BY <1>10, <2>1, SystemOfEvent DEF Event!When
    <2>3. Good(k1, A, {h}) /\ k1.fds_ = k.fds_ /\ k1.socks = k.socks /\ k1.poller = k.poller
      BY <2>2, FaultyGood
    <2> QED
      BY <1>10, <2>1, <2>3 DEF Added
  <1> QED
    BY <1>8, <1>9, <1>10 DEF Event!When

\* AddFd of AsyncSelectPoller.
LEMMA MessageAddFd ==
  ASSUME NEW k, NEW A, NEW h \in DOMAIN k.socks, Good(k, A, {h}), ~OnEvents(k), NEW s \in Handles,
         s \notin A, Unselected(k, h), NEW r \in Message!AddFd(k, h, s)
  PROVE  Added(k, A, h, s, r)
  <1>1. PICK x : x = Message!Entry(h, s)
    BY Zenon
  <1>2. x \in EntryType /\ x.fd = h /\ x.sink = s /\ x.lEvents = {} /\ x.hEvent = WSA_INVALID_EVENT
    BY <1>1, GoodTypes DEF Message!Entry, EntryType, Handles, Message!WSA_INVALID_EVENT, WSA_INVALID_EVENT
  <1>3. PICK f : f = Append(k.fds_, x)
    BY Zenon
  <1>4. PICK added : added = [k EXCEPT !.fds_ = f]
    BY Zenon
  <1>5. Message!AddFd(k, h, s) = IF Message!Full(k) THEN {[sys |-> k, ok |-> FALSE]}
                                                    ELSE {[sys |-> added, ok |-> TRUE]}
    BY <1>1, <1>3, <1>4, Zenon DEF Message!AddFd
  <1>6. CASE Message!Full(k)
    BY <1>5, <1>6 DEF Added
  <1>7. CASE ~Message!Full(k)
    <2>1. added.fds_ = f /\ Keeps(k, added, {"fds_"})
      <3>1. IsSystem(k)
        BY GoodTypes
      <3> QED
        BY <1>4, <3>1, Assign DEF SystemFields
    <2>2. f \in Seq(EntryType) /\ Len(f) = Len(k.fds_) + 1 /\ Len(k.fds_) \in Nat
      <3> HIDE DEF EntryType
      <3>1. k.fds_ \in Seq(EntryType)
        BY DEF Good, System, Types
      <3> QED
        BY <1>2, <1>3, <3>1
    <2>3. Keeps(k, added, {"events", "fds_"}) /\ added.events = k.events
      BY <2>1 DEF Keeps, SystemFields
    <2>4. System(added) /\ added.socks = k.socks /\ added.poller = k.poller
      <3>1. /\ DOMAIN k.events \subseteq Handles /\ IsFiniteSet(DOMAIN k.events)
            /\ k.events \in [DOMAIN k.events -> BOOLEAN]
        BY DEF Good, System, Types
      <3>2. System(k)
        BY GoodTypes
      <3> QED
        BY <2>1, <2>2, <2>3, <3>1, <3>2, SetEntries
    <2>5. Room(added)
      <3>1. ~(Len(k.fds_) >= FD_SETSIZE) /\ FD_SETSIZE \in Nat
        BY <1>7, NetworkAssumption DEF Message!Full
      <3>2. Len(f) <= FD_SETSIZE
        BY <2>2, <3>1
      <3> QED
        BY <2>1, <2>4, <3>2 DEF Room, OnEvents
    <2>6. Good(added, A \cup {s}, {})
      BY <1>2, <1>3, <2>1, <2>3, <2>4, <2>5, AddGood DEF Unselected
    <2>7. r = [sys |-> added, ok |-> TRUE]
      BY <1>5, <1>7
    <2> QED
      BY <1>2, <1>3, <2>1, <2>4, <2>6, <2>7 DEF Added
  <1> QED
    BY <1>6, <1>7

\* AddFd of PollerBase.
LEMMA AddFdGood ==
  ASSUME NEW k, NEW A, NEW h \in DOMAIN k.socks, Good(k, A, {h}), NEW s \in Handles,
         s \notin A, Unselected(k, h), NEW r \in AddFd(k, h, s)
  PROVE  Added(k, A, h, s, r)
  <1>1. CASE OnEvents(k)
    <2>1. r \in Event!AddFd(k, h, s)
      BY <1>1 DEF AddFd
    <2> QED
      BY <1>1, <2>1, EventAddFd
  <1>2. CASE ~OnEvents(k)
    <2>1. r \in Message!AddFd(k, h, s)
      BY <1>2 DEF AddFd
    <2> QED
      BY <1>2, <2>1, MessageAddFd
  <1> QED
    BY <1>1, <1>2

\* The end of RemoveFd: the system's selection goes.
Deselect(k, h) == Select([k EXCEPT !.has_retired_ = TRUE], h, WSA_INVALID_EVENT, {})

\* The entry at i of k is retired in k1.
RetiredAt(k, i, k1) ==
  /\ System(k1) /\ k1.poller = k.poller /\ k1.socks = k.socks
  /\ Len(k1.fds_) = Len(k.fds_) /\ DOMAIN k1.fds_ = DOMAIN k.fds_
  /\ k1.fds_[i].fd = INVALID_SOCKET /\ k1.fds_[i].hEvent = WSA_INVALID_EVENT
  /\ \A j \in DOMAIN k.fds_ \ {i} : k1.fds_[j] = k.fds_[j]
  /\ DOMAIN k1.events = DOMAIN k.events \ {k.fds_[i].hEvent}

\* What RemoveFd of the socket of the entry at i leaves.
Removed(k, A, i, k2) ==
  /\ Good(k2, A \ {k.fds_[i].sink}, {k.fds_[i].fd})
  /\ DOMAIN k2.fds_ = DOMAIN k.fds_
  /\ k2.fds_[i].fd = INVALID_SOCKET
  /\ OnEvents(k) => k2.fds_[i].sink = k.fds_[i].sink
  /\ \A j \in DOMAIN k.fds_ \ {i} : k2.fds_[j] = k.fds_[j]
  /\ DOMAIN k2.socks = DOMAIN k.socks /\ k2.poller = k.poller

\* Once its entry is retired, the selection of the socket is withdrawn.
LEMMA Deselected ==
  ASSUME NEW k, NEW A, Good(k, A, {}), NEW i \in Live(k), NEW k1, RetiredAt(k, i, k1),
         OnEvents(k) => k1.fds_[i].sink = k.fds_[i].sink
  PROVE  Removed(k, A, i, Deselect(k1, k.fds_[i].fd))
  <1>1. PICK h : h = k.fds_[i].fd
    BY Zenon
  <1>2. h \in DOMAIN k.socks /\ i \in DOMAIN k.fds_
    BY <1>1, GoodTypes DEF Live
  <1>3. PICK t : t = TRUE
    BY Zenon
  <1>4. t \in BOOLEAN
    BY <1>3
  <1>5. PICK k3 : k3 = [k1 EXCEPT !.has_retired_ = t]
    BY Zenon
  <1>6. /\ System(k3) /\ k3.fds_ = k1.fds_ /\ k3.events = k1.events /\ k3.socks = k1.socks
        /\ k3.poller = k1.poller
    <2>1. System(k1)
      BY DEF RetiredAt
    <2> QED
      BY <1>4, <1>5, <2>1, SetRetired
  <1>7. PICK e, S : e = WSA_INVALID_EVENT /\ S = {}
    BY Zenon
  <1>8. e \in Nat /\ S \in SUBSET Events
    BY <1>7 DEF WSA_INVALID_EVENT
  <1>9. PICK k2 : k2 = Select(k3, h, e, S)
    BY Zenon
  <1>10. Deselect(k1, k.fds_[i].fd) = k2
    BY <1>1, <1>3, <1>5, <1>7, <1>9, Zenon DEF Deselect
  <1>11. Touched(k3, k2, h)
    <2>1. h \in DOMAIN k3.socks /\ System(k3)
      BY <1>2, <1>6 DEF RetiredAt
    <2>2. OnEvents(k3) /\ S # {} => e \in DOMAIN k3.events
      BY <1>7
    <2>3. Touched(k3, Select(k3, h, e, S), h)
      BY <1>8, <2>1, <2>2, SelectTouches
    <2> QED
      BY <1>9, <2>3, Zenon
  <1>12. /\ System(k2) /\ k2.poller = k.poller /\ DOMAIN k2.socks = DOMAIN k.socks
         /\ DOMAIN k2.events = DOMAIN k.events \ {k.fds_[i].hEvent}
         /\ \A g \in DOMAIN k.socks \ {h} : k2.socks[g] = k.socks[g]
         /\ k2.fds_ = k1.fds_
    BY <1>6, <1>11 DEF Touched, RetiredAt
  <1>13. Good(k2, A \ {k.fds_[i].sink}, {h})
    <2>1. /\ Len(k2.fds_) = Len(k.fds_) /\ k2.fds_[i].fd = INVALID_SOCKET
          /\ k2.fds_[i].hEvent = WSA_INVALID_EVENT
          /\ \A j \in DOMAIN k.fds_ \ {i} : k2.fds_[j] = k.fds_[j]
      BY <1>12 DEF RetiredAt
    <2>2. \A g \in DOMAIN k.socks \ {k.fds_[i].fd} : k2.socks[g] = k.socks[g]
      BY <1>1, <1>12
    <2>3. Good(k2, A \ {k.fds_[i].sink}, {k.fds_[i].fd})
      BY <1>12, <2>1, <2>2, RetireGood
    <2> QED
      BY <1>1, <2>3, Zenon
  <1>14. Removed(k, A, i, k2)
    BY <1>1, <1>12, <1>13 DEF Removed, RetiredAt
  <1> QED
    BY <1>10, <1>14, Zenon

\* RemoveFd of AsyncEventPoller.
LEMMA EventRemoveFd ==
  ASSUME NEW k, NEW A, Good(k, A, {}), OnEvents(k), NEW i \in Live(k)
  PROVE  Removed(k, A, i, Event!RemoveFd(k, k.fds_[i].fd))
  <1>1. /\ Event!FindEntry(k, k.fds_[i].fd) = i /\ i # 0 /\ i \in DOMAIN k.fds_
        /\ k.fds_[i] \in EntryType
    BY FoundLive, GoodTypes
  <1>2. PICK x : x = Event!Retired(k.fds_[i])
    BY Zenon
  <1>3. x \in EntryType /\ x.fd = INVALID_SOCKET /\ x.hEvent = WSA_INVALID_EVENT /\ x.sink = k.fds_[i].sink
    BY <1>1, <1>2 DEF Event!Retired, EntryType, Event!INVALID_SOCKET, INVALID_SOCKET,
       Event!WSA_INVALID_EVENT, WSA_INVALID_EVENT
  <1>4. PICK v, f : v = Event!Without(k.events, k.fds_[i].hEvent) /\ f = [k.fds_ EXCEPT ![i] = x]
    BY Zenon
  <1>5. PICK k1 : k1 = [k EXCEPT !.events = v, !.fds_ = f]
    BY Zenon
  <1>6. Event!RemoveFd(k, k.fds_[i].fd) = Deselect(k1, k.fds_[i].fd)
    <2>1. PICK k3 : k3 = [k1 EXCEPT !.has_retired_ = TRUE]
      BY Zenon
    <2>2. [k EXCEPT !.events = Event!Without(@, k.fds_[i].hEvent), !.fds_[i] = Event!Retired(@)] = k1
      BY <1>2, <1>4, <1>5, Zenon
    <2>3. PICK n : n = Event!FindEntry(k, k.fds_[i].fd)
      BY Zenon
    <2>4. n = i /\ n # 0
      BY <1>1, <2>3
    <2>5. Event!RemoveFd(k, k.fds_[i].fd) =
            Event!Select([(IF n = 0 THEN k
                           ELSE [k EXCEPT !.events = Event!Without(@, k.fds_[n].hEvent),
                                          !.fds_[n] = Event!Retired(@)])
                          EXCEPT !.has_retired_ = TRUE], k.fds_[i].fd, Event!WSA_INVALID_EVENT, {})
      BY <2>3, Zenon DEF Event!RemoveFd
    <2>6. (IF n = 0 THEN k ELSE [k EXCEPT !.events = Event!Without(@, k.fds_[n].hEvent),
                                          !.fds_[n] = Event!Retired(@)]) = k1
      BY <2>2, <2>4
    <2>7. Event!RemoveFd(k, k.fds_[i].fd) = Event!Select(k3, k.fds_[i].fd, Event!WSA_INVALID_EVENT, {})
      BY <2>1, <2>5, <2>6, Zenon
    <2>8. Event!WSA_INVALID_EVENT = WSA_INVALID_EVENT
      BY DEF Event!WSA_INVALID_EVENT, WSA_INVALID_EVENT
    <2>9. Event!Select(k3, k.fds_[i].fd, WSA_INVALID_EVENT, {}) = Select(k3, k.fds_[i].fd, WSA_INVALID_EVENT, {})
      BY SystemOfEvent
    <2> QED
      BY <2>1, <2>7, <2>8, <2>9, Zenon DEF Deselect
  <1>7. k1.events = v /\ k1.fds_ = f /\ Keeps(k, k1, {"events", "fds_"})
    <2>1. DOMAIN k = SystemFields
      BY GoodTypes DEF IsSystem
    <2>2. k1 = [y \in SystemFields |-> IF y = "events" THEN v ELSE IF y = "fds_" THEN f ELSE k[y]]
      BY <1>5, <2>1 DEF SystemFields
    <2> QED
      BY <2>2 DEF IsSystem, Keeps, SystemFields
  <1>8. /\ f \in Seq(EntryType) /\ Len(f) = Len(k.fds_) /\ DOMAIN f = DOMAIN k.fds_ /\ f[i] = x
        /\ \A j \in DOMAIN k.fds_ \ {i} : f[j] = k.fds_[j]
    <2>1. k.fds_ \in Seq(EntryType)
      BY DEF Good, System, Types
    <2> QED
      BY <1>1, <1>3, <1>4, <2>1, PutEntry
  <1>9. /\ DOMAIN v = DOMAIN k.events \ {k.fds_[i].hEvent}
        /\ v \in [DOMAIN v -> BOOLEAN] /\ DOMAIN v \subseteq Handles /\ IsFiniteSet(DOMAIN v)
    <2>1. /\ k.events \in [DOMAIN k.events -> BOOLEAN] /\ DOMAIN k.events \subseteq Handles
          /\ IsFiniteSet(DOMAIN k.events)
      BY DEF Good, System, Types
    <2>2. DOMAIN v = DOMAIN k.events \ {k.fds_[i].hEvent} /\ \A e \in DOMAIN v : v[e] = k.events[e]
      BY <1>4 DEF Event!Without
    <2>3. v \in [DOMAIN v -> BOOLEAN]
      BY <1>4, <2>1, <2>2 DEF Event!Without
    <2>4. IsFiniteSet(DOMAIN v)
      BY <2>1, <2>2, FS_Subset
    <2> QED
      BY <2>1, <2>2, <2>3, <2>4
  <1>10. System(k1) /\ k1.socks = k.socks /\ k1.poller = k.poller
    <2>1. System(k)
      BY GoodTypes
    <2> QED
      BY <1>7, <1>8, <1>9, <2>1, SetEntries
  <1>11. DOMAIN k1.events = DOMAIN k.events \ {k.fds_[i].hEvent}
    BY <1>7, <1>9
  <1>12. RetiredAt(k, i, k1) /\ (OnEvents(k) => k1.fds_[i].sink = k.fds_[i].sink)
    BY <1>3, <1>7, <1>8, <1>10, <1>11 DEF RetiredAt
  <1>13. Removed(k, A, i, Deselect(k1, k.fds_[i].fd))
    BY <1>12, Deselected
  <1> QED
    BY <1>6, <1>13, Zenon

\* RemoveFd of AsyncSelectPoller.
LEMMA MessageRemoveFd ==
  ASSUME NEW k, NEW A, Good(k, A, {}), ~OnEvents(k), NEW i \in Live(k)
  PROVE  Removed(k, A, i, Message!RemoveFd(k, k.fds_[i].fd))
  <1>1. Message!FindEntry(k, k.fds_[i].fd) = i /\ i # 0 /\ i \in DOMAIN k.fds_
    BY FoundLive
  <1>2. PICK x : x = Message!RetiredEntry
    BY Zenon
  <1>3. x \in EntryType /\ x.fd = INVALID_SOCKET /\ x.hEvent = WSA_INVALID_EVENT
    BY <1>2 DEF Message!RetiredEntry, Message!Entry, EntryType, Message!INVALID_SOCKET, INVALID_SOCKET,
       Message!WSA_INVALID_EVENT, WSA_INVALID_EVENT
  <1>4. PICK f : f = [k.fds_ EXCEPT ![i] = x]
    BY Zenon
  <1>5. PICK k1 : k1 = [k EXCEPT !.fds_ = f]
    BY Zenon
  <1>6. Message!RemoveFd(k, k.fds_[i].fd) = Deselect(k1, k.fds_[i].fd)
    <2>1. PICK k3 : k3 = [k1 EXCEPT !.has_retired_ = TRUE]
      BY Zenon
    <2>2. [k EXCEPT !.fds_[i] = Message!RetiredEntry] = k1
      BY <1>2, <1>4, <1>5, Zenon
    <2>3. PICK n : n = Message!FindEntry(k, k.fds_[i].fd)
      BY Zenon
    <2>4. n = i /\ n # 0
      BY <1>1, <2>3
    <2>5. Message!RemoveFd(k, k.fds_[i].fd) =
            Message!Select([(IF n = 0 THEN k ELSE [k EXCEPT !.fds_[n] = Message!RetiredEntry])
                            EXCEPT !.has_retired_ = TRUE], k.fds_[i].fd, Message!WSA_INVALID_EVENT, {})
      BY <2>3, Zenon DEF Message!RemoveFd
    <2>6. (IF n = 0 THEN k ELSE [k EXCEPT !.fds_[n] = Message!RetiredEntry]) = k1
      BY <2>2, <2>4
    <2>7. Message!RemoveFd(k, k.fds_[i].fd) =
            Message!Select(k3, k.fds_[i].fd, Message!WSA_INVALID_EVENT, {})
      BY <2>1, <2>5, <2>6, Zenon
    <2>8. Message!WSA_INVALID_EVENT = WSA_INVALID_EVENT
      BY DEF Message!WSA_INVALID_EVENT, WSA_INVALID_EVENT
    <2>9. Message!Select(k3, k.fds_[i].fd, WSA_INVALID_EVENT, {}) = Select(k3, k.fds_[i].fd, WSA_INVALID_EVENT, {})
      BY SystemOfMessage
    <2> QED
      BY <2>1, <2>7, <2>8, <2>9, Zenon DEF Deselect
  <1>7. k1.fds_ = f /\ Keeps(k, k1, {"fds_"})
    <2>1. IsSystem(k)
      BY GoodTypes
    <2> QED
      BY <1>5, <2>1, Assign DEF SystemFields
  <1>8. /\ f \in Seq(EntryType) /\ Len(f) = Len(k.fds_) /\ DOMAIN f = DOMAIN k.fds_ /\ f[i] = x
        /\ \A j \in DOMAIN k.fds_ \ {i} : f[j] = k.fds_[j]
    <2>1. k.fds_ \in Seq(EntryType)
      BY DEF Good, System, Types
    <2> QED
      BY <1>1, <1>3, <1>4, <2>1, PutEntry
  <1>9. Keeps(k, k1, {"events", "fds_"}) /\ k1.events = k.events
    BY <1>7 DEF Keeps, SystemFields
  <1>10. System(k1) /\ k1.socks = k.socks /\ k1.poller = k.poller
    <2>1. /\ System(k) /\ DOMAIN k.events \subseteq Handles /\ IsFiniteSet(DOMAIN k.events)
          /\ k.events \in [DOMAIN k.events -> BOOLEAN]
      BY DEF Good, System, Types
    <2> QED
      BY <1>7, <1>8, <1>9, <2>1, SetEntries
  <1>11. DOMAIN k1.events = DOMAIN k.events \ {k.fds_[i].hEvent}
    BY <1>9 DEF Good, EventInv
  <1>12. RetiredAt(k, i, k1) /\ (OnEvents(k) => k1.fds_[i].sink = k.fds_[i].sink)
    BY <1>3, <1>7, <1>8, <1>10, <1>11 DEF RetiredAt
  <1>13. Removed(k, A, i, Deselect(k1, k.fds_[i].fd))
    BY <1>12, Deselected
  <1> QED
    BY <1>6, <1>13, Zenon

\* RemoveFd of PollerBase.
LEMMA RemoveFdGood ==
  ASSUME NEW k, NEW A, Good(k, A, {}), NEW i \in Live(k)
  PROVE  Removed(k, A, i, RemoveFd(k, k.fds_[i].fd))
  <1>1. CASE OnEvents(k)
    <2>1. RemoveFd(k, k.fds_[i].fd) = Event!RemoveFd(k, k.fds_[i].fd)
      BY <1>1, Zenon DEF RemoveFd
    <2>2. Removed(k, A, i, Event!RemoveFd(k, k.fds_[i].fd))
      BY <1>1, EventRemoveFd
    <2> QED
      BY <2>1, <2>2, Zenon
  <1>2. CASE ~OnEvents(k)
    <2>1. RemoveFd(k, k.fds_[i].fd) = Message!RemoveFd(k, k.fds_[i].fd)
      BY <1>2, Zenon DEF RemoveFd
    <2>2. Removed(k, A, i, Message!RemoveFd(k, k.fds_[i].fd))
      BY <1>2, MessageRemoveFd
    <2> QED
      BY <2>1, <2>2, Zenon
  <1> QED
    BY <1>1, <1>2

\* The entry at i gets the events l, and its socket the same selection.
ChangedTo(k, i, l) == Select([k EXCEPT !.fds_[i].lEvents = l], k.fds_[i].fd, k.fds_[i].hEvent, l)

\* The same entries, sockets and sinks as in k.
Alike(k, A, k2) ==
  /\ Good(k2, A, {})
  /\ DOMAIN k2.fds_ = DOMAIN k.fds_
  /\ \A j \in DOMAIN k.fds_ : k2.fds_[j].fd = k.fds_[j].fd /\ k2.fds_[j].sink = k.fds_[j].sink
  /\ DOMAIN k2.socks = DOMAIN k.socks /\ k2.poller = k.poller

\* The entry and the selection of its socket change together.
LEMMA Changed ==
  ASSUME NEW k, NEW A, Good(k, A, {}), NEW i \in Live(k), NEW l \in SUBSET Events
  PROVE  Alike(k, A, ChangedTo(k, i, l))
  <1>1. i \in DOMAIN k.fds_ /\ k.fds_[i] \in EntryType /\ k.fds_ \in Seq(EntryType)
    BY GoodTypes DEF Live, Good, System, Types
  <1>2. PICK x : x = [k.fds_[i] EXCEPT !.lEvents = l]
    BY Zenon
  <1>3. /\ x \in EntryType /\ x.fd = k.fds_[i].fd /\ x.hEvent = k.fds_[i].hEvent
        /\ x.sink = k.fds_[i].sink /\ x.lEvents = l
    BY <1>1, <1>2 DEF EntryType
  <1>4. PICK f : f = [k.fds_ EXCEPT ![i] = x]
    BY Zenon
  <1>5. /\ f \in Seq(EntryType) /\ Len(f) = Len(k.fds_) /\ DOMAIN f = DOMAIN k.fds_ /\ f[i] = x
        /\ \A j \in DOMAIN k.fds_ \ {i} : f[j] = k.fds_[j]
    BY <1>1, <1>3, <1>4, PutEntry
  <1>6. PICK k1 : k1 = [k EXCEPT !.fds_ = f]
    BY Zenon
  <1>7. [k EXCEPT !.fds_[i].lEvents = l] = k1
    BY <1>2, <1>4, <1>6, Zenon
  <1>8. k1.fds_ = f /\ Keeps(k, k1, {"fds_"})
    <2>1. IsSystem(k)
      BY GoodTypes
    <2> QED
      BY <1>6, <2>1, Assign DEF SystemFields
  <1>9. Keeps(k, k1, {"events", "fds_"}) /\ k1.events = k.events
    BY <1>8 DEF Keeps, SystemFields
  <1>10. System(k1) /\ k1.socks = k.socks /\ k1.poller = k.poller
    <2>1. /\ System(k) /\ DOMAIN k.events \subseteq Handles /\ IsFiniteSet(DOMAIN k.events)
          /\ k.events \in [DOMAIN k.events -> BOOLEAN]
      BY DEF Good, System, Types
    <2> QED
      BY <1>5, <1>8, <1>9, <2>1, SetEntries
  <1>11. PICK h, e : h = k.fds_[i].fd /\ e = k.fds_[i].hEvent
    BY Zenon
  <1>12. PICK k2 : k2 = Select(k1, h, e, l)
    BY Zenon
  <1>13. ChangedTo(k, i, l) = k2
    BY <1>7, <1>11, <1>12, Zenon DEF ChangedTo
  <1>14. Touched(k1, k2, h) /\ k2.socks[h].sel = l /\ k2.socks[h].hEvent = e
    <2>1. h \in DOMAIN k1.socks /\ e \in Nat
      BY <1>1, <1>10, <1>11, GoodTypes DEF EntryType
    <2>2. OnEvents(k1) /\ l # {} => e \in DOMAIN k1.events
      BY <1>9, <1>10, <1>11 DEF Good, EventInv, OnEvents
    <2>3. /\ Touched(k1, Select(k1, h, e, l), h) /\ Select(k1, h, e, l).socks[h].sel = l
          /\ Select(k1, h, e, l).socks[h].hEvent = e
      BY <1>10, <2>1, <2>2, SelectTouches
    <2> QED
      BY <1>12, <2>3, Zenon
  <1>15. /\ System(k2) /\ k2.poller = k.poller /\ k2.fds_ = f
         /\ DOMAIN k2.events = DOMAIN k.events /\ DOMAIN k2.socks = DOMAIN k.socks
         /\ \A g \in DOMAIN k.socks \ {h} : k2.socks[g] = k.socks[g]
    BY <1>8, <1>9, <1>10, <1>14 DEF Touched
  <1>16. Good(k2, A, {})
    <2>1. /\ Len(k2.fds_) = Len(k.fds_) /\ \A j \in DOMAIN k.fds_ \ {i} : k2.fds_[j] = k.fds_[j]
          /\ k2.fds_[i].fd = k.fds_[i].fd /\ k2.fds_[i].hEvent = k.fds_[i].hEvent
          /\ k2.fds_[i].sink = k.fds_[i].sink
      BY <1>3, <1>5, <1>15
    <2>2. /\ \A g \in DOMAIN k.socks \ {k.fds_[i].fd} : k2.socks[g] = k.socks[g]
          /\ k2.socks[k.fds_[i].fd].sel = k2.fds_[i].lEvents
          /\ k2.socks[k.fds_[i].fd].hEvent = k.fds_[i].hEvent
      BY <1>3, <1>5, <1>11, <1>14, <1>15
    <2> QED
      BY <1>15, <2>1, <2>2, ChangeGood
  <1>17. \A j \in DOMAIN k.fds_ : k2.fds_[j].fd = k.fds_[j].fd /\ k2.fds_[j].sink = k.fds_[j].sink
    BY <1>3, <1>5, <1>15
  <1>18. Alike(k, A, k2)
    BY <1>5, <1>15, <1>16, <1>17 DEF Alike
  <1> QED
    BY <1>13, <1>18, Zenon

\* ChangeEvents of both pollers.
LEMMA ChangeEventsGood ==
  ASSUME NEW k, NEW A, Good(k, A, {}), NEW i \in Live(k),
         NEW on \in SUBSET Events, NEW off \in SUBSET Events
  PROVE  /\ Alike(k, A, Event!ChangeEvents(k, k.fds_[i].fd, on, off))
         /\ ~OnEvents(k) => Alike(k, A, Message!ChangeEvents(k, k.fds_[i].fd, on, off))
  <1>1. PICK h : h = k.fds_[i].fd
    BY Zenon
  <1>2. Event!FindEntry(k, h) = i /\ Message!FindEntry(k, h) = i /\ i # 0
    <2>1. /\ Event!FindEntry(k, k.fds_[i].fd) = i /\ Message!FindEntry(k, k.fds_[i].fd) = i /\ i # 0
      BY FoundLive
    <2> QED
      BY <1>1, <2>1, Zenon
  <1>3. PICK l : l = (k.fds_[i].lEvents \cup on) \ off
    BY Zenon
  <1>4. l \in SUBSET Events
    <2>1. k.fds_[i] \in EntryType
      BY GoodTypes DEF Live
    <2> QED
      BY <1>3, <2>1 DEF EntryType
  <1>5. Alike(k, A, ChangedTo(k, i, l))
    BY <1>4, Changed
  <1>6. Event!ChangeEvents(k, h, on, off) = ChangedTo(k, i, l)
    <2>1. PICK k1, e : k1 = [k EXCEPT !.fds_[i].lEvents = l] /\ e = k.fds_[i].hEvent
      BY Zenon
    <2>2. PICK n : n = Event!FindEntry(k, h)
      BY Zenon
    <2>3. PICK m : m = (k.fds_[n].lEvents \cup on) \ off
      BY Zenon
    <2>4. Event!ChangeEvents(k, h, on, off) =
            IF n = 0 THEN k
            ELSE Event!Select([k EXCEPT !.fds_[n].lEvents = m], h, k.fds_[n].hEvent, m)
      BY <2>2, <2>3, Zenon DEF Event!ChangeEvents
    <2>5. n = i /\ n # 0
      BY <1>2, <2>2
    <2>6. m = l
      BY <1>3, <2>3, <2>5, Zenon
    <2>7. Event!ChangeEvents(k, h, on, off) = Event!Select(k1, h, e, l)
      BY <2>1, <2>4, <2>5, <2>6, Zenon
    <2>8. Event!Select(k1, h, e, l) = Select(k1, h, e, l)
      BY SystemOfEvent
    <2>9. ChangedTo(k, i, l) = Select(k1, h, e, l)
      BY <1>1, <2>1, Zenon DEF ChangedTo
    <2> QED
      BY <2>7, <2>8, <2>9, Zenon
  <1>7. ASSUME ~OnEvents(k) PROVE Message!ChangeEvents(k, h, on, off) = ChangedTo(k, i, l)
    <2>1. PICK k1, e : k1 = [k EXCEPT !.fds_[i].lEvents = l] /\ e = k.fds_[i].hEvent
      BY Zenon
    <2>2. PICK n : n = Message!FindEntry(k, h)
      BY Zenon
    <2>3. PICK m : m = (k.fds_[n].lEvents \cup on) \ off
      BY Zenon
    <2>4. Message!ChangeEvents(k, h, on, off) =
            IF n = 0 THEN k
            ELSE Message!Select([k EXCEPT !.fds_[n].lEvents = m], h, Message!WSA_INVALID_EVENT, m)
      BY <2>2, <2>3, Zenon DEF Message!ChangeEvents
    <2>5. n = i /\ n # 0
      BY <1>2, <2>2
    <2>6. m = l
      BY <1>3, <2>3, <2>5, Zenon
    <2>7. Message!WSA_INVALID_EVENT = e
      BY <1>7, <2>1 DEF Good, EventInv, Live, Message!WSA_INVALID_EVENT, WSA_INVALID_EVENT
    <2>8. Message!ChangeEvents(k, h, on, off) = Message!Select(k1, h, e, l)
      BY <2>1, <2>4, <2>5, <2>6, <2>7, Zenon
    <2>9. Message!Select(k1, h, e, l) = Select(k1, h, e, l)
      BY SystemOfMessage
    <2>10. ChangedTo(k, i, l) = Select(k1, h, e, l)
      BY <1>1, <2>1, Zenon DEF ChangedTo
    <2> QED
      BY <2>8, <2>9, <2>10, Zenon
  <1> QED
    BY <1>1, <1>5, <1>6, <1>7, Zenon

\* Changes of interest of PollerBase.
LEMMA ChangesGood ==
  ASSUME NEW k, NEW A, Good(k, A, {}), NEW i \in Live(k), NEW h, h = k.fds_[i].fd,
         NEW k2 \in {SetPollIn(k, h), ResetPollIn(k, h), SetPollOut(k, h), ResetPollOut(k, h)}
  PROVE  Alike(k, A, k2)
  <1>1. PICK R, W, N : R = Event!ReadEvents /\ W = Event!WriteEvents /\ N = {}
    BY Zenon
  <1>2. R \in SUBSET Events /\ W \in SUBSET Events /\ N \in SUBSET Events
    BY <1>1 DEF Event!ReadEvents, Event!WriteEvents, Events
  <1>3. PICK g : g = k.fds_[i].fd
    BY Zenon
  <1>4. g = h
    BY <1>3, Zenon
  <1>5. CASE OnEvents(k)
    <2>1. k2 \in {Event!SetPollIn(k, h), Event!ResetPollIn(k, h), Event!SetPollOut(k, h), Event!ResetPollOut(k, h)}
      BY <1>5, Zenon DEF SetPollIn, ResetPollIn, SetPollOut, ResetPollOut
    <2>2. \E on, off \in {R, W, N} : k2 = Event!ChangeEvents(k, h, on, off)
      BY <1>1, <2>1, Zenon DEF Event!SetPollIn, Event!ResetPollIn, Event!SetPollOut, Event!ResetPollOut
    <2>3. PICK on, off \in SUBSET Events : k2 = Event!ChangeEvents(k, h, on, off)
      BY <1>2, <2>2, Zenon
    <2>4. Alike(k, A, Event!ChangeEvents(k, k.fds_[i].fd, on, off))
      BY ChangeEventsGood
    <2> QED
      BY <2>3, <2>4, Zenon
  <1>6. CASE ~OnEvents(k)
    <2>1. k2 \in {Message!SetPollIn(k, h), Message!ResetPollIn(k, h), Message!SetPollOut(k, h), Message!ResetPollOut(k, h)}
      BY <1>6, Zenon DEF SetPollIn, ResetPollIn, SetPollOut, ResetPollOut
    <2>2. R = Message!ReadEvents /\ W = Message!WriteEvents
      BY <1>1, Zenon DEF Message!ReadEvents, Message!WriteEvents, Event!ReadEvents, Event!WriteEvents
    <2>3. \E on, off \in {R, W, N} : k2 = Message!ChangeEvents(k, h, on, off)
      BY <1>1, <2>1, <2>2, Zenon DEF Message!SetPollIn, Message!ResetPollIn, Message!SetPollOut, Message!ResetPollOut
    <2>4. PICK on, off \in SUBSET Events : k2 = Message!ChangeEvents(k, h, on, off)
      BY <1>2, <2>3, Zenon
    <2>5. Alike(k, A, Message!ChangeEvents(k, k.fds_[i].fd, on, off))
      BY <1>6, ChangeEventsGood
    <2> QED
      BY <2>4, <2>5, Zenon
  <1> QED
    BY <1>5, <1>6
-----------------------------------------------------------------------------
(* The network, and what Poll does with the record of the system. *)

\* The registered sockets with their sinks.
Pairs(k) == {<<k.fds_[i].fd, k.fds_[i].sink>> : i \in Live(k)}

\* The same sockets and registrations.
Matches(k, A, k2) == /\ Good(k2, A, {})
                     /\ Pairs(k2) = Pairs(k)
                     /\ DOMAIN k2.socks = DOMAIN k.socks /\ k2.poller = k.poller

\* The same entries make the same registrations.
LEMMA AlikeMatches == ASSUME NEW k, NEW A, NEW k2, Alike(k, A, k2) PROVE Matches(k, A, k2)
  <1>1. Live(k2) = Live(k)
    BY DEF Alike, Live
  <1>2. \A i \in Live(k) : k2.fds_[i].fd = k.fds_[i].fd /\ k2.fds_[i].sink = k.fds_[i].sink
    BY DEF Alike, Live
  <1>3. Pairs(k2) = Pairs(k)
    BY <1>1, <1>2 DEF Pairs
  <1> QED
    BY <1>3 DEF Alike, Matches

\* RemoveRetired of both pollers.
Sweep(k) == [k EXCEPT !.fds_ = IF k.has_retired_ THEN Swept(@, INVALID_SOCKET) ELSE @,
                      !.has_retired_ = FALSE]

\* The sweep keeps the system and the registrations.
LEMMA SweptSystem ==
  ASSUME NEW k, NEW A, Good(k, A, {})
  PROVE  Matches(k, A, Sweep(k))
  <1>1. PICK f : f = IF k.has_retired_ THEN Swept(k.fds_, INVALID_SOCKET) ELSE k.fds_
    BY Zenon
  <1>2. PICK k1 : k1 = Sweep(k)
    BY Zenon
  <1>3. k1.fds_ = f /\ k1.has_retired_ \in BOOLEAN /\ Keeps(k, k1, {"fds_", "has_retired_"})
    <2>1. DOMAIN k = SystemFields
      BY GoodTypes DEF IsSystem
    <2>2. PICK b : b = FALSE
      BY Zenon
    <2>3. k1 = [k EXCEPT !.fds_ = f, !.has_retired_ = b]
      BY <1>1, <1>2, <2>2, Zenon DEF Sweep
    <2>4. k1 = [y \in SystemFields |-> IF y = "fds_" THEN f ELSE IF y = "has_retired_" THEN b ELSE k[y]]
      BY <2>1, <2>3 DEF SystemFields
    <2>5. b \in BOOLEAN
      BY <2>2
    <2> QED
      BY <2>4, <2>5 DEF IsSystem, Keeps, SystemFields
  <1>4. k.fds_ \in Seq(EntryType) /\ System(k)
    BY DEF Good, System, Types
  <1>5. Left(k.fds_, Len(k.fds_), Swept(k.fds_, INVALID_SOCKET), EntryType, INVALID_SOCKET)
    BY <1>4, SweptFacts
  <1>6. f \in Seq(EntryType)
    BY <1>1, <1>4, <1>5 DEF Left
  <1>7. /\ k1.poller = k.poller /\ k1.socks = k.socks /\ k1.queue = k.queue
        /\ k1.events = k.events /\ k1.faults = k.faults /\ IsSystem(k1)
    BY <1>3 DEF Keeps, SystemFields
  <1>8. System(k1)
    BY <1>3, <1>4, <1>6, <1>7 DEF System, Types
  <1>9. CASE ~k.has_retired_
    <2>1. k1.fds_ = k.fds_
      BY <1>1, <1>3, <1>9
    <2>2. Good(k1, A, {})
      BY <1>7, <1>8, <2>1 DEF Good, FdsInv, SelInv, EventInv, SinkInv, Room, Live, OnEvents
    <2>3. Pairs(k1) = Pairs(k)
      BY <2>1 DEF Pairs, Live
    <2>4. Matches(k, A, k1)
      BY <1>7, <2>2, <2>3 DEF Matches
    <2> QED
      BY <1>2, <2>4, Zenon
  <1>10. CASE k.has_retired_
    <2>1. Left(k.fds_, Len(k.fds_), k1.fds_, EntryType, INVALID_SOCKET)
      BY <1>1, <1>3, <1>5, <1>10
    <2>2. Good(k1, A, {})
      BY <1>7, <1>8, <2>1, SweepGood
    <2>3. /\ \A i \in Live(k1) : \E j \in Live(k) : k1.fds_[i] = k.fds_[j]
          /\ \A j \in Live(k) : \E i \in Live(k1) : k1.fds_[i] = k.fds_[j]
      <3>1. DOMAIN k.fds_ = 1 .. Len(k.fds_) /\ DOMAIN k1.fds_ = 1 .. Len(k1.fds_)
        BY <2>2, GoodTypes
      <3>2. ASSUME NEW i \in Live(k1) PROVE \E j \in Live(k) : k1.fds_[i] = k.fds_[j]
        <4>1. i \in 1 .. Len(k1.fds_)
          BY <3>1 DEF Live
        <4>2. PICK j \in 1 .. Len(k.fds_) : k1.fds_[i] = k.fds_[j] /\ k1.fds_[i].fd # INVALID_SOCKET
          BY <2>1, <4>1 DEF Left
        <4> QED
          BY <3>1, <4>2 DEF Live
      <3>3. ASSUME NEW j \in Live(k) PROVE \E i \in Live(k1) : k1.fds_[i] = k.fds_[j]
        <4>1. j \in 1 .. Len(k.fds_) /\ k.fds_[j].fd # INVALID_SOCKET
          BY <3>1 DEF Live
        <4>2. PICK i \in 1 .. Len(k1.fds_) : k1.fds_[i] = k.fds_[j]
          BY <2>1, <4>1 DEF Left
        <4> QED
          BY <3>1, <4>1, <4>2 DEF Live
      <3> QED
        BY <3>2, <3>3
    <2>4. Pairs(k1) = Pairs(k)
      BY <2>3 DEF Pairs
    <2>5. Matches(k, A, k1)
      BY <1>7, <2>2, <2>4 DEF Matches
    <2> QED
      BY <1>2, <2>5, Zenon
  <1> QED
    BY <1>9, <1>10

\* RemoveRetired of both pollers keeps the registrations.
LEMMA RemoveRetiredGood ==
  ASSUME NEW k, NEW A, Good(k, A, {})
  PROVE  /\ Matches(k, A, Event!RemoveRetired(k))
         /\ Matches(k, A, Message!RemoveRetired(k))
  <1>1. PICK no, s : no = INVALID_SOCKET /\ s = k.fds_
    BY Zenon
  <1>2. Event!INVALID_SOCKET = no /\ Message!INVALID_SOCKET = no
    BY <1>1 DEF Event!INVALID_SOCKET, Message!INVALID_SOCKET, INVALID_SOCKET
  <1>3. Event!Swept(s, no) = Swept(s, no) /\ Message!Swept(s, no) = Swept(s, no)
    BY SystemOfEvent, SystemOfMessage
  <1>4. Event!RemoveRetired(k) = Sweep(k) /\ Message!RemoveRetired(k) = Sweep(k)
    BY <1>1, <1>2, <1>3, Zenon DEF Event!RemoveRetired, Message!RemoveRetired, Sweep
  <1> QED
    BY <1>4, SweptSystem, Zenon

\* A socket changes, and conditions are reported.
LEMMA ReportGood ==
  ASSUME NEW k, NEW A, Good(k, A, {}), NEW h \in DOMAIN k.socks, NEW x \in SocketType,
         x.sel = k.socks[h].sel, x.hEvent = k.socks[h].hEvent,
         NEW k1, Keeps(k, k1, {"socks"}), k1.socks = [k.socks EXCEPT ![h] = x], NEW conds
  PROVE  Alike(k, A, Report(k1, h, conds))
  <1>1. /\ System(k1) /\ DOMAIN k1.socks = DOMAIN k.socks /\ k1.socks[h] = x
        /\ \A g \in DOMAIN k.socks \ {h} : k1.socks[g] = k.socks[g]
    BY GoodTypes, SetSocket
  <1>2. /\ k1.poller = k.poller /\ k1.fds_ = k.fds_ /\ k1.events = k.events
        /\ k1.has_retired_ = k.has_retired_
    BY DEF Keeps, SystemFields
  <1>3. OnEvents(k1) /\ k1.socks[h].sel # {} => k1.socks[h].hEvent \in DOMAIN k1.events
    <2>1. PICK i \in Live(k) : k.fds_[i].fd = h
      BY DEF Good, FdsInv
    <2> QED
      BY <1>1, <1>2, <2>1 DEF Good, SelInv, EventInv, OnEvents
  <1>4. PICK k2 : k2 = Report(k1, h, conds)
    BY Zenon
  <1>5. Touched(k1, k2, h) /\ k2.socks[h].sel = x.sel /\ k2.socks[h].hEvent = x.hEvent
    <2>1. /\ Touched(k1, Report(k1, h, conds), h)
          /\ Report(k1, h, conds).socks[h].sel = k1.socks[h].sel
          /\ Report(k1, h, conds).socks[h].hEvent = k1.socks[h].hEvent
      BY <1>1, <1>3, ReportTouches
    <2> QED
      BY <1>1, <1>4, <2>1, Zenon
  <1>6. Touched(k, k2, h)
    BY <1>1, <1>2, <1>5 DEF Touched
  <1>7. Good(k2, A, {})
    BY <1>5, <1>6, TouchedGood
  <1>8. Alike(k, A, k2)
    BY <1>6, <1>7 DEF Touched, Alike
  <1> QED
    BY <1>4, <1>8, Zenon

\* Replacing the record of a socket.
LEMMA PutSocket ==
  ASSUME NEW k, IsSystem(k), NEW h, NEW x
  PROVE  /\ Keeps(k, [k EXCEPT !.socks[h] = x], {"socks"})
         /\ [k EXCEPT !.socks[h] = x].socks = [k.socks EXCEPT ![h] = x]
  <1>1. PICK f : f = [k.socks EXCEPT ![h] = x]
    BY Zenon
  <1>2. PICK k1 : k1 = [k EXCEPT !.socks = f]
    BY Zenon
  <1>3. [k EXCEPT !.socks[h] = x] = k1
    BY <1>1, <1>2, Zenon
  <1>4. k1.socks = f /\ Keeps(k, k1, {"socks"})
    BY <1>2, Assign DEF SystemFields
  <1> QED
    BY <1>1, <1>3, <1>4, Zenon

\* A message arrives.
LEMMA ArriveGood ==
  ASSUME NEW k, NEW A, Good(k, A, {}), NEW h \in DOMAIN k.socks, k.socks[h].rx = 0
  PROVE  Alike(k, A, Arrive(k, h, "FD_READ"))
  <1>1. k.socks[h] \in SocketType
    BY GoodTypes
  <1>2. PICK x : x = [k.socks[h] EXCEPT !.rx = @ + 1]
    BY Zenon
  <1>3. x \in SocketType /\ x.sel = k.socks[h].sel /\ x.hEvent = k.socks[h].hEvent
    BY <1>1, <1>2 DEF SocketType
  <1>4. PICK k1 : k1 = [k EXCEPT !.socks[h] = x]
    BY Zenon
  <1>5. [k EXCEPT !.socks[h].rx = @ + 1] = k1
    BY <1>2, <1>4, Zenon
  <1>6. Keeps(k, k1, {"socks"}) /\ k1.socks = [k.socks EXCEPT ![h] = x]
    <2>1. IsSystem(k)
      BY GoodTypes
    <2>2. /\ Keeps(k, [k EXCEPT !.socks[h] = x], {"socks"})
          /\ [k EXCEPT !.socks[h] = x].socks = [k.socks EXCEPT ![h] = x]
      BY <2>1, PutSocket
    <2> QED
      BY <1>4, <2>2, Zenon
  <1>7. PICK conds : conds = {"FD_READ"}
    BY Zenon
  <1>8. Alike(k, A, Report(k1, h, conds))
    BY <1>3, <1>6, ReportGood
  <1> QED
    BY <1>5, <1>7, <1>8, Zenon DEF Arrive

\* The end of the stream arrives.
LEMMA PeerCloseGood ==
  ASSUME NEW k, NEW A, Good(k, A, {}), NEW h \in DOMAIN k.socks
  PROVE  Alike(k, A, PeerClose(k, h))
  <1>1. k.socks[h] \in SocketType
    BY GoodTypes
  <1>2. PICK x : x = [k.socks[h] EXCEPT !.fin = TRUE]
    BY Zenon
  <1>3. x \in SocketType /\ x.sel = k.socks[h].sel /\ x.hEvent = k.socks[h].hEvent
    BY <1>1, <1>2 DEF SocketType
  <1>4. PICK k1 : k1 = [k EXCEPT !.socks[h] = x]
    BY Zenon
  <1>5. [k EXCEPT !.socks[h].fin = TRUE] = k1
    BY <1>2, <1>4, Zenon
  <1>6. Keeps(k, k1, {"socks"}) /\ k1.socks = [k.socks EXCEPT ![h] = x]
    <2>1. IsSystem(k)
      BY GoodTypes
    <2>2. /\ Keeps(k, [k EXCEPT !.socks[h] = x], {"socks"})
          /\ [k EXCEPT !.socks[h] = x].socks = [k.socks EXCEPT ![h] = x]
      BY <2>1, PutSocket
    <2> QED
      BY <1>4, <2>2, Zenon
  <1>7. PICK conds : conds = {"FD_CLOSE"}
    BY Zenon
  <1>8. Alike(k, A, Report(k1, h, conds))
    BY <1>3, <1>6, ReportGood
  <1> QED
    BY <1>5, <1>7, <1>8, Zenon DEF PeerClose

\* recv takes the message that waits.
LEMMA TakeGood ==
  ASSUME NEW k, NEW A, Good(k, A, {}), NEW h \in DOMAIN k.socks
  PROVE  Alike(k, A, Take(k, h, k.socks[h].rx, "FD_READ"))
  <1>1. k.socks[h] \in SocketType
    BY GoodTypes
  <1>2. PICK n, ev : n = k.socks[h].rx /\ ev = "FD_READ"
    BY Zenon
  <1>3. PICK y : y = [k.socks[h] EXCEPT !.rx = @ - n]
    BY Zenon
  <1>4. PICK x : x = [y EXCEPT !.told = @ \ {ev}]
    BY Zenon
  <1>5. x \in SocketType /\ x.sel = k.socks[h].sel /\ x.hEvent = k.socks[h].hEvent
    <2>1. y \in SocketType /\ y.sel = k.socks[h].sel /\ y.hEvent = k.socks[h].hEvent
      BY <1>1, <1>2, <1>3 DEF SocketType
    <2> QED
      BY <1>4, <2>1 DEF SocketType
  <1>6. PICK k1 : k1 = [k EXCEPT !.socks[h] = x]
    BY Zenon
  <1>7. Keeps(k, k1, {"socks"}) /\ k1.socks = [k.socks EXCEPT ![h] = x]
    <2>1. IsSystem(k)
      BY GoodTypes
    <2>2. /\ Keeps(k, [k EXCEPT !.socks[h] = x], {"socks"})
          /\ [k EXCEPT !.socks[h] = x].socks = [k.socks EXCEPT ![h] = x]
      BY <2>1, PutSocket
    <2> QED
      BY <1>6, <2>2, Zenon
  <1>8. [k EXCEPT !.socks[h].rx = @ - n, !.socks[h].told = @ \ {ev}] = k1
    <2>1. PICK k2 : k2 = [k EXCEPT !.socks[h] = y]
      BY Zenon
    <2>2. [k EXCEPT !.socks[h].rx = @ - n] = k2
      BY <1>3, <2>1, Zenon
    <2>3. [k EXCEPT !.socks[h].rx = @ - n, !.socks[h].told = @ \ {ev}] = [k2 EXCEPT !.socks[h].told = @ \ {ev}]
      BY <2>2
    <2>4. k2.socks = [k.socks EXCEPT ![h] = y] /\ Keeps(k, k2, {"socks"})
      <3>1. IsSystem(k)
        BY GoodTypes
      <3>2. /\ Keeps(k, [k EXCEPT !.socks[h] = y], {"socks"})
            /\ [k EXCEPT !.socks[h] = y].socks = [k.socks EXCEPT ![h] = y]
        BY <3>1, PutSocket
      <3> QED
        BY <2>1, <3>2, Zenon
    <2>5. k2.socks[h] = y
      BY <2>4
    <2>6. [k2 EXCEPT !.socks[h].told = @ \ {ev}] = [k2 EXCEPT !.socks[h] = x]
      BY <1>4, <2>5, Zenon
    <2>7. [k2 EXCEPT !.socks[h] = x] = k1
      <3>1. PICK k3 : k3 = [k2 EXCEPT !.socks[h] = x]
        BY Zenon
      <3>2. Keeps(k2, k3, {"socks"}) /\ k3.socks = [k2.socks EXCEPT ![h] = x]
        <4>1. IsSystem(k2)
          BY <2>4 DEF Keeps
        <4>2. /\ Keeps(k2, [k2 EXCEPT !.socks[h] = x], {"socks"})
              /\ [k2 EXCEPT !.socks[h] = x].socks = [k2.socks EXCEPT ![h] = x]
          BY <4>1, PutSocket
        <4> QED
          BY <3>1, <4>2, Zenon
      <3>3. k3.socks = k1.socks
        BY <1>7, <2>4, <3>2
      <3>4. IsSystem(k3) /\ IsSystem(k1) /\ \A f \in SystemFields : k3[f] = k1[f]
        BY <1>7, <2>4, <3>2, <3>3 DEF Keeps, SystemFields
      <3>5. k3 = k1
        BY <3>4 DEF IsSystem
      <3> QED
        BY <3>1, <3>5, Zenon
    <2> QED
      BY <2>3, <2>6, <2>7, Zenon
  <1>9. PICK conds : conds = Conditions(k1.socks[h]) \cap {ev}
    BY Zenon
  <1>10. Alike(k, A, Report(k1, h, conds))
    BY <1>5, <1>7, ReportGood
  <1> QED
    BY <1>2, <1>8, <1>9, <1>10, Zenon DEF Take

\* WSAEnumNetworkEvents: the record of the socket is taken, its event is reset.
LEMMA EnumerateGood ==
  ASSUME NEW k, NEW A, Good(k, A, {}), OnEvents(k), NEW i \in Live(k), NEW e, e = k.fds_[i].hEvent,
         NEW h, h = k.fds_[i].fd
  PROVE  Alike(k, A, [k EXCEPT !.socks[h].rec = {}, !.events = Event!With(@, e, FALSE)])
  <1>1. PICK g : g = h
    BY Zenon
  <1>2. g \in DOMAIN k.socks /\ k.socks[g] \in SocketType
    <2>1. k.fds_[i].fd \in DOMAIN k.socks /\ \A b \in DOMAIN k.socks : k.socks[b] \in SocketType
      BY GoodTypes
    <2> QED
      BY <1>1, <2>1
  <1>3. PICK c : c = e
    BY Zenon
  <1>4. c \in DOMAIN k.events
    <2>1. k.fds_[i].hEvent \in DOMAIN k.events
      BY DEF Good, EventInv
    <2> QED
      BY <1>3, <2>1
  <1>5. PICK x, off : x = [k.socks[g] EXCEPT !.rec = {}] /\ off = FALSE
    BY Zenon
  <1>6. x \in SocketType /\ x.sel = k.socks[g].sel /\ x.hEvent = k.socks[g].hEvent
    BY <1>2, <1>5 DEF SocketType
  <1>7. PICK f, v : f = [k.socks EXCEPT ![g] = x] /\ v = Event!With(k.events, c, off)
    BY Zenon
  <1>8. PICK k2 : k2 = [k EXCEPT !.socks = f, !.events = v]
    BY Zenon
  <1>9. [k EXCEPT !.socks[h].rec = {}, !.events = Event!With(@, e, FALSE)] = k2
    BY <1>1, <1>3, <1>5, <1>7, <1>8, Zenon
  <1>10. k2.socks = f /\ k2.events = v /\ Keeps(k, k2, {"socks", "events"})
    <2>1. DOMAIN k = SystemFields
      BY GoodTypes DEF IsSystem
    <2>2. k2 = [y \in SystemFields |-> IF y = "socks" THEN f ELSE IF y = "events" THEN v ELSE k[y]]
      BY <1>8, <2>1 DEF SystemFields
    <2> QED
      BY <2>2 DEF IsSystem, Keeps, SystemFields
  <1>11. v \in [DOMAIN k.events -> BOOLEAN] /\ DOMAIN v = DOMAIN k.events
    <2>1. Event!With(k.events, c, off) = With(k.events, c, off)
      BY Zenon DEF Event!With, With
    <2>2. k.events \in [DOMAIN k.events -> BOOLEAN] /\ off \in BOOLEAN
      BY <1>5 DEF Good, System, Types
    <2>3. With(k.events, c, off) \in [DOMAIN k.events -> BOOLEAN] /\ DOMAIN With(k.events, c, off) = DOMAIN k.events
      BY <1>4, <2>2, SetEvent
    <2> QED
      BY <1>7, <2>1, <2>3, Zenon
  <1>12. /\ k2.poller = k.poller /\ k2.fds_ = k.fds_ /\ k2.queue = k.queue
         /\ k2.has_retired_ = k.has_retired_ /\ k2.faults = k.faults /\ IsSystem(k2)
    BY <1>10 DEF Keeps, SystemFields
  <1>13. PICK k1 : k1 = [k EXCEPT !.socks = f]
    BY Zenon
  <1>14. k1.socks = f /\ Keeps(k, k1, {"socks"})
    <2>1. IsSystem(k)
      BY GoodTypes
    <2> QED
      BY <1>13, <2>1, Assign DEF SystemFields
  <1>15. /\ System(k1) /\ DOMAIN k1.socks = DOMAIN k.socks /\ k1.socks[g] = x
         /\ \A b \in DOMAIN k.socks \ {g} : k1.socks[b] = k.socks[b]
    <2>1. System(k)
      BY GoodTypes
    <2> QED
      BY <1>2, <1>6, <1>7, <1>14, <2>1, SetSocket
  <1>16. System(k2)
    <2>1. /\ DOMAIN k2.socks \subseteq Handles /\ IsFiniteSet(DOMAIN k2.socks)
          /\ k2.socks \in [DOMAIN k2.socks -> SocketType]
      BY <1>10, <1>14, <1>15 DEF System, Types
    <2>2. /\ DOMAIN k2.events \subseteq Handles /\ IsFiniteSet(DOMAIN k2.events)
          /\ k2.events \in [DOMAIN k2.events -> BOOLEAN]
      BY <1>10, <1>11 DEF Good, System, Types
    <2>3. /\ k2.queue \in Seq(MessageType) /\ k2.fds_ \in Seq(EntryType) /\ k2.has_retired_ \in BOOLEAN
          /\ k2.faults \in Nat /\ k2.poller \in {"PollerAsyncSelect", "PollerAsyncEvent"}
      BY <1>12 DEF Good, System, Types
    <2> QED
      BY <1>12, <2>1, <2>2, <2>3 DEF System, Types
  <1>17. Touched(k, k2, g)
    BY <1>10, <1>11, <1>12, <1>14, <1>15, <1>16 DEF Touched
  <1>18. Good(k2, A, {})
    <2>1. k2.socks[g].sel = k.socks[g].sel /\ k2.socks[g].hEvent = k.socks[g].hEvent
      BY <1>6, <1>10, <1>14, <1>15
    <2> QED
      BY <1>2, <1>17, <2>1, TouchedGood
  <1>19. Alike(k, A, k2)
    BY <1>17, <1>18 DEF Touched, Alike
  <1> QED
    BY <1>9, <1>19, Zenon

\* The queue is another one.
LEMMA SetQueue ==
  ASSUME NEW k, System(k), NEW q \in Seq(MessageType), NEW k1, k1 = [k EXCEPT !.queue = q]
  PROVE  /\ System(k1) /\ k1.fds_ = k.fds_ /\ k1.events = k.events /\ k1.socks = k.socks
         /\ k1.poller = k.poller
  <1> HIDE DEF MessageType
  <1>1. PICK k2 : k2 = k1
    BY Zenon
  <1>2. k2.queue = q /\ Keeps(k, k2, {"queue"})
    BY <1>1, Assign DEF System, SystemFields
  <1>3. /\ k2.poller = k.poller /\ k2.socks = k.socks /\ k2.has_retired_ = k.has_retired_
        /\ k2.fds_ = k.fds_ /\ k2.events = k.events /\ k2.faults = k.faults /\ IsSystem(k2)
    BY <1>2 DEF Keeps, SystemFields
  <1>4. System(k2)
    BY <1>2, <1>3 DEF System, Types
  <1> QED
    BY <1>1, <1>3, <1>4, Zenon

\* GetMessage takes a message from the queue.
LEMMA DequeuedGood ==
  ASSUME NEW k, NEW A, Good(k, A, {}), k.queue # <<>>
  PROVE  /\ Alike(k, A, [k EXCEPT !.queue = Tail(@)])
         /\ Head(k.queue) \in MessageType
  <1>1. k.queue \in Seq(MessageType) /\ System(k)
    BY DEF Good, System, Types
  <1>2. PICK q : q = Tail(k.queue)
    BY Zenon
  <1>3. q \in Seq(MessageType) /\ Head(k.queue) \in MessageType
    <2> HIDE DEF MessageType
    <2> QED
      BY <1>1, <1>2
  <1>4. PICK k1 : k1 = [k EXCEPT !.queue = q]
    BY Zenon
  <1>5. /\ System(k1) /\ k1.fds_ = k.fds_ /\ k1.events = k.events /\ k1.socks = k.socks
        /\ k1.poller = k.poller
    BY <1>1, <1>3, <1>4, SetQueue
  <1>6. Good(k1, A, {})
    BY <1>5 DEF Good, FdsInv, SelInv, EventInv, SinkInv, Room, Live, OnEvents
  <1>7. Alike(k, A, k1)
    BY <1>5, <1>6 DEF Alike
  <1> QED
    BY <1>2, <1>3, <1>4, <1>7, Zenon

\* A call of the system fails.
LEMMA FaultyAlike ==
  ASSUME NEW k, NEW A, Good(k, A, {}), NEW k1 \in Faulty(k)
  PROVE  Alike(k, A, k1)
  BY FaultyGood DEF Alike
-----------------------------------------------------------------------------
(* Calls that are still to be made. *)

\* The calls for the events that were taken from the entry at i.
LEMMA HandledCalls ==
  ASSUME NEW i \in Nat, NEW evs \in SUBSET Events
  PROVE  /\ Event!HandleEvents(i, evs) \in Seq(CallType)
         /\ \A n \in DOMAIN Event!HandleEvents(i, evs) : Event!HandleEvents(i, evs)[n].slot = i
  <1>1. PICK N : N = Cardinality(evs)
    BY Zenon
  <1>2. N \in Nat
    BY <1>1, EventSets
  <1>3. Event!HandleEvents(i, evs) = [n \in 1 .. N |-> [slot |-> i, ev |-> InOrder(evs)[n]]]
    <2>1. Event!Cardinality(evs) = N /\ Event!InOrder(evs) = InOrder(evs)
      BY <1>1, SystemOfEvent
    <2> QED
      BY <2>1, Zenon DEF Event!HandleEvents
  <1>4. \A n \in 1 .. N : [slot |-> i, ev |-> InOrder(evs)[n]] \in CallType
    BY <1>1 DEF CallType, Reported
  <1>5. PICK c : c = Event!HandleEvents(i, evs)
    BY Zenon
  <1>6. DOMAIN c = 1 .. N /\ \A n \in 1 .. N : c[n] \in CallType /\ c[n].slot = i
    BY <1>3, <1>4, <1>5
  <1>7. c \in Seq(CallType)
    <2>1. c = [n \in 1 .. N |-> c[n]]
      BY <1>3, <1>5, <1>6
    <2> HIDE DEF CallType
    <2> QED
      BY <1>2, <1>6, <2>1
  <1> QED
    BY <1>5, <1>6, <1>7

\* The calls that are left after the first one.
LEMMA CallsTail ==
  ASSUME NEW c \in Seq(CallType), c # <<>>
  PROVE  /\ Tail(c) \in Seq(CallType) /\ Len(Tail(c)) = Len(c) - 1 /\ Len(c) \in Nat \ {0}
         /\ 1 \in DOMAIN c /\ Head(c) = c[1]
         /\ \A n \in DOMAIN Tail(c) : n + 1 \in DOMAIN c /\ Tail(c)[n] = c[n + 1]
         /\ Tail(c) # <<>> => 1 \in DOMAIN Tail(c) /\ Head(Tail(c)) = Tail(c)[1]
  <1> HIDE DEF CallType
  <1> QED
    OBVIOUS
-----------------------------------------------------------------------------
(* Steps of user code and of the network. *)

\* The places of the entries of k are still those of the same sinks.
SlotsKept(k, k2) == /\ DOMAIN k.fds_ \subseteq DOMAIN k2.fds_
                    /\ \A j \in DOMAIN k.fds_ : k2.fds_[j].sink = k.fds_[j].sink

\* A step while Poll runs user code, or waits.
LEMMA UserStep ==
  ASSUME IInv, UNCHANGED <<poll, callee>>, Good(os', alive', {}), os'.poller = os.poller,
         DOMAIN os'.socks \subseteq 1 .. MaxSockets, alive' \subseteq 1 .. MaxSockets,
         SlotsKept(os, os') \/ calls = <<>>
  PROVE  IInv'
  <1>1. pc' = pc /\ wait' = wait /\ calls' = calls /\ callee' = callee
    BY DEF poll
  <1>2. OnEvents(os') = OnEvents(os)
    BY DEF OnEvents
  <1>3. CallsInv'
    <2>1. CASE calls = <<>>
      BY <1>1, <1>2, <2>1 DEF IInv, CallsInv
    <2>2. CASE SlotsKept(os, os') /\ calls # <<>>
      <3>1. 1 \in DOMAIN calls /\ Head(calls) = calls[1]
        BY <2>2, CallsTail DEF IInv, CallsInv
      <3>2. /\ \A n \in DOMAIN calls : calls[n].slot \in DOMAIN os'.fds_
            /\ \A n \in DOMAIN calls : os'.fds_[calls[n].slot].sink = os.fds_[calls[n].slot].sink
        BY <2>2 DEF IInv, CallsInv, SlotsKept
      <3> QED
        BY <1>1, <1>2, <3>1, <3>2 DEF IInv, CallsInv
    <2> QED
      BY <2>1, <2>2
  <1> QED
    BY <1>1, <1>3 DEF IInv

\* There is a free number for a sink when there is one for a socket.
LEMMA FreeSink ==
  ASSUME NEW k, NEW A, Good(k, A, {}), DOMAIN k.socks \subseteq 1 .. MaxSockets,
         LeastFree(DOMAIN k.socks) <= MaxSockets
  PROVE  /\ LeastFree(A) \in 1 .. MaxSockets /\ LeastFree(A) \notin A
         /\ LeastFree(DOMAIN k.socks) \in 1 .. MaxSockets
         /\ LeastFree(DOMAIN k.socks) \notin DOMAIN k.socks
  <1>1. PICK D : D = DOMAIN k.socks
    BY Zenon
  <1>2. IsFiniteSet(D) /\ D \subseteq 1 .. MaxSockets
    BY <1>1 DEF Good, System, Types
  <1>3. PICK f : f = [s \in A |-> k.fds_[CHOOSE i \in Live(k) : k.fds_[i].sink = s].fd]
    BY Zenon
  <1>4. ASSUME NEW s \in A
        PROVE  \E i \in Live(k) : k.fds_[i].sink = s /\ f[s] = k.fds_[i].fd
    <2>1. \E i \in Live(k) : k.fds_[i].sink = s
      BY DEF Good, SinkInv
    <2> QED
      BY <1>3, <2>1
  <1>5. f \in Injection(A, D)
    <2>1. f \in [A -> D]
      <3>1. \A s \in A : f[s] \in D
        BY <1>1, <1>4, GoodTypes
      <3> QED
        BY <1>3, <3>1
    <2>2. ASSUME NEW s \in A, NEW t \in A, f[s] = f[t] PROVE s = t
      <3>1. PICK i \in Live(k) : k.fds_[i].sink = s /\ f[s] = k.fds_[i].fd
        BY <1>4
      <3>2. PICK j \in Live(k) : k.fds_[j].sink = t /\ f[t] = k.fds_[j].fd
        BY <1>4
      <3>3. i = j
        BY <2>2, <3>1, <3>2 DEF Good, FdsInv, OneEach, Live
      <3> QED
        BY <3>1, <3>2, <3>3
    <2> QED
      BY <2>1, <2>2 DEF Injection, IsInjective
  <1>6. IsFiniteSet(A) /\ Cardinality(A) <= Cardinality(D)
    BY <1>2, <1>5, FS_Injection
  <1>7. PICK h : h = LeastFree(D)
    BY Zenon
  <1>8. h \in Nat \ {0} /\ h \notin D /\ h <= MaxSockets
    BY <1>1, <1>2, <1>7, LeastFreeFacts
  <1>9. Cardinality(D) + 1 <= MaxSockets
    <2>1. IsFiniteSet(1 .. MaxSockets) /\ Cardinality(1 .. MaxSockets) = MaxSockets
      BY UserAssumption, FS_Interval
    <2>2. D \cup {h} \in SUBSET (1 .. MaxSockets)
      BY <1>2, <1>8, UserAssumption
    <2>3. Cardinality(D \cup {h}) = Cardinality(D) + 1
      BY <1>2, <1>8, FS_AddElement
    <2>4. Cardinality(D \cup {h}) <= Cardinality(1 .. MaxSockets)
      BY <2>1, <2>2, FS_Subset
    <2> QED
      BY <2>1, <2>3, <2>4
  <1>10. LeastFree(A) \in Nat \ {0} /\ LeastFree(A) \notin A /\ LeastFree(A) <= Cardinality(A) + 1
    BY <1>6, LeastFreeFacts
  <1>11. Cardinality(A) \in Nat /\ Cardinality(D) \in Nat
    BY <1>2, <1>6, FS_CardinalityType
  <1> QED
    BY <1>1, <1>6, <1>7, <1>8, <1>9, <1>10, <1>11, UserAssumption

\* A new entry adds a registration.
LEMMA PairsAdd ==
  ASSUME NEW k, NEW A, NEW X, Good(k, A, X), NEW x, x.fd # INVALID_SOCKET,
         NEW k2, k2.fds_ = Append(k.fds_, x)
  PROVE  /\ Pairs(k2) = Pairs(k) \cup {<<x.fd, x.sink>>}
         /\ SlotsKept(k, k2)
         /\ \A j \in DOMAIN k.fds_ : k2.fds_[j] = k.fds_[j]
  <1>1. Len(k.fds_) \in Nat /\ DOMAIN k.fds_ = 1 .. Len(k.fds_) /\ k.fds_ \in Seq(EntryType)
    BY GoodTypes DEF Good, System, Types
  <1>2. /\ DOMAIN k2.fds_ = 1 .. Len(k.fds_) + 1
        /\ k2.fds_[Len(k.fds_) + 1] = x
        /\ \A j \in DOMAIN k.fds_ : k2.fds_[j] = k.fds_[j]
    <2> HIDE DEF EntryType
    <2>1. PICK t, t2 : t = k.fds_ /\ t2 = k2.fds_
      BY Zenon
    <2>2. t \in Seq(EntryType) /\ t2 = Append(t, x)
      BY <1>1, <2>1
    <2>3. /\ DOMAIN t = 1 .. Len(t) /\ DOMAIN t2 = 1 .. Len(t) + 1
          /\ t2[Len(t) + 1] = x /\ \A j \in 1 .. Len(t) : t2[j] = t[j]
      BY <2>2
    <2> QED
      BY <2>1, <2>3
  <1>3. Live(k2) = Live(k) \cup {Len(k.fds_) + 1}
    BY <1>1, <1>2 DEF Live
  <1>4. \A i \in Live(k) : k2.fds_[i] = k.fds_[i]
    BY <1>2 DEF Live
  <1>5. Pairs(k2) = Pairs(k) \cup {<<x.fd, x.sink>>}
    <2> DEFINE Pair(e) == <<e.fd, e.sink>>
    <2>1. Pairs(k2) = {Pair(k2.fds_[i]) : i \in Live(k2)} /\ Pairs(k) = {Pair(k.fds_[i]) : i \in Live(k)}
      BY Zenon DEF Pairs
    <2>2. <<x.fd, x.sink>> = Pair(x)
      OBVIOUS
    <2> HIDE DEF Pair
    <2>3. Pair(k2.fds_[Len(k.fds_) + 1]) = Pair(x) /\ \A i \in Live(k) : Pair(k2.fds_[i]) = Pair(k.fds_[i])
      BY <1>2, <1>4, Zenon
    <2> DEFINE P2(i) == Pair(k2.fds_[i])
               P1(i) == Pair(k.fds_[i])
               n == Len(k.fds_) + 1
    <2>4. P2(n) = Pair(x) /\ \A i \in Live(k) : P2(i) = P1(i)
      BY <2>3, Zenon
    <2>5. Live(k2) = Live(k) \cup {n}
      BY <1>3
    <2>6. Pairs(k2) = {P2(i) : i \in Live(k2)} /\ Pairs(k) = {P1(i) : i \in Live(k)}
      BY <2>1
    <2> HIDE DEF P1, P2, n
    <2>7. {P2(i) : i \in Live(k2)} = {P1(i) : i \in Live(k)} \cup {Pair(x)}
      BY <2>4, <2>5
    <2> QED
      BY <2>2, <2>6, <2>7, Zenon
  <1> QED
    BY <1>1, <1>2, <1>5 DEF SlotsKept

\* The same entries are the same registrations.
LEMMA PairsSame ==
  ASSUME NEW k, NEW k2, k2.fds_ = k.fds_
  PROVE  Pairs(k2) = Pairs(k) /\ SlotsKept(k, k2)
  BY DEF Pairs, Live, SlotsKept

\* socket, new and AddFd.
LEMMA RegisterStep ==
  ASSUME IInv, Register
  PROVE  /\ IInv'
         /\ \A j \in DOMAIN os.fds_ : os'.fds_[j].fd = os.fds_[j].fd
         /\ \/ Pairs(os') = Pairs(os)
            \/ \E h, s \in 1 .. MaxSockets : /\ \A p \in Pairs(os) : p[1] # h
                                             /\ Pairs(os') = Pairs(os) \cup {<<h, s>>}
  <1>1. Good(os, alive, {}) /\ DOMAIN os.socks \subseteq 1 .. MaxSockets /\ alive \subseteq 1 .. MaxSockets
    BY DEF IInv
  <1>2. PICK h, s : h = FreshHandle(os) /\ s = LeastFree(alive)
    BY Zenon
  <1>3. h \in 1 .. MaxSockets /\ s \in 1 .. MaxSockets /\ h \notin DOMAIN os.socks /\ s \notin alive
    <2>1. LeastFree(DOMAIN os.socks) <= MaxSockets
      BY DEF Register, FreshHandle
    <2>2. /\ LeastFree(alive) \in 1 .. MaxSockets /\ LeastFree(alive) \notin alive
          /\ LeastFree(DOMAIN os.socks) \in 1 .. MaxSockets
          /\ LeastFree(DOMAIN os.socks) \notin DOMAIN os.socks
      BY <1>1, <2>1, FreeSink
    <2> QED
      BY <1>2, <2>2, Zenon DEF FreshHandle
  <1>4. h \in Handles /\ s \in Handles
    BY <1>3, UserAssumption DEF Handles
  <1>5. PICK k1 : k1 = Socket(os, h, "conn")
    BY Zenon
  <1>6. /\ Good(k1, alive, {h}) /\ Unselected(k1, h) /\ DOMAIN k1.socks = DOMAIN os.socks \cup {h}
        /\ k1.fds_ = os.fds_ /\ k1.poller = os.poller
    <2>1. /\ Good(Socket(os, h, "conn"), alive, {h})
          /\ Socket(os, h, "conn").socks[h].sel = {}
          /\ DOMAIN Socket(os, h, "conn").socks = DOMAIN os.socks \cup {h}
          /\ Socket(os, h, "conn").fds_ = os.fds_ /\ Socket(os, h, "conn").poller = os.poller
      BY <1>1, <1>3, <1>4, OpenGood
    <2> QED
      BY <1>5, <2>1, Zenon DEF Unselected
  <1>7. PICK r \in AddFd(k1, h, s) :
          IF r.ok THEN os' = r.sys /\ alive' = alive \cup {s}
                  ELSE os' = closesocket(r.sys, h) /\ UNCHANGED alive
    BY <1>2, <1>5, Zenon DEF Register
  <1>8. Added(k1, alive, h, s, r)
    <2>1. h \in DOMAIN k1.socks
      BY <1>6
    <2> QED
      BY <1>3, <1>4, <1>6, <1>7, <2>1, AddFdGood
  <1>9. UNCHANGED <<poll, callee>>
    BY Zenon DEF Register
  <1>10. CASE r.ok
    <2>1. PICK k2 : k2 = r.sys
      BY Zenon
    <2>2. os' = k2 /\ alive' = alive \cup {s}
      BY <1>7, <1>10, <2>1
    <2>3. /\ Good(k2, alive \cup {s}, {}) /\ k2.socks = k1.socks /\ k2.poller = k1.poller
          /\ \E x \in EntryType : x.fd = h /\ x.sink = s /\ k2.fds_ = Append(k1.fds_, x)
      BY <1>8, <1>10, <2>1 DEF Added
    <2>4. PICK x \in EntryType : x.fd = h /\ x.sink = s /\ k2.fds_ = Append(k1.fds_, x)
      BY <2>3
    <2>5. x.fd # INVALID_SOCKET
      BY <1>4, <2>4 DEF Handles, INVALID_SOCKET
    <2>6. /\ Pairs(k2) = Pairs(os) \cup {<<x.fd, x.sink>>}
          /\ SlotsKept(os, k2)
          /\ \A j \in DOMAIN os.fds_ : k2.fds_[j] = os.fds_[j]
      BY <1>1, <1>6, <2>4, <2>5, PairsAdd
    <2>7. IInv'
      <3>1. Good(os', alive', {})
        BY <2>2, <2>3
      <3>2. os'.poller = os.poller
        BY <1>6, <2>2, <2>3
      <3>3. DOMAIN os'.socks \subseteq 1 .. MaxSockets
        BY <1>1, <1>3, <1>6, <2>2, <2>3
      <3>4. alive' \subseteq 1 .. MaxSockets
        BY <1>1, <1>3, <2>2
      <3>5. SlotsKept(os, os')
        BY <2>2, <2>6
      <3> QED
        BY <1>9, <3>1, <3>2, <3>3, <3>4, <3>5, UserStep
    <2>8. \A p \in Pairs(os) : p[1] # h
      BY <1>1, <1>3, GoodTypes DEF Pairs
    <2> QED
      BY <1>3, <2>2, <2>4, <2>6, <2>7, <2>8
  <1>11. CASE ~r.ok
    <2>1. PICK k2 : k2 = r.sys
      BY Zenon
    <2>2. os' = closesocket(k2, h) /\ alive' = alive
      BY <1>7, <1>11, <2>1
    <2>3. Good(k2, alive, {h}) /\ k2.fds_ = k1.fds_ /\ k2.socks = k1.socks /\ k2.poller = k1.poller
      BY <1>8, <1>11, <2>1 DEF Added
    <2>4. /\ Good(closesocket(k2, h), alive, {})
          /\ DOMAIN closesocket(k2, h).socks = DOMAIN k2.socks \ {h}
          /\ closesocket(k2, h).fds_ = k2.fds_ /\ closesocket(k2, h).poller = k2.poller
      <3>1. h \in DOMAIN k2.socks
        BY <1>6, <2>3
      <3> QED
        BY <2>3, <3>1, CloseGood
    <2>5. /\ Good(os', alive', {}) /\ DOMAIN os'.socks \subseteq 1 .. MaxSockets
          /\ os'.fds_ = os.fds_ /\ os'.poller = os.poller
      <3>1. Good(os', alive', {})
        BY <2>2, <2>4, Zenon
      <3>2. DOMAIN os'.socks = DOMAIN k2.socks \ {h} /\ os'.fds_ = k2.fds_ /\ os'.poller = k2.poller
        BY <2>2, <2>4, Zenon
      <3> QED
        BY <1>1, <1>6, <2>3, <3>1, <3>2
    <2>6. Pairs(os') = Pairs(os) /\ SlotsKept(os, os')
      BY <2>5, PairsSame
    <2>7. IInv'
      <3>1. alive' \subseteq 1 .. MaxSockets
        BY <1>1, <2>2
      <3> QED
        BY <1>9, <2>5, <2>6, <3>1, UserStep
    <2> QED
      BY <2>5, <2>6, <2>7
  <1> QED
    BY <1>10, <1>11

\* The registered sockets are those of the live entries.
LEMMA RegisteredIs ==
  ASSUME NEW h \in Registered
  PROVE  \E i \in Live(os) : os.fds_[i].fd = h
  BY DEF Registered, LiveEntries, Live

\* The sink of a registered socket is that of its live entry.
LEMMA SinkOfIs ==
  ASSUME NEW A, NEW X, Good(os, A, X), NEW i \in Live(os)
  PROVE  SinkOf(os.fds_[i].fd) = os.fds_[i].sink
  <1>1. PICK h : h = os.fds_[i].fd
    BY Zenon
  <1>2. \A j \in LiveEntries : os.fds_[j].fd = h => j = i
    BY <1>1 DEF Good, FdsInv, OneEach, LiveEntries, Live
  <1>3. i \in LiveEntries
    BY DEF LiveEntries, Live
  <1>4. (CHOOSE j \in LiveEntries : os.fds_[j].fd = h) = i
    BY <1>1, <1>2, <1>3
  <1>5. SinkOf(h) = os.fds_[i].sink
    BY <1>4, Zenon DEF SinkOf
  <1> QED
    BY <1>1, <1>5, Zenon

\* RemoveFd, closesocket and delete.  The other entries stay; when user code
\* runs for an entry, its sink is still written there.
LEMMA UnregisterStep ==
  ASSUME IInv, NEW h \in Registered, Unregister(h)
  PROVE  /\ IInv'
         /\ \E i \in Live(os) : /\ os.fds_[i].fd = h
                                /\ Pairs(os') = Pairs(os) \ {<<h, os.fds_[i].sink>>}
                                /\ os'.fds_[i].fd = INVALID_SOCKET
                                /\ \A j \in DOMAIN os.fds_ \ {i} : os'.fds_[j] = os.fds_[j]
  <1>1. Good(os, alive, {}) /\ DOMAIN os.socks \subseteq 1 .. MaxSockets /\ alive \subseteq 1 .. MaxSockets
    BY DEF IInv
  <1>2. PICK i \in Live(os) : os.fds_[i].fd = h
    BY RegisteredIs
  <1>3. PICK k2 : k2 = RemoveFd(os, h)
    BY Zenon
  <1>4. os' = closesocket(k2, h) /\ alive' = alive \ {SinkOf(h)} /\ UNCHANGED <<poll, callee>> /\ UserCode
    BY <1>3, Zenon DEF Unregister
  <1>5. PICK s : s = os.fds_[i].sink
    BY Zenon
  <1>6. SinkOf(h) = s
    <2>1. SinkOf(os.fds_[i].fd) = os.fds_[i].sink
      BY <1>1, SinkOfIs
    <2> QED
      BY <1>2, <1>5, <2>1, Zenon
  <1>7. Removed(os, alive, i, k2)
    <2>1. Removed(os, alive, i, RemoveFd(os, os.fds_[i].fd))
      BY <1>1, RemoveFdGood
    <2> QED
      BY <1>2, <1>3, <2>1, Zenon
  <1>8. /\ Good(k2, alive \ {s}, {h}) /\ DOMAIN k2.fds_ = DOMAIN os.fds_
        /\ k2.fds_[i].fd = INVALID_SOCKET /\ (OnEvents(os) => k2.fds_[i].sink = s)
        /\ \A j \in DOMAIN os.fds_ \ {i} : k2.fds_[j] = os.fds_[j]
        /\ DOMAIN k2.socks = DOMAIN os.socks /\ k2.poller = os.poller
    BY <1>2, <1>5, <1>7 DEF Removed
  <1>9. h \in DOMAIN os.socks
    BY <1>1, <1>2, GoodTypes
  <1>10. /\ Good(closesocket(k2, h), alive \ {s}, {})
         /\ DOMAIN closesocket(k2, h).socks = DOMAIN k2.socks \ {h}
         /\ closesocket(k2, h).fds_ = k2.fds_ /\ closesocket(k2, h).poller = k2.poller
    <2>1. h \in DOMAIN k2.socks
      BY <1>8, <1>9
    <2> QED
      BY <1>8, <2>1, CloseGood
  <1>11. /\ Good(os', alive', {}) /\ DOMAIN os'.socks = DOMAIN k2.socks \ {h}
         /\ os'.fds_ = k2.fds_ /\ os'.poller = k2.poller
    BY <1>4, <1>6, <1>10, Zenon
  <1>12. Pairs(os') = Pairs(os) \ {<<h, s>>}
    <2>1. Live(os') = Live(os) \ {i}
      BY <1>8, <1>11 DEF Live
    <2>2. \A j \in Live(os) \ {i} : os'.fds_[j] = os.fds_[j] /\ os.fds_[j].fd # h
      BY <1>1, <1>2, <1>8, <1>11 DEF Live, Good, FdsInv, OneEach
    <2>3. \A p \in Pairs(os) : p = <<h, s>> \/ p \in Pairs(os')
      BY <1>2, <1>5, <2>1, <2>2 DEF Pairs
    <2>4. \A p \in Pairs(os') : p \in Pairs(os) /\ p # <<h, s>>
      BY <2>1, <2>2 DEF Pairs
    <2> QED
      BY <2>3, <2>4
  <1>13. SlotsKept(os, os') \/ calls = <<>>
    <2>1. CASE OnEvents(os)
      BY <1>5, <1>8, <1>11, <2>1 DEF SlotsKept
    <2>2. CASE ~OnEvents(os)
      BY <1>4, <2>2 DEF IInv, CallsInv, UserCode
    <2> QED
      BY <2>1, <2>2
  <1>14. IInv'
    <2>1. DOMAIN os'.socks \subseteq 1 .. MaxSockets /\ alive' \subseteq 1 .. MaxSockets /\ os'.poller = os.poller
      BY <1>1, <1>4, <1>8, <1>11
    <2> QED
      BY <1>4, <1>11, <1>13, <2>1, UserStep
  <1> QED
    BY <1>2, <1>5, <1>8, <1>11, <1>12, <1>14

\* Steps that keep the registrations and the entries of the calls to make.
Steady == /\ Pairs(os') = Pairs(os)
          /\ \A j \in DOMAIN os.fds_ : os'.fds_[j].fd = os.fds_[j].fd

\* A step that keeps sockets, sinks and their places.
LEMMA AlikeStep ==
  ASSUME IInv, UNCHANGED <<poll, alive, callee>>, Alike(os, alive, os')
  PROVE  IInv' /\ Steady
  <1>1. Matches(os, alive, os')
    BY AlikeMatches
  <1>2. /\ Good(os', alive, {}) /\ DOMAIN os'.fds_ = DOMAIN os.fds_
        /\ \A j \in DOMAIN os.fds_ : os'.fds_[j].fd = os.fds_[j].fd /\ os'.fds_[j].sink = os.fds_[j].sink
        /\ DOMAIN os'.socks = DOMAIN os.socks /\ os'.poller = os.poller
    BY DEF Alike
  <1>3. /\ Good(os', alive', {}) /\ DOMAIN os'.socks \subseteq 1 .. MaxSockets
        /\ alive' \subseteq 1 .. MaxSockets
    BY <1>2 DEF IInv
  <1>4. SlotsKept(os, os')
    BY <1>2 DEF SlotsKept
  <1>5. IInv'
    BY <1>2, <1>3, <1>4, UserStep
  <1> QED
    BY <1>1, <1>2, <1>5 DEF Matches, Steady

\* Changes of interest, recv.
LEMMA ChangeInterestStep ==
  ASSUME IInv, NEW h \in Registered, ChangeInterest(h)
  PROVE  IInv' /\ Steady
  <1>1. PICK i \in Live(os) : os.fds_[i].fd = h
    BY RegisteredIs
  <1>2. PICK k2 : k2 = os'
    BY Zenon
  <1>3. k2 \in {SetPollIn(os, h), ResetPollIn(os, h), SetPollOut(os, h), ResetPollOut(os, h)}
    BY <1>2, Zenon DEF ChangeInterest
  <1>4. Good(os, alive, {})
    BY DEF IInv
  <1>5. Alike(os, alive, k2)
    BY <1>1, <1>3, <1>4, ChangesGood
  <1>6. UNCHANGED <<poll, alive, callee>>
    BY Zenon DEF ChangeInterest
  <1>7. Alike(os, alive, os')
    BY <1>2, <1>5, Zenon
  <1> QED
    BY <1>6, <1>7, AlikeStep

\* A message is read outside a callback, or in one.
LEMMA ReadStep ==
  ASSUME IInv, NEW h \in DOMAIN os.socks, Read(h)
  PROVE  IInv' /\ Steady
  <1>1. Good(os, alive, {})
    BY DEF IInv
  <1>2. Alike(os, alive, Take(os, h, os.socks[h].rx, "FD_READ"))
    BY <1>1, TakeGood
  <1>3. Alike(os, alive, os')
    BY <1>2, Zenon DEF Read
  <1>4. UNCHANGED <<poll, alive, callee>>
    BY Zenon DEF Read
  <1> QED
    BY <1>3, <1>4, AlikeStep

\* The remote side.
LEMMA NetworkStep ==
  ASSUME IInv, NEW h \in DOMAIN os.socks, Network(h)
  PROVE  IInv' /\ Steady
  <1>1. Good(os, alive, {})
    BY DEF IInv
  <1>2. PICK k1, k2 : k1 = Arrive(os, h, "FD_READ") /\ k2 = PeerClose(os, h)
    BY Zenon
  <1>3. os' \in When(os.socks[h].rx = 0, {k1}) \cup {k2}
    BY <1>2, Zenon DEF Network
  <1>4. (os.socks[h].rx = 0 /\ os' = k1) \/ os' = k2
    BY <1>3 DEF When
  <1>5. Alike(os, alive, os')
    <2>1. ASSUME os.socks[h].rx = 0, os' = k1 PROVE Alike(os, alive, os')
      <3>1. Alike(os, alive, Arrive(os, h, "FD_READ"))
        BY <1>1, <2>1, ArriveGood
      <3> QED
        BY <1>2, <2>1, <3>1, Zenon
    <2>2. ASSUME os' = k2 PROVE Alike(os, alive, os')
      <3>1. Alike(os, alive, PeerClose(os, h))
        BY <1>1, PeerCloseGood
      <3> QED
        BY <1>2, <2>2, <3>1, Zenon
    <2> QED
      BY <1>4, <2>1, <2>2
  <1>6. UNCHANGED <<poll, alive, callee>>
    BY Zenon DEF Network
  <1> QED
    BY <1>5, <1>6, AlikeStep
-----------------------------------------------------------------------------
(* Steps of Poll. *)

\* A call through an entry.  The calls that are left are through the same one.
LEMMA CallStep ==
  ASSUME IInv, Call
  PROVE  IInv'
  <1>1. /\ calls \in Seq(CallType) /\ calls # <<>> /\ pc = "dispatch"
        /\ calls' = Tail(calls) /\ os' = os /\ wait' = wait /\ alive' = alive
    BY DEF IInv, CallsInv, Call, Calling
  <1>2. /\ Tail(calls) \in Seq(CallType) /\ Len(Tail(calls)) = Len(calls) - 1 /\ Len(calls) \in Nat \ {0}
        /\ 1 \in DOMAIN calls /\ Head(calls) = calls[1]
        /\ \A n \in DOMAIN Tail(calls) : n + 1 \in DOMAIN calls /\ Tail(calls)[n] = calls[n + 1]
        /\ Tail(calls) # <<>> => 1 \in DOMAIN Tail(calls) /\ Head(Tail(calls)) = Tail(calls)[1]
    BY <1>1, CallsTail
  <1>3. PICK c : c = Tail(calls)
    BY Zenon
  <1>4. \A n \in DOMAIN c : c[n].slot = Head(calls).slot /\ c[n].slot \in DOMAIN os.fds_
    BY <1>1, <1>2, <1>3 DEF IInv, CallsInv
  <1>5. ~OnEvents(os) => c = <<>>
    <2> SUFFICES ASSUME ~OnEvents(os) PROVE c = <<>>
      OBVIOUS
    <2>1. Len(c) <= 0 /\ c \in Seq(CallType)
      BY <1>2, <1>3 DEF IInv, CallsInv
    <2> HIDE DEF CallType
    <2> QED
      BY <2>1
  <1>6. \/ CalledSink \in alive /\ pc' = "callback" /\ callee' = CalledSink
        \/ pc' = "undefined" /\ callee' = callee
    BY DEF Call
  <1>7. CallsInv'
    <2>1. calls' = c /\ c \in Seq(CallType)
      BY <1>1, <1>2, <1>3
    <2>2. \A n \in DOMAIN c : c[n].slot \in DOMAIN os'.fds_
      BY <1>1, <1>4
    <2>3. \A m, n \in DOMAIN c : c[m].slot = c[n].slot
      BY <1>4
    <2>4. pc' = "callback" /\ c # <<>> => os'.fds_[Head(c).slot].sink = callee'
      <3>1. c # <<>> => Head(c).slot = Head(calls).slot
        BY <1>2, <1>3, <1>4
      <3> QED
        BY <1>1, <1>6, <3>1 DEF CalledSink
    <2>5. ~OnEvents(os') => c = <<>>
      BY <1>1, <1>5
    <2>6. c = <<>> => Len(c) <= 1
      OBVIOUS
    <2>7. pc' \in {"callback", "undefined"}
      BY <1>6
    <2>8. ~OnEvents(os') => Len(c) <= 1
      BY <2>5, <2>6
    <2> HIDE DEF CallType
    <2>9. /\ calls' \in Seq(CallType)
          /\ \A n \in DOMAIN calls' : calls'[n].slot \in DOMAIN os'.fds_
          /\ \A m, n \in DOMAIN calls' : calls'[m].slot = calls'[n].slot
      BY <2>1, <2>2, <2>3
    <2>10. /\ ~OnEvents(os') => Len(calls') <= 1
           /\ ~OnEvents(os') /\ pc' = "callback" => calls' = <<>>
           /\ pc' = "callback" /\ calls' # <<>> => os'.fds_[Head(calls').slot].sink = callee'
      BY <2>1, <2>4, <2>5, <2>8
    <2> QED
      BY <2>7, <2>9, <2>10 DEF CallsInv
  <1>8. callee' \in 1 .. MaxSockets \cup {NULL} /\ (callee' # NULL <=> pc' = "callback")
    <2>1. alive \subseteq 1 .. MaxSockets /\ callee = NULL
      BY <1>1 DEF IInv
    <2>2. 1 .. MaxSockets \subseteq Nat /\ NULL \notin Nat
      BY NetworkAssumption, UserAssumption
    <2> QED
      BY <1>6, <2>1, <2>2
  <1>9. /\ Good(os', alive', {}) /\ DOMAIN os'.socks \subseteq 1 .. MaxSockets
        /\ alive' \subseteq 1 .. MaxSockets /\ wait' \in Handles \cup {NULL}
    BY <1>1 DEF IInv
  <1> QED
    BY <1>6, <1>7, <1>8, <1>9 DEF IInv

\* A sink returns; the calls that are left stay those of its entry.
LEMMA CallbackReturnStep ==
  ASSUME IInv, CallbackReturn
  PROVE  IInv'
  <1>1. /\ pc = "callback" /\ pc' = "dispatch" /\ callee' = NULL /\ os' = os /\ wait' = wait
        /\ calls' = calls /\ alive' = alive
    BY DEF CallbackReturn
  <1>2. CallsInv'
    BY <1>1 DEF IInv, CallsInv
  <1> QED
    BY <1>1, <1>2 DEF IInv

\* Poll goes on to another place, with the calls c to make.
LEMMA PollMoves ==
  ASSUME IInv, alive' = alive, callee' = callee, pc # "callback", pc # "undefined",
         pc' \in {"idle", "peek", "timers", "dispatch"}, wait' \in Handles \cup {NULL},
         Matches(os, alive, os'),
         calls' \in Seq(CallType), \A n \in DOMAIN calls' : calls'[n].slot \in DOMAIN os'.fds_,
         \A m, n \in DOMAIN calls' : calls'[m].slot = calls'[n].slot,
         pc' # "dispatch" => calls' = <<>>,
         ~OnEvents(os) => Len(calls') <= 1
  PROVE  IInv'
  <1>1. /\ Good(os', alive', {}) /\ DOMAIN os'.socks = DOMAIN os.socks /\ os'.poller = os.poller
    BY DEF Matches
  <1>2. OnEvents(os') = OnEvents(os)
    BY <1>1 DEF OnEvents
  <1>3. CallsInv'
    BY <1>2 DEF CallsInv
  <1>4. /\ DOMAIN os'.socks \subseteq 1 .. MaxSockets /\ alive' \subseteq 1 .. MaxSockets
        /\ callee' \in 1 .. MaxSockets \cup {NULL}
        /\ pc' \in {"idle", "peek", "timers", "dispatch", "callback", "undefined"}
    BY <1>1 DEF IInv
  <1>5. callee' # NULL <=> pc' = "callback"
    BY DEF IInv
  <1> QED
    BY <1>1, <1>3, <1>4, <1>5 DEF IInv

\* A step of Poll makes no call: it keeps the registrations, and it does not
\* come from, or go to, a call through a dead entry.
PollKeeps == /\ IInv'
             /\ Pairs(os') = Pairs(os)
             /\ ~ServedIsGone /\ ~ServedIsGone'
             /\ pc # "undefined" /\ pc' # "undefined"

\* The tables do not change, or a call of the system fails.
LEMMA MatchesSame ==
  ASSUME IInv
  PROVE  /\ Matches(os, alive, os)
         /\ \A k \in Faulty(os) : Matches(os, alive, k)
  <1>1. Good(os, alive, {})
    BY DEF IInv
  <1>2. Matches(os, alive, os)
    BY <1>1 DEF Matches
  <1>3. ASSUME NEW k \in Faulty(os) PROVE Matches(os, alive, k)
    BY <1>1, FaultyAlike, AlikeMatches
  <1> QED
    BY <1>2, <1>3

\* A step of Poll after which it has no calls to make.
Resting == /\ pc \in {"idle", "peek", "timers"} \/ (pc = "dispatch" /\ calls = <<>>)
           /\ pc' \in {"idle", "peek", "timers"}
           /\ wait' \in Handles \cup {NULL}
           /\ calls' = calls /\ alive' = alive /\ callee' = callee

\* A step of Poll that leaves no calls to make.
LEMMA PollWithout ==
  ASSUME IInv, Matches(os, alive, os'), Resting
  PROVE  PollKeeps
  <1> USE DEF Resting
  <1>1. calls = <<>>
    BY DEF IInv, CallsInv
  <1>2. IInv'
    <2>1. PICK c : c = calls'
      BY Zenon
    <2>2. c \in Seq(CallType) /\ DOMAIN c = {} /\ Len(c) <= 1 /\ c = <<>>
      <3> HIDE DEF CallType
      <3> QED
        BY <1>1, <2>1
    <2>3. /\ \A n \in DOMAIN c : c[n].slot \in DOMAIN os'.fds_
          /\ \A m, n \in DOMAIN c : c[m].slot = c[n].slot
      BY <2>2
    <2>4. /\ calls' \in Seq(CallType) /\ \A n \in DOMAIN calls' : calls'[n].slot \in DOMAIN os'.fds_
          /\ \A m, n \in DOMAIN calls' : calls'[m].slot = calls'[n].slot
          /\ Len(calls') <= 1 /\ calls' = <<>>
      BY <2>1, <2>2, <2>3, Zenon
    <2> QED
      BY <2>4, PollMoves
  <1>3. ~ServedIsGone /\ ~ServedIsGone'
    BY <1>1 DEF ServedIsGone
  <1> QED
    BY <1>2, <1>3 DEF PollKeeps, Matches

\* Poll of AsyncEventPoller.
LEMMA EventPollStep ==
  ASSUME IInv, OnEvents(os), Event!PollStep, UNCHANGED <<alive, callee>>
  PROVE  PollKeeps
  <1>1. Good(os, alive, {}) /\ wait \in Handles \cup {NULL} /\ alive' = alive /\ callee' = callee
    BY DEF IInv
  <1>2. Event!Faulty(os) = Faulty(os)
    BY SystemOfEvent
  <1>3. ASSUME Event!PollWait PROVE PollKeeps
    <2>1. pc = "idle" /\ pc' = "timers" /\ calls' = calls
      BY <1>3 DEF Event!PollWait
    <2>2. (wait' = Event!FirstSignalled(os) /\ os' = os) \/ (wait' = NULL /\ os' \in Faulty(os))
      BY <1>2, <1>3, Zenon DEF Event!PollWait
    <2>3. Event!FirstSignalled(os) \in Handles \cup {NULL}
      <3>1. PICK T : T = Event!Signalled(os)
        BY Zenon
      <3>2. /\ T \subseteq DOMAIN os.fds_
            /\ \A j \in T : os.fds_[j].hEvent # 0
        BY <3>1 DEF Event!Signalled, Event!WSA_INVALID_EVENT
      <3>3. PICK i : i = Event!FirstOf(T)
        BY Zenon
      <3>4. i = 0 \/ i \in T
        <4>1. CASE T = {}
          BY <3>3, <4>1 DEF Event!FirstOf
        <4>2. CASE T # {}
          <5>1. T \subseteq Nat
            BY <1>1, <3>2, GoodTypes
          <5>2. Event!FirstOf(T) \in T
            BY <4>2, <5>1, FirstPlace
          <5> QED
            BY <3>3, <5>2
        <4> QED
          BY <4>1, <4>2
      <3>5. Event!FirstSignalled(os) = IF i = 0 THEN NULL ELSE os.fds_[i].hEvent
        BY <3>1, <3>3, Zenon DEF Event!FirstSignalled
      <3>6. i \in T => os.fds_[i].hEvent \in Handles
        <4>1. i \in T => os.fds_[i] \in EntryType /\ os.fds_[i].hEvent # 0
          BY <1>1, <3>2, GoodTypes
        <4> QED
          BY <4>1 DEF EntryType, Handles
      <3> QED
        BY <3>4, <3>5, <3>6
    <2>4. Matches(os, alive, os')
      BY <2>2, MatchesSame
    <2>5. wait' \in Handles \cup {NULL}
      BY <2>2, <2>3
    <2>6. Resting
      BY <1>1, <2>1, <2>5 DEF Resting
    <2> QED
      BY <2>4, <2>6, PollWithout
  <1>4. ASSUME Event!PollNothing PROVE PollKeeps
    <2>1. pc = "timers" /\ pc' = "idle" /\ calls' = calls /\ wait' = wait
      BY <1>4 DEF Event!PollNothing
    <2>2. os' = Event!RemoveRetired(os)
      BY <1>4, Zenon DEF Event!PollNothing
    <2>3. Matches(os, alive, os')
      BY <1>1, <2>2, RemoveRetiredGood, Zenon
    <2>4. Resting
      BY <1>1, <2>1 DEF Resting
    <2> QED
      BY <2>3, <2>4, PollWithout
  <1>5. ASSUME Event!PollLost PROVE PollKeeps
    <2>1. pc = "timers" /\ pc' = "idle" /\ calls' = calls /\ wait' = NULL
      BY <1>5 DEF Event!PollLost
    <2>2. PICK c : c = (Event!FindEntryByEvent(os, wait) = 0)
      BY Zenon
    <2>3. os' \in Event!When(c, {os}) \cup Faulty(os)
      BY <1>2, <1>5, <2>2, Zenon DEF Event!PollLost
    <2>4. os' = os \/ os' \in Faulty(os)
      BY <2>3 DEF Event!When
    <2>5. Matches(os, alive, os')
      BY <2>4, MatchesSame
    <2>6. Resting
      BY <1>1, <2>1 DEF Resting
    <2> QED
      BY <2>5, <2>6, PollWithout
  <1>6. ASSUME Event!PollEnumerate PROVE PollKeeps
    <2>1. PICK e, i : e = wait /\ i = Event!FindEntryByEvent(os, e)
      BY Zenon
    <2>2. PICK h : h = os.fds_[i].fd
      BY Zenon
    <2>3. PICK evs : evs = os.socks[h].rec
      BY Zenon
    <2>4. /\ pc = "timers" /\ wait # NULL /\ i # 0 /\ pc' = "dispatch" /\ wait' = NULL
          /\ calls' = Event!HandleEvents(i, evs)
          /\ os' = [os EXCEPT !.socks[h].rec = {}, !.events = Event!With(@, e, FALSE)]
      BY <1>6, <2>1, <2>2, <2>3, Zenon DEF Event!PollEnumerate
    <2>5. i \in Live(os) /\ os.fds_[i].hEvent = e
      <3>1. \/ Event!FindEntryByEvent(os, e) = 0
            \/ \E j \in DOMAIN os.fds_ : j # 0 /\ Event!FindEntryByEvent(os, e) = j /\ os.fds_[j].hEvent = e
        BY <1>1, Found
      <3>2. i \in DOMAIN os.fds_ /\ os.fds_[i].hEvent = e
        BY <2>1, <2>4, <3>1
      <3>3. e # WSA_INVALID_EVENT
        BY <1>1, <2>1, <2>4 DEF Handles, WSA_INVALID_EVENT
      <3> QED
        BY <1>1, <3>2, <3>3 DEF Good, EventInv
    <2>6. Alike(os, alive, os')
      <3>1. PICK g : g = os.fds_[i].hEvent
        BY Zenon
      <3>2. PICK f : f = os.fds_[i].fd
        BY Zenon
      <3>3. Alike(os, alive, [os EXCEPT !.socks[f].rec = {}, !.events = Event!With(@, g, FALSE)])
        BY <1>1, <2>5, <3>1, <3>2, EnumerateGood
      <3>4. f = h /\ g = e
        BY <2>2, <2>5, <3>1, <3>2
      <3> QED
        BY <2>4, <3>3, <3>4, Zenon
    <2>7. Matches(os, alive, os')
      BY <2>6, AlikeMatches
    <2>8. evs \in SUBSET Events /\ i \in Nat /\ i \in DOMAIN os.fds_
      <3>1. h \in DOMAIN os.socks /\ os.socks[h] \in SocketType /\ i \in Nat /\ i \in DOMAIN os.fds_
        BY <1>1, <2>2, <2>5, GoodTypes DEF Live
      <3> QED
        BY <2>3, <3>1 DEF SocketType
    <2>9. PICK c : c = Event!HandleEvents(i, evs)
      BY Zenon
    <2>10. c \in Seq(CallType) /\ \A n \in DOMAIN c : c[n].slot = i
      BY <2>8, <2>9, HandledCalls
    <2>11. calls' = c /\ DOMAIN os'.fds_ = DOMAIN os.fds_ /\ os'.fds_[i].fd = os.fds_[i].fd
      BY <2>4, <2>6, <2>8, <2>9 DEF Alike
    <2>12. IInv'
      <3>1. /\ calls' \in Seq(CallType) /\ \A n \in DOMAIN calls' : calls'[n].slot \in DOMAIN os'.fds_
            /\ \A m, n \in DOMAIN calls' : calls'[m].slot = calls'[n].slot
        BY <2>8, <2>10, <2>11
      <3> QED
        BY <1>1, <2>4, <2>7, <3>1, PollMoves
    <2>13. ~ServedIsGone /\ ~ServedIsGone'
      <3>1. ~ServedIsGone
        BY <2>4 DEF ServedIsGone
      <3>2. c # <<>> => Head(c).slot = i
        BY <2>10, CallsTail
      <3>3. os'.fds_[i].fd # INVALID_SOCKET
        BY <2>5, <2>11 DEF Live
      <3>4. ~ServedIsGone'
        BY <2>11, <3>2, <3>3 DEF ServedIsGone
      <3> QED
        BY <3>1, <3>4
    <2> QED
      BY <2>4, <2>7, <2>12, <2>13 DEF PollKeeps, Matches
  <1>7. ASSUME Event!PollReturns PROVE PollKeeps
    <2>1. pc = "dispatch" /\ calls = <<>> /\ pc' = "idle" /\ os' = os /\ wait' = wait /\ calls' = calls
      BY <1>7 DEF Event!PollReturns
    <2>2. Matches(os, alive, os')
      BY <2>1, MatchesSame
    <2>3. Resting
      BY <1>1, <2>1 DEF Resting
    <2> QED
      BY <2>2, <2>3, PollWithout
  <1> QED
    BY <1>3, <1>4, <1>5, <1>6, <1>7 DEF Event!PollStep

\* Poll of AsyncSelectPoller.
LEMMA MessagePollStep ==
  ASSUME IInv, ~OnEvents(os), Message!PollStep, UNCHANGED <<alive, callee>>
  PROVE  PollKeeps
  <1>1. Good(os, alive, {}) /\ wait \in Handles \cup {NULL} /\ alive' = alive /\ callee' = callee
    BY DEF IInv
  <1>2. ASSUME Message!PollBegin PROVE PollKeeps
    <2>1. Resting /\ os' = os
      BY <1>1, <1>2 DEF Message!PollBegin, Resting
    <2>2. Matches(os, alive, os')
      BY <2>1, MatchesSame
    <2> QED
      BY <2>1, <2>2, PollWithout
  <1>3. ASSUME Message!PollMessage PROVE PollKeeps
    <2>1. PICK m : m = Head(os.queue)
      BY Zenon
    <2>2. PICK i : i = Message!FindEntry(os, m.fd)
      BY Zenon
    <2>3. /\ pc = "peek" /\ os.queue # <<>> /\ i # 0 /\ pc' = "dispatch" /\ wait' = wait
          /\ calls' = <<[slot |-> i, ev |-> m.ev]>>
          /\ os' = [os EXCEPT !.queue = Tail(@)]
      BY <1>3, <2>1, <2>2, Zenon DEF Message!PollMessage, Message!Dequeued
    <2>4. Alike(os, alive, [os EXCEPT !.queue = Tail(@)]) /\ Head(os.queue) \in MessageType
      BY <1>1, <2>3, DequeuedGood
    <2>5. Alike(os, alive, os') /\ m \in MessageType
      BY <2>1, <2>3, <2>4, Zenon
    <2>6. m.fd \in Handles /\ m.ev \in Reported
      BY <2>5 DEF MessageType
    <2>7. i \in Live(os) /\ i \in Nat
      <3>1. PICK f : f = m.fd
        BY Zenon
      <3>2. /\ \/ Event!FindEntry(os, f) = 0
               \/ \E j \in DOMAIN os.fds_ : j # 0 /\ Event!FindEntry(os, f) = j /\ os.fds_[j].fd = f
            /\ Message!FindEntry(os, f) = Event!FindEntry(os, f)
        BY <1>1, Found
      <3>3. i = Event!FindEntry(os, f)
        BY <2>2, <3>1, <3>2, Zenon
      <3>4. i \in DOMAIN os.fds_ /\ os.fds_[i].fd = f
        BY <2>3, <3>2, <3>3
      <3> QED
        BY <1>1, <2>6, <3>1, <3>4, GoodTypes DEF Live, Handles, INVALID_SOCKET
    <2>8. PICK c : c = <<[slot |-> i, ev |-> m.ev]>>
      BY Zenon
    <2>9. c \in Seq(CallType) /\ Len(c) = 1 /\ DOMAIN c = {1} /\ c[1].slot = i /\ Head(c) = c[1] /\ c # <<>>
      <3>1. PICK x : x = [slot |-> i, ev |-> m.ev]
        BY Zenon
      <3>2. x \in CallType /\ x.slot = i
        BY <2>6, <2>7, <3>1 DEF CallType
      <3>3. c = <<x>>
        BY <2>8, <3>1
      <3> HIDE DEF CallType
      <3> QED
        BY <3>2, <3>3
    <2>10. calls' = c
      BY <2>3, <2>8
    <2>11. /\ Matches(os, alive, os') /\ DOMAIN os'.fds_ = DOMAIN os.fds_
           /\ os'.fds_[i].fd = os.fds_[i].fd /\ i \in DOMAIN os.fds_
      BY <2>5, <2>7, AlikeMatches DEF Alike, Live
    <2>12. IInv'
      <3>1. \A n \in DOMAIN c : c[n].slot \in DOMAIN os'.fds_
        BY <2>9, <2>11
      <3>2. \A l, n \in DOMAIN c : c[l].slot = c[n].slot
        BY <2>9
      <3>3. Len(c) <= 1
        BY <2>9
      <3>4. /\ calls' \in Seq(CallType) /\ \A n \in DOMAIN calls' : calls'[n].slot \in DOMAIN os'.fds_
            /\ \A l, n \in DOMAIN calls' : calls'[l].slot = calls'[n].slot
            /\ Len(calls') <= 1
        BY <2>9, <2>10, <3>1, <3>2, <3>3, Zenon
      <3>5. wait' \in Handles \cup {NULL} /\ pc' = "dispatch" /\ pc = "peek"
        BY <1>1, <2>3
      <3> QED
        BY <1>1, <2>11, <3>4, <3>5, PollMoves
    <2>13. ~ServedIsGone /\ ~ServedIsGone'
      <3>1. ~ServedIsGone
        BY <2>3 DEF ServedIsGone
      <3>2. os'.fds_[i].fd # INVALID_SOCKET
        BY <2>7, <2>11 DEF Live
      <3>3. ~ServedIsGone'
        BY <2>9, <2>10, <3>2 DEF ServedIsGone
      <3> QED
        BY <3>1, <3>3
    <2> QED
      BY <2>3, <2>11, <2>12, <2>13 DEF PollKeeps, Matches
  <1>4. ASSUME Message!PollUnknown PROVE PollKeeps
    <2>1. /\ pc = "peek" /\ os.queue # <<>> /\ pc' = pc /\ wait' = wait /\ calls' = calls
          /\ os' = [os EXCEPT !.queue = Tail(@)]
      BY <1>4 DEF Message!PollUnknown, Message!Dequeued, Message!poll
    <2>2. Alike(os, alive, [os EXCEPT !.queue = Tail(@)])
      BY <1>1, <2>1, DequeuedGood
    <2>3. Matches(os, alive, os')
      BY <2>1, <2>2, AlikeMatches, Zenon
    <2>4. Resting
      BY <1>1, <2>1 DEF Resting
    <2> QED
      BY <2>3, <2>4, PollWithout
  <1>5. ASSUME Message!PollNext PROVE PollKeeps
    <2>1. Resting /\ os' = os
      BY <1>1, <1>5 DEF Message!PollNext, Resting
    <2>2. Matches(os, alive, os')
      BY <2>1, MatchesSame
    <2> QED
      BY <2>1, <2>2, PollWithout
  <1>6. ASSUME Message!PollDrained PROVE PollKeeps
    <2>1. Resting /\ os' = os
      BY <1>1, <1>6 DEF Message!PollDrained, Resting
    <2>2. Matches(os, alive, os')
      BY <2>1, MatchesSame
    <2> QED
      BY <2>1, <2>2, PollWithout
  <1>7. ASSUME Message!PollEnd PROVE PollKeeps
    <2>1. Resting /\ os' = Message!RemoveRetired(os)
      BY <1>1, <1>7 DEF Message!PollEnd, Resting
    <2>2. Matches(os, alive, os')
      BY <1>1, <2>1, RemoveRetiredGood, Zenon
    <2> QED
      BY <2>1, <2>2, PollWithout
  <1> QED
    BY <1>2, <1>3, <1>4, <1>5, <1>6, <1>7 DEF Message!PollStep
-----------------------------------------------------------------------------
(* The theorems *)

\* The constructor leaves empty tables.
LEMMA InitIInv == Init => IInv
  <1> SUFFICES ASSUME Init PROVE IInv
    OBVIOUS
  <1>1. PICK type \in Pollers : os = EmptySystem(type)
    BY DEF Init, NetworkInit
  <1>2. pc = "idle" /\ wait = NULL /\ calls = <<>> /\ alive = {} /\ callee = NULL
    BY DEF Init, NetworkInit
  <1>3. /\ os.poller = type /\ os.fds_ = <<>> /\ os.queue = <<>> /\ os.has_retired_ = FALSE
        /\ os.faults = MaxFaults /\ DOMAIN os.socks = {} /\ DOMAIN os.events = {}
        /\ os.socks = [h \in {} |-> NewSocket("conn")] /\ os.events = [e \in {} |-> FALSE]
        /\ DOMAIN os = SystemFields
    BY <1>1 DEF EmptySystem, SystemFields
  <1>4. IsSystem(os)
    BY <1>1 DEF EmptySystem, SystemFields, IsSystem
  <1>5. Types(os)
    <2>1. os.poller \in {"PollerAsyncSelect", "PollerAsyncEvent"} /\ os.has_retired_ \in BOOLEAN
          /\ os.faults \in Nat
      BY <1>3, NetworkAssumption
    <2>2. os.fds_ \in Seq(EntryType) /\ os.queue \in Seq(MessageType)
      <3> HIDE DEF EntryType, MessageType
      <3> QED
        BY <1>3
    <2>3. os.socks \in [{} -> SocketType] /\ os.events \in [{} -> BOOLEAN]
      BY <1>3
    <2>4. IsFiniteSet({})
      BY FS_EmptySet
    <2> QED
      BY <1>3, <2>1, <2>2, <2>3, <2>4 DEF Types
  <1>6. DOMAIN os.fds_ = {} /\ Len(os.fds_) = 0 /\ Live(os) = {}
    BY <1>3 DEF Live
  <1>7. Good(os, alive, {})
    <2>1. Room(os)
      BY <1>6, NetworkAssumption DEF Room
    <2>2. FdsInv(os, {}) /\ SelInv(os) /\ EventInv(os) /\ SinkInv(os, alive)
      BY <1>2, <1>3, <1>6 DEF FdsInv, OneEach, SelInv, EventInv, SinkInv
    <2> QED
      BY <1>4, <1>5, <2>1, <2>2 DEF Good, System
  <1>8. CallsInv
    <2>1. calls \in Seq(CallType) /\ DOMAIN calls = {} /\ Len(calls) <= 1
      <3> HIDE DEF CallType
      <3> QED
        BY <1>2
    <2> QED
      BY <1>2, <2>1 DEF CallsInv
  <1> QED
    BY <1>2, <1>3, <1>7, <1>8 DEF IInv

\* What the steps of user code, Poll and the network keep, in any order.
LEMMA NextIInv == IInv /\ [Next]_vars => IInv'
  <1> SUFFICES ASSUME IInv, [Next]_vars PROVE IInv'
    OBVIOUS
  <1>1. ASSUME UNCHANGED vars PROVE IInv'
    <2>1. /\ os' = os /\ pc' = pc /\ wait' = wait /\ calls' = calls /\ alive' = alive /\ callee' = callee
      BY <1>1 DEF vars, poll
    <2>2. CallsInv'
      BY <2>1 DEF IInv, CallsInv
    <2> QED
      BY <2>1, <2>2 DEF IInv
  <1>2. ASSUME Register PROVE IInv'
    BY <1>2, RegisterStep
  <1>3. ASSUME NEW h \in Registered, h \in DOMAIN os.socks, Unregister(h) \/ ChangeInterest(h) \/ Read(h)
        PROVE  IInv'
    BY <1>3, UnregisterStep, ChangeInterestStep, ReadStep
  <1>4. ASSUME Poll PROVE IInv'
    <2>1. UNCHANGED <<alive, callee>> /\ PollStep
      BY <1>4 DEF Poll
    <2>2. CASE OnEvents(os)
      <3>1. Event!PollStep
        BY <2>1, <2>2 DEF PollStep
      <3> QED
        BY <2>1, <2>2, <3>1, EventPollStep DEF PollKeeps
    <2>3. CASE ~OnEvents(os)
      <3>1. Message!PollStep
        BY <2>1, <2>3 DEF PollStep
      <3> QED
        BY <2>1, <2>3, <3>1, MessagePollStep DEF PollKeeps
    <2> QED
      BY <2>2, <2>3
  <1>5. ASSUME Call PROVE IInv'
    BY <1>5, CallStep
  <1>6. ASSUME CallbackReturn PROVE IInv'
    BY <1>6, CallbackReturnStep
  <1>7. ASSUME NEW h \in DOMAIN os.socks, Network(h) PROVE IInv'
    BY <1>7, NetworkStep
  <1> QED
    BY <1>1, <1>2, <1>3, <1>4, <1>5, <1>6, <1>7 DEF Next, Undefined

\* At every moment, also in the middle of Poll, each socket has one entry with
\* a sink and, on events, an event object of its own, what the system has
\* selected is what the entry says, and the calls that Poll has still to make
\* are through one entry.
THEOREM Invariance == Spec => []IInv
  <1>1. Init => IInv
    BY InitIInv
  <1>2. IInv /\ [Next]_vars => IInv'
    BY NextIInv
  <1> QED
    BY <1>1, <1>2, PTL DEF Spec

\* TypeOK: among it, a socket never holds a report of an event that is not
\* selected, fds_ stays within the limit of the poller, and a call that Poll
\* has still to make is through a slot that exists.
THEOREM TypeCorrect == Spec => []TypeOK
  <1>1. IInv => TypeOK
    <2> SUFFICES ASSUME IInv PROVE TypeOK
      OBVIOUS
    <2>1. \A h \in DOMAIN os.socks : os.socks[h] \in SocketType
      BY GoodTypes DEF IInv
    <2>2. \A h \in DOMAIN os.socks : /\ os.socks[h].rx \in {0, 1}
                                     /\ os.socks[h].rec \cup os.socks[h].told \subseteq os.socks[h].sel
      BY <2>1 DEF SocketType
    <2>3. Len(os.fds_) <= IF OnEvents(os) THEN WSA_MAXIMUM_WAIT_EVENTS ELSE FD_SETSIZE
      BY DEF IInv, Good, Room
    <2>4. wait \in Nat \cup {NULL}
      BY DEF IInv, Handles
    <2> QED
      BY <2>2, <2>3, <2>4 DEF TypeOK, IInv, CallsInv
  <1> QED
    BY <1>1, Invariance, PTL

\* SelectionsMatch: the tables of the poller and the system agree at all
\* times, no event object is leaked and none is shared.
THEOREM SelectionsCorrect == Spec => []SelectionsMatch
  <1>1. IInv => SelectionsMatch
    <2> SUFFICES ASSUME IInv PROVE SelectionsMatch
      OBVIOUS
    <2>1. Good(os, alive, {}) /\ LiveEntries = Live(os)
      BY DEF IInv, LiveEntries, Live
    <2>2. \A i, j \in LiveEntries : os.fds_[i].fd = os.fds_[j].fd => i = j
      BY <2>1 DEF Good, FdsInv, OneEach, LiveEntries
    <2>3. \A i \in LiveEntries :
            /\ os.socks[os.fds_[i].fd].sel = os.fds_[i].lEvents
            /\ os.socks[os.fds_[i].fd].sel # {} => os.socks[os.fds_[i].fd].hEvent = os.fds_[i].hEvent
      BY <2>1 DEF Good, SelInv
    <2>4. DOMAIN os.events = When(OnEvents(os), {os.fds_[i].hEvent : i \in LiveEntries})
      <3>1. CASE OnEvents(os)
        BY <2>1, <3>1 DEF Good, EventInv, When
      <3>2. CASE ~OnEvents(os)
        BY <2>1, <3>2 DEF Good, EventInv, When
      <3> QED
        BY <3>1, <3>2
    <2>5. Cardinality(DOMAIN os.events) = IF OnEvents(os) THEN Cardinality(LiveEntries) ELSE 0
      <3>1. PICK D, L : D = DOMAIN os.events /\ L = LiveEntries
        BY Zenon
      <3>2. CASE ~OnEvents(os)
        <4>1. DOMAIN os.events = {}
          BY <2>4, <3>2 DEF When
        <4> QED
          BY <3>2, <4>1, FS_EmptySet
      <3>3. CASE OnEvents(os)
        <4>1. PICK f : f = [i \in L |-> os.fds_[i].hEvent]
          BY Zenon
        <4>2. f \in Surjection(L, D)
          <5>1. f \in [L -> D]
            BY <2>4, <3>1, <3>3, <4>1 DEF When
          <5>2. \A e \in D : \E i \in L : f[i] = e
            BY <2>4, <3>1, <3>3, <4>1 DEF When
          <5> QED
            BY <5>1, <5>2 DEF Surjection
        <4>3. f \in Injection(L, D)
          <5>1. \A i, j \in L : f[i] = f[j] => i = j
            BY <2>1, <3>1, <3>3, <4>1 DEF Good, EventInv
          <5> QED
            BY <4>2, <5>1 DEF Surjection, Injection, IsInjective
        <4>4. IsFiniteSet(L)
          <5>1. L \in SUBSET (1 .. Len(os.fds_)) /\ Len(os.fds_) \in Nat
            BY <2>1, <3>1, GoodTypes DEF LiveEntries
          <5>2. IsFiniteSet(1 .. Len(os.fds_))
            BY <5>1, FS_Interval
          <5> QED
            BY <5>1, <5>2, FS_Subset
        <4>5. Cardinality(D) = Cardinality(L)
          BY <4>2, <4>3, <4>4, FS_Surjection
        <4> QED
          BY <3>1, <3>3, <4>5
      <3> QED
        BY <3>2, <3>3
    <2> QED
      BY <2>2, <2>3, <2>4, <2>5, Zenon DEF SelectionsMatch
  <1> QED
    BY <1>1, Invariance, PTL
-----------------------------------------------------------------------------
(* The refinement of Reactor *)

Reg == [h \in Registered |-> SinkOf(h)]

\* The registrations, as a function of the record of the system.
RegOf(k) == [h \in {k.fds_[i].fd : i \in Live(k)} |->
               k.fds_[CHOOSE i \in Live(k) : k.fds_[i].fd = h].sink]

\* The registrations the promise sees are a function of the record.
LEMMA RegIsRegOf == Reg = RegOf(os) /\ Reg' = RegOf(os')
  BY Zenon DEF Reg, Registered, SinkOf, RegOf, LiveEntries, Live

Firsts(P) == {p[1] : p \in P}

\* f is the function whose pairs are P.
Holds(f, P) == /\ f = [h \in Firsts(P) |-> f[h]]
               /\ \A p \in P : f[p[1]] = p[2]

\* The registrations are the pairs of the live entries.
LEMMA RegHolds ==
  ASSUME NEW k, NEW A, NEW X, Good(k, A, X)
  PROVE  Holds(RegOf(k), Pairs(k))
  <1>1. PICK f : f = RegOf(k)
    BY Zenon
  <1>2. ASSUME NEW i \in Live(k) PROVE f[k.fds_[i].fd] = k.fds_[i].sink
    <2>1. \A j \in Live(k) : k.fds_[j].fd = k.fds_[i].fd => j = i
      BY DEF Good, FdsInv, OneEach, Live
    <2>2. PICK h : h = k.fds_[i].fd
      BY Zenon
    <2>3. (CHOOSE j \in Live(k) : k.fds_[j].fd = h) = i
      BY <2>1, <2>2
    <2>4. f[h] = k.fds_[CHOOSE j \in Live(k) : k.fds_[j].fd = h].sink
      BY <1>1, <2>2 DEF RegOf
    <2> QED
      BY <2>2, <2>3, <2>4, Zenon
  <1>3. \A p \in Pairs(k) : f[p[1]] = p[2]
    BY <1>2 DEF Pairs
  <1>4. Firsts(Pairs(k)) = {k.fds_[i].fd : i \in Live(k)}
    <2>1. \A i \in Live(k) : k.fds_[i].fd \in Firsts(Pairs(k))
      <3> SUFFICES ASSUME NEW i \in Live(k) PROVE k.fds_[i].fd \in Firsts(Pairs(k))
        OBVIOUS
      <3>1. PICK p : p = <<k.fds_[i].fd, k.fds_[i].sink>>
        BY Zenon
      <3>2. p \in Pairs(k) /\ p[1] = k.fds_[i].fd
        BY <3>1 DEF Pairs
      <3> QED
        BY <3>2, Zenon DEF Firsts
    <2>2. \A h \in Firsts(Pairs(k)) : \E i \in Live(k) : h = k.fds_[i].fd
      BY DEF Pairs, Firsts
    <2> QED
      BY <2>1, <2>2
  <1>5. f = [h \in Firsts(Pairs(k)) |-> f[h]]
    BY <1>1, <1>4 DEF RegOf
  <1> QED
    BY <1>1, <1>3, <1>5, Zenon DEF Holds

\* Pairs determine the function that holds them.
LEMMA HoldsOne ==
  ASSUME NEW f, NEW g, NEW P, Holds(f, P), Holds(g, P)
  PROVE  f = g
  <1>1. PICK D : D = Firsts(P)
    BY Zenon
  <1>2. f = [h \in D |-> f[h]] /\ g = [h \in D |-> g[h]]
    BY <1>1 DEF Holds
  <1>3. \A h \in D : f[h] = g[h]
    BY <1>1 DEF Holds, Firsts
  <1> QED
    BY <1>2, <1>3

\* A registration that is added, and one that is removed.
LEMMA HoldsWith ==
  ASSUME NEW f, NEW P, Holds(f, P), NEW h, NEW s, \A p \in P : p[1] # h
  PROVE  /\ Holds(Promise!With(f, h, s), P \cup {<<h, s>>})
         /\ h \notin DOMAIN f
  <1>1. PICK D, g : D = Firsts(P) /\ g = Promise!With(f, h, s)
    BY Zenon
  <1>2. DOMAIN f = D /\ h \notin D
    <2>1. f = [b \in D |-> f[b]]
      BY <1>1, Zenon DEF Holds
    <2>2. h \notin D
      BY <1>1 DEF Firsts
    <2> QED
      BY <2>1, <2>2
  <1>3. g = [b \in D \cup {h} |-> IF b = h THEN s ELSE f[b]]
    BY <1>1, <1>2 DEF Promise!With
  <1>4. Firsts(P \cup {<<h, s>>}) = D \cup {h}
    <2>1. PICK x : x = <<h, s>>
      BY Zenon
    <2>2. x[1] = h
      BY <2>1
    <2>3. Firsts(P \cup {x}) = D \cup {h}
      <3>1. \A b \in Firsts(P \cup {x}) : b \in D \cup {h}
        BY <1>1, <2>2 DEF Firsts
      <3>2. \A b \in D : b \in Firsts(P \cup {x})
        BY <1>1 DEF Firsts
      <3>3. h \in Firsts(P \cup {x})
        BY <2>2 DEF Firsts
      <3> QED
        BY <3>1, <3>2, <3>3
    <2> QED
      BY <2>1, <2>3, Zenon
  <1>5. g = [b \in Firsts(P \cup {<<h, s>>}) |-> g[b]]
    BY <1>3, <1>4
  <1>6. \A p \in P \cup {<<h, s>>} : g[p[1]] = p[2]
    <2>1. ASSUME NEW p \in P PROVE g[p[1]] = p[2]
      <3>1. p[1] \in D /\ p[1] # h /\ f[p[1]] = p[2]
        BY <1>1 DEF Holds, Firsts
      <3> QED
        BY <1>3, <3>1
    <2>2. g[h] = s
      BY <1>3
    <2> QED
      BY <2>1, <2>2
  <1> QED
    BY <1>1, <1>2, <1>5, <1>6, Zenon DEF Holds

\* What is left when a registration is removed.
LEMMA HoldsWithout ==
  ASSUME NEW f, NEW P, Holds(f, P), NEW h, NEW s, <<h, s>> \in P,
         \A p \in P : p[1] = h => p = <<h, s>>
  PROVE  /\ Holds(Promise!Without(f, h), P \ {<<h, s>>})
         /\ h \in DOMAIN f /\ f[h] = s
  <1>1. PICK D, g : D = Firsts(P) /\ g = Promise!Without(f, h)
    BY Zenon
  <1>2. DOMAIN f = D
    <2>1. f = [b \in D |-> f[b]]
      BY <1>1, Zenon DEF Holds
    <2> QED
      BY <2>1
  <1>3. h \in D /\ f[h] = s
    <2>1. PICK p \in P : p = <<h, s>>
      BY Zenon
    <2>2. p[1] = h /\ p[2] = s
      BY <2>1
    <2>3. p[1] \in D /\ f[p[1]] = p[2]
      BY <1>1 DEF Holds, Firsts
    <2> QED
      BY <2>2, <2>3
  <1>4. g = [b \in D \ {h} |-> f[b]]
    BY <1>1, <1>2 DEF Promise!Without
  <1>5. Firsts(P \ {<<h, s>>}) = D \ {h}
    <2>1. ASSUME NEW b \in D, b # h PROVE b \in Firsts(P \ {<<h, s>>})
      <3>1. PICK p \in P : p[1] = b
        BY <1>1 DEF Firsts
      <3>2. p # <<h, s>>
        BY <2>1, <3>1
      <3> QED
        BY <3>1, <3>2 DEF Firsts
    <2>2. ASSUME NEW p \in P \ {<<h, s>>} PROVE p[1] \in D \ {h}
      BY <1>1, <2>2 DEF Firsts
    <2> QED
      BY <2>1, <2>2 DEF Firsts
  <1>6. g = [b \in Firsts(P \ {<<h, s>>}) |-> g[b]]
    BY <1>4, <1>5
  <1>7. ASSUME NEW p \in P \ {<<h, s>>} PROVE g[p[1]] = p[2]
    <2>1. p[1] \in D \ {h} /\ f[p[1]] = p[2]
      BY <1>1, <1>7 DEF Holds, Firsts
    <2> QED
      BY <1>4, <2>1
  <1> QED
    BY <1>1, <1>2, <1>3, <1>6, <1>7, Zenon DEF Holds

\* Equal pairs are equal registrations.
LEMMA RegSame ==
  ASSUME IInv, IInv', Pairs(os') = Pairs(os)
  PROVE  Reg' = Reg
  <1>1. PICK f, g, P : f = RegOf(os) /\ g = RegOf(os') /\ P = Pairs(os)
    BY Zenon
  <1>2. Holds(RegOf(os), Pairs(os)) /\ Holds(RegOf(os'), Pairs(os'))
    <2>1. Good(os, alive, {}) /\ Good(os', alive', {})
      BY DEF IInv
    <2> QED
      BY <2>1, RegHolds
  <1>3. Holds(f, P) /\ Holds(g, P)
    BY <1>1, <1>2, Zenon
  <1>4. f = g
    BY <1>3, HoldsOne
  <1> QED
    BY <1>1, <1>4, RegIsRegOf, Zenon

\* Whether the descriptor under service is gone depends on its entry only.
LEMMA GoneSame ==
  ASSUME IInv, UNCHANGED poll, \A j \in DOMAIN os.fds_ : os'.fds_[j].fd = os.fds_[j].fd
  PROVE  ServedIsGone' = ServedIsGone
  <1>1. pc' = pc /\ calls' = calls
    BY DEF poll
  <1>2. CASE calls = <<>>
    BY <1>1, <1>2 DEF ServedIsGone
  <1>3. CASE calls # <<>>
    <2>1. Head(calls).slot \in DOMAIN os.fds_
      BY <1>3, CallsTail DEF IInv, CallsInv
    <2>2. PICK j : j = Head(calls).slot
      BY Zenon
    <2>3. os'.fds_[j].fd = os.fds_[j].fd
      BY <2>1, <2>2
    <2> QED
      BY <1>1, <2>2, <2>3 DEF ServedIsGone
  <1> QED
    BY <1>2, <1>3

\* AddFd is a registration of the promise, or fails without effect.
LEMMA RegisterRefines ==
  ASSUME IInv, IInv', Register
  PROVE  Promise!RNext \/ UNCHANGED Promise!rvars
  <1>1. /\ \A j \in DOMAIN os.fds_ : os'.fds_[j].fd = os.fds_[j].fd
        /\ \/ Pairs(os') = Pairs(os)
           \/ \E h, s \in 1 .. MaxSockets : /\ \A p \in Pairs(os) : p[1] # h
                                            /\ Pairs(os') = Pairs(os) \cup {<<h, s>>}
    BY RegisterStep
  <1>2. pc' = pc /\ callee' = callee /\ pc # "undefined" /\ UNCHANGED poll
    BY DEF Register, poll, UserCode
  <1>3. ServedIsGone' = ServedIsGone
    BY <1>1, <1>2, GoneSame
  <1>4. CASE Pairs(os') = Pairs(os)
    <2>1. Reg' = Reg
      BY <1>4, RegSame
    <2> QED
      BY <1>2, <1>3, <2>1 DEF Promise!rvars, Reg
  <1>5. ASSUME NEW h \in 1 .. MaxSockets, NEW s \in 1 .. MaxSockets,
               \A p \in Pairs(os) : p[1] # h, Pairs(os') = Pairs(os) \cup {<<h, s>>}
        PROVE  Promise!RNext
    <2>1. Holds(RegOf(os), Pairs(os)) /\ Holds(RegOf(os'), Pairs(os'))
      <3>1. Good(os, alive, {}) /\ Good(os', alive', {})
        BY DEF IInv
      <3> QED
        BY <3>1, RegHolds
    <2>2. PICK f, g, P, Q : f = RegOf(os) /\ g = RegOf(os') /\ P = Pairs(os) /\ Q = P \cup {<<h, s>>}
      BY Zenon
    <2>3. Holds(f, P) /\ Holds(g, Q) /\ \A p \in P : p[1] # h
      BY <1>5, <2>1, <2>2, Zenon
    <2>4. Holds(Promise!With(f, h, s), Q) /\ h \notin DOMAIN f
      <3>1. Holds(Promise!With(f, h, s), P \cup {<<h, s>>}) /\ h \notin DOMAIN f
        BY <2>3, HoldsWith
      <3> QED
        BY <2>2, <3>1, Zenon
    <2>5. g = Promise!With(f, h, s)
      BY <2>3, <2>4, HoldsOne
    <2>6. h \notin DOMAIN Reg /\ Reg' = Promise!With(Reg, h, s)
      BY <2>2, <2>4, <2>5, RegIsRegOf, Zenon
    <2>7. Promise!Register(h, s)
      BY <1>2, <1>3, <2>6 DEF Promise!Register, Reg
    <2> QED
      BY <1>2, <2>7 DEF Promise!RNext
  <1> QED
    BY <1>1, <1>4, <1>5

\* RemoveFd is a removal of the promise, of the descriptor under service or another.
LEMMA UnregisterRefines ==
  ASSUME IInv, IInv', NEW h \in Registered, Unregister(h)
  PROVE  Promise!RNext
  <1>1. PICK i \in Live(os) : /\ os.fds_[i].fd = h
                              /\ Pairs(os') = Pairs(os) \ {<<h, os.fds_[i].sink>>}
                              /\ os'.fds_[i].fd = INVALID_SOCKET
                              /\ \A j \in DOMAIN os.fds_ \ {i} : os'.fds_[j] = os.fds_[j]
    BY UnregisterStep
  <1>2. PICK s : s = os.fds_[i].sink
    BY Zenon
  <1>3. Good(os, alive, {}) /\ Good(os', alive', {})
    BY DEF IInv
  <1>4. h \in 1 .. MaxSockets
    BY <1>1, <1>3, GoodTypes DEF IInv
  <1>5. /\ h \in DOMAIN Reg /\ Reg[h] = s
        /\ Reg' = Promise!Without(Reg, h)
    <2>1. Holds(RegOf(os), Pairs(os)) /\ Holds(RegOf(os'), Pairs(os'))
      BY <1>3, RegHolds
    <2>2. PICK f, g, P, Q : f = RegOf(os) /\ g = RegOf(os') /\ P = Pairs(os) /\ Q = P \ {<<h, s>>}
      BY Zenon
    <2>3. Holds(f, P) /\ Holds(g, Q)
      BY <1>1, <1>2, <2>1, <2>2, Zenon
    <2>4. <<h, s>> \in P /\ \A p \in P : p[1] = h => p = <<h, s>>
      <3>1. <<h, s>> \in P
        BY <1>1, <1>2, <2>2 DEF Pairs
      <3>2. ASSUME NEW j \in Live(os), os.fds_[j].fd = h PROVE j = i
        BY <1>1, <1>3, <3>2 DEF Good, FdsInv, OneEach, Live
      <3>3. \A p \in P : p[1] = h => p = <<h, s>>
        BY <1>2, <2>2, <3>2 DEF Pairs
      <3> QED
        BY <3>1, <3>3
    <2>5. Holds(Promise!Without(f, h), Q) /\ h \in DOMAIN f /\ f[h] = s
      <3>1. Holds(Promise!Without(f, h), P \ {<<h, s>>}) /\ h \in DOMAIN f /\ f[h] = s
        BY <2>3, <2>4, HoldsWithout
      <3> QED
        BY <2>2, <3>1, Zenon
    <2>6. g = Promise!Without(f, h)
      BY <2>3, <2>5, HoldsOne
    <2> QED
      BY <2>2, <2>5, <2>6, RegIsRegOf, Zenon
  <1>6. pc' = pc /\ calls' = calls /\ callee' = callee /\ pc # "undefined" /\ pc # "dispatch"
    BY DEF Unregister, poll, UserCode
  <1>7. ServedIsGone' = ServedIsGone \/ ServedIsGone' = (callee = Reg[h])
    <2>1. CASE calls = <<>> \/ pc # "callback"
      BY <1>6, <2>1 DEF ServedIsGone
    <2>2. CASE calls # <<>> /\ pc = "callback"
      <3>1. PICK j : j = Head(calls).slot
        BY Zenon
      <3>2. j \in DOMAIN os.fds_ /\ os.fds_[j].sink = callee
        BY <2>2, <3>1, CallsTail DEF IInv, CallsInv
      <3>3. CASE j = i
        <4>1. ServedIsGone' = TRUE
          BY <1>1, <1>6, <2>2, <3>1, <3>3 DEF ServedIsGone
        <4>2. (callee = Reg[h]) = TRUE
          BY <1>2, <1>5, <3>2, <3>3
        <4> QED
          BY <4>1, <4>2
      <3>4. CASE j # i
        <4>1. os'.fds_[j] = os.fds_[j]
          BY <1>1, <3>2, <3>4
        <4> QED
          BY <1>6, <2>2, <3>1, <4>1 DEF ServedIsGone
      <3> QED
        BY <3>3, <3>4
    <2> QED
      BY <2>1, <2>2
  <1>8. Promise!Unregister(h)
    BY <1>5, <1>6, <1>7 DEF Promise!Unregister, Reg
  <1> QED
    BY <1>4, <1>6, <1>8 DEF Promise!RNext

\* A call through a live entry is to a sink that is registered; a call through
\* a retired one can only be the one the promise excepts.
LEMMA CallRefines ==
  ASSUME IInv, IInv', Call
  PROVE  Promise!RNext
  <1>1. /\ calls \in Seq(CallType) /\ calls # <<>> /\ pc = "dispatch"
        /\ calls' = Tail(calls) /\ os' = os /\ alive' = alive
    BY DEF IInv, CallsInv, Call, Calling
  <1>2. PICK j : j = Head(calls).slot
    BY Zenon
  <1>3. /\ j \in DOMAIN os.fds_
        /\ calls' # <<>> => Head(calls').slot = j
    <2>1. /\ 1 \in DOMAIN calls /\ Head(calls) = calls[1]
          /\ \A n \in DOMAIN Tail(calls) : n + 1 \in DOMAIN calls /\ Tail(calls)[n] = calls[n + 1]
          /\ Tail(calls) # <<>> => 1 \in DOMAIN Tail(calls) /\ Head(Tail(calls)) = Tail(calls)[1]
      BY <1>1, CallsTail
    <2>2. \A m, n \in DOMAIN calls : calls[m].slot = calls[n].slot
      BY DEF IInv, CallsInv
    <2>3. j \in DOMAIN os.fds_
      BY <1>2, <2>1 DEF IInv, CallsInv
    <2> QED
      BY <1>1, <1>2, <2>1, <2>2, <2>3
  <1>4. Reg' = Reg
    <2>1. Pairs(os') = Pairs(os)
      BY <1>1
    <2> QED
      BY <2>1, RegSame
  <1>5. ServedIsGone <=> os.fds_[j].fd = INVALID_SOCKET
    BY <1>1, <1>2 DEF ServedIsGone
  <1>6. callee = NULL /\ pc # "undefined" /\ CalledSink = os.fds_[j].sink
    BY <1>1, <1>2 DEF IInv, CalledSink
  <1>7. Good(os, alive, {}) /\ alive \subseteq 1 .. MaxSockets
    BY DEF IInv
  <1>8. CASE CalledSink \in alive
    <2>1. callee' = CalledSink /\ pc' = "callback"
      BY <1>8 DEF Call
    <2>2. PICK i \in Live(os) : os.fds_[i].sink = CalledSink
      BY <1>7, <1>8 DEF Good, SinkInv
    <2>3. os.fds_[i].fd \in DOMAIN Reg /\ Reg[os.fds_[i].fd] = CalledSink
      <3>1. os.fds_[i].fd \in Registered
        BY DEF Registered, LiveEntries, Live
      <3>2. SinkOf(os.fds_[i].fd) = os.fds_[i].sink
        BY <1>7, SinkOfIs
      <3> QED
        BY <2>2, <3>1, <3>2 DEF Reg
    <2>4. ServedIsGone' = ServedIsGone \/ ServedIsGone' = FALSE
      <3>1. CASE calls' = <<>>
        BY <3>1 DEF ServedIsGone
      <3>2. CASE calls' # <<>>
        <4>1. Head(calls').slot = j
          BY <1>3, <3>2
        <4>2. ServedIsGone' <=> os.fds_[j].fd = INVALID_SOCKET
          BY <1>1, <2>1, <3>2, <4>1 DEF ServedIsGone
        <4> QED
          BY <1>5, <4>2
      <3> QED
        BY <3>1, <3>2
    <2>5. Promise!Call(callee')
      BY <1>4, <1>6, <2>1, <2>3, <2>4 DEF Promise!Call, Reg
    <2>6. callee' \in 1 .. MaxSockets
      BY <1>7, <1>8, <2>1
    <2> QED
      BY <1>6, <2>1, <2>5, <2>6 DEF Promise!RNext
  <1>9. CASE CalledSink \notin alive
    <2>1. callee' = callee /\ pc' = "undefined"
      BY <1>9 DEF Call
    <2>2. ServedIsGone
      <3>1. j \notin Live(os)
        BY <1>6, <1>7, <1>9 DEF Good, SinkInv
      <3> QED
        BY <1>3, <1>5, <3>1 DEF Live
    <2>3. ServedIsGone' = FALSE
      BY <2>1 DEF ServedIsGone
    <2>4. Promise!Misfire
      BY <1>4, <1>6, <2>1, <2>2, <2>3 DEF Promise!Misfire, Reg
    <2> QED
      BY <1>6, <2>4 DEF Promise!RNext
  <1> QED
    BY <1>8, <1>9

\* Every step is one of the promise, or changes nothing that it sees.
LEMMA StepRefines == IInv /\ IInv' /\ [Next]_vars => [Promise!RNext]_(Promise!rvars)
  <1> SUFFICES ASSUME IInv, IInv', [Next]_vars PROVE Promise!RNext \/ UNCHANGED Promise!rvars
    OBVIOUS
  \* Steps of the user, the network and Poll between the calls.
  <1>0. ASSUME Steady, UNCHANGED <<poll, callee>> PROVE UNCHANGED Promise!rvars
    <2>1. Reg' = Reg
      BY <1>0, RegSame DEF Steady
    <2>2. ServedIsGone' = ServedIsGone
      BY <1>0, GoneSame DEF Steady
    <2>3. pc' = pc /\ callee' = callee
      BY <1>0 DEF poll
    <2> QED
      BY <2>1, <2>2, <2>3 DEF Promise!rvars, Reg
  <1>1. ASSUME UNCHANGED vars PROVE UNCHANGED Promise!rvars
    <2>1. UNCHANGED <<poll, callee>> /\ os' = os
      BY <1>1 DEF vars
    <2>2. Steady
      BY <2>1 DEF Steady
    <2> QED
      BY <1>0, <2>1, <2>2
  <1>2. ASSUME NEW h \in Registered, h \in DOMAIN os.socks, ChangeInterest(h) \/ Read(h)
        PROVE  UNCHANGED Promise!rvars
    <2>1. Steady
      BY <1>2, ChangeInterestStep, ReadStep
    <2>2. UNCHANGED <<poll, callee>>
      BY <1>2 DEF ChangeInterest, Read
    <2> QED
      BY <1>0, <2>1, <2>2
  <1>3. ASSUME NEW h \in DOMAIN os.socks, Network(h) PROVE UNCHANGED Promise!rvars
    <2>1. Steady
      BY <1>3, NetworkStep
    <2>2. UNCHANGED <<poll, callee>>
      BY <1>3 DEF Network
    <2> QED
      BY <1>0, <2>1, <2>2
  <1>4. ASSUME Poll PROVE UNCHANGED Promise!rvars
    <2>1. UNCHANGED <<alive, callee>> /\ PollStep
      BY <1>4 DEF Poll
    <2>2. PollKeeps
      <3>1. CASE OnEvents(os)
        <4>1. Event!PollStep
          BY <2>1, <3>1 DEF PollStep
        <4> QED
          BY <2>1, <3>1, <4>1, EventPollStep
      <3>2. CASE ~OnEvents(os)
        <4>1. Message!PollStep
          BY <2>1, <3>2 DEF PollStep
        <4> QED
          BY <2>1, <3>2, <4>1, MessagePollStep
      <3> QED
        BY <3>1, <3>2
    <2>3. Reg' = Reg
      BY <2>2, RegSame DEF PollKeeps
    <2>4. ServedIsGone' = ServedIsGone
      <3>1. PICK b : b = ServedIsGone
        BY Zenon
      <3> QED
        BY <2>2 DEF PollKeeps, ServedIsGone
    <2>5. callee' = callee /\ pc # "undefined" /\ pc' # "undefined"
      BY <2>1, <2>2 DEF PollKeeps
    <2> QED
      BY <2>3, <2>4, <2>5 DEF Promise!rvars, Reg
  <1>5. ASSUME CallbackReturn PROVE Promise!RNext
    <2>1. /\ pc = "callback" /\ pc' = "dispatch" /\ callee' = NULL /\ callee # NULL /\ os' = os
          /\ calls' = calls
      BY <1>5 DEF CallbackReturn, IInv
    <2>2. Reg' = Reg
      <3>1. Pairs(os') = Pairs(os)
        BY <2>1
      <3> QED
        BY <3>1, RegSame
    <2>3. ServedIsGone' = ServedIsGone
      BY <2>1 DEF ServedIsGone
    <2>4. Promise!Return
      BY <2>1, <2>2, <2>3 DEF Promise!Return, Reg
    <2> QED
      BY <2>1, <2>4 DEF Promise!RNext
  <1> QED
    BY <1>1, <1>2, <1>3, <1>4, <1>5, RegisterRefines, UnregisterRefines, CallRefines DEF Next, Undefined

\* An empty poller has no registrations.
LEMMA InitRefines == Init => Promise!RInit
  <1> SUFFICES ASSUME Init PROVE Promise!RInit
    OBVIOUS
  <1>1. PICK type \in Pollers : os = EmptySystem(type)
    BY DEF Init, NetworkInit
  <1>2. pc = "idle" /\ callee = NULL
    BY DEF Init, NetworkInit
  <1>3. os.fds_ = <<>>
    BY <1>1 DEF EmptySystem
  <1>4. Registered = {}
    BY <1>3 DEF Registered, LiveEntries
  <1>5. Reg = [h \in {} |-> NULL]
    BY <1>4 DEF Reg
  <1>6. ServedIsGone = FALSE
    BY <1>2 DEF ServedIsGone
  <1> QED
    BY <1>2, <1>5, <1>6 DEF Promise!RInit, Reg

\* Both pollers implement the promise of Reactor: no sink is called that is not
\* registered, except through the entry of the descriptor whose own callback
\* removed it.
THEOREM Refinement == Spec => ImplementsReactor
  <1>1. Init => Promise!RInit
    BY InitRefines
  <1>2. IInv /\ IInv' /\ [Next]_vars => [Promise!RNext]_(Promise!rvars)
    BY StepRefines
  <1> QED
    BY <1>1, <1>2, Invariance, PTL DEF Spec, ImplementsReactor, Promise!RSpec
=============================================================================
