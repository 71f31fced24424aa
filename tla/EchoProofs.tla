----------------------------- MODULE EchoProofs -----------------------------
(***************************************************************************)
(* Proofs about Echo, for any number of clients, messages and addresses,   *)
(* any limits of the pollers and both programs.                            *)
(*                                                                         *)
(* Of the poller they need only that it does not lose entries: a step that *)
(* is not the removal of a socket keeps each pair of a socket and a sink   *)
(* registered.  The server and the client have pollers of their own, as    *)
(* instances; the first part shows that they are the one of this module.   *)
(***************************************************************************)
EXTENDS Echo, TablesProofs

Events  == {"FD_READ", "FD_CLOSE", "FD_ACCEPT", "FD_WRITE", "FD_CONNECT"}
Handles == Nat \ {0}
Kinds   == {"listen", "connecting", "conn", "self", "refused"}

SocketType == [kind : Kinds, rx : Nat, fin : BOOLEAN, sent : Nat, got : Nat, sel : SUBSET Events,
               hEvent : Nat, told : SUBSET Events, rec : SUBSET Events]
EntryType  == [fd : Nat \cup {INVALID_SOCKET}, hEvent : Nat, lEvents : SUBSET Events,
               sink : Nat \cup {NULL}]
ConnType   == [fd_ : Nat \cup {INVALID_SOCKET}, recv_count_ : Nat]

SystemFields == {"poller", "socks", "events", "queue", "fds_", "has_retired_", "faults"}
ServerFields == {"sys", "aborted", "acceptor_", "conns", "connections_"}
ClientFields == {"sys", "aborted", "fd_", "sent_count_", "buf_", "timers", "chains"}

IsRecord(k, F) == k = [x \in F |-> k[x]]

Room(k) == Len(k.fds_) <= IF OnEvents(k) THEN WSA_MAXIMUM_WAIT_EVENTS ELSE FD_SETSIZE

System(k) == /\ IsRecord(k, SystemFields)
             /\ DOMAIN k.socks \subseteq Handles /\ IsFiniteSet(DOMAIN k.socks)
             /\ \A h \in DOMAIN k.socks : k.socks[h] \in SocketType
             /\ IsFiniteSet(DOMAIN k.events)
             /\ k.fds_ \in Seq(EntryType)
             /\ k.faults \in Nat
             /\ Room(k)

\* The poller has an entry for the socket fd with the sink s.
HasEntry(k, fd, s) == \E i \in DOMAIN k.fds_ : k.fds_[i].fd = fd /\ k.fds_[i].sink = s

\* The tables of the server w fit each other and the state k of the system and
\* the poller.  The connections in X are not in the table.
Table(k, w, X) ==
  /\ DOMAIN w.conns \subseteq Handles /\ IsFiniteSet(DOMAIN w.conns)
  /\ \A id \in DOMAIN w.conns : w.conns[id] \in ConnType
  /\ \A fd \in DOMAIN w.connections_ :
       /\ w.connections_[fd] \in DOMAIN w.conns \ X
       /\ fd \in Conns(k) /\ HasEntry(k, fd, w.connections_[fd])
       /\ w.conns[w.connections_[fd]].fd_ \in {fd, INVALID_SOCKET}
  /\ \A id \in DOMAIN w.conns \ X : \E fd \in DOMAIN w.connections_ : w.connections_[fd] = id
  /\ \A f, g \in DOMAIN w.connections_ : w.connections_[f] = w.connections_[g] => f = g

\* The connections that are open, but for those in X, have receives left.
Counts(w, X) == \A id \in DOMAIN w.conns \ X :
                  w.conns[id].fd_ # INVALID_SOCKET => w.conns[id].recv_count_ < MAX_RECV_COUNT

\* A timer that fires when all is sent is not set again.
ClientInv(w) ==
  /\ w.sent_count_ \in Nat /\ w.timers \in Nat /\ w.chains \in Nat /\ w.buf_ \in Nat
  /\ w.timers <= w.chains
  /\ w.sent_count_ >= MAX_SEND_COUNT => w.sent_count_ + w.timers < MAX_SEND_COUNT + w.chains

ServerInv == IsServer /\ pc # "stopped" =>
               IsRecord(app, ServerFields) /\ Table(os, app, {}) /\ Counts(app, {})
RunsClient == ~IsServer => IsRecord(app, ClientFields) /\ ClientInv(app) /\ due \in 0 .. app.timers
NoTimers == IsServer => due = 0

PCs == {"idle", "peek", "timers", "dispatch", "aborted", "undefined", "stopped"}

IInv == /\ System(os)
        /\ pc \in PCs
        /\ role \in {"server", "client"}
        /\ connects \in 0 .. MaxConns
        /\ ServerInv
        /\ RunsClient
        /\ NoTimers
-----------------------------------------------------------------------------
(* The instances. *)

\* Report, with the messages it posts as a parameter.
Marked(s, news, on) == [s EXCEPT !.told = @ \cup news, !.rec = IF on THEN @ \cup news ELSE @]

ReportWith(k, h, news, messages) ==
  [k EXCEPT !.socks[h] = Marked(k.socks[h], news, OnEvents(k)),
            !.events = IF OnEvents(k) /\ news # {} THEN With(@, k.socks[h].hEvent, TRUE) ELSE @,
            !.queue  = IF OnEvents(k) THEN @ ELSE @ \o messages]

\* Reports and selections of AsyncEventPoller.
LEMMA EventReports == ASSUME NEW k, NEW h
                      PROVE  /\ \A evs : Event!Report(k, h, evs) = Report(k, h, evs)
                             /\ \A e, mask : Event!Select(k, h, e, mask) = Select(k, h, e, mask)
  <1>1. ASSUME NEW j, NEW evs PROVE Event!Report(j, h, evs) = Report(j, h, evs)
    <2> DEFINE news == (evs \cap j.socks[h].sel) \ j.socks[h].told
    <2>1. Event!InOrder(news) = InOrder(news)
      BY Zenon DEF Event!InOrder, InOrder, Event!EventOrder, EventOrder
    <2>2. Event!Cardinality(news) = Cardinality(news)
      BY Zenon DEF Event!Cardinality, Cardinality
    <2>3. Event!Messages(h, news) = Messages(h, news)
      BY <2>1, <2>2, Zenon DEF Event!Messages, Messages
    <2>4. Report(j, h, evs) = ReportWith(j, h, news, Messages(h, news))
      BY Zenon DEF Report, ReportWith, Marked
    <2>5. Event!Report(j, h, evs) = ReportWith(j, h, news, Event!Messages(h, news))
      BY Zenon DEF Event!Report, ReportWith, Marked, Event!OnEvents, OnEvents, Event!With, With
    <2> QED
      BY <2>3, <2>4, <2>5, Zenon
  <1>2. ASSUME NEW e, NEW mask PROVE Event!Select(k, h, e, mask) = Select(k, h, e, mask)
    <2> DEFINE s == [k.socks[h] EXCEPT !.sel = mask, !.hEvent = e, !.told = {}, !.rec = {}]
               j == [k EXCEPT !.socks[h] = s]
    <2>1. Event!Conditions(s) = Conditions(s)
      BY Zenon DEF Event!Conditions, Conditions, Event!When, When, Event!IsConnected, IsConnected
    <2>2. Select(k, h, e, mask) = IF IsOpen(k, h) THEN Report(j, h, Conditions(s)) ELSE k
      BY Zenon DEF Select
    <2>3. Event!Select(k, h, e, mask)
            = IF IsOpen(k, h) THEN Event!Report(j, h, Event!Conditions(s)) ELSE k
      BY Zenon DEF Event!Select, Event!IsOpen, IsOpen
    <2> HIDE DEF s, j
    <2>4. Event!Report(j, h, Conditions(s)) = Report(j, h, Conditions(s))
      BY <1>1
    <2> QED
      BY <2>1, <2>2, <2>3, <2>4, Zenon
  <1> QED
    BY <1>1, <1>2

\* Reports and selections of AsyncSelectPoller.
LEMMA MessageReports == ASSUME NEW k, NEW h
                        PROVE  /\ \A evs : Message!Report(k, h, evs) = Report(k, h, evs)
                               /\ \A e, mask : Message!Select(k, h, e, mask) = Select(k, h, e, mask)
  <1>1. ASSUME NEW j, NEW evs PROVE Message!Report(j, h, evs) = Report(j, h, evs)
    <2> DEFINE news == (evs \cap j.socks[h].sel) \ j.socks[h].told
    <2>1. Message!InOrder(news) = InOrder(news)
      BY Zenon DEF Message!InOrder, InOrder, Message!EventOrder, EventOrder
    <2>2. Message!Cardinality(news) = Cardinality(news)
      BY Zenon DEF Message!Cardinality, Cardinality
    <2>3. Message!Messages(h, news) = Messages(h, news)
      BY <2>1, <2>2, Zenon DEF Message!Messages, Messages
    <2>4. Report(j, h, evs) = ReportWith(j, h, news, Messages(h, news))
      BY Zenon DEF Report, ReportWith, Marked
    <2>5. Message!Report(j, h, evs) = ReportWith(j, h, news, Message!Messages(h, news))
      BY Zenon DEF Message!Report, ReportWith, Marked, Message!OnEvents, OnEvents, Message!With, With
    <2> QED
      BY <2>3, <2>4, <2>5, Zenon
  <1>2. ASSUME NEW e, NEW mask PROVE Message!Select(k, h, e, mask) = Select(k, h, e, mask)
    <2> DEFINE s == [k.socks[h] EXCEPT !.sel = mask, !.hEvent = e, !.told = {}, !.rec = {}]
               j == [k EXCEPT !.socks[h] = s]
    <2>1. Message!Conditions(s) = Conditions(s)
      BY Zenon DEF Message!Conditions, Conditions, Message!When, When, Message!IsConnected,
         IsConnected
    <2>2. Select(k, h, e, mask) = IF IsOpen(k, h) THEN Report(j, h, Conditions(s)) ELSE k
      BY Zenon DEF Select
    <2>3. Message!Select(k, h, e, mask)
            = IF IsOpen(k, h) THEN Message!Report(j, h, Message!Conditions(s)) ELSE k
      BY Zenon DEF Message!Select, Message!IsOpen, IsOpen
    <2> HIDE DEF s, j
    <2>4. Message!Report(j, h, Conditions(s)) = Report(j, h, Conditions(s))
      BY <1>1
    <2> QED
      BY <2>1, <2>2, <2>3, <2>4, Zenon
  <1> QED
    BY <1>1, <1>2

\* Reports and selections of EchoServer.
LEMMA ServerReports == ASSUME NEW k, NEW h
                       PROVE  /\ \A evs : Server!Report(k, h, evs) = Report(k, h, evs)
                              /\ \A e, mask : Server!Select(k, h, e, mask) = Select(k, h, e, mask)
  <1>1. ASSUME NEW j, NEW evs PROVE Server!Report(j, h, evs) = Report(j, h, evs)
    <2> DEFINE news == (evs \cap j.socks[h].sel) \ j.socks[h].told
    <2>1. Server!InOrder(news) = InOrder(news)
      BY Zenon DEF Server!InOrder, InOrder, Server!EventOrder, EventOrder
    <2>2. Server!Cardinality(news) = Cardinality(news)
      BY Zenon DEF Server!Cardinality, Cardinality
    <2>3. Server!Messages(h, news) = Messages(h, news)
      BY <2>1, <2>2, Zenon DEF Server!Messages, Messages
    <2>4. Report(j, h, evs) = ReportWith(j, h, news, Messages(h, news))
      BY Zenon DEF Report, ReportWith, Marked
    <2>5. Server!Report(j, h, evs) = ReportWith(j, h, news, Server!Messages(h, news))
      BY Zenon DEF Server!Report, ReportWith, Marked, Server!OnEvents, OnEvents, Server!With, With
    <2> QED
      BY <2>3, <2>4, <2>5, Zenon
  <1>2. ASSUME NEW e, NEW mask PROVE Server!Select(k, h, e, mask) = Select(k, h, e, mask)
    <2> DEFINE s == [k.socks[h] EXCEPT !.sel = mask, !.hEvent = e, !.told = {}, !.rec = {}]
               j == [k EXCEPT !.socks[h] = s]
    <2>1. Server!Conditions(s) = Conditions(s)
      BY Zenon DEF Server!Conditions, Conditions, Server!When, When, Server!IsConnected, IsConnected
    <2>2. Select(k, h, e, mask) = IF IsOpen(k, h) THEN Report(j, h, Conditions(s)) ELSE k
      BY Zenon DEF Select
    <2>3. Server!Select(k, h, e, mask)
            = IF IsOpen(k, h) THEN Server!Report(j, h, Server!Conditions(s)) ELSE k
      BY Zenon DEF Server!Select, Server!IsOpen, IsOpen
    <2> HIDE DEF s, j
    <2>4. Server!Report(j, h, Conditions(s)) = Report(j, h, Conditions(s))
      BY <1>1
    <2> QED
      BY <2>1, <2>2, <2>3, <2>4, Zenon
  <1> QED
    BY <1>1, <1>2

\* Reports and selections of EchoClient.
LEMMA ClientReports == ASSUME NEW k, NEW h
                       PROVE  /\ \A evs : Client!Report(k, h, evs) = Report(k, h, evs)
                              /\ \A e, mask : Client!Select(k, h, e, mask) = Select(k, h, e, mask)
  <1>1. ASSUME NEW j, NEW evs PROVE Client!Report(j, h, evs) = Report(j, h, evs)
    <2> DEFINE news == (evs \cap j.socks[h].sel) \ j.socks[h].told
    <2>1. Client!InOrder(news) = InOrder(news)
      BY Zenon DEF Client!InOrder, InOrder, Client!EventOrder, EventOrder
    <2>2. Client!Cardinality(news) = Cardinality(news)
      BY Zenon DEF Client!Cardinality, Cardinality
    <2>3. Client!Messages(h, news) = Messages(h, news)
      BY <2>1, <2>2, Zenon DEF Client!Messages, Messages
    <2>4. Report(j, h, evs) = ReportWith(j, h, news, Messages(h, news))
      BY Zenon DEF Report, ReportWith, Marked
    <2>5. Client!Report(j, h, evs) = ReportWith(j, h, news, Client!Messages(h, news))
      BY Zenon DEF Client!Report, ReportWith, Marked, Client!OnEvents, OnEvents, Client!With, With
    <2> QED
      BY <2>3, <2>4, <2>5, Zenon
  <1>2. ASSUME NEW e, NEW mask PROVE Client!Select(k, h, e, mask) = Select(k, h, e, mask)
    <2> DEFINE s == [k.socks[h] EXCEPT !.sel = mask, !.hEvent = e, !.told = {}, !.rec = {}]
               j == [k EXCEPT !.socks[h] = s]
    <2>1. Client!Conditions(s) = Conditions(s)
      BY Zenon DEF Client!Conditions, Conditions, Client!When, When, Client!IsConnected, IsConnected
    <2>2. Select(k, h, e, mask) = IF IsOpen(k, h) THEN Report(j, h, Conditions(s)) ELSE k
      BY Zenon DEF Select
    <2>3. Client!Select(k, h, e, mask)
            = IF IsOpen(k, h) THEN Client!Report(j, h, Client!Conditions(s)) ELSE k
      BY Zenon DEF Client!Select, Client!IsOpen, IsOpen
    <2> HIDE DEF s, j
    <2>4. Client!Report(j, h, Conditions(s)) = Report(j, h, Conditions(s))
      BY <1>1
    <2> QED
      BY <2>1, <2>2, <2>3, <2>4, Zenon
  <1> QED
    BY <1>1, <1>2

\* Reports and selections of AsyncEventPoller in EchoServer.
LEMMA ServerEventReports == ASSUME NEW k, NEW h
                            PROVE  /\ \A evs : Server!Event!Report(k, h, evs) = Report(k, h, evs)
                                   /\ \A e, mask : Server!Event!Select(k, h, e, mask) = Select(k, h, e, mask)
  <1>1. ASSUME NEW j, NEW evs PROVE Server!Event!Report(j, h, evs) = Report(j, h, evs)
    <2> DEFINE news == (evs \cap j.socks[h].sel) \ j.socks[h].told
    <2>1. Server!Event!InOrder(news) = InOrder(news)
      BY Zenon DEF Server!Event!InOrder, InOrder, Server!Event!EventOrder, EventOrder
    <2>2. Server!Event!Cardinality(news) = Cardinality(news)
      BY Zenon DEF Server!Event!Cardinality, Cardinality
    <2>3. Server!Event!Messages(h, news) = Messages(h, news)
      BY <2>1, <2>2, Zenon DEF Server!Event!Messages, Messages
    <2>4. Report(j, h, evs) = ReportWith(j, h, news, Messages(h, news))
      BY Zenon DEF Report, ReportWith, Marked
    <2>5. Server!Event!Report(j, h, evs) = ReportWith(j, h, news, Server!Event!Messages(h, news))
      BY Zenon DEF Server!Event!Report, ReportWith, Marked, Server!Event!OnEvents, OnEvents,
         Server!Event!With, With
    <2> QED
      BY <2>3, <2>4, <2>5, Zenon
  <1>2. ASSUME NEW e, NEW mask PROVE Server!Event!Select(k, h, e, mask) = Select(k, h, e, mask)
    <2> DEFINE s == [k.socks[h] EXCEPT !.sel = mask, !.hEvent = e, !.told = {}, !.rec = {}]
               j == [k EXCEPT !.socks[h] = s]
    <2>1. Server!Event!Conditions(s) = Conditions(s)
      BY Zenon DEF Server!Event!Conditions, Conditions, Server!Event!When, When,
         Server!Event!IsConnected, IsConnected
    <2>2. Select(k, h, e, mask) = IF IsOpen(k, h) THEN Report(j, h, Conditions(s)) ELSE k
      BY Zenon DEF Select
    <2>3. Server!Event!Select(k, h, e, mask)
            = IF IsOpen(k, h) THEN Server!Event!Report(j, h, Server!Event!Conditions(s)) ELSE k
      BY Zenon DEF Server!Event!Select, Server!Event!IsOpen, IsOpen
    <2> HIDE DEF s, j
    <2>4. Server!Event!Report(j, h, Conditions(s)) = Report(j, h, Conditions(s))
      BY <1>1
    <2> QED
      BY <2>1, <2>2, <2>3, <2>4, Zenon
  <1> QED
    BY <1>1, <1>2

\* Reports and selections of AsyncSelectPoller in EchoServer.
LEMMA ServerMessageReports == ASSUME NEW k, NEW h
                              PROVE  /\ \A evs : Server!Message!Report(k, h, evs) = Report(k, h, evs)
                                     /\ \A e, mask : Server!Message!Select(k, h, e, mask) = Select(k, h, e, mask)
  <1>1. ASSUME NEW j, NEW evs PROVE Server!Message!Report(j, h, evs) = Report(j, h, evs)
    <2> DEFINE news == (evs \cap j.socks[h].sel) \ j.socks[h].told
    <2>1. Server!Message!InOrder(news) = InOrder(news)
      BY Zenon DEF Server!Message!InOrder, InOrder, Server!Message!EventOrder, EventOrder
    <2>2. Server!Message!Cardinality(news) = Cardinality(news)
      BY Zenon DEF Server!Message!Cardinality, Cardinality
    <2>3. Server!Message!Messages(h, news) = Messages(h, news)
      BY <2>1, <2>2, Zenon DEF Server!Message!Messages, Messages
    <2>4. Report(j, h, evs) = ReportWith(j, h, news, Messages(h, news))
      BY Zenon DEF Report, ReportWith, Marked
    <2>5. Server!Message!Report(j, h, evs) = ReportWith(j, h, news, Server!Message!Messages(h, news))
      BY Zenon DEF Server!Message!Report, ReportWith, Marked, Server!Message!OnEvents, OnEvents,
         Server!Message!With, With
    <2> QED
      BY <2>3, <2>4, <2>5, Zenon
  <1>2. ASSUME NEW e, NEW mask PROVE Server!Message!Select(k, h, e, mask) = Select(k, h, e, mask)
    <2> DEFINE s == [k.socks[h] EXCEPT !.sel = mask, !.hEvent = e, !.told = {}, !.rec = {}]
               j == [k EXCEPT !.socks[h] = s]
    <2>1. Server!Message!Conditions(s) = Conditions(s)
      BY Zenon DEF Server!Message!Conditions, Conditions, Server!Message!When, When,
         Server!Message!IsConnected, IsConnected
    <2>2. Select(k, h, e, mask) = IF IsOpen(k, h) THEN Report(j, h, Conditions(s)) ELSE k
      BY Zenon DEF Select
    <2>3. Server!Message!Select(k, h, e, mask)
            = IF IsOpen(k, h) THEN Server!Message!Report(j, h, Server!Message!Conditions(s)) ELSE k
      BY Zenon DEF Server!Message!Select, Server!Message!IsOpen, IsOpen
    <2> HIDE DEF s, j
    <2>4. Server!Message!Report(j, h, Conditions(s)) = Report(j, h, Conditions(s))
      BY <1>1
    <2> QED
      BY <2>1, <2>2, <2>3, <2>4, Zenon
  <1> QED
    BY <1>1, <1>2

\* Reports and selections of AsyncEventPoller in EchoClient.
LEMMA ClientEventReports == ASSUME NEW k, NEW h
                            PROVE  /\ \A evs : Client!Event!Report(k, h, evs) = Report(k, h, evs)
                                   /\ \A e, mask : Client!Event!Select(k, h, e, mask) = Select(k, h, e, mask)
  <1>1. ASSUME NEW j, NEW evs PROVE Client!Event!Report(j, h, evs) = Report(j, h, evs)
    <2> DEFINE news == (evs \cap j.socks[h].sel) \ j.socks[h].told
    <2>1. Client!Event!InOrder(news) = InOrder(news)
      BY Zenon DEF Client!Event!InOrder, InOrder, Client!Event!EventOrder, EventOrder
    <2>2. Client!Event!Cardinality(news) = Cardinality(news)
      BY Zenon DEF Client!Event!Cardinality, Cardinality
    <2>3. Client!Event!Messages(h, news) = Messages(h, news)
      BY <2>1, <2>2, Zenon DEF Client!Event!Messages, Messages
    <2>4. Report(j, h, evs) = ReportWith(j, h, news, Messages(h, news))
      BY Zenon DEF Report, ReportWith, Marked
    <2>5. Client!Event!Report(j, h, evs) = ReportWith(j, h, news, Client!Event!Messages(h, news))
      BY Zenon DEF Client!Event!Report, ReportWith, Marked, Client!Event!OnEvents, OnEvents,
         Client!Event!With, With
    <2> QED
      BY <2>3, <2>4, <2>5, Zenon
  <1>2. ASSUME NEW e, NEW mask PROVE Client!Event!Select(k, h, e, mask) = Select(k, h, e, mask)
    <2> DEFINE s == [k.socks[h] EXCEPT !.sel = mask, !.hEvent = e, !.told = {}, !.rec = {}]
               j == [k EXCEPT !.socks[h] = s]
    <2>1. Client!Event!Conditions(s) = Conditions(s)
      BY Zenon DEF Client!Event!Conditions, Conditions, Client!Event!When, When,
         Client!Event!IsConnected, IsConnected
    <2>2. Select(k, h, e, mask) = IF IsOpen(k, h) THEN Report(j, h, Conditions(s)) ELSE k
      BY Zenon DEF Select
    <2>3. Client!Event!Select(k, h, e, mask)
            = IF IsOpen(k, h) THEN Client!Event!Report(j, h, Client!Event!Conditions(s)) ELSE k
      BY Zenon DEF Client!Event!Select, Client!Event!IsOpen, IsOpen
    <2> HIDE DEF s, j
    <2>4. Client!Event!Report(j, h, Conditions(s)) = Report(j, h, Conditions(s))
      BY <1>1
    <2> QED
      BY <2>1, <2>2, <2>3, <2>4, Zenon
  <1> QED
    BY <1>1, <1>2

\* Reports and selections of AsyncSelectPoller in EchoClient.
LEMMA ClientMessageReports == ASSUME NEW k, NEW h
                              PROVE  /\ \A evs : Client!Message!Report(k, h, evs) = Report(k, h, evs)
                                     /\ \A e, mask : Client!Message!Select(k, h, e, mask) = Select(k, h, e, mask)
  <1>1. ASSUME NEW j, NEW evs PROVE Client!Message!Report(j, h, evs) = Report(j, h, evs)
    <2> DEFINE news == (evs \cap j.socks[h].sel) \ j.socks[h].told
    <2>1. Client!Message!InOrder(news) = InOrder(news)
      BY Zenon DEF Client!Message!InOrder, InOrder, Client!Message!EventOrder, EventOrder
    <2>2. Client!Message!Cardinality(news) = Cardinality(news)
      BY Zenon DEF Client!Message!Cardinality, Cardinality
    <2>3. Client!Message!Messages(h, news) = Messages(h, news)
      BY <2>1, <2>2, Zenon DEF Client!Message!Messages, Messages
    <2>4. Report(j, h, evs) = ReportWith(j, h, news, Messages(h, news))
      BY Zenon DEF Report, ReportWith, Marked
    <2>5. Client!Message!Report(j, h, evs) = ReportWith(j, h, news, Client!Message!Messages(h, news))
      BY Zenon DEF Client!Message!Report, ReportWith, Marked, Client!Message!OnEvents, OnEvents,
         Client!Message!With, With
    <2> QED
      BY <2>3, <2>4, <2>5, Zenon
  <1>2. ASSUME NEW e, NEW mask PROVE Client!Message!Select(k, h, e, mask) = Select(k, h, e, mask)
    <2> DEFINE s == [k.socks[h] EXCEPT !.sel = mask, !.hEvent = e, !.told = {}, !.rec = {}]
               j == [k EXCEPT !.socks[h] = s]
    <2>1. Client!Message!Conditions(s) = Conditions(s)
      BY Zenon DEF Client!Message!Conditions, Conditions, Client!Message!When, When,
         Client!Message!IsConnected, IsConnected
    <2>2. Select(k, h, e, mask) = IF IsOpen(k, h) THEN Report(j, h, Conditions(s)) ELSE k
      BY Zenon DEF Select
    <2>3. Client!Message!Select(k, h, e, mask)
            = IF IsOpen(k, h) THEN Client!Message!Report(j, h, Client!Message!Conditions(s)) ELSE k
      BY Zenon DEF Client!Message!Select, Client!Message!IsOpen, IsOpen
    <2> HIDE DEF s, j
    <2>4. Client!Message!Report(j, h, Conditions(s)) = Report(j, h, Conditions(s))
      BY <1>1
    <2> QED
      BY <2>1, <2>2, <2>3, <2>4, Zenon
  <1> QED
    BY <1>1, <1>2

\* Operations of the poller in EchoServer.
LEMMA ServerAddFd == ASSUME NEW k, NEW h, NEW s PROVE Server!AddFd(k, h, s) = AddFd(k, h, s)
  <1>1. Server!Event!AddFd(k, h, s) = Event!AddFd(k, h, s)
    <2>1. Server!Event!LeastFree(DOMAIN k.events) = Event!LeastFree(DOMAIN k.events)
      BY Zenon DEF Server!Event!LeastFree, Event!LeastFree, Server!Event!Cardinality,
         Event!Cardinality
    <2> QED
      BY <2>1, Zenon DEF Server!Event!AddFd, Event!AddFd, Server!Event!Full, Event!Full,
         Server!Event!When, Event!When, Server!Event!Faulty, Event!Faulty, Server!Event!With, Event!With,
         Server!Event!Entry, Event!Entry
  <1>2. Server!Message!AddFd(k, h, s) = Message!AddFd(k, h, s)
    BY Zenon DEF Server!Message!AddFd, Message!AddFd, Server!Message!Full, Message!Full,
       Server!Message!Entry, Message!Entry, Server!Message!WSA_INVALID_EVENT, Message!WSA_INVALID_EVENT
  <1> QED
    BY <1>1, <1>2, Zenon DEF Server!AddFd, AddFd, Server!OnEvents, OnEvents

\* EchoServer removes sockets from the poller.
LEMMA ServerRemoveFd == ASSUME NEW k, NEW h PROVE Server!RemoveFd(k, h) = RemoveFd(k, h)
  <1>1. Server!Event!RemoveFd(k, h) = Event!RemoveFd(k, h)
    <2>1. Server!Event!FindEntry(k, h) = Event!FindEntry(k, h)
      BY Zenon DEF Server!Event!FindEntry, Event!FindEntry, Server!Event!FirstOf, Event!FirstOf,
         Server!Event!Min, Event!Min
    <2> DEFINE i == Event!FindEntry(k, h)
               k1 == IF i = 0 THEN k ELSE [k EXCEPT !.events = Event!Without(@, k.fds_[i].hEvent),
                                                    !.fds_[i] = Event!Retired(@)]
               j == [k1 EXCEPT !.has_retired_ = TRUE]
    <2>2. Event!RemoveFd(k, h) = Event!Select(j, h, Event!WSA_INVALID_EVENT, {})
      BY Zenon DEF Event!RemoveFd
    <2>3. Server!Event!RemoveFd(k, h) = Server!Event!Select(j, h, Event!WSA_INVALID_EVENT, {})
      BY <2>1, Zenon DEF Server!Event!RemoveFd, Server!Event!Without, Event!Without,
         Server!Event!Retired, Event!Retired, Server!Event!INVALID_SOCKET, Event!INVALID_SOCKET,
         Server!Event!WSA_INVALID_EVENT, Event!WSA_INVALID_EVENT
    <2> HIDE DEF j
    <2>4. Server!Event!Select(j, h, Event!WSA_INVALID_EVENT, {}) = Select(j, h, Event!WSA_INVALID_EVENT, {})
      BY ServerEventReports, Zenon
    <2>5. Event!Select(j, h, Event!WSA_INVALID_EVENT, {}) = Select(j, h, Event!WSA_INVALID_EVENT, {})
      BY EventReports, Zenon
    <2> QED
      BY <2>2, <2>3, <2>4, <2>5
  <1>2. Server!Message!RemoveFd(k, h) = Message!RemoveFd(k, h)
    <2>1. Server!Message!FindEntry(k, h) = Message!FindEntry(k, h)
      BY Zenon DEF Server!Message!FindEntry, Message!FindEntry, Server!Message!Min, Message!Min
    <2> DEFINE i == Message!FindEntry(k, h)
               k1 == IF i = 0 THEN k ELSE [k EXCEPT !.fds_[i] = Message!RetiredEntry]
               j == [k1 EXCEPT !.has_retired_ = TRUE]
    <2>2. Message!RemoveFd(k, h) = Message!Select(j, h, Message!WSA_INVALID_EVENT, {})
      BY Zenon DEF Message!RemoveFd
    <2>3. Server!Message!RemoveFd(k, h) = Server!Message!Select(j, h, Message!WSA_INVALID_EVENT, {})
      BY <2>1, Zenon DEF Server!Message!RemoveFd, Server!Message!RetiredEntry, Message!RetiredEntry,
         Server!Message!Entry, Message!Entry, Server!Message!INVALID_SOCKET, Message!INVALID_SOCKET,
         Server!Message!WSA_INVALID_EVENT, Message!WSA_INVALID_EVENT
    <2> HIDE DEF j
    <2>4. Server!Message!Select(j, h, Message!WSA_INVALID_EVENT, {}) = Select(j, h, Message!WSA_INVALID_EVENT, {})
      BY ServerMessageReports, Zenon
    <2>5. Message!Select(j, h, Message!WSA_INVALID_EVENT, {}) = Select(j, h, Message!WSA_INVALID_EVENT, {})
      BY MessageReports, Zenon
    <2> QED
      BY <2>2, <2>3, <2>4, <2>5
  <1> QED
    BY <1>1, <1>2, Zenon DEF Server!RemoveFd, RemoveFd, Server!OnEvents, OnEvents

\* The selections that EchoServer changes.
LEMMA ServerChanges == ASSUME NEW k, NEW h
                      PROVE  /\ Server!SetPollIn(k, h) = SetPollIn(k, h)
                             /\ Server!SetPollOut(k, h) = SetPollOut(k, h)
                             /\ Server!ResetPollOut(k, h) = ResetPollOut(k, h)
  <1>1. ASSUME NEW on, NEW off PROVE Server!Event!ChangeEvents(k, h, on, off) = Event!ChangeEvents(k, h, on, off)
    <2>1. Server!Event!FindEntry(k, h) = Event!FindEntry(k, h)
      BY Zenon DEF Server!Event!FindEntry, Event!FindEntry, Server!Event!FirstOf, Event!FirstOf,
         Server!Event!Min, Event!Min
    <2> DEFINE i == Event!FindEntry(k, h)
               l == (k.fds_[i].lEvents \cup on) \ off
               j == [k EXCEPT !.fds_[i].lEvents = l]
    <2>2. Event!ChangeEvents(k, h, on, off)
            = IF i = 0 THEN k ELSE Event!Select(j, h, k.fds_[i].hEvent, l)
      BY Zenon DEF Event!ChangeEvents
    <2>3. Server!Event!ChangeEvents(k, h, on, off)
            = IF i = 0 THEN k ELSE Server!Event!Select(j, h, k.fds_[i].hEvent, l)
      BY <2>1, Zenon DEF Server!Event!ChangeEvents
    <2> HIDE DEF j, l
    <2>4. Server!Event!Select(j, h, k.fds_[i].hEvent, l) = Select(j, h, k.fds_[i].hEvent, l)
      BY ServerEventReports, Zenon
    <2>5. Event!Select(j, h, k.fds_[i].hEvent, l) = Select(j, h, k.fds_[i].hEvent, l)
      BY EventReports, Zenon
    <2> QED
      BY <2>2, <2>3, <2>4, <2>5
  <1>2. ASSUME NEW on, NEW off PROVE Server!Message!ChangeEvents(k, h, on, off) = Message!ChangeEvents(k, h, on, off)
    <2>1. Server!Message!FindEntry(k, h) = Message!FindEntry(k, h)
      BY Zenon DEF Server!Message!FindEntry, Message!FindEntry, Server!Message!Min, Message!Min
    <2> DEFINE i == Message!FindEntry(k, h)
               l == (k.fds_[i].lEvents \cup on) \ off
               j == [k EXCEPT !.fds_[i].lEvents = l]
    <2>2. Message!ChangeEvents(k, h, on, off)
            = IF i = 0 THEN k ELSE Message!Select(j, h, Message!WSA_INVALID_EVENT, l)
      BY Zenon DEF Message!ChangeEvents
    <2>3. Server!Message!ChangeEvents(k, h, on, off)
            = IF i = 0 THEN k ELSE Server!Message!Select(j, h, Message!WSA_INVALID_EVENT, l)
      BY <2>1, Zenon DEF Server!Message!ChangeEvents, Server!Message!WSA_INVALID_EVENT,
         Message!WSA_INVALID_EVENT
    <2> HIDE DEF j, l
    <2>4. Server!Message!Select(j, h, Message!WSA_INVALID_EVENT, l) = Select(j, h, Message!WSA_INVALID_EVENT, l)
      BY ServerMessageReports, Zenon
    <2>5. Message!Select(j, h, Message!WSA_INVALID_EVENT, l) = Select(j, h, Message!WSA_INVALID_EVENT, l)
      BY MessageReports, Zenon
    <2> QED
      BY <2>2, <2>3, <2>4, <2>5
  <1>3. Server!OnEvents(k) = OnEvents(k)
    BY Zenon DEF Server!OnEvents, OnEvents
  <1>4. Server!SetPollIn(k, h) = SetPollIn(k, h)
    BY <1>1, <1>2, <1>3, Zenon DEF Server!SetPollIn, Server!Event!SetPollIn,
       Server!Message!SetPollIn, SetPollIn, Event!SetPollIn, Message!SetPollIn,
       Server!Event!ReadEvents, Server!Message!ReadEvents, Event!ReadEvents, Message!ReadEvents
  <1>5. Server!SetPollOut(k, h) = SetPollOut(k, h)
    BY <1>1, <1>2, <1>3, Zenon DEF Server!SetPollOut, Server!Event!SetPollOut,
       Server!Message!SetPollOut, SetPollOut, Event!SetPollOut, Message!SetPollOut,
       Server!Event!WriteEvents, Server!Message!WriteEvents, Event!WriteEvents, Message!WriteEvents
  <1>6. Server!ResetPollOut(k, h) = ResetPollOut(k, h)
    BY <1>1, <1>2, <1>3, Zenon DEF Server!ResetPollOut, Server!Event!ResetPollOut,
       Server!Message!ResetPollOut, ResetPollOut, Event!ResetPollOut, Message!ResetPollOut,
       Server!Event!WriteEvents, Server!Message!WriteEvents, Event!WriteEvents, Message!WriteEvents
  <1> QED
    BY <1>4, <1>5, <1>6


\* What EchoServer takes from a socket.
LEMMA ServerTake == ASSUME NEW k, NEW h, NEW n, NEW ev PROVE Server!Take(k, h, n, ev) = Take(k, h, n, ev)
  <1> DEFINE k1 == [k EXCEPT !.socks[h].rx = @ - n, !.socks[h].told = @ \ {ev}]
  <1>1. Server!Conditions(k1.socks[h]) = Conditions(k1.socks[h])
    BY Zenon DEF Server!Conditions, Conditions, Server!When, When, Server!IsConnected, IsConnected
  <1>2. Take(k, h, n, ev) = Report(k1, h, Conditions(k1.socks[h]) \cap {ev})
    BY Zenon DEF Take
  <1>3. Server!Take(k, h, n, ev) = Server!Report(k1, h, Server!Conditions(k1.socks[h]) \cap {ev})
    BY Zenon DEF Server!Take
  <1> QED
    BY <1>1, <1>2, <1>3, ServerReports, Zenon

\* Operations of the poller in EchoClient.
LEMMA ClientAddFd == ASSUME NEW k, NEW h, NEW s PROVE Client!AddFd(k, h, s) = AddFd(k, h, s)
  <1>1. Client!Event!AddFd(k, h, s) = Event!AddFd(k, h, s)
    <2>1. Client!Event!LeastFree(DOMAIN k.events) = Event!LeastFree(DOMAIN k.events)
      BY Zenon DEF Client!Event!LeastFree, Event!LeastFree, Client!Event!Cardinality,
         Event!Cardinality
    <2> QED
      BY <2>1, Zenon DEF Client!Event!AddFd, Event!AddFd, Client!Event!Full, Event!Full,
         Client!Event!When, Event!When, Client!Event!Faulty, Event!Faulty, Client!Event!With, Event!With,
         Client!Event!Entry, Event!Entry
  <1>2. Client!Message!AddFd(k, h, s) = Message!AddFd(k, h, s)
    BY Zenon DEF Client!Message!AddFd, Message!AddFd, Client!Message!Full, Message!Full,
       Client!Message!Entry, Message!Entry, Client!Message!WSA_INVALID_EVENT, Message!WSA_INVALID_EVENT
  <1> QED
    BY <1>1, <1>2, Zenon DEF Client!AddFd, AddFd, Client!OnEvents, OnEvents

\* EchoClient removes sockets from the poller.
LEMMA ClientRemoveFd == ASSUME NEW k, NEW h PROVE Client!RemoveFd(k, h) = RemoveFd(k, h)
  <1>1. Client!Event!RemoveFd(k, h) = Event!RemoveFd(k, h)
    <2>1. Client!Event!FindEntry(k, h) = Event!FindEntry(k, h)
      BY Zenon DEF Client!Event!FindEntry, Event!FindEntry, Client!Event!FirstOf, Event!FirstOf,
         Client!Event!Min, Event!Min
    <2> DEFINE i == Event!FindEntry(k, h)
               k1 == IF i = 0 THEN k ELSE [k EXCEPT !.events = Event!Without(@, k.fds_[i].hEvent),
                                                    !.fds_[i] = Event!Retired(@)]
               j == [k1 EXCEPT !.has_retired_ = TRUE]
    <2>2. Event!RemoveFd(k, h) = Event!Select(j, h, Event!WSA_INVALID_EVENT, {})
      BY Zenon DEF Event!RemoveFd
    <2>3. Client!Event!RemoveFd(k, h) = Client!Event!Select(j, h, Event!WSA_INVALID_EVENT, {})
      BY <2>1, Zenon DEF Client!Event!RemoveFd, Client!Event!Without, Event!Without,
         Client!Event!Retired, Event!Retired, Client!Event!INVALID_SOCKET, Event!INVALID_SOCKET,
         Client!Event!WSA_INVALID_EVENT, Event!WSA_INVALID_EVENT
    <2> HIDE DEF j
    <2>4. Client!Event!Select(j, h, Event!WSA_INVALID_EVENT, {}) = Select(j, h, Event!WSA_INVALID_EVENT, {})
      BY ClientEventReports, Zenon
    <2>5. Event!Select(j, h, Event!WSA_INVALID_EVENT, {}) = Select(j, h, Event!WSA_INVALID_EVENT, {})
      BY EventReports, Zenon
    <2> QED
      BY <2>2, <2>3, <2>4, <2>5
  <1>2. Client!Message!RemoveFd(k, h) = Message!RemoveFd(k, h)
    <2>1. Client!Message!FindEntry(k, h) = Message!FindEntry(k, h)
      BY Zenon DEF Client!Message!FindEntry, Message!FindEntry, Client!Message!Min, Message!Min
    <2> DEFINE i == Message!FindEntry(k, h)
               k1 == IF i = 0 THEN k ELSE [k EXCEPT !.fds_[i] = Message!RetiredEntry]
               j == [k1 EXCEPT !.has_retired_ = TRUE]
    <2>2. Message!RemoveFd(k, h) = Message!Select(j, h, Message!WSA_INVALID_EVENT, {})
      BY Zenon DEF Message!RemoveFd
    <2>3. Client!Message!RemoveFd(k, h) = Client!Message!Select(j, h, Message!WSA_INVALID_EVENT, {})
      BY <2>1, Zenon DEF Client!Message!RemoveFd, Client!Message!RetiredEntry, Message!RetiredEntry,
         Client!Message!Entry, Message!Entry, Client!Message!INVALID_SOCKET, Message!INVALID_SOCKET,
         Client!Message!WSA_INVALID_EVENT, Message!WSA_INVALID_EVENT
    <2> HIDE DEF j
    <2>4. Client!Message!Select(j, h, Message!WSA_INVALID_EVENT, {}) = Select(j, h, Message!WSA_INVALID_EVENT, {})
      BY ClientMessageReports, Zenon
    <2>5. Message!Select(j, h, Message!WSA_INVALID_EVENT, {}) = Select(j, h, Message!WSA_INVALID_EVENT, {})
      BY MessageReports, Zenon
    <2> QED
      BY <2>2, <2>3, <2>4, <2>5
  <1> QED
    BY <1>1, <1>2, Zenon DEF Client!RemoveFd, RemoveFd, Client!OnEvents, OnEvents

\* The selections that EchoClient changes.
LEMMA ClientChanges == ASSUME NEW k, NEW h
                      PROVE  /\ Client!SetPollIn(k, h) = SetPollIn(k, h)
                             /\ Client!SetPollOut(k, h) = SetPollOut(k, h)
                             /\ Client!ResetPollOut(k, h) = ResetPollOut(k, h)
  <1>1. ASSUME NEW on, NEW off PROVE Client!Event!ChangeEvents(k, h, on, off) = Event!ChangeEvents(k, h, on, off)
    <2>1. Client!Event!FindEntry(k, h) = Event!FindEntry(k, h)
      BY Zenon DEF Client!Event!FindEntry, Event!FindEntry, Client!Event!FirstOf, Event!FirstOf,
         Client!Event!Min, Event!Min
    <2> DEFINE i == Event!FindEntry(k, h)
               l == (k.fds_[i].lEvents \cup on) \ off
               j == [k EXCEPT !.fds_[i].lEvents = l]
    <2>2. Event!ChangeEvents(k, h, on, off)
            = IF i = 0 THEN k ELSE Event!Select(j, h, k.fds_[i].hEvent, l)
      BY Zenon DEF Event!ChangeEvents
    <2>3. Client!Event!ChangeEvents(k, h, on, off)
            = IF i = 0 THEN k ELSE Client!Event!Select(j, h, k.fds_[i].hEvent, l)
      BY <2>1, Zenon DEF Client!Event!ChangeEvents
    <2> HIDE DEF j, l
    <2>4. Client!Event!Select(j, h, k.fds_[i].hEvent, l) = Select(j, h, k.fds_[i].hEvent, l)
      BY ClientEventReports, Zenon
    <2>5. Event!Select(j, h, k.fds_[i].hEvent, l) = Select(j, h, k.fds_[i].hEvent, l)
      BY EventReports, Zenon
    <2> QED
      BY <2>2, <2>3, <2>4, <2>5
  <1>2. ASSUME NEW on, NEW off PROVE Client!Message!ChangeEvents(k, h, on, off) = Message!ChangeEvents(k, h, on, off)
    <2>1. Client!Message!FindEntry(k, h) = Message!FindEntry(k, h)
      BY Zenon DEF Client!Message!FindEntry, Message!FindEntry, Client!Message!Min, Message!Min
    <2> DEFINE i == Message!FindEntry(k, h)
               l == (k.fds_[i].lEvents \cup on) \ off
               j == [k EXCEPT !.fds_[i].lEvents = l]
    <2>2. Message!ChangeEvents(k, h, on, off)
            = IF i = 0 THEN k ELSE Message!Select(j, h, Message!WSA_INVALID_EVENT, l)
      BY Zenon DEF Message!ChangeEvents
    <2>3. Client!Message!ChangeEvents(k, h, on, off)
            = IF i = 0 THEN k ELSE Client!Message!Select(j, h, Message!WSA_INVALID_EVENT, l)
      BY <2>1, Zenon DEF Client!Message!ChangeEvents, Client!Message!WSA_INVALID_EVENT,
         Message!WSA_INVALID_EVENT
    <2> HIDE DEF j, l
    <2>4. Client!Message!Select(j, h, Message!WSA_INVALID_EVENT, l) = Select(j, h, Message!WSA_INVALID_EVENT, l)
      BY ClientMessageReports, Zenon
    <2>5. Message!Select(j, h, Message!WSA_INVALID_EVENT, l) = Select(j, h, Message!WSA_INVALID_EVENT, l)
      BY MessageReports, Zenon
    <2> QED
      BY <2>2, <2>3, <2>4, <2>5
  <1>3. Client!OnEvents(k) = OnEvents(k)
    BY Zenon DEF Client!OnEvents, OnEvents
  <1>4. Client!SetPollIn(k, h) = SetPollIn(k, h)
    BY <1>1, <1>2, <1>3, Zenon DEF Client!SetPollIn, Client!Event!SetPollIn,
       Client!Message!SetPollIn, SetPollIn, Event!SetPollIn, Message!SetPollIn,
       Client!Event!ReadEvents, Client!Message!ReadEvents, Event!ReadEvents, Message!ReadEvents
  <1>5. Client!SetPollOut(k, h) = SetPollOut(k, h)
    BY <1>1, <1>2, <1>3, Zenon DEF Client!SetPollOut, Client!Event!SetPollOut,
       Client!Message!SetPollOut, SetPollOut, Event!SetPollOut, Message!SetPollOut,
       Client!Event!WriteEvents, Client!Message!WriteEvents, Event!WriteEvents, Message!WriteEvents
  <1>6. Client!ResetPollOut(k, h) = ResetPollOut(k, h)
    BY <1>1, <1>2, <1>3, Zenon DEF Client!ResetPollOut, Client!Event!ResetPollOut,
       Client!Message!ResetPollOut, ResetPollOut, Event!ResetPollOut, Message!ResetPollOut,
       Client!Event!WriteEvents, Client!Message!WriteEvents, Event!WriteEvents, Message!WriteEvents
  <1> QED
    BY <1>4, <1>5, <1>6


\* What EchoClient takes from a socket.
LEMMA ClientTake == ASSUME NEW k, NEW h, NEW n, NEW ev PROVE Client!Take(k, h, n, ev) = Take(k, h, n, ev)
  <1> DEFINE k1 == [k EXCEPT !.socks[h].rx = @ - n, !.socks[h].told = @ \ {ev}]
  <1>1. Client!Conditions(k1.socks[h]) = Conditions(k1.socks[h])
    BY Zenon DEF Client!Conditions, Conditions, Client!When, When, Client!IsConnected, IsConnected
  <1>2. Take(k, h, n, ev) = Report(k1, h, Conditions(k1.socks[h]) \cap {ev})
    BY Zenon DEF Take
  <1>3. Client!Take(k, h, n, ev) = Client!Report(k1, h, Client!Conditions(k1.socks[h]) \cap {ev})
    BY Zenon DEF Client!Take
  <1> QED
    BY <1>1, <1>2, <1>3, ClientReports, Zenon
-----------------------------------------------------------------------------
(* The system. *)

\* No connection but those in X is lost, and no entry but theirs.
Follows(k, k1, X) ==
  /\ System(k1)
  /\ k1.poller = k.poller
  /\ \A h \in Conns(k) \ X : h \in Conns(k1)
  /\ \A h \in Handles \ X : \A s : HasEntry(k, h, s) => HasEntry(k1, h, s)

\* The entries stay, and the sockets what they are; what they hold may change.
Calm(k, k1) ==
  /\ System(k1)
  /\ k1.poller = k.poller /\ k1.fds_ = k.fds_ /\ k1.faults = k.faults
  /\ DOMAIN k1.socks = DOMAIN k.socks
  /\ \A h \in DOMAIN k.socks : k1.socks[h].kind = k.socks[h].kind /\ k1.socks[h].fin = k.socks[h].fin

\* Nothing is lost when nothing happens, or two steps lose nothing.
LEMMA FollowsTwice == /\ \A k : System(k) => Follows(k, k, {}) /\ Calm(k, k)
                      /\ \A k, k1, k2, X : Follows(k, k1, X) /\ Follows(k1, k2, X) => Follows(k, k2, X)
                      /\ \A k, k1, k2, X : Follows(k, k1, {}) /\ Follows(k1, k2, X) => Follows(k, k2, X)
                      /\ \A k, k1, k2 : Calm(k, k1) /\ Calm(k1, k2) => Calm(k, k2)
  <1>1. \A k : System(k) => Follows(k, k, {}) /\ Calm(k, k)
    BY Zenon DEF Follows, Calm
  <1>2. \A k, k1, k2, X : Follows(k, k1, X) /\ Follows(k1, k2, X) => Follows(k, k2, X)
    BY DEF Follows
  <1>3. \A k, k1, X : Follows(k, k1, {}) => Follows(k, k1, X)
    <2> HIDE DEF System
    <2> QED
      BY DEF Follows
  <1>4. \A k, k1, k2 : Calm(k, k1) /\ Calm(k1, k2) => Calm(k, k2)
    <2> SUFFICES ASSUME NEW k, NEW k1, NEW k2, Calm(k, k1), Calm(k1, k2) PROVE Calm(k, k2)
      BY Zenon
    <2> HIDE DEF System
    <2> QED
      BY DEF Calm
  <1>5. \A k, k1, k2, X : Follows(k, k1, {}) /\ Follows(k1, k2, X) => Follows(k, k2, X)
    BY <1>2, <1>3, Zenon
  <1> QED
    BY <1>1, <1>2, <1>4, <1>5, Zenon

\* What is calm loses nothing.
LEMMA CalmFollows == ASSUME NEW k, NEW k1, Calm(k, k1) PROVE Follows(k, k1, {})
  BY Zenon DEF Calm, Follows, Conns, HasEntry

\* One field of a record gets a new value.
LEMMA Assign ==
  ASSUME NEW F, NEW k, IsRecord(k, F), NEW x, NEW g \in F, NEW k1, k1 = [k EXCEPT ![g] = x]
  PROVE  k1[g] = x /\ IsRecord(k1, F) /\ \A f \in F \ {g} : k1[f] = k[f]
  <1>1. DOMAIN k = F
    BY DEF IsRecord
  <1>2. k1 = [h \in F |-> IF h = g THEN x ELSE k[h]]
    BY <1>1
  <1> QED
    BY <1>2 DEF IsRecord

\* The sockets get other records, with the same kinds.
LEMMA CalmSockets ==
  ASSUME NEW k, System(k), NEW k1, IsRecord(k1, SystemFields),
         k1.poller = k.poller, k1.fds_ = k.fds_, k1.faults = k.faults, IsFiniteSet(DOMAIN k1.events),
         NEW h \in DOMAIN k.socks, NEW x \in SocketType, k1.socks = [k.socks EXCEPT ![h] = x],
         x.kind = k.socks[h].kind, x.fin = k.socks[h].fin
  PROVE  Calm(k, k1) /\ k1.socks[h] = x
  <1> HIDE DEF SocketType
  <1>1. PICK s : s = k1.socks
    BY Zenon
  <1>2. DOMAIN s = DOMAIN k.socks /\ s[h] = x /\ \A g \in DOMAIN k.socks \ {h} : s[g] = k.socks[g]
    BY <1>1
  <1>3. \A g \in DOMAIN s : s[g] \in SocketType
    BY <1>2 DEF System
  <1>4. System(k1)
    <2>1. DOMAIN k1.socks \subseteq Handles /\ IsFiniteSet(DOMAIN k1.socks)
      BY <1>1, <1>2 DEF System
    <2>2. k1.fds_ \in Seq(EntryType) /\ k1.faults \in Nat
      BY DEF System
    <2>3. Room(k1)
      BY DEF System, Room, OnEvents
    <2> QED
      BY <1>1, <1>3, <2>1, <2>2, <2>3 DEF System
  <1>5. \A g \in DOMAIN k.socks : s[g].kind = k.socks[g].kind /\ s[g].fin = k.socks[g].fin
    BY <1>2
  <1> QED
    BY <1>1, <1>2, <1>4, <1>5 DEF Calm

\* Conditions of a socket are reported.
LEMMA ReportCalm ==
  ASSUME NEW k, System(k), NEW h \in DOMAIN k.socks, NEW evs
  PROVE  Calm(k, Report(k, h, evs))
  <1> DEFINE news == (evs \cap k.socks[h].sel) \ k.socks[h].told
             x == Marked(k.socks[h], news, OnEvents(k))
             v == [k.socks EXCEPT ![h] = x]
             e == IF OnEvents(k) /\ news # {} THEN With(k.events, k.socks[h].hEvent, TRUE) ELSE k.events
             q == IF OnEvents(k) THEN k.queue ELSE k.queue \o Messages(h, news)
  <1>1. PICK k1 : k1 = Report(k, h, evs)
    BY Zenon
  <1>2. k1 = [k EXCEPT !.socks = v, !.events = e, !.queue = q]
    BY <1>1, Zenon DEF Report, Marked
  <1>3. k.socks[h] \in SocketType
    BY DEF System
  <1>4. news \in SUBSET Events
    BY <1>3 DEF SocketType
  <1> HIDE DEF news
  <1>5. x \in SocketType /\ x.kind = k.socks[h].kind /\ x.fin = k.socks[h].fin
    BY <1>3, <1>4 DEF Marked, SocketType
  <1>6. IsFiniteSet(DOMAIN e)
    <2>1. IsFiniteSet(DOMAIN k.events) /\ \A a : IsFiniteSet(DOMAIN k.events \cup {a})
      BY FS_AddElement DEF System
    <2> QED
      BY <2>1 DEF With
  <1> HIDE DEF x, v, e, q
  <1>7. /\ k1.socks = v /\ k1.events = e /\ IsRecord(k1, SystemFields)
        /\ k1.poller = k.poller /\ k1.fds_ = k.fds_ /\ k1.faults = k.faults
    <2>1. DOMAIN k = SystemFields
      BY DEF System, IsRecord
    <2>2. k1 = [y \in SystemFields |-> IF y = "socks" THEN v ELSE IF y = "events" THEN e
                                       ELSE IF y = "queue" THEN q ELSE k[y]]
      BY <1>2, <2>1 DEF SystemFields
    <2> QED
      BY <2>2 DEF IsRecord, SystemFields
  <1>8. k1.socks = [k.socks EXCEPT ![h] = x]
    BY <1>7 DEF v
  <1>9. Calm(k, k1)
    BY <1>5, <1>6, <1>7, <1>8, CalmSockets
  <1> QED
    BY <1>1, <1>9, Zenon

\* A socket gets a record of the same kind.
LEMMA PutCalm ==
  ASSUME NEW k, System(k), NEW h \in DOMAIN k.socks, NEW x \in SocketType,
         x.kind = k.socks[h].kind, x.fin = k.socks[h].fin
  PROVE  /\ Calm(k, [k EXCEPT !.socks[h] = x])
         /\ [k EXCEPT !.socks[h] = x].socks[h] = x
  <1> HIDE DEF SocketType
  <1>1. PICK k1, v : k1 = [k EXCEPT !.socks[h] = x] /\ v = [k.socks EXCEPT ![h] = x]
    BY Zenon
  <1>2. k1 = [k EXCEPT !.socks = v]
    BY <1>1, Zenon
  <1>3. k1.socks = v /\ IsRecord(k1, SystemFields) /\ \A f \in SystemFields \ {"socks"} : k1[f] = k[f]
    <2>1. IsRecord(k, SystemFields) /\ "socks" \in SystemFields
      BY DEF System, SystemFields
    <2> QED
      BY <1>2, <2>1, Assign
  <1>4. /\ k1.poller = k.poller /\ k1.fds_ = k.fds_ /\ k1.faults = k.faults
        /\ IsFiniteSet(DOMAIN k1.events)
    BY <1>3 DEF System, SystemFields
  <1>5. k1.socks = [k.socks EXCEPT ![h] = x]
    BY <1>1, <1>3
  <1>6. Calm(k, k1) /\ k1.socks[h] = x
    BY <1>3, <1>4, <1>5, CalmSockets
  <1> QED
    BY <1>1, <1>6, Zenon

\* Events of a socket are selected.
LEMMA SelectCalm ==
  ASSUME NEW k, System(k), NEW h, NEW e \in Nat, NEW mask \in SUBSET Events
  PROVE  Calm(k, Select(k, h, e, mask))
  <1>1. CASE ~IsOpen(k, h)
    BY <1>1, FollowsTwice, Zenon DEF Select
  <1>2. CASE IsOpen(k, h)
    <2> DEFINE s == [k.socks[h] EXCEPT !.sel = mask, !.hEvent = e, !.told = {}, !.rec = {}]
    <2>1. Select(k, h, e, mask) = Report([k EXCEPT !.socks[h] = s], h, Conditions(s))
      BY <1>2, Zenon DEF Select
    <2>2. h \in DOMAIN k.socks
      BY <1>2 DEF IsOpen
    <2>3. s \in SocketType /\ s.kind = k.socks[h].kind /\ s.fin = k.socks[h].fin
      <3>1. k.socks[h] \in SocketType
        BY <2>2 DEF System
      <3> QED
        BY <3>1 DEF SocketType
    <2> HIDE DEF s
    <2>4. PICK k1 : k1 = [k EXCEPT !.socks[h] = s]
      BY Zenon
    <2>5. Calm(k, k1)
      BY <2>2, <2>3, <2>4, PutCalm, Zenon
    <2>6. System(k1) /\ h \in DOMAIN k1.socks
      BY <2>2, <2>5 DEF Calm
    <2>7. Calm(k1, Report(k1, h, Conditions(s)))
      BY <2>6, ReportCalm
    <2>8. Calm(k, Report(k1, h, Conditions(s)))
      BY <2>5, <2>7, FollowsTwice
    <2> QED
      BY <2>1, <2>4, <2>8, Zenon
  <1> QED
    BY <1>1, <1>2

\* recv and accept take something.
LEMMA TakeCalm ==
  ASSUME NEW k, System(k), NEW h \in DOMAIN k.socks, NEW n \in 0 .. k.socks[h].rx, NEW ev
  PROVE  Calm(k, Take(k, h, n, ev))
  <1> DEFINE s == [k.socks[h] EXCEPT !.rx = @ - n, !.told = @ \ {ev}]
  <1>1. k.socks[h] \in SocketType
    BY DEF System
  <1>2. s \in SocketType /\ s.kind = k.socks[h].kind /\ s.fin = k.socks[h].fin
    <2>1. PICK t, r, told : t = k.socks[h] /\ r = t.rx - n /\ told = t.told \ {ev}
      BY Zenon
    <2>2. t \in SocketType /\ r \in Nat /\ told \in SUBSET Events
      BY <1>1, <2>1 DEF SocketType
    <2>3. PICK u : u = [t EXCEPT !.rx = r, !.told = told]
      BY Zenon
    <2>4. u \in SocketType /\ u.kind = t.kind /\ u.fin = t.fin
      BY <2>2, <2>3 DEF SocketType
    <2> QED
      BY <2>1, <2>3, <2>4, Zenon
  <1>3. PICK k1 : k1 = [k EXCEPT !.socks[h].rx = @ - n, !.socks[h].told = @ \ {ev}]
    BY Zenon
  <1>4. k1 = [k EXCEPT !.socks[h] = s]
    <2>1. DOMAIN k = SystemFields
      BY DEF System, IsRecord
    <2>2. DOMAIN k.socks[h] = {"kind", "rx", "fin", "sent", "got", "sel", "hEvent", "told", "rec"}
      BY <1>1 DEF SocketType
    <2> QED
      BY <1>3, <2>1, <2>2 DEF SystemFields
  <1> HIDE DEF s
  <1>5. Calm(k, k1)
    BY <1>2, <1>4, PutCalm, Zenon
  <1>6. System(k1) /\ h \in DOMAIN k1.socks
    BY <1>5 DEF Calm
  <1>7. Take(k, h, n, ev) = Report(k1, h, Conditions(k1.socks[h]) \cap {ev})
    BY <1>3, Zenon DEF Take
  <1>8. Calm(k1, Take(k, h, n, ev))
    BY <1>6, <1>7, ReportCalm
  <1> QED
    BY <1>5, <1>8, FollowsTwice

\* Something arrives at a socket.
LEMMA ArriveCalm ==
  ASSUME NEW k, System(k), NEW h \in DOMAIN k.socks, NEW ev
  PROVE  Calm(k, Arrive(k, h, ev))
  <1> DEFINE s == [k.socks[h] EXCEPT !.rx = @ + 1]
  <1>1. k.socks[h] \in SocketType
    BY DEF System
  <1>2. s \in SocketType /\ s.kind = k.socks[h].kind /\ s.fin = k.socks[h].fin
    BY <1>1 DEF SocketType
  <1>3. PICK k1 : k1 = [k EXCEPT !.socks[h].rx = @ + 1]
    BY Zenon
  <1>4. k1 = [k EXCEPT !.socks[h] = s]
    BY <1>3, Zenon
  <1> HIDE DEF s
  <1>5. Calm(k, k1)
    BY <1>2, <1>4, PutCalm, Zenon
  <1>6. System(k1) /\ h \in DOMAIN k1.socks
    BY <1>5 DEF Calm
  <1>7. Arrive(k, h, ev) = Report(k1, h, {ev})
    BY <1>3, Zenon DEF Arrive
  <1>8. Calm(k1, Arrive(k, h, ev))
    BY <1>6, <1>7, ReportCalm
  <1> QED
    BY <1>5, <1>8, FollowsTwice

-----------------------------------------------------------------------------
(* The poller. *)

\* Other entries and events: the entries of sockets that are not in X stay.
LEMMA EntriesFollow ==
  ASSUME NEW k, System(k), NEW k1, IsRecord(k1, SystemFields),
         k1.poller = k.poller, k1.socks = k.socks, k1.faults \in Nat,
         IsFiniteSet(DOMAIN k1.events), k1.fds_ \in Seq(EntryType), Room(k1), NEW X,
         \A i \in DOMAIN k.fds_ : k.fds_[i].fd \in Handles \ X =>
           \E j \in DOMAIN k1.fds_ : k1.fds_[j].fd = k.fds_[i].fd /\ k1.fds_[j].sink = k.fds_[i].sink
  PROVE  Follows(k, k1, X)
  <1>1. System(k1)
    BY DEF System
  <1>2. Conns(k1) = Conns(k)
    BY DEF Conns
  <1>3. \A h \in Handles \ X : \A s : HasEntry(k, h, s) => HasEntry(k1, h, s)
    BY DEF HasEntry
  <1> QED
    BY <1>1, <1>2, <1>3 DEF Follows

\* A call of the system fails.
LEMMA FaultyFollows ==
  ASSUME NEW k, System(k), NEW k1 \in Faulty(k)
  PROVE  /\ Follows(k, k1, {}) /\ k1.faults # k.faults
         /\ k1.fds_ = k.fds_ /\ k1.socks = k.socks
  <1>1. k.faults \in Nat /\ k.faults > 0 /\ k1 = [k EXCEPT !.faults = @ - 1]
    BY DEF Faulty, When, System
  <1>2. PICK n : n = k.faults - 1
    BY Zenon
  <1>3. PICK k2 : k2 = [k EXCEPT !.faults = n]
    BY Zenon
  <1>4. k2 = k1
    BY <1>1, <1>2, <1>3, Zenon
  <1>5. IsRecord(k, SystemFields) /\ "faults" \in SystemFields
    BY DEF System, SystemFields
  <1>6. k2.faults = n /\ IsRecord(k2, SystemFields) /\ \A f \in SystemFields \ {"faults"} : k2[f] = k[f]
    BY <1>3, <1>5, Assign
  <1>7. /\ k2.poller = k.poller /\ k2.socks = k.socks /\ k2.events = k.events
        /\ k2.fds_ = k.fds_
    BY <1>6 DEF SystemFields
  <1>8. n \in Nat /\ n # k.faults
    BY <1>1, <1>2
  <1>9. IsFiniteSet(DOMAIN k2.events) /\ k2.fds_ \in Seq(EntryType) /\ Room(k2)
    BY <1>7 DEF System, Room, OnEvents
  <1>10. Follows(k, k2, {})
    BY <1>6, <1>7, <1>8, <1>9, EntriesFollow
  <1> QED
    BY <1>4, <1>6, <1>7, <1>8, <1>10

\* The first place, if there is one.
LEMMA FirstPlace ==
  ASSUME NEW T, T \subseteq Nat
  PROVE  /\ Event!FirstOf(T) = 0 \/ Event!FirstOf(T) \in T
         /\ T # {} => (IF T = {} THEN 0 ELSE Message!Min(T)) \in T
  <1>1. CASE T = {}
    BY <1>1 DEF Event!FirstOf
  <1>2. CASE T # {}
    <2>1. \E n \in T : \A m \in T : n <= m
      BY <1>2, LeastNumber
    <2>2. Event!Min(T) \in T
      BY <2>1 DEF Event!Min
    <2>3. Message!Min(T) \in T
      BY <2>1 DEF Message!Min
    <2> QED
      BY <1>2, <2>2, <2>3 DEF Event!FirstOf
  <1> QED
    BY <1>1, <1>2

\* The searches in fds_.
LEMMA Found ==
  ASSUME NEW k, System(k), NEW h
  PROVE  /\ Event!FindEntry(k, h) # 0 =>
              Event!FindEntry(k, h) \in DOMAIN k.fds_ /\ k.fds_[Event!FindEntry(k, h)].fd = h
         /\ Message!FindEntry(k, h) # 0 =>
              Message!FindEntry(k, h) \in DOMAIN k.fds_ /\ k.fds_[Message!FindEntry(k, h)].fd = h
  <1>1. PICK S : S = {i \in DOMAIN k.fds_ : k.fds_[i].fd = h}
    BY Zenon
  <1>2. S \subseteq Nat
    <2>1. k.fds_ \in Seq(EntryType)
      BY DEF System
    <2> HIDE DEF EntryType
    <2> QED
      BY <1>1, <2>1
  <1>3. Event!FindEntry(k, h) = Event!FirstOf(S)
    BY <1>1, Zenon DEF Event!FindEntry
  <1>4. Message!FindEntry(k, h) = IF S = {} THEN 0 ELSE Message!Min(S)
    BY <1>1, Zenon DEF Message!FindEntry
  <1>5. Event!FindEntry(k, h) # 0 => Event!FindEntry(k, h) \in S
    BY <1>2, <1>3, FirstPlace
  <1>6. Message!FindEntry(k, h) # 0 => Message!FindEntry(k, h) \in S
    BY <1>2, <1>4, FirstPlace
  <1> QED
    BY <1>1, <1>5, <1>6

\* The entry at i is replaced by x.
LEMMA PutEntry ==
  ASSUME NEW f \in Seq(EntryType), NEW i \in DOMAIN f, NEW x \in EntryType,
         NEW g, g = [f EXCEPT ![i] = x]
  PROVE  /\ g \in Seq(EntryType) /\ Len(g) = Len(f) /\ DOMAIN g = DOMAIN f
         /\ g[i] = x
         /\ \A j \in DOMAIN f \ {i} : g[j] = f[j]
  <1> HIDE DEF EntryType
  <1> QED
    OBVIOUS

\* The system with other entries, events and mark.
Replace(k, f, e, b) == [k EXCEPT !.events = e, !.fds_ = f, !.has_retired_ = b]

\* What the system is with other entries, events and mark.
LEMMA Replaced ==
  ASSUME NEW k, System(k), NEW f, NEW e, NEW b, NEW k1, k1 = Replace(k, f, e, b)
  PROVE  /\ IsRecord(k1, SystemFields) /\ k1.events = e /\ k1.fds_ = f
         /\ k1.poller = k.poller /\ k1.socks = k.socks /\ k1.faults = k.faults
  <1>1. DOMAIN k = SystemFields
    BY DEF System, IsRecord
  <1>2. k1 = [y \in SystemFields |-> IF y = "events" THEN e ELSE IF y = "fds_" THEN f
                                     ELSE IF y = "has_retired_" THEN b ELSE k[y]]
    BY <1>1 DEF Replace, SystemFields
  <1> QED
    BY <1>2 DEF IsRecord, SystemFields

\* The entry at i is replaced, by one for the same socket and sink unless its
\* socket is in X.
LEMMA EntryFollows ==
  ASSUME NEW k, System(k), NEW i \in DOMAIN k.fds_, NEW x \in EntryType, NEW X,
         k.fds_[i].fd \in X \/ (x.fd = k.fds_[i].fd /\ x.sink = k.fds_[i].sink),
         NEW e, IsFiniteSet(DOMAIN e), NEW b
  PROVE  LET k1 == Replace(k, [k.fds_ EXCEPT ![i] = x], e, b)
         IN  Follows(k, k1, X) /\ k1.faults = k.faults /\ k1.socks = k.socks
  <1>1. PICK f : f = [k.fds_ EXCEPT ![i] = x]
    BY Zenon
  <1>2. k.fds_ \in Seq(EntryType)
    BY DEF System
  <1>3. /\ f \in Seq(EntryType) /\ Len(f) = Len(k.fds_) /\ DOMAIN f = DOMAIN k.fds_
        /\ f[i] = x /\ \A j \in DOMAIN k.fds_ \ {i} : f[j] = k.fds_[j]
    BY <1>1, <1>2, PutEntry
  <1>4. PICK k1 : k1 = Replace(k, f, e, b)
    BY Zenon
  <1>5. /\ IsRecord(k1, SystemFields) /\ k1.events = e /\ k1.fds_ = f
        /\ k1.poller = k.poller /\ k1.socks = k.socks /\ k1.faults = k.faults
    BY <1>4, Replaced
  <1>6. Room(k1) /\ k1.faults \in Nat /\ k1.fds_ \in Seq(EntryType) /\ IsFiniteSet(DOMAIN k1.events)
    BY <1>3, <1>5 DEF System, Room, OnEvents
  <1>7. ASSUME NEW n \in DOMAIN k.fds_, k.fds_[n].fd \in Handles \ X
        PROVE  n \in DOMAIN f /\ f[n].fd = k.fds_[n].fd /\ f[n].sink = k.fds_[n].sink
    BY <1>3, <1>7
  <1>8. \A n \in DOMAIN k.fds_ : k.fds_[n].fd \in Handles \ X =>
          \E j \in DOMAIN k1.fds_ : k1.fds_[j].fd = k.fds_[n].fd /\ k1.fds_[j].sink = k.fds_[n].sink
    BY <1>5, <1>7
  <1>9. Follows(k, k1, X)
    BY <1>5, <1>6, <1>8, EntriesFollow
  <1> QED
    BY <1>1, <1>4, <1>5, <1>9, Zenon

\* AddFd of AsyncEventPoller.
LEMMA EventAdds ==
  ASSUME NEW k, System(k), OnEvents(k), NEW h \in Nat, NEW s \in Nat, NEW r \in Event!AddFd(k, h, s)
  PROVE  /\ Follows(k, r.sys, {}) /\ r.sys.socks = k.socks
         /\ r.ok => HasEntry(r.sys, h, s)
  <1>1. PICK e : e = Event!LeastFree(DOMAIN k.events)
    BY Zenon
  <1>2. e \in Nat
    <2>1. \A S : Event!LeastFree(S) = LeastFree(S)
      BY Zenon DEF Event!LeastFree, LeastFree, Event!Cardinality, Cardinality
    <2>2. IsFiniteSet(DOMAIN k.events)
      BY DEF System
    <2> QED
      BY <1>1, <2>1, <2>2, LeastFreeFacts
  <1>3. PICK x, v, b : x = Event!Entry(h, e, s) /\ v = Event!With(k.events, e, FALSE)
                       /\ b = k.has_retired_
    BY Zenon
  <1>4. x \in EntryType /\ x.fd = h /\ x.sink = s
    BY <1>2, <1>3 DEF Event!Entry, EntryType
  <1>5. IsFiniteSet(DOMAIN v)
    <2>1. IsFiniteSet(DOMAIN k.events \cup {e})
      BY FS_AddElement DEF System
    <2> QED
      BY <1>3, <2>1 DEF Event!With
  <1>6. PICK f : f = Append(k.fds_, x)
    BY Zenon
  <1>7. PICK added : added = Replace(k, f, v, b)
    BY Zenon
  <1>8. added = [k EXCEPT !.events = v, !.fds_ = f]
    BY <1>3, <1>7 DEF System, IsRecord, SystemFields, Replace
  <1>9. Event!AddFd(k, h, s) = Event!When(~Event!Full(k), {[sys |-> added, ok |-> TRUE]})
          \cup {[sys |-> k1, ok |-> FALSE] : k1 \in Event!When(Event!Full(k), {k}) \cup Event!Faulty(k)}
    BY <1>1, <1>3, <1>6, <1>8, Zenon DEF Event!AddFd
  <1>10. CASE ~Event!Full(k) /\ r = [sys |-> added, ok |-> TRUE]
    <2>1. /\ IsRecord(added, SystemFields) /\ added.events = v /\ added.fds_ = f
          /\ added.poller = k.poller /\ added.socks = k.socks /\ added.faults = k.faults
      BY <1>7, Replaced
    <2>2. /\ f \in Seq(EntryType) /\ Len(f) = Len(k.fds_) + 1 /\ Len(k.fds_) \in Nat
          /\ DOMAIN k.fds_ = 1 .. Len(k.fds_) /\ DOMAIN f = 1 .. Len(f)
          /\ f[Len(f)] = x /\ \A i \in DOMAIN k.fds_ : f[i] = k.fds_[i]
      <3>1. k.fds_ \in Seq(EntryType)
        BY DEF System
      <3> HIDE DEF EntryType
      <3> QED
        BY <1>4, <1>6, <3>1
    <2>3. Room(added) /\ added.faults \in Nat
      <3>1. ~(Len(k.fds_) >= WSA_MAXIMUM_WAIT_EVENTS) /\ WSA_MAXIMUM_WAIT_EVENTS \in Nat
        BY <1>10, NetworkAssumption DEF Event!Full
      <3>2. Len(f) <= WSA_MAXIMUM_WAIT_EVENTS
        BY <2>2, <3>1
      <3> QED
        BY <2>1, <3>2 DEF Room, OnEvents, System
    <2>4. \A i \in DOMAIN k.fds_ : i \in DOMAIN f /\ f[i] = k.fds_[i]
      BY <2>2
    <2>5. Follows(k, added, {})
      BY <1>5, <2>1, <2>2, <2>3, <2>4, EntriesFollow
    <2>6. HasEntry(added, h, s)
      <3>1. Len(f) \in DOMAIN f
        BY <2>2
      <3> QED
        BY <1>4, <2>1, <2>2, <3>1 DEF HasEntry
    <2>7. r.sys = added
      BY <1>10
    <2> QED
      BY <2>1, <2>5, <2>6, <2>7, Zenon
  <1>11. CASE \E k1 \in Event!When(Event!Full(k), {k}) \cup Event!Faulty(k) : r = [sys |-> k1, ok |-> FALSE]
    <2>1. PICK k1 : k1 = r.sys
      BY Zenon
    <2>2. r.ok = FALSE
      BY <1>11
    <2>3. k1 = k \/ k1 \in Event!Faulty(k)
      BY <1>11, <2>1 DEF Event!When
    <2>4. Event!Faulty(k) = Faulty(k)
      BY Zenon DEF Event!Faulty, Faulty, Event!When, When
    <2>5. Follows(k, k1, {}) /\ k1.socks = k.socks
      BY <2>3, <2>4, FollowsTwice, FaultyFollows
    <2> QED
      BY <2>1, <2>2, <2>5
  <1> QED
    BY <1>9, <1>10, <1>11 DEF Event!When

\* AddFd of AsyncSelectPoller.
LEMMA MessageAdds ==
  ASSUME NEW k, System(k), ~OnEvents(k), NEW h \in Nat, NEW s \in Nat, NEW r \in Message!AddFd(k, h, s)
  PROVE  /\ Follows(k, r.sys, {}) /\ r.sys.socks = k.socks
         /\ r.ok => HasEntry(r.sys, h, s)
  <1>1. PICK x, e, b : x = Message!Entry(h, s) /\ e = k.events /\ b = k.has_retired_
    BY Zenon
  <1>2. x \in EntryType /\ x.fd = h /\ x.sink = s
    BY <1>1 DEF Message!Entry, EntryType, Message!WSA_INVALID_EVENT
  <1>3. PICK f : f = Append(k.fds_, x)
    BY Zenon
  <1>4. PICK added : added = Replace(k, f, e, b)
    BY Zenon
  <1>5. added = [k EXCEPT !.fds_ = f]
    BY <1>1, <1>4 DEF System, IsRecord, SystemFields, Replace
  <1>6. Message!AddFd(k, h, s) = IF Message!Full(k) THEN {[sys |-> k, ok |-> FALSE]}
                                 ELSE {[sys |-> added, ok |-> TRUE]}
    BY <1>1, <1>3, <1>5, Zenon DEF Message!AddFd
  <1>7. CASE ~Message!Full(k)
    <2>1. /\ IsRecord(added, SystemFields) /\ added.events = e /\ added.fds_ = f
          /\ added.poller = k.poller /\ added.socks = k.socks /\ added.faults = k.faults
      BY <1>4, Replaced
    <2>2. /\ f \in Seq(EntryType) /\ Len(f) = Len(k.fds_) + 1 /\ Len(k.fds_) \in Nat
          /\ DOMAIN k.fds_ = 1 .. Len(k.fds_) /\ DOMAIN f = 1 .. Len(f)
          /\ f[Len(f)] = x /\ \A i \in DOMAIN k.fds_ : f[i] = k.fds_[i]
      <3>1. k.fds_ \in Seq(EntryType)
        BY DEF System
      <3> HIDE DEF EntryType
      <3> QED
        BY <1>2, <1>3, <3>1
    <2>3. Room(added) /\ added.faults \in Nat
      <3>1. ~(Len(k.fds_) >= FD_SETSIZE) /\ FD_SETSIZE \in Nat
        BY <1>7, NetworkAssumption DEF Message!Full
      <3>2. Len(f) <= FD_SETSIZE
        BY <2>2, <3>1
      <3> QED
        BY <2>1, <3>2 DEF Room, OnEvents, System
    <2>4. \A i \in DOMAIN k.fds_ : i \in DOMAIN f /\ f[i] = k.fds_[i]
      BY <2>2
    <2>5. IsFiniteSet(DOMAIN added.events)
      BY <1>1, <2>1 DEF System
    <2>6. Follows(k, added, {})
      BY <2>1, <2>2, <2>3, <2>4, <2>5, EntriesFollow
    <2>7. HasEntry(added, h, s)
      <3>1. Len(f) \in DOMAIN f
        BY <2>2
      <3> QED
        BY <1>2, <2>1, <2>2, <3>1 DEF HasEntry
    <2>8. r.sys = added
      BY <1>6, <1>7
    <2> QED
      BY <2>1, <2>6, <2>7, <2>8, Zenon
  <1>8. CASE Message!Full(k)
    <2>1. r.sys = k /\ r.ok = FALSE
      BY <1>6, <1>8
    <2> QED
      BY <2>1, FollowsTwice
  <1> QED
    BY <1>7, <1>8

\* AddFd of PollerBase.
LEMMA Adds ==
  ASSUME NEW k, System(k), NEW h \in Nat, NEW s \in Nat, NEW r \in AddFd(k, h, s)
  PROVE  /\ Follows(k, r.sys, {}) /\ r.sys.socks = k.socks
         /\ r.ok => HasEntry(r.sys, h, s)
  <1>1. CASE OnEvents(k)
    <2>1. r \in Event!AddFd(k, h, s)
      BY <1>1, Zenon DEF AddFd
    <2> QED
      BY <1>1, <2>1, EventAdds
  <1>2. CASE ~OnEvents(k)
    <2>1. r \in Message!AddFd(k, h, s)
      BY <1>2, Zenon DEF AddFd
    <2> QED
      BY <1>2, <2>1, MessageAdds
  <1> QED
    BY <1>1, <1>2

\* The end of RemoveFd: the selection of the socket is withdrawn.
LEMMA Deselected ==
  ASSUME NEW k, NEW h, NEW k1, Follows(k, k1, {h}), k1.faults = k.faults, NEW e, e = WSA_INVALID_EVENT
  PROVE  /\ Follows(k, Select(k1, h, e, {}), {h})
         /\ Select(k1, h, e, {}).faults = k.faults
  <1>1. System(k1) /\ e \in Nat /\ {} \in SUBSET Events
    BY DEF Follows, WSA_INVALID_EVENT
  <1>2. PICK mask, X : mask = {} /\ X = {h}
    BY Zenon
  <1>3. PICK k2 : k2 = Select(k1, h, e, mask)
    BY Zenon
  <1>4. Calm(k1, k2)
    BY <1>1, <1>2, <1>3, SelectCalm, Zenon
  <1>5. Follows(k1, k2, {}) /\ k2.faults = k.faults
    BY <1>4, CalmFollows DEF Calm
  <1>6. Follows(k, k2, X)
    <2>1. Follows(k, k1, X) /\ Follows(k1, k2, X)
      BY <1>2, <1>5 DEF Follows
    <2> QED
      BY <2>1, FollowsTwice, Zenon
  <1> QED
    BY <1>2, <1>3, <1>5, <1>6, Zenon

\* The system with the mark set.
LEMMA MarkFollows ==
  ASSUME NEW k, System(k), NEW X, NEW b, NEW k1, k1 = Replace(k, k.fds_, k.events, b)
  PROVE  Follows(k, k1, X) /\ k1.faults = k.faults
  <1>1. PICK f, e : f = k.fds_ /\ e = k.events
    BY Zenon
  <1>2. PICK k2 : k2 = Replace(k, f, e, b)
    BY Zenon
  <1>3. /\ IsRecord(k2, SystemFields) /\ k2.events = e /\ k2.fds_ = f
        /\ k2.poller = k.poller /\ k2.socks = k.socks /\ k2.faults = k.faults
    BY <1>2, Replaced
  <1>4. /\ Room(k2) /\ k2.faults \in Nat /\ k2.fds_ \in Seq(EntryType) /\ IsFiniteSet(DOMAIN k2.events)
        /\ k2.fds_ = k.fds_
    BY <1>1, <1>3 DEF System, Room, OnEvents
  <1>5. Follows(k, k2, X)
    BY <1>3, <1>4, EntriesFollow
  <1>6. k2 = k1
    BY <1>1, <1>2
  <1> QED
    BY <1>3, <1>5, <1>6

\* RemoveFd of AsyncEventPoller.
LEMMA EventRemoves ==
  ASSUME NEW k, System(k), NEW h
  PROVE  Follows(k, Event!RemoveFd(k, h), {h}) /\ Event!RemoveFd(k, h).faults = k.faults
  <1> DEFINE i == Event!FindEntry(k, h)
             x == Event!Retired(k.fds_[i])
             f == [k.fds_ EXCEPT ![i] = x]
             e == Event!Without(k.events, k.fds_[i].hEvent)
  <1>1. PICK b, none : b = TRUE /\ none = WSA_INVALID_EVENT
    BY Zenon
  <1>2. PICK k1 : k1 = IF i = 0 THEN Replace(k, k.fds_, k.events, b) ELSE Replace(k, f, e, b)
    BY Zenon
  <1>3. Event!RemoveFd(k, h) = Event!Select(k1, h, none, {})
    <2>1. DOMAIN k = SystemFields
      BY DEF System, IsRecord
    <2>2. Event!WSA_INVALID_EVENT = none
      BY <1>1, Zenon DEF WSA_INVALID_EVENT, Event!WSA_INVALID_EVENT
    <2>3. Replace(k, k.fds_, k.events, b) = [k EXCEPT !.has_retired_ = b]
      BY <2>1 DEF Replace, SystemFields
    <2>4. Replace(k, f, e, b)
            = [[k EXCEPT !.events = Event!Without(@, k.fds_[i].hEvent), !.fds_[i] = Event!Retired(@)]
               EXCEPT !.has_retired_ = b]
      BY <2>1, Zenon DEF Replace
    <2> DEFINE j == IF i = 0 THEN k ELSE [k EXCEPT !.events = Event!Without(@, k.fds_[i].hEvent),
                                                   !.fds_[i] = Event!Retired(@)]
    <2>5. Event!RemoveFd(k, h) = Event!Select([j EXCEPT !.has_retired_ = TRUE], h, Event!WSA_INVALID_EVENT, {})
      BY Zenon DEF Event!RemoveFd
    <2>6. [j EXCEPT !.has_retired_ = TRUE] = k1
      BY <1>1, <1>2, <2>3, <2>4
    <2> HIDE DEF j
    <2> QED
      BY <2>2, <2>5, <2>6
  <1>4. Event!Select(k1, h, none, {}) = Select(k1, h, none, {})
    BY EventReports, Zenon
  <1>5. Follows(k, k1, {h}) /\ k1.faults = k.faults
    <2>1. PICK X : X = {h}
      BY Zenon
    <2>2. CASE i = 0
      <3>1. k1 = Replace(k, k.fds_, k.events, b)
        BY <1>2, <2>2
      <3> QED
        BY <2>1, <3>1, MarkFollows
    <2>3. CASE i # 0
      <3>1. i \in DOMAIN k.fds_ /\ k.fds_[i].fd = h
        BY <2>3, Found
      <3>2. k.fds_[i] \in EntryType
        <4>1. k.fds_ \in Seq(EntryType)
          BY DEF System
        <4> HIDE DEF EntryType, i
        <4> QED
          BY <3>1, <4>1
      <3>3. x \in EntryType
        BY <3>2 DEF EntryType, Event!Retired, Event!WSA_INVALID_EVENT, Event!INVALID_SOCKET, INVALID_SOCKET
      <3>4. IsFiniteSet(DOMAIN e)
        BY FS_RemoveElement DEF System, Event!Without
      <3>5. k.fds_[i].fd \in X
        BY <2>1, <3>1
      <3> HIDE DEF i, x, e
      <3>6. Follows(k, Replace(k, f, e, b), X) /\ Replace(k, f, e, b).faults = k.faults
        BY <3>1, <3>3, <3>4, <3>5, EntryFollows
      <3> QED
        BY <1>2, <2>1, <2>3, <3>6
    <2> QED
      BY <2>2, <2>3
  <1> QED
    BY <1>1, <1>3, <1>4, <1>5, Deselected

\* RemoveFd of AsyncSelectPoller.
LEMMA MessageRemoves ==
  ASSUME NEW k, System(k), NEW h
  PROVE  Follows(k, Message!RemoveFd(k, h), {h}) /\ Message!RemoveFd(k, h).faults = k.faults
  <1> DEFINE i == Message!FindEntry(k, h)
             x == Message!RetiredEntry
             f == [k.fds_ EXCEPT ![i] = x]
             e == k.events
  <1>1. PICK b, none : b = TRUE /\ none = WSA_INVALID_EVENT
    BY Zenon
  <1>2. PICK k1 : k1 = IF i = 0 THEN Replace(k, k.fds_, e, b) ELSE Replace(k, f, e, b)
    BY Zenon
  <1>3. Message!RemoveFd(k, h) = Message!Select(k1, h, none, {})
    <2>1. DOMAIN k = SystemFields
      BY DEF System, IsRecord
    <2>2. Message!WSA_INVALID_EVENT = none
      BY <1>1, Zenon DEF WSA_INVALID_EVENT, Message!WSA_INVALID_EVENT
    <2>3. Replace(k, k.fds_, e, b) = [k EXCEPT !.has_retired_ = b]
      BY <2>1 DEF Replace, SystemFields
    <2>4. Replace(k, f, e, b) = [[k EXCEPT !.fds_[i] = Message!RetiredEntry] EXCEPT !.has_retired_ = b]
      <3> HIDE DEF i, x
      <3>1. Replace(k, f, e, b) = [[k EXCEPT !.fds_ = f] EXCEPT !.has_retired_ = b]
        BY <2>1 DEF Replace, SystemFields
      <3> QED
        BY <3>1, Zenon DEF x
    <2> DEFINE j == IF i = 0 THEN k ELSE [k EXCEPT !.fds_[i] = Message!RetiredEntry]
    <2>5. Message!RemoveFd(k, h)
            = Message!Select([j EXCEPT !.has_retired_ = TRUE], h, Message!WSA_INVALID_EVENT, {})
      BY Zenon DEF Message!RemoveFd
    <2>6. [j EXCEPT !.has_retired_ = TRUE] = k1
      BY <1>1, <1>2, <2>3, <2>4
    <2> HIDE DEF j
    <2> QED
      BY <2>2, <2>5, <2>6
  <1>4. Message!Select(k1, h, none, {}) = Select(k1, h, none, {})
    BY MessageReports, Zenon
  <1>5. Follows(k, k1, {h}) /\ k1.faults = k.faults
    <2>1. PICK X : X = {h}
      BY Zenon
    <2>2. CASE i = 0
      <3>1. k1 = Replace(k, k.fds_, k.events, b)
        BY <1>2, <2>2
      <3> QED
        BY <2>1, <3>1, MarkFollows
    <2>3. CASE i # 0
      <3>1. i \in DOMAIN k.fds_ /\ k.fds_[i].fd = h
        BY <2>3, Found
      <3>2. x \in EntryType
        BY DEF EntryType, Message!RetiredEntry, Message!Entry, Message!WSA_INVALID_EVENT,
               Message!INVALID_SOCKET, INVALID_SOCKET
      <3>3. IsFiniteSet(DOMAIN e)
        BY DEF System
      <3>4. k.fds_[i].fd \in X
        BY <2>1, <3>1
      <3> HIDE DEF i, x, e
      <3>5. Follows(k, Replace(k, f, e, b), X) /\ Replace(k, f, e, b).faults = k.faults
        BY <3>1, <3>2, <3>3, <3>4, EntryFollows
      <3> QED
        BY <1>2, <2>1, <2>3, <3>5
    <2> QED
      BY <2>2, <2>3
  <1> QED
    BY <1>1, <1>3, <1>4, <1>5, Deselected

\* RemoveFd of PollerBase.
LEMMA Removes ==
  ASSUME NEW k, System(k), NEW h
  PROVE  Follows(k, RemoveFd(k, h), {h}) /\ RemoveFd(k, h).faults = k.faults
  <1>1. CASE OnEvents(k)
    <2>1. RemoveFd(k, h) = Event!RemoveFd(k, h)
      BY <1>1, Zenon DEF RemoveFd
    <2> QED
      BY <2>1, EventRemoves
  <1>2. CASE ~OnEvents(k)
    <2>1. RemoveFd(k, h) = Message!RemoveFd(k, h)
      BY <1>2, Zenon DEF RemoveFd
    <2> QED
      BY <2>1, MessageRemoves
  <1> QED
    BY <1>1, <1>2

\* RemoveFd and closesocket.
LEMMA Closes ==
  ASSUME NEW k, System(k), NEW h
  PROVE  /\ Follows(k, closesocket(RemoveFd(k, h), h), {h})
         /\ closesocket(RemoveFd(k, h), h).faults = k.faults
  <1>1. PICK k1 : k1 = RemoveFd(k, h)
    BY Zenon
  <1>2. Follows(k, k1, {h}) /\ k1.faults = k.faults
    BY <1>1, Removes
  <1>3. PICK v : v = Without(k1.socks, h)
    BY Zenon
  <1>4. PICK k2 : k2 = [k1 EXCEPT !.socks = v]
    BY Zenon
  <1>5. System(k1) /\ IsRecord(k1, SystemFields) /\ "socks" \in SystemFields
    BY <1>2 DEF Follows, System, SystemFields
  <1>6. k2.socks = v /\ IsRecord(k2, SystemFields) /\ \A f \in SystemFields \ {"socks"} : k2[f] = k1[f]
    BY <1>4, <1>5, Assign
  <1>7. /\ k2.poller = k1.poller /\ k2.fds_ = k1.fds_ /\ k2.faults = k1.faults /\ k2.events = k1.events
    BY <1>6 DEF SystemFields
  <1>8. DOMAIN v = DOMAIN k1.socks \ {h} /\ \A g \in DOMAIN v : v[g] = k1.socks[g]
    BY <1>3 DEF Without
  <1>9. System(k2)
    <2>1. DOMAIN v \subseteq Handles /\ IsFiniteSet(DOMAIN v) /\ \A g \in DOMAIN v : v[g] \in SocketType
      BY <1>5, <1>8, FS_RemoveElement DEF System
    <2>2. k2.fds_ \in Seq(EntryType) /\ IsFiniteSet(DOMAIN k2.events) /\ Room(k2) /\ k2.faults \in Nat
      BY <1>5, <1>7 DEF System, Room, OnEvents
    <2> QED
      BY <1>6, <2>1, <2>2 DEF System
  <1>10. \A g \in Conns(k1) \ {h} : g \in Conns(k2)
    BY <1>6, <1>8 DEF Conns
  <1>11. Follows(k1, k2, {h})
    BY <1>7, <1>9, <1>10 DEF Follows, HasEntry
  <1>12. Follows(k, k2, {h})
    <2>1. PICK X : X = {h}
      BY Zenon
    <2> QED
      BY <1>2, <1>11, <2>1, FollowsTwice, Zenon
  <1>13. closesocket(RemoveFd(k, h), h) = k2
    BY <1>1, <1>3, <1>4, Zenon DEF closesocket
  <1> QED
    BY <1>2, <1>7, <1>12, <1>13

\* The events of the entry at i are changed, then the selection of its socket.
LEMMA Changed ==
  ASSUME NEW k, System(k), NEW i \in DOMAIN k.fds_, NEW h, NEW l \in SUBSET Events
  PROVE  /\ Follows(k, Select([k EXCEPT !.fds_[i].lEvents = l], h, k.fds_[i].hEvent, l), {})
         /\ Follows(k, Select([k EXCEPT !.fds_[i].lEvents = l], h, WSA_INVALID_EVENT, l), {})
  <1> DEFINE x == [k.fds_[i] EXCEPT !.lEvents = l]
  <1>1. k.fds_[i] \in EntryType
    <2>1. k.fds_ \in Seq(EntryType)
      BY DEF System
    <2> HIDE DEF EntryType
    <2> QED
      BY <2>1
  <1>2. x \in EntryType /\ x.fd = k.fds_[i].fd /\ x.sink = k.fds_[i].sink
    BY <1>1 DEF EntryType
  <1>3. PICK f, e, b, X : f = [k.fds_ EXCEPT ![i] = x] /\ e = k.events /\ b = k.has_retired_ /\ X = {}
    BY Zenon
  <1> HIDE DEF x
  <1>4. PICK k1 : k1 = Replace(k, f, e, b)
    BY Zenon
  <1>5. k1 = [k EXCEPT !.fds_[i].lEvents = l]
    <2>1. DOMAIN k = SystemFields
      BY DEF System, IsRecord
    <2>2. k1 = [k EXCEPT !.fds_ = f]
      <3> HIDE DEF x
      <3>1. PICK g : g = f
        BY Zenon
      <3>2. k1 = Replace(k, g, k.events, k.has_retired_)
        BY <1>3, <1>4, <3>1, Zenon
      <3>3. k1 = [k EXCEPT !.fds_ = g]
        BY <2>1, <3>2 DEF Replace, SystemFields, System, IsRecord
      <3> QED
        BY <3>1, <3>3, Zenon
    <2> QED
      BY <1>3, <2>2, Zenon DEF x
  <1>6. IsFiniteSet(DOMAIN e)
    BY <1>3 DEF System
  <1>7. Follows(k, k1, X)
    <2>1. Follows(k, Replace(k, [k.fds_ EXCEPT ![i] = x], e, b), X)
      BY <1>2, <1>6, EntryFollows
    <2> QED
      BY <1>3, <1>4, <2>1, Zenon
  <1>8. ASSUME NEW ev \in Nat PROVE Follows(k, Select(k1, h, ev, l), {})
    <2>1. System(k1)
      BY <1>7 DEF Follows
    <2>2. Calm(k1, Select(k1, h, ev, l))
      BY <2>1, SelectCalm
    <2>3. Follows(k1, Select(k1, h, ev, l), {})
      BY <2>2, CalmFollows
    <2> QED
      BY <1>3, <1>7, <2>3, FollowsTwice, Zenon
  <1>9. k.fds_[i].hEvent \in Nat /\ WSA_INVALID_EVENT \in Nat
    BY <1>1 DEF EntryType, WSA_INVALID_EVENT
  <1>10. Follows(k, Select(k1, h, k.fds_[i].hEvent, l), {}) /\ Follows(k, Select(k1, h, WSA_INVALID_EVENT, l), {})
    BY <1>8, <1>9
  <1> QED
    BY <1>5, <1>10, Zenon

\* ChangeEvents of both pollers.
LEMMA ChangesEvents ==
  ASSUME NEW k, System(k), NEW h, NEW on \in SUBSET Events, NEW off
  PROVE  /\ Follows(k, Event!ChangeEvents(k, h, on, off), {})
         /\ Follows(k, Message!ChangeEvents(k, h, on, off), {})
  <1>1. ASSUME NEW i \in DOMAIN k.fds_ PROVE (k.fds_[i].lEvents \cup on) \ off \in SUBSET Events
    <2>1. k.fds_[i] \in EntryType
      <3>1. k.fds_ \in Seq(EntryType)
        BY DEF System
      <3> HIDE DEF EntryType
      <3> QED
        BY <3>1
    <2> QED
      BY <2>1 DEF EntryType
  <1>2. Follows(k, k, {})
    BY FollowsTwice, Zenon
  <1>3. Follows(k, Event!ChangeEvents(k, h, on, off), {})
    <2> DEFINE i == Event!FindEntry(k, h)
               l == (k.fds_[i].lEvents \cup on) \ off
               j == [k EXCEPT !.fds_[i].lEvents = l]
    <2>1. Event!ChangeEvents(k, h, on, off) = IF i = 0 THEN k ELSE Event!Select(j, h, k.fds_[i].hEvent, l)
      BY Zenon DEF Event!ChangeEvents
    <2>2. Event!Select(j, h, k.fds_[i].hEvent, l) = Select(j, h, k.fds_[i].hEvent, l)
      BY EventReports, Zenon
    <2>3. i # 0 => i \in DOMAIN k.fds_
      BY Found
    <2> HIDE DEF i
    <2>4. i # 0 => l \in SUBSET Events
      BY <1>1, <2>3
    <2> HIDE DEF l
    <2>5. i # 0 => Follows(k, Select(j, h, k.fds_[i].hEvent, l), {})
      BY <2>3, <2>4, Changed
    <2> HIDE DEF j
    <2> QED
      BY <1>2, <2>1, <2>2, <2>5
  <1>4. Follows(k, Message!ChangeEvents(k, h, on, off), {})
    <2> DEFINE i == Message!FindEntry(k, h)
               l == (k.fds_[i].lEvents \cup on) \ off
               j == [k EXCEPT !.fds_[i].lEvents = l]
    <2>1. Message!ChangeEvents(k, h, on, off)
            = IF i = 0 THEN k ELSE Message!Select(j, h, Message!WSA_INVALID_EVENT, l)
      BY Zenon DEF Message!ChangeEvents
    <2>2. Message!Select(j, h, Message!WSA_INVALID_EVENT, l) = Select(j, h, Message!WSA_INVALID_EVENT, l)
      BY MessageReports, Zenon
    <2>3. Message!WSA_INVALID_EVENT = WSA_INVALID_EVENT
      BY Zenon DEF Message!WSA_INVALID_EVENT, WSA_INVALID_EVENT
    <2>4. i # 0 => i \in DOMAIN k.fds_
      BY Found
    <2> HIDE DEF i
    <2>5. i # 0 => l \in SUBSET Events
      BY <1>1, <2>4
    <2> HIDE DEF l
    <2>6. i # 0 => Follows(k, Select(j, h, WSA_INVALID_EVENT, l), {})
      BY <2>4, <2>5, Changed
    <2> HIDE DEF j
    <2> QED
      BY <1>2, <2>1, <2>2, <2>3, <2>6
  <1> QED
    BY <1>3, <1>4

\* Changes of interest of PollerBase.
LEMMA Changes ==
  ASSUME NEW k, System(k), NEW h
  PROVE  /\ Follows(k, SetPollIn(k, h), {})
         /\ Follows(k, SetPollOut(k, h), {})
         /\ Follows(k, ResetPollOut(k, h), {})
  <1>1. PICK R, W, none : R = ReadEvents /\ W = WriteEvents /\ none = {}
    BY Zenon
  <1>2. R \in SUBSET Events /\ W \in SUBSET Events /\ none \in SUBSET Events
    BY <1>1 DEF Events, ReadEvents, WriteEvents
  <1>3. /\ Event!ReadEvents = R /\ Message!ReadEvents = R
        /\ Event!WriteEvents = W /\ Message!WriteEvents = W
    BY <1>1, Zenon DEF Event!ReadEvents, Message!ReadEvents, Event!WriteEvents, Message!WriteEvents,
                       ReadEvents, WriteEvents
  <1>4. /\ Follows(k, Event!ChangeEvents(k, h, R, none), {})
        /\ Follows(k, Event!ChangeEvents(k, h, W, none), {})
        /\ Follows(k, Event!ChangeEvents(k, h, none, W), {})
        /\ Follows(k, Message!ChangeEvents(k, h, R, none), {})
        /\ Follows(k, Message!ChangeEvents(k, h, W, none), {})
        /\ Follows(k, Message!ChangeEvents(k, h, none, W), {})
    BY <1>2, ChangesEvents
  <1>5. /\ Event!SetPollIn(k, h) = Event!ChangeEvents(k, h, R, none)
        /\ Event!SetPollOut(k, h) = Event!ChangeEvents(k, h, W, none)
        /\ Event!ResetPollOut(k, h) = Event!ChangeEvents(k, h, none, W)
    BY <1>1, <1>3, Zenon DEF Event!SetPollIn, Event!SetPollOut, Event!ResetPollOut
  <1>6. /\ Message!SetPollIn(k, h) = Message!ChangeEvents(k, h, R, none)
        /\ Message!SetPollOut(k, h) = Message!ChangeEvents(k, h, W, none)
        /\ Message!ResetPollOut(k, h) = Message!ChangeEvents(k, h, none, W)
    BY <1>1, <1>3, Zenon DEF Message!SetPollIn, Message!SetPollOut, Message!ResetPollOut
  <1> QED
    BY <1>4, <1>5, <1>6 DEF SetPollIn, SetPollOut, ResetPollOut

\* RemoveRetired of both pollers.
Sweep(k) == [k EXCEPT !.fds_ = IF k.has_retired_ THEN Swept(@, INVALID_SOCKET) ELSE @,
                      !.has_retired_ = FALSE]

\* The sweep keeps the entries of sockets.
LEMMA Sweeps ==
  ASSUME NEW k, System(k)
  PROVE  Follows(k, Event!RemoveRetired(k), {}) /\ Follows(k, Message!RemoveRetired(k), {})
  <1>1. PICK no, s, b, e, X : /\ no = INVALID_SOCKET /\ s = k.fds_ /\ b = FALSE /\ e = k.events
                              /\ X = {}
    BY Zenon
  <1>2. Event!RemoveRetired(k) = Sweep(k) /\ Message!RemoveRetired(k) = Sweep(k)
    <2>1. Event!INVALID_SOCKET = no /\ Message!INVALID_SOCKET = no
      BY <1>1 DEF Event!INVALID_SOCKET, Message!INVALID_SOCKET, INVALID_SOCKET
    <2>2. Event!Swept(s, no) = Swept(s, no) /\ Message!Swept(s, no) = Swept(s, no)
      BY Zenon DEF Event!Swept, Message!Swept, Swept
    <2> QED
      BY <1>1, <2>1, <2>2, Zenon DEF Event!RemoveRetired, Message!RemoveRetired, Sweep
  <1>3. PICK f : f = IF k.has_retired_ THEN Swept(s, no) ELSE s
    BY Zenon
  <1>4. PICK k1 : k1 = Replace(k, f, e, b)
    BY Zenon
  <1>5. k1 = Sweep(k)
    <2>1. DOMAIN k = SystemFields
      BY DEF System, IsRecord
    <2>2. Replace(k, f, e, b) = [k EXCEPT !.fds_ = f, !.has_retired_ = b]
      BY <1>1, <2>1 DEF Replace, SystemFields
    <2>3. Sweep(k) = [k EXCEPT !.fds_ = f, !.has_retired_ = b]
      BY <1>1, <1>3, Zenon DEF Sweep
    <2> QED
      BY <1>4, <2>2, <2>3, Zenon
  <1>6. s \in Seq(EntryType)
    BY <1>1 DEF System
  <1>7. Left(s, Len(s), Swept(s, no), EntryType, no)
    BY <1>6, SweptFacts
  <1>8. f \in Seq(EntryType) /\ Len(f) <= Len(s) /\ Len(f) \in Nat /\ Len(s) \in Nat
    <2>1. Swept(s, no) \in Seq(EntryType) /\ Len(Swept(s, no)) <= Len(s)
      BY <1>7 DEF Left
    <2> HIDE DEF EntryType
    <2> QED
      BY <1>3, <1>6, <2>1
  <1>9. ASSUME NEW i \in DOMAIN s, s[i].fd # no PROVE \E j \in DOMAIN f : f[j] = s[i]
    <2>1. CASE ~k.has_retired_
      BY <1>3, <2>1
    <2>2. CASE k.has_retired_
      <3>1. i \in 1 .. Len(s) /\ DOMAIN f = 1 .. Len(f)
        <4> HIDE DEF EntryType
        <4> QED
          BY <1>6, <1>8
      <3>2. f = Swept(s, no)
        BY <1>3, <2>2
      <3> QED
        BY <1>7, <1>9, <3>1, <3>2 DEF Left
    <2> QED
      BY <2>1, <2>2
  <1>10. /\ IsRecord(k1, SystemFields) /\ k1.events = e /\ k1.fds_ = f
         /\ k1.poller = k.poller /\ k1.socks = k.socks /\ k1.faults = k.faults
    BY <1>4, Replaced
  <1>11. IsFiniteSet(DOMAIN k1.events) /\ k1.faults \in Nat /\ Room(k1) /\ k1.fds_ \in Seq(EntryType)
    <2>1. IsFiniteSet(DOMAIN k1.events) /\ k1.faults \in Nat /\ k1.fds_ \in Seq(EntryType)
      BY <1>1, <1>8, <1>10 DEF System
    <2>2. Room(k)
      BY DEF System
    <2>3. Room(k1)
      BY <1>1, <1>8, <1>10, <2>2, NetworkAssumption DEF Room, OnEvents
    <2> QED
      BY <2>1, <2>3
  <1>12. \A i \in DOMAIN k.fds_ : k.fds_[i].fd \in Handles \ X =>
           \E j \in DOMAIN k1.fds_ : k1.fds_[j].fd = k.fds_[i].fd /\ k1.fds_[j].sink = k.fds_[i].sink
    <2>1. no \notin Handles
      BY <1>1 DEF INVALID_SOCKET, Handles
    <2>2. \A i \in DOMAIN s : s[i].fd \in Handles \ X =>
           \E j \in DOMAIN f : f[j].fd = s[i].fd /\ f[j].sink = s[i].sink
      BY <1>9, <2>1
    <2> QED
      BY <1>1, <1>10, <2>2
  <1>13. Follows(k, k1, X)
    BY <1>10, <1>11, <1>12, EntriesFollow
  <1> QED
    BY <1>1, <1>2, <1>5, <1>13, Zenon

\* Poll of AsyncEventPoller.
LEMMA EventPolls == ASSUME System(os), Event!PollStep PROVE Follows(os, os', {}) /\ pc' \in PCs
  <1>1. PICK X : X = {}
    BY Zenon
  <1>2. Event!Faulty(os) = Faulty(os) /\ \A c, S : Event!When(c, S) = When(c, S)
    BY Zenon DEF Event!Faulty, Faulty, Event!When, When
  <1>3. Follows(os, os, X) /\ \A k1 \in Faulty(os) : Follows(os, k1, X)
    BY <1>1, FollowsTwice, FaultyFollows
  <1>4. CASE Event!PollWait
    <2>1. (os' = os \/ os' \in Event!Faulty(os)) /\ pc' = "timers"
      BY <1>4, Zenon DEF Event!PollWait
    <2> QED
      BY <1>1, <1>2, <1>3, <2>1 DEF PCs
  <1>5. CASE Event!PollNothing
    <2>1. os' = Event!RemoveRetired(os) /\ pc' = "idle"
      BY <1>5, Zenon DEF Event!PollNothing
    <2>2. Follows(os, Event!RemoveRetired(os), {})
      BY Sweeps
    <2> QED
      BY <2>1, <2>2 DEF PCs
  <1>6. CASE Event!PollLost
    <2>1. pc' = "idle" /\ os' \in When(Event!FindEntryByEvent(os, wait) = 0, {os}) \cup Faulty(os)
      BY <1>2, <1>6 DEF Event!PollLost
    <2>2. os' = os \/ os' \in Faulty(os)
      BY <2>1 DEF When
    <2> QED
      BY <1>1, <1>3, <2>1, <2>2 DEF PCs
  <1>7. CASE Event!PollEnumerate
    <2>1. PICK h : h = os.fds_[Event!FindEntryByEvent(os, wait)].fd
      BY Zenon
    <2>2. PICK e : e = Event!With(os.events, wait, FALSE)
      BY Zenon
    <2>3. os' = [os EXCEPT !.socks[h].rec = {}, !.events = e] /\ pc' = "dispatch"
      BY <1>7, <2>1, <2>2, Zenon DEF Event!PollEnumerate
    <2>4. PICK k1 : k1 = [os EXCEPT !.events = e]
      BY Zenon
    <2>5. Calm(os, k1)
      <3>1. IsRecord(os, SystemFields) /\ "events" \in SystemFields
        BY DEF System, SystemFields
      <3>2. k1.events = e /\ IsRecord(k1, SystemFields) /\ \A f \in SystemFields \ {"events"} : k1[f] = os[f]
        BY <2>4, <3>1, Assign
      <3>3. /\ k1.poller = os.poller /\ k1.fds_ = os.fds_ /\ k1.faults = os.faults /\ k1.socks = os.socks
        BY <3>2 DEF SystemFields
      <3>4. IsFiniteSet(DOMAIN e)
        BY <2>2, FS_AddElement DEF System, Event!With
      <3>5. System(k1)
        BY <3>2, <3>3, <3>4 DEF System, Room, OnEvents
      <3> QED
        BY <3>3, <3>5 DEF Calm
    <2>6. CASE h \in DOMAIN os.socks
      <3>1. PICK x : x = [os.socks[h] EXCEPT !.rec = {}]
        BY Zenon
      <3>2. os.socks[h] \in SocketType
        BY <2>6 DEF System
      <3>3. x \in SocketType /\ x.kind = os.socks[h].kind /\ x.fin = os.socks[h].fin
        BY <3>1, <3>2 DEF SocketType
      <3>4. k1.socks = os.socks
        BY <2>4 DEF System, IsRecord, SystemFields
      <3>5. PICK k2 : k2 = [k1 EXCEPT !.socks[h] = x]
        BY Zenon
      <3>6. os' = k2
        <4>1. DOMAIN os = SystemFields
          BY DEF System, IsRecord
        <4>2. os' = [os EXCEPT !.socks[h] = x, !.events = e]
          BY <2>3, <3>1, Zenon
        <4>3. k2 = [[os EXCEPT !.events = e] EXCEPT !.socks[h] = x]
          BY <2>4, <3>5, Zenon
        <4> QED
          BY <4>1, <4>2, <4>3 DEF SystemFields
      <3>7. Calm(k1, k2)
        <4>1. System(k1) /\ h \in DOMAIN k1.socks /\ x.kind = k1.socks[h].kind /\ x.fin = k1.socks[h].fin
          BY <2>5, <2>6, <3>3, <3>4 DEF Calm
        <4> QED
          BY <3>3, <3>5, <4>1, PutCalm, Zenon
      <3>8. Calm(os, k2)
        BY <2>5, <3>7, FollowsTwice
      <3> QED
        BY <2>3, <3>6, <3>8, CalmFollows DEF PCs
    <2>7. CASE h \notin DOMAIN os.socks
      <3>1. PICK v : v = [os.socks EXCEPT ![h].rec = {}]
        BY Zenon
      <3>2. DOMAIN v = DOMAIN os.socks /\ \A g \in DOMAIN os.socks : v[g] = os.socks[g]
        BY <2>7, <3>1
      <3>3. PICK k2 : k2 = [k1 EXCEPT !.socks = v]
        BY Zenon
      <3>4. os' = k2
        <4>1. DOMAIN os = SystemFields
          BY DEF System, IsRecord
        <4>2. os' = [os EXCEPT !.socks = v, !.events = e]
          BY <2>3, <3>1, Zenon
        <4>3. k2 = [[os EXCEPT !.events = e] EXCEPT !.socks = v]
          BY <2>4, <3>3, Zenon
        <4> QED
          BY <4>1, <4>2, <4>3 DEF SystemFields
      <3>5. k2.socks = v /\ IsRecord(k2, SystemFields) /\ \A f \in SystemFields \ {"socks"} : k2[f] = k1[f]
        <4>1. IsRecord(k1, SystemFields) /\ "socks" \in SystemFields
          BY <2>5 DEF Calm, System, SystemFields
        <4> QED
          BY <3>3, <4>1, Assign
      <3>6. /\ k2.poller = k1.poller /\ k2.fds_ = k1.fds_ /\ k2.faults = k1.faults
            /\ k2.events = k1.events
        BY <3>5 DEF SystemFields
      <3>7. k1.socks = os.socks
        BY <2>4 DEF System, IsRecord, SystemFields
      <3>8. System(k2)
        <4>1. System(k1)
          BY <2>5 DEF Calm
        <4> QED
          BY <3>2, <3>5, <3>6, <3>7, <4>1 DEF System, Room, OnEvents
      <3>9. Calm(k1, k2)
        BY <3>2, <3>5, <3>6, <3>7, <3>8 DEF Calm
      <3>10. Calm(os, k2)
        BY <2>5, <3>9, FollowsTwice
      <3> QED
        BY <2>3, <3>4, <3>10, CalmFollows DEF PCs
    <2> QED
      BY <2>6, <2>7
  <1>8. CASE Event!PollReturns
    <2>1. os' = os /\ pc' = "idle"
      BY <1>8, Zenon DEF Event!PollReturns
    <2> QED
      BY <1>1, <1>3, <2>1 DEF PCs
  <1> QED
    BY <1>4, <1>5, <1>6, <1>7, <1>8 DEF Event!PollStep

\* Poll of AsyncSelectPoller.
LEMMA MessagePolls == ASSUME System(os), Message!PollStep, pc \in PCs PROVE Follows(os, os', {}) /\ pc' \in PCs
  <1>1. Follows(os, os, {})
    BY FollowsTwice, Zenon
  <1>2. Follows(os, Message!Dequeued, {})
    <2>1. PICK q : q = Tail(os.queue)
      BY Zenon
    <2>2. PICK k1 : k1 = [os EXCEPT !.queue = q]
      BY Zenon
    <2>3. IsRecord(os, SystemFields) /\ "queue" \in SystemFields
      BY DEF System, SystemFields
    <2>4. IsRecord(k1, SystemFields) /\ \A f \in SystemFields \ {"queue"} : k1[f] = os[f]
      BY <2>2, <2>3, Assign
    <2>5. /\ k1.poller = os.poller /\ k1.fds_ = os.fds_ /\ k1.faults = os.faults /\ k1.socks = os.socks
          /\ k1.events = os.events
      BY <2>4 DEF SystemFields
    <2>6. System(k1)
      BY <2>4, <2>5 DEF System, Room, OnEvents
    <2>7. Calm(os, k1)
      BY <2>5, <2>6 DEF Calm
    <2>8. Message!Dequeued = k1
      BY <2>1, <2>2, Zenon DEF Message!Dequeued
    <2> QED
      BY <2>7, <2>8, CalmFollows
  <1>3. Follows(os, Message!RemoveRetired(os), {})
    BY Sweeps
  <1>4. CASE Message!PollBegin
    BY <1>1, <1>4, Zenon DEF Message!PollBegin, PCs
  <1>5. CASE Message!PollMessage
    BY <1>2, <1>5, Zenon DEF Message!PollMessage, PCs
  <1>6. CASE Message!PollUnknown
    <2>1. os' = Message!Dequeued /\ pc' = pc
      BY <1>6, Zenon DEF Message!PollUnknown, Message!poll
    <2> QED
      BY <1>2, <2>1
  <1>7. CASE Message!PollNext
    BY <1>1, <1>7, Zenon DEF Message!PollNext, PCs
  <1>8. CASE Message!PollDrained
    BY <1>1, <1>8, Zenon DEF Message!PollDrained, PCs
  <1>9. CASE Message!PollEnd
    BY <1>3, <1>9, Zenon DEF Message!PollEnd, PCs
  <1> QED
    BY <1>4, <1>5, <1>6, <1>7, <1>8, <1>9, Zenon DEF Message!PollStep

\* Poll of PollerBase, between callbacks and timers.
LEMMA Polls == ASSUME System(os), PollStep, pc \in PCs PROVE Follows(os, os', {}) /\ pc' \in PCs
  BY EventPolls, MessagePolls, Zenon DEF PollStep

-----------------------------------------------------------------------------
(* The socket helpers. *)

\* ReadSome, with what recv takes and leaves as parameters.
ReadWith(k, h, size, n, took) ==
  LET s == k.socks[h]
      readable == IsOpen(k, h) /\ IsConnected(s)
  IN  When(readable /\ (~s.fin /\ s.rx <= size), {[sys |-> took, n |-> n]})
        \cup When(readable /\ (s.fin \/ s.rx >= size), {[sys |-> took, n |-> -1]})
        \cup {[sys |-> k2, n |-> -1] : k2 \in When(~readable, {k}) \cup Faulty(k)}

\* The server and the client read in the same way.
LEMMA SameReads ==
  ASSUME NEW k, NEW h, NEW size
  PROVE  LET n == IF k.socks[h].rx < size THEN k.socks[h].rx ELSE size
         IN  /\ Server!ReadSome(k, h, size) = ReadWith(k, h, size, n, Take(k, h, n, "FD_READ"))
             /\ Client!ReadSome(k, h, size) = ReadWith(k, h, size, n, Take(k, h, n, "FD_READ"))
  <1> DEFINE n == IF k.socks[h].rx < size THEN k.socks[h].rx ELSE size
  <1>1. PICK ev : ev = "FD_READ"
    BY Zenon
  <1>2. PICK m : m = n
    BY Zenon
  <1>3. Server!ReadSome(k, h, size) = ReadWith(k, h, size, m, Server!Take(k, h, m, ev))
    BY <1>1, <1>2, Zenon DEF Server!ReadSome, ReadWith, Server!When, When, Server!Faulty, Faulty, Server!IsOpen,
                 IsOpen, Server!IsConnected, IsConnected
  <1>4. Client!ReadSome(k, h, size) = ReadWith(k, h, size, m, Client!Take(k, h, m, ev))
    BY <1>1, <1>2, Zenon DEF Client!ReadSome, ReadWith, Client!When, When, Client!Faulty, Faulty, Client!IsOpen,
                 IsOpen, Client!IsConnected, IsConnected
  <1>6. Server!Take(k, h, m, ev) = Take(k, h, m, ev)
    BY ServerTake, Zenon
  <1>7. Client!Take(k, h, m, ev) = Take(k, h, m, ev)
    BY ClientTake, Zenon
  <1>8. Server!ReadSome(k, h, size) = ReadWith(k, h, size, m, Take(k, h, m, ev))
    BY <1>3, <1>6, Zenon
  <1>9. Client!ReadSome(k, h, size) = ReadWith(k, h, size, m, Take(k, h, m, ev))
    BY <1>4, <1>7, Zenon
  <1> QED
    BY <1>1, <1>2, <1>8, <1>9, Zenon

\* What ReadSome leaves and returns.
LEMMA Reads ==
  ASSUME NEW k, System(k), NEW h, NEW size \in Nat,
         NEW r \in Server!ReadSome(k, h, size) \cup Client!ReadSome(k, h, size)
  PROVE  /\ Follows(k, r.sys, {}) /\ r.n \in Int
         /\ r.n > 0 => h \in DOMAIN k.socks /\ Calm(k, r.sys)
         /\ r.n < 0 /\ h \in Conns(k) =>
              k.socks[h].fin \/ k.socks[h].rx >= size \/ r.sys.faults # k.faults
  <1>1. PICK n : n = IF k.socks[h].rx < size THEN k.socks[h].rx ELSE size
    BY Zenon
  <1>2. PICK took : took = Take(k, h, n, "FD_READ")
    BY Zenon
  <1>3. r \in ReadWith(k, h, size, n, took)
    BY <1>1, <1>2, SameReads, Zenon
  <1>4. PICK s, readable : s = k.socks[h] /\ readable = (IsOpen(k, h) /\ IsConnected(s))
    BY Zenon
  <1>5. \/ readable /\ r = [sys |-> took, n |-> n]
        \/ readable /\ (s.fin \/ s.rx >= size) /\ r = [sys |-> took, n |-> -1]
        \/ ~readable /\ r = [sys |-> k, n |-> -1]
        \/ \E k2 \in Faulty(k) : r = [sys |-> k2, n |-> -1]
    BY <1>3, <1>4 DEF ReadWith, When
  <1>6. h \in Conns(k) => readable
    BY <1>4 DEF Conns, IsOpen, IsConnected
  <1>7. ASSUME readable PROVE h \in DOMAIN k.socks /\ n \in Nat /\ Calm(k, took) /\ Follows(k, took, {})
    <2>1. h \in DOMAIN k.socks
      BY <1>4, <1>7 DEF IsOpen
    <2>2. s.rx \in Nat
      BY <1>4, <2>1 DEF System, SocketType
    <2>3. n \in 0 .. k.socks[h].rx
      BY <1>1, <1>4, <2>2
    <2>4. Calm(k, Take(k, h, n, "FD_READ"))
      BY <2>1, <2>3, TakeCalm
    <2> QED
      BY <1>2, <2>1, <2>3, <2>4, CalmFollows
  <1>8. CASE readable /\ r = [sys |-> took, n |-> n]
    <2>1. r.sys = took /\ r.n = n
      BY <1>8
    <2> QED
      BY <1>7, <1>8, <2>1
  <1>9. CASE readable /\ (s.fin \/ s.rx >= size) /\ r = [sys |-> took, n |-> -1]
    <2>1. r.sys = took /\ r.n = -1
      BY <1>9
    <2> QED
      BY <1>4, <1>7, <1>9, <2>1
  <1>10. CASE ~readable /\ r = [sys |-> k, n |-> -1]
    <2>1. r.sys = k /\ r.n = -1
      BY <1>10
    <2> QED
      BY <1>6, <1>10, <2>1, FollowsTwice
  <1>11. CASE \E k2 \in Faulty(k) : r = [sys |-> k2, n |-> -1]
    <2>1. PICK k2 \in Faulty(k) : r = [sys |-> k2, n |-> -1]
      BY <1>11
    <2>2. r.sys = k2 /\ r.n = -1
      BY <2>1
    <2> QED
      BY <2>2, FaultyFollows
  <1> QED
    BY <1>5, <1>8, <1>9, <1>10, <1>11

\* A socket has received n messages more.
LEMMA WroteCalm ==
  ASSUME NEW k, System(k), NEW h \in DOMAIN k.socks, NEW n \in Nat
  PROVE  Calm(k, [k EXCEPT !.socks[h].got = @ + n])
  <1>1. PICK s, g : s = k.socks[h] /\ g = s.got + n
    BY Zenon
  <1>2. PICK x : x = [s EXCEPT !.got = g]
    BY Zenon
  <1>3. s \in SocketType
    BY <1>1 DEF System
  <1>4. g \in Nat
    BY <1>1, <1>3 DEF SocketType
  <1>5. x \in SocketType /\ x.kind = s.kind /\ x.fin = s.fin
    BY <1>2, <1>3, <1>4 DEF SocketType
  <1>6. Calm(k, [k EXCEPT !.socks[h] = x])
    BY <1>1, <1>5, PutCalm
  <1> QED
    BY <1>1, <1>2, <1>6, Zenon

\* What WriteSome leaves and returns.
LEMMA Writes ==
  ASSUME NEW k, System(k), NEW h, NEW size \in Nat, 
         NEW r \in Server!WriteSome(k, h, size) \cup Client!WriteSome(k, h, size)
  PROVE  /\ Follows(k, r.sys, {}) /\ r.n \in Int
         /\ r.n < 0 /\ h \in Conns(k) => k.socks[h].fin \/ r.sys.faults # k.faults
  <1> DEFINE Wrote(k1, n) == [k1 EXCEPT !.socks[h].got = @ + n]
             writable == IsOpen(k, h) /\ IsConnected(k.socks[h])
             Result == \/ writable /\ r = [sys |-> Wrote(k, size), n |-> size]
                       \/ writable /\ \E k1 \in Faulty(k), n \in 0 .. size - 1 : r = [sys |-> Wrote(k1, n), n |-> n]
                       \/ (~writable \/ k.socks[h].fin) /\ r = [sys |-> k, n |-> -1]
                       \/ \E k1 \in Faulty(k) : r = [sys |-> k1, n |-> -1]
  <1>1. r \in Server!WriteSome(k, h, size) => Result
    BY DEF Server!WriteSome, Server!When, When, Server!Faulty, Faulty, Server!IsOpen, IsOpen,
           Server!IsConnected, IsConnected
  <1>2. r \in Client!WriteSome(k, h, size) => Result
    BY DEF Client!WriteSome, Client!When, When, Client!Faulty, Faulty, Client!IsOpen, IsOpen,
           Client!IsConnected, IsConnected
  <1>3. Result
    BY <1>1, <1>2
  <1> HIDE DEF Wrote
  <1>4. h \in Conns(k) => writable
    BY DEF Conns, IsOpen, IsConnected
  <1>5. writable => h \in DOMAIN k.socks
    BY DEF IsOpen
  <1>6. CASE writable /\ r = [sys |-> Wrote(k, size), n |-> size]
    <2>1. r.sys = Wrote(k, size) /\ r.n = size
      BY <1>6
    <2>2. Calm(k, Wrote(k, size))
      BY <1>5, <1>6, WroteCalm DEF Wrote
    <2> QED
      BY <2>1, <2>2, CalmFollows
  <1>7. CASE writable /\ \E k1 \in Faulty(k), n \in 0 .. size - 1 : r = [sys |-> Wrote(k1, n), n |-> n]
    <2>1. PICK k1 \in Faulty(k), n \in 0 .. size - 1 : r = [sys |-> Wrote(k1, n), n |-> n]
      BY <1>7
    <2>2. r.sys = Wrote(k1, n) /\ r.n = n /\ n \in Nat
      BY <2>1
    <2>3. Follows(k, k1, {}) /\ k1.socks = k.socks
      BY FaultyFollows
    <2>4. System(k1) /\ h \in DOMAIN k1.socks
      BY <1>5, <1>7, <2>3 DEF Follows
    <2>5. Calm(k1, Wrote(k1, n))
      BY <2>2, <2>4, WroteCalm DEF Wrote
    <2>6. Follows(k1, Wrote(k1, n), {})
      BY <2>5, CalmFollows
    <2>7. Follows(k, Wrote(k1, n), {})
      BY <2>3, <2>6, FollowsTwice, Zenon
    <2> QED
      BY <2>2, <2>7
  <1>8. CASE (~writable \/ k.socks[h].fin) /\ r = [sys |-> k, n |-> -1]
    <2>1. r.sys = k /\ r.n = -1
      BY <1>8
    <2> QED
      BY <1>4, <1>8, <2>1, FollowsTwice
  <1>9. CASE \E k1 \in Faulty(k) : r = [sys |-> k1, n |-> -1]
    <2>1. PICK k1 \in Faulty(k) : r = [sys |-> k1, n |-> -1]
      BY <1>9
    <2>2. r.sys = k1 /\ r.n = -1
      BY <2>1
    <2> QED
      BY <2>2, FaultyFollows
  <1> QED
    BY <1>3, <1>6, <1>7, <1>8, <1>9

-----------------------------------------------------------------------------
(* Sockets come, change and go. *)

\* The system with other sockets.
Sockets(k, v) == [k EXCEPT !.socks = v]

\* The sockets are others, and the connections among them are still there.
LEMMA SocketsFollow ==
  ASSUME NEW k, System(k), NEW v, DOMAIN v \subseteq Handles, IsFiniteSet(DOMAIN v),
         \A g \in DOMAIN v : v[g] \in SocketType,
         \A g \in Conns(k) : g \in DOMAIN v /\ v[g].kind = "conn"
  PROVE  /\ Follows(k, Sockets(k, v), {})
         /\ Sockets(k, v).socks = v /\ Sockets(k, v).faults = k.faults
  <1> HIDE DEF SocketType
  <1>1. PICK k1 : k1 = Sockets(k, v)
    BY Zenon
  <1>2. IsRecord(k, SystemFields) /\ "socks" \in SystemFields
    BY DEF System, SystemFields
  <1>3. k1 = [k EXCEPT !.socks = v]
    BY <1>1 DEF Sockets
  <1>4. k1.socks = v /\ IsRecord(k1, SystemFields) /\ \A f \in SystemFields \ {"socks"} : k1[f] = k[f]
    BY <1>2, <1>3, Assign
  <1>5. k1.poller = k.poller /\ k1.fds_ = k.fds_ /\ k1.faults = k.faults /\ k1.events = k.events
    BY <1>4 DEF SystemFields
  <1>6. System(k1)
    <2>1. k1.fds_ \in Seq(EntryType) /\ IsFiniteSet(DOMAIN k1.events) /\ Room(k1) /\ k1.faults \in Nat
      BY <1>5 DEF System, Room, OnEvents
    <2> QED
      BY <1>4, <2>1 DEF System
  <1>7. \A g \in Conns(k) : g \in Conns(k1)
    BY <1>4 DEF Conns
  <1>8. Follows(k, k1, {})
    BY <1>5, <1>6, <1>7 DEF Follows, HasEntry
  <1> QED
    BY <1>1, <1>4, <1>5, <1>8

\* A socket gets another record; a connection stays one.
LEMMA PutFollows ==
  ASSUME NEW k, System(k), NEW h \in DOMAIN k.socks, NEW x \in SocketType,
         h \in Conns(k) => x.kind = "conn"
  PROVE  LET k1 == [k EXCEPT !.socks[h] = x]
         IN  Follows(k, k1, {}) /\ k1.faults = k.faults /\ DOMAIN k1.socks = DOMAIN k.socks
  <1> HIDE DEF SocketType
  <1>1. PICK v : v = [k.socks EXCEPT ![h] = x]
    BY Zenon
  <1>2. Sockets(k, v) = [k EXCEPT !.socks[h] = x]
    BY <1>1, Zenon DEF Sockets
  <1>3. DOMAIN v = DOMAIN k.socks /\ v[h] = x /\ \A g \in DOMAIN k.socks \ {h} : v[g] = k.socks[g]
    BY <1>1
  <1>4. DOMAIN v \subseteq Handles /\ IsFiniteSet(DOMAIN v) /\ \A g \in DOMAIN v : v[g] \in SocketType
    BY <1>3 DEF System
  <1>5. \A g \in Conns(k) : g \in DOMAIN v /\ v[g].kind = "conn"
    BY <1>3 DEF Conns
  <1>6. Follows(k, Sockets(k, v), {}) /\ Sockets(k, v).socks = v /\ Sockets(k, v).faults = k.faults
    BY <1>4, <1>5, SocketsFollow
  <1> QED
    BY <1>2, <1>3, <1>6

\* There is one socket more.
LEMMA OpenFollows ==
  ASSUME NEW k, System(k), NEW h, h = LeastFree(DOMAIN k.socks), NEW x \in SocketType
  PROVE  LET k1 == [k EXCEPT !.socks = With(@, h, x)]
         IN  /\ Follows(k, k1, {}) /\ k1.faults = k.faults /\ h \in Handles
             /\ h \notin DOMAIN k.socks /\ h \in DOMAIN k1.socks /\ k1.socks[h] = x
  <1> HIDE DEF SocketType
  <1>1. h \in Handles /\ h \notin DOMAIN k.socks
    BY LeastFreeFacts DEF System, Handles
  <1>2. PICK v : v = With(k.socks, h, x)
    BY Zenon
  <1>3. Sockets(k, v) = [k EXCEPT !.socks = With(@, h, x)]
    BY <1>2, Zenon DEF Sockets
  <1>4. DOMAIN v = DOMAIN k.socks \cup {h} /\ v[h] = x /\ \A g \in DOMAIN k.socks : v[g] = k.socks[g]
    BY <1>1, <1>2 DEF With
  <1>5. IsFiniteSet(DOMAIN v)
    BY <1>4, FS_AddElement DEF System
  <1>6. DOMAIN v \subseteq Handles /\ \A g \in DOMAIN v : v[g] \in SocketType
    BY <1>1, <1>4 DEF System
  <1>7. \A g \in Conns(k) : g \in DOMAIN v /\ v[g].kind = "conn"
    BY <1>4 DEF Conns
  <1>8. Follows(k, Sockets(k, v), {}) /\ Sockets(k, v).socks = v /\ Sockets(k, v).faults = k.faults
    BY <1>5, <1>6, <1>7, SocketsFollow
  <1> QED
    BY <1>1, <1>3, <1>4, <1>8

\* A new socket is one of the types.
LEMMA NewSockets == \A kind \in Kinds : NewSocket(kind) \in SocketType /\ NewSocket(kind).kind = kind
  BY DEF NewSocket, SocketType, Kinds, Events, WSA_INVALID_EVENT

\* The peer closes.
LEMMA PeerCloseFollows ==
  ASSUME NEW k, System(k), NEW h \in DOMAIN k.socks
  PROVE  Follows(k, PeerClose(k, h), {}) /\ PeerClose(k, h).faults = k.faults
  <1>1. PICK s, x : s = k.socks[h] /\ x = [s EXCEPT !.fin = TRUE]
    BY Zenon
  <1>2. s \in SocketType
    BY <1>1 DEF System
  <1>3. x \in SocketType /\ (h \in Conns(k) => x.kind = "conn")
    BY <1>1, <1>2 DEF SocketType, Conns
  <1>4. PICK k1 : k1 = [k EXCEPT !.socks[h] = x]
    BY Zenon
  <1>5. Follows(k, k1, {}) /\ k1.faults = k.faults /\ DOMAIN k1.socks = DOMAIN k.socks
    BY <1>3, <1>4, PutFollows
  <1>6. PICK evs : evs = {"FD_CLOSE"}
    BY Zenon
  <1>7. System(k1) /\ h \in DOMAIN k1.socks
    BY <1>5 DEF Follows
  <1>8. Calm(k1, Report(k1, h, evs))
    BY <1>7, ReportCalm
  <1>9. Follows(k, Report(k1, h, evs), {}) /\ Report(k1, h, evs).faults = k.faults
    <2>1. Follows(k1, Report(k1, h, evs), {}) /\ Report(k1, h, evs).faults = k1.faults
      BY <1>8, CalmFollows DEF Calm
    <2> QED
      BY <1>5, <2>1, FollowsTwice
  <1>10. PeerClose(k, h) = Report(k1, h, evs)
    BY <1>1, <1>4, <1>6, Zenon DEF PeerClose
  <1> QED
    BY <1>9, <1>10

\* An attempt to connect comes to an end.
LEMMA AnswerFollows ==
  ASSUME NEW k, System(k), NEW h \in DOMAIN k.socks, k.socks[h].kind = "connecting",
         NEW kind \in Kinds, NEW evs
  PROVE  Follows(k, Report([k EXCEPT !.socks[h].kind = kind], h, evs), {})
  <1>1. PICK s, x : s = k.socks[h] /\ x = [s EXCEPT !.kind = kind]
    BY Zenon
  <1>2. s \in SocketType
    BY <1>1 DEF System
  <1>3. x \in SocketType
    BY <1>1, <1>2 DEF SocketType
  <1>4. PICK k1 : k1 = [k EXCEPT !.socks[h] = x]
    BY Zenon
  <1>5. h \notin Conns(k)
    BY DEF Conns
  <1>6. Follows(k, k1, {}) /\ DOMAIN k1.socks = DOMAIN k.socks
    BY <1>3, <1>4, <1>5, PutFollows
  <1>7. System(k1) /\ h \in DOMAIN k1.socks
    BY <1>6 DEF Follows
  <1>8. Follows(k1, Report(k1, h, evs), {})
    BY <1>7, ReportCalm, CalmFollows
  <1>9. Follows(k, Report(k1, h, evs), {})
    BY <1>6, <1>8, FollowsTwice
  <1>10. [k EXCEPT !.socks[h].kind = kind] = k1
    BY <1>1, <1>4, Zenon
  <1> QED
    BY <1>9, <1>10, Zenon

\* accept makes a connection.
LEMMA Accepts ==
  ASSUME NEW k, System(k), NEW acceptor \in DOMAIN k.socks, k.socks[acceptor].rx > 0,
         NEW fd, fd = FreshHandle(k), NEW sent \in Nat, NEW fin \in BOOLEAN
  PROVE  LET k1 == Server!Accepted(k, acceptor, fd, sent, fin)
         IN  Follows(k, k1, {}) /\ fd \in Conns(k1) /\ fd \in Handles /\ fd \notin DOMAIN k.socks
  <1>1. PICK ev, one : ev = "FD_ACCEPT" /\ one = 1
    BY Zenon
  <1>2. k.socks[acceptor] \in SocketType
    BY DEF System
  <1>3. one \in 0 .. k.socks[acceptor].rx
    BY <1>1, <1>2 DEF SocketType
  <1>4. PICK k1 : k1 = Take(k, acceptor, one, ev)
    BY Zenon
  <1>5. Calm(k, k1)
    BY <1>3, <1>4, TakeCalm
  <1>6. PICK s : s = [NewSocket("conn") EXCEPT !.rx = sent, !.sent = sent, !.fin = fin,
                         !.sel = k.socks[acceptor].sel, !.hEvent = k.socks[acceptor].hEvent]
    BY Zenon
  <1>7. s \in SocketType /\ s.kind = "conn"
    <2>1. PICK sel, e : sel = k.socks[acceptor].sel /\ e = k.socks[acceptor].hEvent
      BY Zenon
    <2>2. sel \in SUBSET Events /\ e \in Nat
      BY <1>2, <2>1 DEF SocketType
    <2>3. s = [NewSocket("conn") EXCEPT !.rx = sent, !.sent = sent, !.fin = fin, !.sel = sel, !.hEvent = e]
      BY <1>6, <2>1, Zenon
    <2> QED
      BY <2>2, <2>3 DEF NewSocket, SocketType, Kinds, Events, WSA_INVALID_EVENT
  <1>8. PICK k2 : k2 = [k1 EXCEPT !.socks = With(@, fd, s)]
    BY Zenon
  <1>9. System(k1) /\ DOMAIN k1.socks = DOMAIN k.socks /\ fd = LeastFree(DOMAIN k1.socks)
    <2>1. System(k1) /\ DOMAIN k1.socks = DOMAIN k.socks
      BY <1>5 DEF Calm
    <2>2. fd = LeastFree(DOMAIN k.socks)
      BY Zenon DEF FreshHandle
    <2> QED
      BY <2>1, <2>2, Zenon
  <1>10. /\ Follows(k1, k2, {}) /\ fd \in Handles
         /\ fd \notin DOMAIN k1.socks /\ fd \in DOMAIN k2.socks /\ k2.socks[fd] = s
    BY <1>7, <1>8, <1>9, OpenFollows
  <1>11. PICK k3 : k3 = Report(k2, fd, Conditions(s))
    BY Zenon
  <1>12. Calm(k2, k3)
    BY <1>10, <1>11, ReportCalm DEF Follows
  <1>13. fd \in Conns(k2)
    BY <1>7, <1>10 DEF Conns
  <1>14. fd \in Conns(k3)
    BY <1>12, <1>13 DEF Calm, Conns
  <1>15. Follows(k, k3, {})
    BY <1>5, <1>10, <1>12, CalmFollows, FollowsTwice
  <1>16. Server!Accepted(k, acceptor, fd, sent, fin) = k3
    <2>1. Server!Take(k, acceptor, one, ev) = k1
      BY <1>4, ServerTake, Zenon
    <2>2. Server!Report(k2, fd, Conditions(s)) = k3
      BY <1>11, ServerReports, Zenon
    <2>3. Server!Conditions(s) = Conditions(s)
      BY Zenon DEF Server!Conditions, Conditions, Server!When, When, Server!IsConnected, IsConnected
    <2>4. Server!NewSocket("conn") = NewSocket("conn")
      BY Zenon DEF Server!NewSocket, NewSocket, Server!WSA_INVALID_EVENT, WSA_INVALID_EVENT
    <2>5. Server!With(k1.socks, fd, s) = With(k1.socks, fd, s)
      BY Zenon DEF Server!With, With
    <2>6. s = [Server!NewSocket("conn") EXCEPT !.rx = sent, !.sent = sent, !.fin = fin,
                         !.sel = k.socks[acceptor].sel, !.hEvent = k.socks[acceptor].hEvent]
      BY <1>6, <2>4, Zenon
    <2>7. k2 = [k1 EXCEPT !.socks = Server!With(@, fd, s)]
      BY <1>8, <2>5, Zenon
    <2>8. Server!Accepted(k, acceptor, fd, sent, fin) = Server!Report(k2, fd, Server!Conditions(s))
      BY <1>1, <2>1, <2>6, <2>7, Zenon DEF Server!Accepted
    <2> QED
      BY <2>2, <2>3, <2>8, Zenon
  <1> QED
    BY <1>9, <1>10, <1>14, <1>15, <1>16

\* Some calls failed.
Failed(k, k1) == \E n \in Nat : n <= k.faults /\ k1 = [k EXCEPT !.faults = @ - n]

\* Failing calls lose nothing.
LEMMA FailedFollows == ASSUME NEW k, System(k), NEW k1, Failed(k, k1) PROVE Follows(k, k1, {})
  <1>1. PICK n \in Nat : n <= k.faults /\ k1 = [k EXCEPT !.faults = @ - n]
    BY DEF Failed
  <1>2. PICK m : m = k.faults - n
    BY Zenon
  <1>3. k1 = [k EXCEPT !.faults = m]
    BY <1>1, <1>2, Zenon
  <1>4. m \in Nat
    BY <1>1, <1>2 DEF System
  <1>5. IsRecord(k, SystemFields) /\ "faults" \in SystemFields
    BY DEF System, SystemFields
  <1>6. k1.faults = m /\ IsRecord(k1, SystemFields) /\ \A f \in SystemFields \ {"faults"} : k1[f] = k[f]
    BY <1>3, <1>5, Assign
  <1>7. /\ k1.poller = k.poller /\ k1.socks = k.socks /\ k1.events = k.events
        /\ k1.fds_ = k.fds_
    BY <1>6 DEF SystemFields
  <1>8. IsFiniteSet(DOMAIN k1.events) /\ k1.fds_ \in Seq(EntryType) /\ Room(k1)
    BY <1>7 DEF System, Room, OnEvents
  <1> QED
    BY <1>4, <1>6, <1>7, <1>8, EntriesFollow

\* A new socket of kind for the result r of CreateTCPAcceptor or
\* CreateTcpConnector.
Created(k, r, kind) == r = [sys |-> Socket(k, FreshHandle(k), kind), fd |-> FreshHandle(k)]

\* A new socket loses nothing.
LEMMA CreatedFollows ==
  ASSUME NEW k, System(k), NEW kind \in Kinds, NEW r, Created(k, r, kind)
  PROVE  Follows(k, r.sys, {}) /\ r.fd \in Nat
  <1>1. PICK h, s : h = LeastFree(DOMAIN k.socks) /\ s = NewSocket(kind)
    BY Zenon
  <1>2. s \in SocketType
    BY <1>1, NewSockets
  <1>3. PICK k1 : k1 = [k EXCEPT !.socks = With(@, h, s)]
    BY Zenon
  <1>4. Follows(k, k1, {}) /\ h \in Handles
    BY <1>1, <1>2, <1>3, OpenFollows
  <1>5. r.sys = k1 /\ r.fd = h
    BY <1>1, <1>3 DEF Created, Socket, FreshHandle
  <1> QED
    BY <1>4, <1>5 DEF Handles

\* What CreateTCPAcceptor leaves and returns.
LEMMA AcceptorFollows ==
  ASSUME NEW k, System(k), NEW r \in Server!CreateTCPAcceptor(k)
  PROVE  Follows(k, r.sys, {}) /\ r.fd \in Nat \cup {INVALID_SOCKET}
  <1>1. \/ \E k1 : Failed(k, k1) /\ Created(k1, r, "listen")
        \/ \E k1 : Failed(k, k1) /\ r = [sys |-> k1, fd |-> INVALID_SOCKET]
    <2>1. \A k1 \in Server!AfterFailures(k) : Failed(k, k1)
      BY EchoAssumption DEF Server!AfterFailures, Server!Failing, Server!When, Failed
    <2>2. \A k1 \in Server!Failing(k, Addresses) : Failed(k, k1)
      BY EchoAssumption DEF Server!Failing, Server!When, Failed
    <2>3. \A k1 \in Server!Faulty(k) : Failed(k, k1)
      <3>1. k.faults \in Nat
        BY DEF System
      <3> QED
        BY <3>1 DEF Server!Faulty, Server!When, Failed
    <2>4. \/ \E k1 \in Server!AfterFailures(k) :
               r = [sys |-> Server!Socket(k1, Server!FreshHandle(k1), "listen"), fd |-> Server!FreshHandle(k1)]
          \/ \E k1 \in Server!Faulty(k) \cup Server!Failing(k, Addresses) :
               r = [sys |-> k1, fd |-> INVALID_SOCKET]
      BY DEF Server!CreateTCPAcceptor, Server!NoSocket, Server!INVALID_SOCKET, INVALID_SOCKET
    <2>5. ASSUME NEW k1 PROVE Server!FreshHandle(k1) = FreshHandle(k1)
      BY Zenon DEF Server!FreshHandle, FreshHandle, Server!LeastFree, LeastFree, Server!Cardinality, Cardinality
    <2>6. ASSUME NEW k1, NEW h PROVE Server!Socket(k1, h, "listen") = Socket(k1, h, "listen")
      BY Zenon DEF Server!Socket, Socket, Server!With, With, Server!NewSocket, NewSocket,
                   Server!WSA_INVALID_EVENT, WSA_INVALID_EVENT
    <2> QED
      BY <2>1, <2>2, <2>3, <2>4, <2>5, <2>6, Zenon DEF Created
  <1>2. CASE \E k1 : Failed(k, k1) /\ Created(k1, r, "listen")
    <2>1. PICK k1, kind : Failed(k, k1) /\ kind = "listen" /\ Created(k1, r, kind)
      BY <1>2
    <2>2. kind \in Kinds
      BY <2>1 DEF Kinds
    <2>3. Follows(k, k1, {}) /\ System(k1)
      BY <2>1, FailedFollows DEF Follows
    <2> QED
      BY <2>1, <2>2, <2>3, CreatedFollows, FollowsTwice
  <1>3. CASE \E k1 : Failed(k, k1) /\ r = [sys |-> k1, fd |-> INVALID_SOCKET]
    <2>1. PICK k1 : Failed(k, k1) /\ r.sys = k1 /\ r.fd = INVALID_SOCKET
      BY <1>3
    <2> QED
      BY <2>1, FailedFollows
  <1> QED
    BY <1>1, <1>2, <1>3

\* What CreateTcpConnector leaves and returns.
LEMMA ConnectorFollows ==
  ASSUME NEW k, System(k), NEW r \in Client!CreateTcpConnector(k)
  PROVE  Follows(k, r.sys, {}) /\ r.fd \in Nat \cup {INVALID_SOCKET}
  <1>1. \/ \E k1 : Failed(k, k1) /\ Created(k1, r, "connecting")
        \/ \E k1 : Failed(k, k1) /\ r = [sys |-> k1, fd |-> INVALID_SOCKET]
        \/ \E k1 : Failed(k, k1) /\ \E k2 \in Faulty(k1) : r = [sys |-> k2, fd |-> 0]
    <2>1. \A k1 \in Client!AfterFailures(k) : Failed(k, k1)
      BY EchoAssumption DEF Client!AfterFailures, Client!Failing, Client!When, Failed
    <2>2. \A k1 \in Client!Failing(k, Addresses) : Failed(k, k1)
      BY EchoAssumption DEF Client!Failing, Client!When, Failed
    <2>3. \A k1 \in Client!Faulty(k) : Failed(k, k1)
      <3>1. k.faults \in Nat
        BY DEF System
      <3> QED
        BY <3>1 DEF Client!Faulty, Client!When, Failed
    <2>4. ASSUME NEW k1 PROVE Client!FreshHandle(k1) = FreshHandle(k1)
      BY Zenon DEF Client!FreshHandle, FreshHandle, Client!LeastFree, LeastFree, Client!Cardinality, Cardinality
    <2>5. ASSUME NEW k1, NEW h PROVE Client!Socket(k1, h, "connecting") = Socket(k1, h, "connecting")
      BY Zenon DEF Client!Socket, Socket, Client!With, With, Client!NewSocket, NewSocket,
                   Client!WSA_INVALID_EVENT, WSA_INVALID_EVENT
    <2>6. ASSUME NEW k1 PROVE Client!Faulty(k1) = Faulty(k1)
      BY Zenon DEF Client!Faulty, Faulty, Client!When, When
    <2>7. \/ \E k1 \in Client!AfterFailures(k) :
               r = [sys |-> Client!Socket(k1, Client!FreshHandle(k1), "connecting"), fd |-> Client!FreshHandle(k1)]
          \/ \E k1 \in Client!AfterFailures(k) : \E k2 \in Client!Faulty(k1) : r = [sys |-> k2, fd |-> 0]
          \/ \E k1 \in Client!Faulty(k) \cup Client!Failing(k, Addresses) :
               r = [sys |-> k1, fd |-> INVALID_SOCKET]
      BY DEF Client!CreateTcpConnector, Client!NoSocket, Client!INVALID_SOCKET, INVALID_SOCKET
    <2>8. CASE \E k1 \in Client!AfterFailures(k) :
               r = [sys |-> Client!Socket(k1, Client!FreshHandle(k1), "connecting"), fd |-> Client!FreshHandle(k1)]
      BY <2>1, <2>4, <2>5, <2>8, Zenon DEF Created
    <2>9. CASE \E k1 \in Client!AfterFailures(k) : \E k2 \in Client!Faulty(k1) : r = [sys |-> k2, fd |-> 0]
      BY <2>1, <2>6, <2>9, Zenon
    <2>10. CASE \E k1 \in Client!Faulty(k) \cup Client!Failing(k, Addresses) :
               r = [sys |-> k1, fd |-> INVALID_SOCKET]
      BY <2>2, <2>3, <2>10, Zenon
    <2> QED
      BY <2>7, <2>8, <2>9, <2>10, Zenon
  <1>2. CASE \E k1 : Failed(k, k1) /\ Created(k1, r, "connecting")
    <2>1. PICK k1, kind : Failed(k, k1) /\ kind = "connecting" /\ Created(k1, r, kind)
      BY <1>2
    <2>2. kind \in Kinds
      BY <2>1 DEF Kinds
    <2>3. Follows(k, k1, {}) /\ System(k1)
      BY <2>1, FailedFollows DEF Follows
    <2> QED
      BY <2>1, <2>2, <2>3, CreatedFollows, FollowsTwice
  <1>3. CASE \E k1 : Failed(k, k1) /\ r = [sys |-> k1, fd |-> INVALID_SOCKET]
    <2>1. PICK k1 : Failed(k, k1) /\ r.sys = k1 /\ r.fd = INVALID_SOCKET
      BY <1>3
    <2> QED
      BY <2>1, FailedFollows
  <1>4. CASE \E k1 : Failed(k, k1) /\ \E k2 \in Faulty(k1) : r = [sys |-> k2, fd |-> 0]
    <2>1. PICK k1 : Failed(k, k1) /\ \E k2 \in Faulty(k1) : r = [sys |-> k2, fd |-> 0]
      BY <1>4
    <2>2. PICK k2 \in Faulty(k1) : r.sys = k2 /\ r.fd = 0
      BY <2>1
    <2>3. Follows(k, k1, {}) /\ System(k1)
      BY <2>1, FailedFollows DEF Follows
    <2> QED
      BY <2>2, <2>3, FaultyFollows, FollowsTwice
  <1> QED
    BY <1>1, <1>2, <1>3, <1>4

-----------------------------------------------------------------------------
(* The tables of the server. *)

\* A connection is closed, or nothing but the system and the counters changes.
LEMMA TableFollows ==
  ASSUME NEW k, NEW k1, NEW X, NEW w, NEW w1, Table(k, w, X), Follows(k, k1, {}),
         w1.connections_ = w.connections_, DOMAIN w1.conns = DOMAIN w.conns,
         \A id \in DOMAIN w.conns : /\ w1.conns[id] \in ConnType
                                    /\ w1.conns[id].fd_ \in {w.conns[id].fd_, INVALID_SOCKET}
  PROVE  Table(k1, w1, X)
  <1> HIDE DEF ConnType
  <1>1. \A fd \in DOMAIN w.connections_ : fd \in Conns(k1) /\ HasEntry(k1, fd, w.connections_[fd])
    <2>1. ASSUME NEW fd \in DOMAIN w.connections_
          PROVE  fd \in Conns(k1) /\ HasEntry(k1, fd, w.connections_[fd])
      <3>1. fd \in Conns(k) /\ HasEntry(k, fd, w.connections_[fd])
        BY DEF Table
      <3>2. \A h \in Conns(k) : h \in Conns(k1)
        BY DEF Follows
      <3>3. fd \in Conns(k1) /\ fd \in Handles
        BY <3>1, <3>2 DEF Conns, Follows, System
      <3>4. \A h \in Handles : \A s : HasEntry(k, h, s) => HasEntry(k1, h, s)
        BY DEF Follows
      <3> QED
        BY <3>1, <3>3, <3>4
    <2> QED
      BY <2>1
  <1>2. \A fd \in DOMAIN w.connections_ : w1.conns[w.connections_[fd]].fd_ \in {fd, INVALID_SOCKET}
    BY DEF Table
  <1> QED
    BY <1>1, <1>2 DEF Table

\* A session ends.
LEMMA TableWithout ==
  ASSUME NEW k, NEW k1, NEW X, NEW w, NEW w1, Table(k, w, X),
         NEW fd \in DOMAIN w.connections_, Follows(k, k1, {fd}),
         w1.connections_ = Without(w.connections_, fd), w1.conns = Without(w.conns, w.connections_[fd])
  PROVE  Table(k1, w1, X)
  <1> HIDE DEF ConnType
  <1> DEFINE t == w.connections_
  <1>1. DOMAIN w1.connections_ = DOMAIN t \ {fd} /\ \A g \in DOMAIN w1.connections_ : w1.connections_[g] = t[g]
    BY DEF Without
  <1>2. DOMAIN w1.conns = DOMAIN w.conns \ {t[fd]} /\ \A id \in DOMAIN w1.conns : w1.conns[id] = w.conns[id]
    BY DEF Without
  <1>3. \A g \in DOMAIN t \ {fd} : g \in Conns(k1) /\ HasEntry(k1, g, t[g])
    <2>1. ASSUME NEW g \in DOMAIN t \ {fd} PROVE g \in Conns(k1) /\ HasEntry(k1, g, t[g])
      <3>1. g \in Conns(k) /\ HasEntry(k, g, t[g])
        BY DEF Table
      <3>2. g \in Conns(k1)
        BY <3>1 DEF Follows
      <3>3. g \in Handles
        BY <3>2 DEF Conns, Follows, System
      <3> QED
        BY <3>1, <3>2, <3>3 DEF Follows
    <2> QED
      BY <2>1
  <1>4. \A g \in DOMAIN t \ {fd} : t[g] # t[fd]
    BY DEF Table
  <1>5. \A id \in DOMAIN w1.conns \ X : \E g \in DOMAIN w1.connections_ : w1.connections_[g] = id
    <2>1. ASSUME NEW id \in DOMAIN w1.conns \ X PROVE \E g \in DOMAIN w1.connections_ : w1.connections_[g] = id
      <3>1. PICK g \in DOMAIN t : t[g] = id
        BY <1>2 DEF Table
      <3> QED
        BY <1>1, <1>2, <3>1
    <2> QED
      BY <2>1
  <1>6. /\ DOMAIN w1.conns \subseteq Handles /\ IsFiniteSet(DOMAIN w1.conns)
        /\ \A id \in DOMAIN w1.conns : w1.conns[id] \in ConnType
    BY <1>2, FS_RemoveElement DEF Table
  <1>7. \A g \in DOMAIN w1.connections_ :
       /\ w1.connections_[g] \in DOMAIN w1.conns \ X
       /\ g \in Conns(k1) /\ HasEntry(k1, g, w1.connections_[g])
       /\ w1.conns[w1.connections_[g]].fd_ \in {g, INVALID_SOCKET}
    <2>1. ASSUME NEW g \in DOMAIN t \ {fd}
          PROVE  t[g] \in DOMAIN w1.conns \ X /\ w1.conns[t[g]].fd_ \in {g, INVALID_SOCKET}
      BY <1>2, <1>4 DEF Table
    <2> QED
      BY <1>1, <1>3, <2>1
  <1>8. \A f, g \in DOMAIN w1.connections_ : w1.connections_[f] = w1.connections_[g] => f = g
    BY <1>1 DEF Table
  <1> QED
    BY <1>5, <1>6, <1>7, <1>8 DEF Table

\* A connection is made.
LEMMA TableNew ==
  ASSUME NEW k, NEW k1, NEW w, NEW w1, Table(k, w, {}), Follows(k, k1, {}),
         NEW id \in Handles, id \notin DOMAIN w.conns, w1.connections_ = w.connections_,
         DOMAIN w1.conns = DOMAIN w.conns \cup {id}, w1.conns[id] \in ConnType,
         \A j \in DOMAIN w.conns : w1.conns[j] = w.conns[j]
  PROVE  Table(k1, w1, {id})
  <1> HIDE DEF ConnType
  <1>1. \A fd \in DOMAIN w.connections_ : fd \in Conns(k1) /\ HasEntry(k1, fd, w.connections_[fd])
    <2>1. ASSUME NEW fd \in DOMAIN w.connections_
          PROVE  fd \in Conns(k1) /\ HasEntry(k1, fd, w.connections_[fd])
      <3>1. fd \in Conns(k) /\ HasEntry(k, fd, w.connections_[fd])
        BY DEF Table
      <3>2. \A h \in Conns(k) : h \in Conns(k1)
        BY DEF Follows
      <3>3. fd \in Conns(k1) /\ fd \in Handles
        BY <3>1, <3>2 DEF Conns, Follows, System
      <3>4. \A h \in Handles : \A s : HasEntry(k, h, s) => HasEntry(k1, h, s)
        BY DEF Follows
      <3> QED
        BY <3>1, <3>3, <3>4
    <2> QED
      BY <2>1
  <1>2. IsFiniteSet(DOMAIN w1.conns)
    BY FS_AddElement DEF Table
  <1>3. \A fd \in DOMAIN w.connections_ : /\ w.connections_[fd] \in DOMAIN w1.conns \ {id}
                                          /\ w1.conns[w.connections_[fd]].fd_ \in {fd, INVALID_SOCKET}
    BY DEF Table
  <1>4. \A j \in DOMAIN w1.conns \ {id} : \E fd \in DOMAIN w.connections_ : w.connections_[fd] = j
    BY DEF Table
  <1>5. \A f, g \in DOMAIN w1.connections_ : w1.connections_[f] = w1.connections_[g] => f = g
    BY DEF Table
  <1>6. DOMAIN w1.conns \subseteq Handles /\ \A j \in DOMAIN w1.conns : w1.conns[j] \in ConnType
    BY DEF Table
  <1> QED
    BY <1>1, <1>2, <1>3, <1>4, <1>5, <1>6 DEF Table

\* The connection is put into the table.
LEMMA TableInsert ==
  ASSUME NEW k, NEW w, NEW w1, NEW id \in DOMAIN w.conns, Table(k, w, {id}),
         NEW fd, fd \notin DOMAIN w.connections_, fd \in Conns(k), HasEntry(k, fd, id),
         w.conns[id].fd_ \in {fd, INVALID_SOCKET},
         w1.connections_ = With(w.connections_, fd, id), w1.conns = w.conns
  PROVE  Table(k, w1, {})
  <1> HIDE DEF ConnType
  <1> DEFINE t == w.connections_
  <1>1. /\ DOMAIN w1.connections_ = DOMAIN t \cup {fd} /\ w1.connections_[fd] = id
        /\ \A g \in DOMAIN t : w1.connections_[g] = t[g]
    BY DEF With
  <1>2. \A g \in DOMAIN t : t[g] \in DOMAIN w.conns /\ t[g] # id
    BY DEF Table
  <1>3. \A f, g \in DOMAIN w1.connections_ : w1.connections_[f] = w1.connections_[g] => f = g
    <2>1. \A f, g \in DOMAIN t : t[f] = t[g] => f = g
      BY DEF Table
    <2> QED
      BY <1>1, <1>2, <2>1
  <1>4. \A j \in DOMAIN w.conns : \E g \in DOMAIN w1.connections_ : w1.connections_[g] = j
    <2>1. ASSUME NEW j \in DOMAIN w.conns \ {id} PROVE \E g \in DOMAIN t : t[g] = j
      BY DEF Table
    <2> QED
      BY <1>1, <2>1
  <1>5. \A g \in DOMAIN w1.connections_ :
       /\ w1.connections_[g] \in DOMAIN w1.conns
       /\ g \in Conns(k) /\ HasEntry(k, g, w1.connections_[g])
       /\ w1.conns[w1.connections_[g]].fd_ \in {g, INVALID_SOCKET}
    <2>1. ASSUME NEW g \in DOMAIN t
          PROVE  /\ t[g] \in DOMAIN w1.conns
                 /\ g \in Conns(k) /\ HasEntry(k, g, t[g])
                 /\ w1.conns[t[g]].fd_ \in {g, INVALID_SOCKET}
      BY DEF Table
    <2> QED
      BY <1>1, <2>1
  <1>6. /\ DOMAIN w1.conns \subseteq Handles /\ IsFiniteSet(DOMAIN w1.conns)
        /\ \A j \in DOMAIN w1.conns : w1.conns[j] \in ConnType
    BY DEF Table
  <1> QED
    BY <1>3, <1>4, <1>5, <1>6 DEF Table

-----------------------------------------------------------------------------
(* The handlers of the server. *)

\* A state of the server: the connections in X are not in the table yet, those
\* in Y are out of receives.
Serves(w, X, Y) == /\ IsRecord(w, ServerFields)
                   /\ System(w.sys)
                   /\ Table(w.sys, w, X)
                   /\ Counts(w, Y)

\* The server with another system and other tables.
Serving(w, k, c, t) == [w EXCEPT !.sys = k, !.conns = c, !.connections_ = t]

\* The fields of Serving.
LEMMA ServingFields ==
  ASSUME NEW w, IsRecord(w, ServerFields), NEW k, NEW c, NEW t
  PROVE  LET w1 == Serving(w, k, c, t)
         IN  IsRecord(w1, ServerFields) /\ w1.sys = k /\ w1.conns = c /\ w1.connections_ = t
  <1>1. DOMAIN w = ServerFields
    BY DEF IsRecord
  <1>2. Serving(w, k, c, t) = [f \in ServerFields |-> IF f = "sys" THEN k ELSE IF f = "conns" THEN c
                                                       ELSE IF f = "connections_" THEN t ELSE w[f]]
    BY <1>1 DEF Serving, ServerFields
  <1> QED
    BY <1>2 DEF IsRecord, ServerFields

\* The forms in which the handlers write it.
LEMMA ServingForms ==
  ASSUME NEW w, IsRecord(w, ServerFields), NEW k, NEW c, NEW t
  PROVE  /\ [w EXCEPT !.sys = k] = Serving(w, k, w.conns, w.connections_)
         /\ [w EXCEPT !.conns = c] = Serving(w, w.sys, c, w.connections_)
         /\ [w EXCEPT !.sys = k, !.conns = c] = Serving(w, k, c, w.connections_)
         /\ [w EXCEPT !.connections_ = t] = Serving(w, w.sys, w.conns, t)
  <1>1. DOMAIN w = ServerFields /\ w = [f \in ServerFields |-> w[f]]
    BY DEF IsRecord
  <1>2. [w EXCEPT !.sys = k] = Serving(w, k, w.conns, w.connections_)
    BY <1>1 DEF Serving, ServerFields
  <1>3. [w EXCEPT !.conns = c] = Serving(w, w.sys, c, w.connections_)
    BY <1>1 DEF Serving, ServerFields
  <1>4. [w EXCEPT !.sys = k, !.conns = c] = Serving(w, k, c, w.connections_)
    BY <1>1 DEF Serving, ServerFields
  <1>5. [w EXCEPT !.connections_ = t] = Serving(w, w.sys, w.conns, t)
    BY <1>1 DEF Serving, ServerFields
  <1> QED
    BY <1>2, <1>3, <1>4, <1>5

\* Serving of Serving.
LEMMA ServingTwice ==
  ASSUME NEW w, NEW k, NEW c, NEW t, NEW k1, NEW c1, NEW t1
  PROVE  Serving(Serving(w, k, c, t), k1, c1, t1) = Serving(w, k1, c1, t1)
  BY DEF Serving

\* The connections when Close has reset the descriptor of id.
Reset(w, id) == With(w.conns, id, [w.conns[id] EXCEPT !.fd_ = INVALID_SOCKET])

\* The server when Close has ended the session of the socket fd.
Ended(w, id, fd) == Serving(w, closesocket(RemoveFd(w.sys, fd), fd),
                            Without(Reset(w, id), w.connections_[fd]), Without(w.connections_, fd))

\* What Close does, in these words.
LEMMA CloseForms ==
  ASSUME NEW w, IsRecord(w, ServerFields), NEW id
  PROVE  /\ w.conns[id].fd_ = INVALID_SOCKET => Server!Close(w, id) = w
         /\ w.conns[id].fd_ # INVALID_SOCKET /\ w.conns[id].fd_ \notin DOMAIN w.connections_ =>
              Server!Close(w, id) = Serving(w, w.sys, Reset(w, id), w.connections_)
         /\ w.conns[id].fd_ # INVALID_SOCKET /\ w.conns[id].fd_ \in DOMAIN w.connections_ =>
              Server!Close(w, id) = Ended(w, id, w.conns[id].fd_)
  <1>1. PICK fd, c, t : fd = w.conns[id].fd_ /\ c = Reset(w, id) /\ t = w.connections_
    BY Zenon
  <1>2. PICK w1 : w1 = Serving(w, w.sys, c, t)
    BY Zenon
  <1>3. IsRecord(w1, ServerFields) /\ w1.sys = w.sys /\ w1.conns = c /\ w1.connections_ = t
    BY <1>2, ServingFields
  <1>4. [w EXCEPT !.conns = c] = w1
    BY <1>1, <1>2, ServingForms, Zenon
  <1>6. Server!INVALID_SOCKET = INVALID_SOCKET
    BY Zenon DEF Server!INVALID_SOCKET, INVALID_SOCKET
  <1>5. Server!SetConn(w, id, [w.conns[id] EXCEPT !.fd_ = Server!INVALID_SOCKET]) = w1
    <2>1. Server!SetConn(w, id, [w.conns[id] EXCEPT !.fd_ = Server!INVALID_SOCKET]) = [w EXCEPT !.conns = c]
      BY <1>1, <1>6, Zenon DEF Reset, With, Server!With, Server!SetConn
    <2> QED
      BY <1>4, <2>1, Zenon
  <1>7. fd = INVALID_SOCKET => Server!Close(w, id) = w
    BY <1>1, <1>6, Zenon DEF Server!Close
  <1>8. fd # INVALID_SOCKET => Server!Close(w, id) = Server!CloseSession(w1, fd)
    BY <1>1, <1>5, <1>6, Zenon DEF Server!Close
  <1>9. fd \notin DOMAIN t => Server!CloseSession(w1, fd) = w1
    BY <1>3, Zenon DEF Server!CloseSession
  <1>10. PICK k1, c1, t1 : k1 = closesocket(RemoveFd(w.sys, fd), fd) /\ c1 = Without(c, t[fd]) /\ t1 = Without(t, fd)
    BY Zenon
  <1>11. fd \in DOMAIN t => Server!CloseSession(w1, fd) = Serving(w1, k1, c1, t1)
    <2>1. Server!closesocket(Server!RemoveFd(w.sys, fd), fd) = k1
      <3>1. Server!RemoveFd(w.sys, fd) = RemoveFd(w.sys, fd)
        BY ServerRemoveFd, Zenon
      <3> QED
        BY <1>10, <3>1, Zenon DEF Server!closesocket, closesocket, Server!Without, Without
    <2>2. Server!Without(c, t[fd]) = c1 /\ Server!Without(t, fd) = t1
      BY <1>10, Zenon DEF Server!Without, Without
    <2>3. PICK w2 : w2 = [w1 EXCEPT !.sys = Server!closesocket(Server!RemoveFd(@, fd), fd),
                                    !.conns = Server!Without(@, t[fd]),
                                    !.connections_ = Server!Without(@, fd)]
      BY Zenon
    <2>4. fd \in DOMAIN t => Server!CloseSession(w1, fd) = w2
      BY <1>3, <2>3, Zenon DEF Server!CloseSession
    <2>5. w2 = [w1 EXCEPT !.sys = k1, !.conns = c1, !.connections_ = t1]
      BY <1>3, <2>1, <2>2, <2>3, Zenon
    <2>6. w2 = Serving(w1, k1, c1, t1)
      BY <2>5, Zenon DEF Serving
    <2> QED
      BY <2>4, <2>6
  <1>12. Serving(w1, k1, c1, t1) = Serving(w, k1, c1, t1)
    BY <1>2 DEF Serving
  <1> QED
    BY <1>1, <1>2, <1>7, <1>8, <1>9, <1>10, <1>11, <1>12, Zenon DEF Ended

\* What is left of the state w when the connection id was called: the table is
\* in order, and only the socket of id may be closed.
Leaves(w, id, X, w1) ==
  /\ Serves(w1, X, {})
  /\ id \in X => /\ Follows(w.sys, w1.sys, {}) /\ w1.connections_ = w.connections_
                 /\ id \in DOMAIN w1.conns
                 /\ w1.conns[id].fd_ \in {w.conns[id].fd_, INVALID_SOCKET}
  /\ \A h \in Conns(w.sys) : h \notin Conns(w1.sys) =>
       h \in DOMAIN w.connections_ /\ w.connections_[h] = id /\ w.conns[id].fd_ = h

\* Close leaves the table in order.
LEMMA ServerCloses ==
  ASSUME NEW w, NEW X, NEW id \in DOMAIN w.conns, Serves(w, X, {id}),
         id \in X => w.conns[id].fd_ \notin DOMAIN w.connections_
  PROVE  Leaves(w, id, X, Server!Close(w, id)) /\ Server!Close(w, id).sys.faults = w.sys.faults
  <1>1. PICK fd, x, t : fd = w.conns[id].fd_ /\ x = [w.conns[id] EXCEPT !.fd_ = INVALID_SOCKET] /\ t = w.connections_
    BY Zenon
  <1>2. PICK c : c = Reset(w, id)
    BY Zenon
  <1>3. w.conns[id] \in ConnType
    BY DEF Serves, Table
  <1>4. x \in ConnType /\ x.fd_ = INVALID_SOCKET
    BY <1>1, <1>3 DEF ConnType, INVALID_SOCKET
  <1>5. DOMAIN c = DOMAIN w.conns /\ c[id] = x /\ \A j \in DOMAIN c \ {id} : c[j] = w.conns[j]
    BY <1>1, <1>2 DEF Reset, With
  <1>6. IsRecord(w, ServerFields) /\ System(w.sys) /\ Follows(w.sys, w.sys, {})
    BY FollowsTwice DEF Serves
  <1>7. /\ fd = INVALID_SOCKET => Server!Close(w, id) = w
        /\ fd # INVALID_SOCKET /\ fd \notin DOMAIN t => Server!Close(w, id) = Serving(w, w.sys, c, t)
        /\ fd # INVALID_SOCKET /\ fd \in DOMAIN t =>
             Server!Close(w, id) = Serving(w, closesocket(RemoveFd(w.sys, fd), fd), Without(c, t[fd]), Without(t, fd))
    BY <1>1, <1>2, <1>6, CloseForms, Zenon DEF Ended
  <1>8. CASE fd = INVALID_SOCKET
    <2>1. Serves(w, X, {})
      BY <1>1, <1>8 DEF Serves, Counts
    <2> QED
      BY <1>1, <1>6, <1>7, <1>8, <2>1 DEF Leaves
  <1>9. CASE fd # INVALID_SOCKET /\ fd \notin DOMAIN t
    <2>1. PICK w1 : w1 = Serving(w, w.sys, c, t)
      BY Zenon
    <2>2. IsRecord(w1, ServerFields) /\ w1.sys = w.sys /\ w1.conns = c /\ w1.connections_ = t
      BY <1>6, <2>1, ServingFields
    <2>3. \A j \in DOMAIN w.conns : w1.conns[j] \in ConnType /\ w1.conns[j].fd_ \in {w.conns[j].fd_, INVALID_SOCKET}
      BY <1>4, <1>5, <2>2 DEF Serves, Table
    <2>4. Table(w1.sys, w1, X)
      BY <1>1, <1>5, <1>6, <2>2, <2>3, TableFollows DEF Serves
    <2>5. Counts(w1, {})
      BY <1>4, <1>5, <2>2 DEF Serves, Counts
    <2>6. Leaves(w, id, X, w1)
      BY <1>1, <1>4, <1>5, <1>6, <2>2, <2>4, <2>5 DEF Leaves, Serves
    <2> QED
      BY <1>7, <1>9, <2>1, <2>2, <2>6
  <1>10. CASE fd # INVALID_SOCKET /\ fd \in DOMAIN t
    <2>1. id \notin X
      BY <1>1, <1>10
    <2>2. t[fd] = id
      <3>1. PICK g \in DOMAIN t : t[g] = id
        BY <1>1, <2>1 DEF Serves, Table
      <3>2. fd \in {g, INVALID_SOCKET}
        BY <1>1, <3>1 DEF Serves, Table
      <3> QED
        BY <1>10, <3>1, <3>2
    <2>3. PICK k1, c1, t1 : k1 = closesocket(RemoveFd(w.sys, fd), fd) /\ c1 = Without(c, t[fd]) /\ t1 = Without(t, fd)
      BY Zenon
    <2>4. Follows(w.sys, k1, {fd}) /\ k1.faults = w.sys.faults
      BY <1>6, <2>3, Closes
    <2>5. PICK w1 : w1 = Serving(w, k1, c1, t1)
      BY Zenon
    <2>6. IsRecord(w1, ServerFields) /\ w1.sys = k1 /\ w1.conns = c1 /\ w1.connections_ = t1
      BY <1>6, <2>5, ServingFields
    <2>7. c1 = Without(w.conns, t[fd])
      BY <1>5, <2>2, <2>3 DEF Without
    <2>8. Table(k1, w1, X)
      <3>1. Table(w.sys, w, X) /\ fd \in DOMAIN w.connections_
        BY <1>1, <1>10 DEF Serves
      <3>2. w1.connections_ = Without(w.connections_, fd) /\ w1.conns = Without(w.conns, w.connections_[fd])
        BY <1>1, <2>3, <2>6, <2>7
      <3> QED
        BY <2>4, <3>1, <3>2, TableWithout
    <2>9. Counts(w1, {})
      BY <2>2, <2>6, <2>7 DEF Serves, Counts, Without
    <2>10. Serves(w1, X, {})
      BY <2>4, <2>6, <2>8, <2>9 DEF Serves, Follows
    <2>11. \A h \in Conns(w.sys) : h \notin Conns(w1.sys) => h = fd
      BY <2>4, <2>6 DEF Follows
    <2>12. Leaves(w, id, X, w1)
      BY <1>1, <1>10, <2>1, <2>2, <2>10, <2>11 DEF Leaves
    <2> QED
      BY <1>7, <1>10, <2>3, <2>4, <2>5, <2>6, <2>12
  <1> QED
    BY <1>8, <1>9, <1>10

\* The server has made some calls, and counted a receive of id.
LEMMA ServerMoves ==
  ASSUME NEW w, NEW X, NEW id \in DOMAIN w.conns, Serves(w, X, {}),
         NEW k, Follows(w.sys, k, {}), NEW c, DOMAIN c = DOMAIN w.conns,
         c[id] \in ConnType, c[id].fd_ = w.conns[id].fd_,
         \A j \in DOMAIN c \ {id} : c[j] = w.conns[j]
  PROVE  LET w1 == Serving(w, k, c, w.connections_)
         IN  /\ Serves(w1, X, {id}) /\ w1.sys = k /\ w1.conns = c /\ w1.connections_ = w.connections_
             /\ \A w2 : Leaves(w1, id, X, w2) => Leaves(w, id, X, w2)
             /\ (c[id].fd_ # INVALID_SOCKET => c[id].recv_count_ < MAX_RECV_COUNT) => Leaves(w, id, X, w1)
  <1> HIDE DEF ConnType
  <1>0. PICK w1 : w1 = Serving(w, k, c, w.connections_)
    BY Zenon
  <1>1. IsRecord(w, ServerFields)
    BY DEF Serves
  <1>2. IsRecord(w1, ServerFields) /\ w1.sys = k /\ w1.conns = c /\ w1.connections_ = w.connections_
    BY <1>0, <1>1, ServingFields
  <1>3. \A j \in DOMAIN w.conns : w1.conns[j] \in ConnType /\ w1.conns[j].fd_ \in {w.conns[j].fd_, INVALID_SOCKET}
    BY <1>2 DEF Serves, Table
  <1>4. Table(w1.sys, w1, X)
    BY <1>2, <1>3, TableFollows DEF Serves
  <1>5. Counts(w1, {id})
    BY <1>2 DEF Serves, Counts
  <1>6. Serves(w1, X, {id})
    BY <1>2, <1>4, <1>5 DEF Serves, Follows
  <1>7. ASSUME NEW w2, Leaves(w1, id, X, w2) PROVE Leaves(w, id, X, w2)
    <2>1. Serves(w2, X, {})
      BY <1>7 DEF Leaves
    <2>2. id \in X => /\ Follows(w.sys, w2.sys, {}) /\ w2.connections_ = w.connections_
                      /\ id \in DOMAIN w2.conns
                      /\ w2.conns[id].fd_ \in {w.conns[id].fd_, INVALID_SOCKET}
      <3>1. id \in X => Follows(k, w2.sys, {})
        BY <1>2, <1>7 DEF Leaves
      <3>2. id \in X => Follows(w.sys, w2.sys, {})
        BY <3>1, FollowsTwice
      <3> QED
        BY <1>2, <1>7, <3>2 DEF Leaves
    <2>3. \A h \in Conns(w.sys) : h \notin Conns(w2.sys) =>
            h \in DOMAIN w.connections_ /\ w.connections_[h] = id /\ w.conns[id].fd_ = h
      <3>1. \A h \in Conns(w.sys) : h \in Conns(w1.sys)
        BY <1>2 DEF Follows
      <3> QED
        BY <1>2, <1>7, <3>1 DEF Leaves
    <2> QED
      BY <2>1, <2>2, <2>3 DEF Leaves
  <1>8. ASSUME c[id].fd_ # INVALID_SOCKET => c[id].recv_count_ < MAX_RECV_COUNT
        PROVE  Leaves(w, id, X, w1)
    <2>1. Counts(w1, {})
      BY <1>2, <1>5, <1>8 DEF Counts
    <2>2. \A h \in Conns(w.sys) : h \in Conns(w1.sys)
      BY <1>2 DEF Follows
    <2> QED
      BY <1>2, <1>6, <2>1, <2>2 DEF Leaves, Serves
  <1> QED
    BY <1>0, <1>2, <1>6, <1>7, <1>8

\* Why the server may have closed the socket h of the connection id.
Reason(w, id, h, w1) == \/ w.sys.socks[h].fin
                        \/ w.sys.socks[h].rx >= MAX_CONN_RECVBUF
                        \/ w.conns[id].recv_count_ = MAX_RECV_COUNT - 1
                        \/ w1.sys.faults # w.sys.faults

\* The connection w.conns[id] has been read from.
Counted(w, id) == With(w.conns, id, [w.conns[id] EXCEPT !.recv_count_ = @ + 1])

\* Messages were received.
LEMMA ReceivedLeaves ==
  ASSUME NEW w, NEW X, NEW id \in DOMAIN w.conns, Serves(w, X, {}),
         id \in X => w.conns[id].fd_ \notin DOMAIN w.connections_,
         NEW k, Calm(w.sys, k), w.conns[id].fd_ \in DOMAIN w.sys.socks, NEW n \in Nat,
         NEW w2 \in Server!Received(Serving(w, k, w.conns, w.connections_), id, n)
  PROVE  /\ Leaves(w, id, X, w2)
         /\ \A h \in Conns(w.sys) : h \notin Conns(w2.sys) => Reason(w, id, h, w2)
  <1>1. PICK fd, c : fd = w.conns[id].fd_ /\ c = Counted(w, id)
    BY Zenon
  <1>0. PICK w0 : w0 = Serving(w, k, w.conns, w.connections_)
    BY Zenon
  <1>2. w.conns[id] \in ConnType /\ IsRecord(w, ServerFields)
    BY DEF Serves, Table
  <1>3. /\ DOMAIN c = DOMAIN w.conns /\ \A j \in DOMAIN c \ {id} : c[j] = w.conns[j]
        /\ c[id] \in ConnType /\ c[id].fd_ = fd /\ c[id].recv_count_ = w.conns[id].recv_count_ + 1
    <2>1. PICK y, m, x : y = w.conns[id] /\ m = y.recv_count_ + 1 /\ x = [y EXCEPT !.recv_count_ = m]
      BY Zenon
    <2>2. y \in ConnType /\ m \in Nat
      BY <1>2, <2>1 DEF ConnType
    <2>3. x \in ConnType /\ x.fd_ = y.fd_ /\ x.recv_count_ = m
      BY <2>1, <2>2 DEF ConnType
    <2>4. c = With(w.conns, id, x)
      BY <1>1, <2>1, Zenon DEF Counted
    <2> HIDE DEF ConnType
    <2>5. DOMAIN c = DOMAIN w.conns /\ c[id] = x /\ \A j \in DOMAIN c \ {id} : c[j] = w.conns[j]
      BY <2>4 DEF With
    <2> QED
      BY <1>1, <2>1, <2>3, <2>5
  <1>4. fd # INVALID_SOCKET /\ w.conns[id].recv_count_ < MAX_RECV_COUNT /\ w.conns[id].recv_count_ \in Nat
    <2>1. fd # INVALID_SOCKET
      BY <1>1 DEF Serves, System, Handles, INVALID_SOCKET
    <2> QED
      BY <1>1, <1>2, <2>1 DEF Serves, Counts, ConnType
  <1>5. PICK w1 : w1 = Serving(w, k, c, w.connections_)
    BY Zenon
  <1>6. Server!SetConn(w0, id, [w0.conns[id] EXCEPT !.recv_count_ = @ + 1]) = w1
    <2>1. IsRecord(w0, ServerFields) /\ w0.sys = k /\ w0.conns = w.conns /\ w0.connections_ = w.connections_
      BY <1>0, <1>2, ServingFields
    <2>3. Counted(w0, id) = c
      BY <1>1, <2>1, Zenon DEF Counted
    <2>2. Server!SetConn(w0, id, [w0.conns[id] EXCEPT !.recv_count_ = @ + 1]) = [w0 EXCEPT !.conns = c]
      BY <2>3, Zenon DEF Counted, With, Server!With, Server!SetConn
    <2>4. [w0 EXCEPT !.conns = c] = Serving(w0, k, c, w.connections_)
      <3>1. [w0 EXCEPT !.conns = c] = Serving(w0, w0.sys, c, w0.connections_)
        BY <2>1, ServingForms
      <3> QED
        BY <2>1, <3>1, Zenon
    <2>5. Serving(w0, k, c, w.connections_) = w1
      BY <1>0, <1>5 DEF Serving
    <2> QED
      BY <2>2, <2>3, <2>4, <2>5
  <1>7. Follows(w.sys, k, {}) /\ k.faults = w.sys.faults /\ System(k)
    BY CalmFollows DEF Calm
  <1>8. /\ Serves(w1, X, {id}) /\ w1.sys = k /\ w1.conns = c /\ w1.connections_ = w.connections_
        /\ \A w3 : Leaves(w1, id, X, w3) => Leaves(w, id, X, w3)
    <2>1. c[id].fd_ = w.conns[id].fd_
      BY <1>1, <1>3
    <2>2. Follows(w.sys, k, {})
      BY <1>7
    <2>3. /\ Serves(w1, X, {id}) /\ w1.sys = k /\ w1.conns = c /\ w1.connections_ = w.connections_
          /\ \A w3 : Leaves(w1, id, X, w3) => Leaves(w, id, X, w3)
          /\ (c[id].fd_ # INVALID_SOCKET => c[id].recv_count_ < MAX_RECV_COUNT) => Leaves(w, id, X, w1)
      <3>1. LET w3 == Serving(w, k, c, w.connections_)
            IN  /\ Serves(w3, X, {id}) /\ w3.sys = k /\ w3.conns = c /\ w3.connections_ = w.connections_
                /\ \A w4 : Leaves(w3, id, X, w4) => Leaves(w, id, X, w4)
                /\ (c[id].fd_ # INVALID_SOCKET => c[id].recv_count_ < MAX_RECV_COUNT) => Leaves(w, id, X, w3)
        BY <1>3, <2>1, <2>2, ServerMoves
      <3> QED
        BY <1>5, <3>1, Zenon
    <2> QED
      BY <2>3, Zenon
  <1>9. \/ c[id].recv_count_ >= MAX_RECV_COUNT /\ w2 = Server!Close(w1, id)
        \/ ~(c[id].recv_count_ >= MAX_RECV_COUNT) /\ \E x \in Server!WriteSome(k, fd, n) :
              w2 = IF x.n < 0 THEN Server!Close([w1 EXCEPT !.sys = x.sys], id) ELSE [w1 EXCEPT !.sys = x.sys]
    <2> DEFINE y == Server!SetConn(w0, id, [w0.conns[id] EXCEPT !.recv_count_ = @ + 1])
    <2>1. w2 \in IF y.conns[id].recv_count_ >= MAX_RECV_COUNT THEN {Server!Close(y, id)}
                 ELSE {IF x.n < 0 THEN Server!Close([y EXCEPT !.sys = x.sys], id) ELSE [y EXCEPT !.sys = x.sys]
                       : x \in Server!WriteSome(y.sys, y.conns[id].fd_, n)}
      BY <1>0, Zenon DEF Server!Received
    <2> HIDE DEF y
    <2>2. w1.conns[id].recv_count_ = c[id].recv_count_ /\ w1.sys = k /\ w1.conns[id].fd_ = fd
      BY <1>3, <1>8
    <2>3. y = w1
      BY <1>6 DEF y
    <2> QED
      BY <2>1, <2>2, <2>3
  <1>10. CASE c[id].recv_count_ >= MAX_RECV_COUNT /\ w2 = Server!Close(w1, id)
    <2>1. id \in DOMAIN w1.conns /\ (id \in X => w1.conns[id].fd_ \notin DOMAIN w1.connections_)
      BY <1>1, <1>3, <1>8
    <2>3. Leaves(w1, id, X, w2)
      BY <1>8, <1>10, <2>1, ServerCloses
    <2>2. w.conns[id].recv_count_ = MAX_RECV_COUNT - 1
      BY <1>3, <1>4, <1>10, EchoAssumption
    <2> QED
      BY <1>8, <2>2, <2>3 DEF Reason
  <1>11. ASSUME ~(c[id].recv_count_ >= MAX_RECV_COUNT),
                NEW x \in Server!WriteSome(k, fd, n),
                w2 = IF x.n < 0 THEN Server!Close([w1 EXCEPT !.sys = x.sys], id) ELSE [w1 EXCEPT !.sys = x.sys]
         PROVE  /\ Leaves(w, id, X, w2)
                /\ \A h \in Conns(w.sys) : h \notin Conns(w2.sys) => Reason(w, id, h, w2)
    <2>1. /\ Follows(k, x.sys, {}) /\ x.n \in Int
          /\ x.n < 0 /\ fd \in Conns(k) => k.socks[fd].fin \/ x.sys.faults # k.faults
      BY <1>7, Writes
    <2>2. PICK w3 : w3 = Serving(w, x.sys, c, w.connections_)
      BY Zenon
    <2>3. [w1 EXCEPT !.sys = x.sys] = w3
      <3>1. IsRecord(w1, ServerFields)
        BY <1>8 DEF Serves
      <3>4. [w1 EXCEPT !.sys = x.sys] = Serving(w1, x.sys, w1.conns, w1.connections_)
        BY <3>1, ServingForms
      <3>2. [w1 EXCEPT !.sys = x.sys] = Serving(w1, x.sys, c, w.connections_)
        BY <1>8, <3>4, Zenon
      <3>3. Serving(w1, x.sys, c, w.connections_) = w3
        BY <1>5, <2>2 DEF Serving
      <3> QED
        BY <3>2, <3>3, Zenon
    <2>4. Follows(w.sys, x.sys, {})
      BY <1>7, <2>1, FollowsTwice
    <2>5. /\ Serves(w3, X, {id}) /\ w3.sys = x.sys /\ w3.conns = c /\ w3.connections_ = w.connections_
          /\ \A w4 : Leaves(w3, id, X, w4) => Leaves(w, id, X, w4)
          /\ (c[id].fd_ # INVALID_SOCKET => c[id].recv_count_ < MAX_RECV_COUNT) => Leaves(w, id, X, w3)
      <3>1. c[id].fd_ = w.conns[id].fd_
        BY <1>1, <1>3
      <3> QED
        BY <1>3, <2>2, <2>4, <3>1, ServerMoves
    <2>6. CASE x.n < 0
      <3>1. w2 = Server!Close(w3, id)
        BY <1>11, <2>3, <2>6
      <3>5. id \in DOMAIN w3.conns /\ (id \in X => w3.conns[id].fd_ \notin DOMAIN w3.connections_)
        BY <1>1, <1>3, <2>5
      <3>2. Leaves(w3, id, X, w2) /\ w2.sys.faults = x.sys.faults
        BY <2>5, <3>1, <3>5, ServerCloses
      <3>3. Leaves(w, id, X, w2)
        BY <2>5, <3>2
      <3>4. ASSUME NEW h \in Conns(w.sys), h \notin Conns(w2.sys) PROVE Reason(w, id, h, w2)
        <4>1. h = fd
          BY <1>1, <3>3, <3>4 DEF Leaves
        <4>2. fd \in Conns(k)
          BY <1>7, <3>4, <4>1 DEF Follows
        <4>3. k.socks[fd].fin \/ w2.sys.faults # w.sys.faults
          BY <1>7, <2>1, <2>6, <3>2, <4>2
        <4>4. k.socks[fd].fin = w.sys.socks[fd].fin
          BY <1>1 DEF Calm
        <4> QED
          BY <4>1, <4>3, <4>4 DEF Reason
      <3> QED
        BY <3>3, <3>4
    <2>7. CASE ~(x.n < 0)
      <3>1. w2 = w3
        BY <1>11, <2>3, <2>7
      <3>2. c[id].recv_count_ < MAX_RECV_COUNT
        BY <1>3, <1>4, <1>11, EchoAssumption
      <3>3. Leaves(w, id, X, w2)
        BY <2>5, <3>1, <3>2
      <3>4. \A h \in Conns(w.sys) : h \in Conns(w2.sys)
        BY <2>4, <2>5, <3>1 DEF Follows
      <3> QED
        BY <3>3, <3>4
    <2> QED
      BY <2>6, <2>7
  <1> QED
    BY <1>9, <1>10, <1>11

\* A connection reads.
LEMMA StartReadLeaves ==
  ASSUME NEW w, NEW X, NEW id \in DOMAIN w.conns, Serves(w, X, {}),
         id \in X => w.conns[id].fd_ \notin DOMAIN w.connections_,
         NEW w2 \in Server!StartRead(w, id)
  PROVE  /\ Leaves(w, id, X, w2)
         /\ \A h \in Conns(w.sys) : h \notin Conns(w2.sys) => Reason(w, id, h, w2)
  <1>1. PICK fd : fd = w.conns[id].fd_
    BY Zenon
  <1>2. PICK r \in Server!ReadSome(w.sys, fd, MAX_CONN_RECVBUF) :
          w2 \in LET w1 == [w EXCEPT !.sys = r.sys]
                 IN  CASE r.n < 0 -> {Server!Close(w1, id)}
                       [] r.n > 0 -> Server!Received(w1, id, r.n)
                       [] OTHER   -> {w1}
    BY <1>1 DEF Server!StartRead
  <1>3. /\ Follows(w.sys, r.sys, {}) /\ r.n \in Int
        /\ r.n > 0 => fd \in DOMAIN w.sys.socks /\ Calm(w.sys, r.sys)
        /\ r.n < 0 /\ fd \in Conns(w.sys) =>
             w.sys.socks[fd].fin \/ w.sys.socks[fd].rx >= MAX_CONN_RECVBUF \/ r.sys.faults # w.sys.faults
    <2>1. System(w.sys) /\ MAX_CONN_RECVBUF \in Nat
      BY EchoAssumption DEF Serves
    <2> QED
      BY <2>1, Reads
  <1>4. PICK w1 : w1 = Serving(w, r.sys, w.conns, w.connections_)
    BY Zenon
  <1>5. [w EXCEPT !.sys = r.sys] = w1
    <2>1. IsRecord(w, ServerFields)
      BY DEF Serves
    <2> QED
      BY <1>4, <2>1, ServingForms
  <1>6. \/ r.n < 0 /\ w2 = Server!Close(w1, id)
        \/ r.n > 0 /\ w2 \in Server!Received(w1, id, r.n)
        \/ ~(r.n < 0) /\ ~(r.n > 0) /\ w2 = w1
    BY <1>2, <1>3, <1>5
  <1>7. PICK c : c = w.conns
    BY Zenon
  <1>8. /\ Serves(w1, X, {id}) /\ w1.sys = r.sys /\ w1.conns = w.conns /\ w1.connections_ = w.connections_
        /\ \A w3 : Leaves(w1, id, X, w3) => Leaves(w, id, X, w3)
        /\ Leaves(w, id, X, w1)
    <2>1. /\ DOMAIN c = DOMAIN w.conns /\ c[id] \in ConnType /\ c[id].fd_ = w.conns[id].fd_
          /\ \A j \in DOMAIN c \ {id} : c[j] = w.conns[j]
          /\ c[id].fd_ # INVALID_SOCKET => c[id].recv_count_ < MAX_RECV_COUNT
      <3> HIDE DEF ConnType
      <3> QED
        BY <1>7 DEF Serves, Table, Counts
    <2>2. LET w3 == Serving(w, r.sys, c, w.connections_)
          IN  /\ Serves(w3, X, {id}) /\ w3.sys = r.sys /\ w3.conns = c /\ w3.connections_ = w.connections_
              /\ \A w4 : Leaves(w3, id, X, w4) => Leaves(w, id, X, w4)
              /\ (c[id].fd_ # INVALID_SOCKET => c[id].recv_count_ < MAX_RECV_COUNT) => Leaves(w, id, X, w3)
      BY <1>3, <2>1, ServerMoves
    <2> QED
      BY <1>4, <1>7, <2>1, <2>2, Zenon
  <1>9. CASE r.n < 0 /\ w2 = Server!Close(w1, id)
    <2>1. id \in DOMAIN w1.conns /\ (id \in X => w1.conns[id].fd_ \notin DOMAIN w1.connections_)
      BY <1>8
    <2>2. Leaves(w1, id, X, w2) /\ w2.sys.faults = r.sys.faults
      BY <1>8, <1>9, <2>1, ServerCloses
    <2>3. Leaves(w, id, X, w2)
      BY <1>8, <2>2
    <2>4. ASSUME NEW h \in Conns(w.sys), h \notin Conns(w2.sys) PROVE Reason(w, id, h, w2)
      <3>1. h = fd
        BY <1>1, <2>3, <2>4 DEF Leaves
      <3> QED
        BY <1>3, <1>9, <2>2, <3>1 DEF Reason
    <2> QED
      BY <2>3, <2>4
  <1>10. CASE r.n > 0 /\ w2 \in Server!Received(w1, id, r.n)
    <2>1. PICK n, k : n = r.n /\ k = r.sys
      BY Zenon
    <2>2. n \in Nat /\ Calm(w.sys, k) /\ w.conns[id].fd_ \in DOMAIN w.sys.socks
      BY <1>1, <1>3, <1>10, <2>1
    <2>3. w2 \in Server!Received(Serving(w, k, w.conns, w.connections_), id, n)
      BY <1>4, <1>10, <2>1, Zenon
    <2> QED
      BY <2>2, <2>3, ReceivedLeaves
  <1>11. CASE ~(r.n < 0) /\ ~(r.n > 0) /\ w2 = w1
    <2>1. \A h \in Conns(w.sys) : h \in Conns(w2.sys)
      BY <1>3, <1>8, <1>11 DEF Follows
    <2> QED
      BY <1>8, <1>11, <2>1
  <1> QED
    BY <1>6, <1>9, <1>10, <1>11

\* The system moves on under the server.
LEMMA ServerSystem ==
  ASSUME NEW w, NEW X, NEW Y, Serves(w, X, Y), NEW k, Follows(w.sys, k, {})
  PROVE  LET w1 == [w EXCEPT !.sys = k]
         IN  Serves(w1, X, Y) /\ w1.sys = k /\ w1.conns = w.conns /\ w1.connections_ = w.connections_
  <1>1. IsRecord(w, ServerFields)
    BY DEF Serves
  <1>2. PICK w1 : w1 = Serving(w, k, w.conns, w.connections_)
    BY Zenon
  <1>3. [w EXCEPT !.sys = k] = w1
    BY <1>1, <1>2, ServingForms
  <1>4. IsRecord(w1, ServerFields) /\ w1.sys = k /\ w1.conns = w.conns /\ w1.connections_ = w.connections_
    BY <1>1, <1>2, ServingFields
  <1>5. \A j \in DOMAIN w.conns : w1.conns[j] \in ConnType /\ w1.conns[j].fd_ \in {w.conns[j].fd_, INVALID_SOCKET}
    <2> HIDE DEF ConnType
    <2> QED
      BY <1>4 DEF Serves, Table
  <1>6. Table(k, w1, X)
    BY <1>4, <1>5, TableFollows DEF Serves
  <1>7. Serves(w1, X, Y)
    BY <1>4, <1>6 DEF Serves, Counts, Follows
  <1> QED
    BY <1>3, <1>4, <1>7

\* A connection is accepted, read from and put into the table.
LEMMA NewConnectionServes ==
  ASSUME NEW w, Serves(w, {}, {}), NEW fd \in Conns(w.sys), fd \notin DOMAIN w.connections_,
         NEW w2 \in Server!NewConnection(w, fd)
  PROVE  Serves(w2, {}, {}) /\ Follows(w.sys, w2.sys, {})
  <1> DEFINE id == Server!LeastFree(DOMAIN w.conns)
  <1> DEFINE Read(r) == Server!StartRead(
                          Server!SetConn([w EXCEPT !.sys = Server!SetPollOut(Server!SetPollIn(r.sys, fd), fd)],
                                         id, Server!EchoConn(fd)), id)
             Inserted(w1) == [w1 EXCEPT !.connections_ = Server!With(@, fd, id)]
             Results(r) == IF ~r.ok THEN {[w EXCEPT !.sys = r.sys]} ELSE {Inserted(w1) : w1 \in Read(r)}
  <1>4. PICK r \in Server!AddFd(w.sys, fd, id) : w2 \in Results(r)
    <2>1. w2 \in UNION {Results(r) : r \in Server!AddFd(w.sys, fd, id)}
      BY Zenon DEF Server!NewConnection
    <2> HIDE DEF Results
    <2> QED
      BY <2>1
  <1>1. id = LeastFree(DOMAIN w.conns)
    BY Zenon DEF Server!LeastFree, LeastFree, Server!Cardinality, Cardinality
  <1> HIDE DEF id
  <1>2. id \in Handles /\ id \notin DOMAIN w.conns
    BY <1>1, LeastFreeFacts DEF Serves, Table, Handles
  <1>5. System(w.sys) /\ fd \in Handles /\ IsRecord(w, ServerFields)
    BY DEF Serves, System, Conns
  <1>6. Follows(w.sys, r.sys, {}) /\ (r.ok => HasEntry(r.sys, fd, id))
    <2>1. r \in AddFd(w.sys, fd, id)
      BY <1>4, ServerAddFd, Zenon
    <2>2. fd \in Nat /\ id \in Nat
      BY <1>2, <1>5 DEF Handles
    <2> QED
      BY <1>5, <2>1, <2>2, Adds
  <1>7. CASE ~r.ok
    <2>1. w2 = [w EXCEPT !.sys = r.sys]
      BY <1>4, <1>7
    <2> QED
      BY <1>6, <2>1, ServerSystem
  <1>8. CASE r.ok
    <2>1. PICK k1, k2 : k1 = SetPollIn(r.sys, fd) /\ k2 = SetPollOut(k1, fd)
      BY Zenon
    <2>2. Follows(r.sys, k1, {})
      BY <1>6, <2>1, Changes DEF Follows
    <2>3. Follows(k1, k2, {})
      <3>1. System(k1)
        BY <2>2 DEF Follows
      <3> QED
        BY <2>1, <3>1, Changes
    <2>4. Follows(r.sys, k2, {}) /\ Follows(w.sys, k2, {})
      BY <1>6, <2>2, <2>3, FollowsTwice
    <2>5. Server!SetPollOut(Server!SetPollIn(r.sys, fd), fd) = k2
      BY <2>1, ServerChanges, Zenon
    <2>6. PICK x, c : x = Server!EchoConn(fd) /\ c = With(w.conns, id, x)
      BY Zenon
    <2>7. x \in ConnType /\ x.fd_ = fd /\ x.recv_count_ = 0
      BY <1>5, <2>6 DEF Server!EchoConn, ConnType, Handles
    <2>8. PICK w0 : w0 = Serving(w, k2, c, w.connections_)
      BY Zenon
    <2>9. Server!SetConn([w EXCEPT !.sys = Server!SetPollOut(Server!SetPollIn(r.sys, fd), fd)],
                         id, Server!EchoConn(fd)) = w0
      <3>1. PICK y : y = Serving(w, k2, w.conns, w.connections_)
        BY Zenon
      <3>2. IsRecord(y, ServerFields) /\ y.sys = k2 /\ y.conns = w.conns /\ y.connections_ = w.connections_
        BY <1>5, <3>1, ServingFields
      <3>3. [w EXCEPT !.sys = k2] = y
        <4>1. [w EXCEPT !.sys = k2] = Serving(w, k2, w.conns, w.connections_)
          BY <1>5, ServingForms
        <4> QED
          BY <3>1, <4>1, Zenon
      <3>4. Server!SetConn(y, id, x) = [y EXCEPT !.conns = c]
        BY <2>6, <3>2, Zenon DEF Server!SetConn, Server!With, With
      <3>5. [y EXCEPT !.conns = c] = w0
        <4>1. [y EXCEPT !.conns = c] = Serving(y, y.sys, c, y.connections_)
          BY <3>2, ServingForms
        <4>2. Serving(y, y.sys, c, y.connections_) = Serving(y, k2, c, w.connections_)
          BY <3>2, Zenon
        <4>3. Serving(y, k2, c, w.connections_) = w0
          BY <2>8, <3>1 DEF Serving
        <4> QED
          BY <4>1, <4>2, <4>3, Zenon
      <3> QED
        BY <2>5, <2>6, <3>3, <3>4, <3>5, Zenon
    <2>10. PICK w1 \in Server!StartRead(w0, id) : w2 = [w1 EXCEPT !.connections_ = Server!With(@, fd, id)]
      <3>1. Read(r) = Server!StartRead(w0, id)
        BY <2>9, Zenon
      <3> HIDE DEF Read, Inserted
      <3>2. PICK w1 \in Read(r) : w2 = Inserted(w1)
        BY <1>4, <1>8
      <3> QED
        BY <3>1, <3>2, Zenon DEF Inserted
    <2>11. IsRecord(w0, ServerFields) /\ w0.sys = k2 /\ w0.conns = c /\ w0.connections_ = w.connections_
      BY <1>5, <2>8, ServingFields
    <2>12. PICK X : X = {id}
      BY Zenon
    <2>13. /\ DOMAIN c = DOMAIN w.conns \cup {id} /\ c[id] = x
           /\ \A j \in DOMAIN w.conns : c[j] = w.conns[j]
      BY <1>2, <2>6 DEF With
    <2>14. Serves(w0, X, {})
      <3>1. Table(k2, w0, {id})
        BY <1>2, <2>4, <2>7, <2>11, <2>13, TableNew DEF Serves
      <3>2. Counts(w0, {})
        <4>1. 0 < MAX_RECV_COUNT
          BY EchoAssumption
        <4> QED
          BY <2>7, <2>11, <2>13, <4>1 DEF Serves, Counts
      <3> QED
        BY <2>4, <2>11, <2>12, <3>1, <3>2 DEF Serves, Follows
    <2>15. Leaves(w0, id, X, w1)
      <3>1. id \in DOMAIN w0.conns /\ w0.conns[id].fd_ \notin DOMAIN w0.connections_
        BY <2>7, <2>11, <2>13
      <3> QED
        BY <2>10, <2>14, <3>1, StartReadLeaves
    <2>16. /\ Serves(w1, X, {}) /\ Follows(k2, w1.sys, {}) /\ w1.connections_ = w.connections_
           /\ id \in DOMAIN w1.conns /\ w1.conns[id].fd_ \in {fd, INVALID_SOCKET}
      BY <2>7, <2>11, <2>12, <2>13, <2>15 DEF Leaves
    <2>17. PICK t : t = With(w1.connections_, fd, id)
      BY Zenon
    <2>18. w2 = Serving(w1, w1.sys, w1.conns, t)
      <3>1. Server!With(w1.connections_, fd, id) = t
        BY <2>17, Zenon DEF Server!With, With
      <3>2. w2 = [w1 EXCEPT !.connections_ = t]
        BY <2>10, <3>1, Zenon
      <3>3. IsRecord(w1, ServerFields)
        BY <2>16 DEF Serves
      <3>4. [w1 EXCEPT !.connections_ = t] = Serving(w1, w1.sys, w1.conns, t)
        BY <3>3, ServingForms
      <3> QED
        BY <3>2, <3>4, Zenon
    <2>19. IsRecord(w2, ServerFields) /\ w2.sys = w1.sys /\ w2.conns = w1.conns /\ w2.connections_ = t
      <3>1. IsRecord(w1, ServerFields)
        BY <2>16 DEF Serves
      <3> QED
        BY <2>18, <3>1, ServingFields
    <2>20. Follows(w.sys, w1.sys, {}) /\ Follows(r.sys, w1.sys, {})
      BY <2>4, <2>16, FollowsTwice
    <2>21. fd \in Conns(w1.sys) /\ HasEntry(w1.sys, fd, id)
      BY <1>5, <1>6, <1>8, <2>20 DEF Follows
    <2>22. Table(w1.sys, w2, {})
      <3>1. Table(w1.sys, w1, {id})
        BY <2>12, <2>16 DEF Serves
      <3>2. fd \notin DOMAIN w1.connections_
        BY <2>16
      <3> QED
        BY <2>16, <2>17, <2>19, <2>21, <3>1, <3>2, TableInsert
    <2>23. Counts(w2, {})
      BY <2>16, <2>19 DEF Serves, Counts
    <2> QED
      BY <2>16, <2>19, <2>20, <2>22, <2>23 DEF Serves
  <1> QED
    BY <1>7, <1>8

\* The listening socket is ready, or accept fails.
LEMMA OnReadableServes ==
  ASSUME NEW w, Serves(w, {}, {}), NEW w2 \in Server!OnReadable(w)
  PROVE  Serves(w2, {}, {}) /\ Follows(w.sys, w2.sys, {})
  <1> DEFINE k == w.sys
             acceptor == w.acceptor_
             fd == Server!FreshHandle(k)
  <1> DEFINE Connects(n, fin) == Server!NewConnection([w EXCEPT !.sys = Server!Accepted(k, acceptor, fd, n, fin)], fd)
             ready == acceptor \in DOMAIN k.socks /\ k.socks[acceptor].rx > 0
  <1>4. \/ \E k1 \in {k} \cup Faulty(k) : w2 = [w EXCEPT !.sys = k1]
        \/ ready /\ \E n \in 0 .. MaxMessages, fin \in {FALSE, EarlyClose} : w2 \in Connects(n, fin)
    <2> DEFINE Failing == {[w EXCEPT !.sys = k1] : k1 \in Server!When(~ready, {k}) \cup Server!Faulty(k)}
               B == {FALSE, EarlyClose}
               Succeeding == UNION {Connects(n, fin) : n \in 0 .. MaxMessages, fin \in B}
    <2>1. w2 \in Failing \cup Server!When(ready, Succeeding)
      BY SMT DEF Server!OnReadable, Server!IsOpen
    <2>2. Server!Faulty(k) = Faulty(k)
      BY Zenon DEF Server!Faulty, Faulty, Server!When, When
    <2> HIDE DEF Connects, ready, k, B
    <2>3. w2 \in Succeeding => \E n \in 0 .. MaxMessages, fin \in B : w2 \in Connects(n, fin)
      OBVIOUS
    <2>4. w2 \in Failing => \E k1 \in {k} \cup Faulty(k) : w2 = [w EXCEPT !.sys = k1]
      BY <2>2 DEF Server!When
    <2> HIDE DEF Failing, Succeeding
    <2>5. w2 \in Failing \/ (ready /\ w2 \in Succeeding)
      BY <2>1 DEF Server!When
    <2> QED
      BY <2>3, <2>4, <2>5, Zenon DEF B
  <1>2. fd = FreshHandle(k)
    BY Zenon DEF Server!FreshHandle, FreshHandle, Server!LeastFree, LeastFree, Server!Cardinality, Cardinality
  <1>1. k = w.sys
    OBVIOUS
  <1> HIDE DEF fd, k, acceptor
  <1>5. CASE \E k1 \in {k} \cup Faulty(k) : w2 = [w EXCEPT !.sys = k1]
    <2>1. PICK k1 \in {k} \cup Faulty(k) : w2 = [w EXCEPT !.sys = k1]
      BY <1>5
    <2>2. System(w.sys)
      BY DEF Serves
    <2>3. Follows(w.sys, k1, {})
      BY <1>1, <2>1, <2>2, FaultyFollows, FollowsTwice
    <2> QED
      BY <2>1, <2>3, ServerSystem
  <1>6. CASE ready /\ \E n \in 0 .. MaxMessages, fin \in {FALSE, EarlyClose} : w2 \in Connects(n, fin)
    <2>1. PICK n \in 0 .. MaxMessages, fin \in {FALSE, EarlyClose} : w2 \in Connects(n, fin)
      BY <1>6, Zenon
    <2>2. n \in Nat /\ fin \in BOOLEAN /\ System(k)
      <3>1. n \in Nat
        BY <2>1, EchoAssumption
      <3>2. fin \in BOOLEAN
        BY <2>1, EchoAssumption, Zenon
      <3>3. System(k)
        BY <1>1, Zenon DEF Serves
      <3> QED
        BY <3>1, <3>2, <3>3
    <2>3. PICK k1 : k1 = Server!Accepted(k, acceptor, fd, n, fin)
      BY Zenon
    <2>5. Follows(k, k1, {}) /\ fd \in Conns(k1) /\ fd \in Handles /\ fd \notin DOMAIN k.socks
      BY <1>2, <1>6, <2>2, <2>3, Accepts
    <2>6. PICK w1 : w1 = [w EXCEPT !.sys = k1]
      BY Zenon
    <2>7. Follows(w.sys, k1, {})
      BY <1>1, <2>5, Zenon
    <2>8. Serves(w1, {}, {}) /\ w1.sys = k1 /\ w1.connections_ = w.connections_
      BY <2>6, <2>7, ServerSystem
    <2>9. fd \notin DOMAIN w.connections_
      BY <1>1, <2>5 DEF Serves, Table, Conns
    <2>10. w2 \in Server!NewConnection(w1, fd)
      BY <2>1, <2>3, <2>6, Zenon
    <2>11. Serves(w2, {}, {}) /\ Follows(k1, w2.sys, {})
      BY <2>5, <2>8, <2>9, <2>10, NewConnectionServes
    <2> QED
      BY <2>7, <2>11, FollowsTwice
  <1> QED
    BY <1>4, <1>5, <1>6

\* The server starts.
LEMMA StartServes ==
  ASSUME NEW w, Serves(w, {}, {}), NEW w2 \in Server!Start(w)
  PROVE  Serves(w2, {}, {}) /\ Follows(w.sys, w2.sys, {})
  <1>1. PICK a \in Server!CreateTCPAcceptor(w.sys) :
          w2 \in IF a.fd = INVALID_SOCKET THEN {[w EXCEPT !.sys = a.sys, !.aborted = TRUE]}
                 ELSE {[w EXCEPT !.sys = Server!SetPollIn(r.sys, a.fd), !.acceptor_ = a.fd]
                       : r \in Server!AddFd(a.sys, a.fd, 0)}
    BY DEF Server!Start, Server!INVALID_SOCKET, INVALID_SOCKET
  <1>2. Follows(w.sys, a.sys, {}) /\ a.fd \in Nat \cup {INVALID_SOCKET}
    BY AcceptorFollows DEF Serves
  <1>3. PICK k, f, v : /\ Follows(w.sys, k, {}) /\ f \in {"aborted", "acceptor_"}
                       /\ w2 = [[w EXCEPT !.sys = k] EXCEPT ![f] = v]
    <2>1. CASE a.fd = INVALID_SOCKET
      <3>1. w2 = [[w EXCEPT !.sys = a.sys] EXCEPT !["aborted"] = TRUE]
        BY <1>1, <2>1
      <3> QED
        BY <1>2, <3>1
    <2>2. CASE a.fd # INVALID_SOCKET
      <3>1. PICK r \in Server!AddFd(a.sys, a.fd, 0) :
              w2 = [w EXCEPT !.sys = Server!SetPollIn(r.sys, a.fd), !.acceptor_ = a.fd]
        BY <1>1, <2>2
      <3>2. PICK h, s : h = a.fd /\ s = 0
        BY Zenon
      <3>3. r \in AddFd(a.sys, h, s) /\ h \in Nat /\ s \in Nat /\ System(a.sys)
        <4>1. r \in AddFd(a.sys, h, s)
          BY <3>1, <3>2, ServerAddFd, Zenon
        <4> QED
          BY <1>2, <2>2, <3>2, <4>1 DEF Follows
      <3>4. Follows(a.sys, r.sys, {}) /\ System(r.sys)
        BY <3>3, Adds DEF Follows
      <3>5. PICK k : k = SetPollIn(r.sys, h)
        BY Zenon
      <3>6. Follows(r.sys, k, {})
        BY <3>4, <3>5, Changes
      <3>7. Follows(w.sys, k, {})
        BY <1>2, <3>4, <3>6, FollowsTwice
      <3>8. Server!SetPollIn(r.sys, h) = k
        BY <3>5, ServerChanges, Zenon
      <3>9. w2 = [w EXCEPT !.sys = k, !.acceptor_ = h]
        BY <3>1, <3>2, <3>8, Zenon
      <3>10. w2 = [[w EXCEPT !.sys = k] EXCEPT !["acceptor_"] = h]
        BY <3>9
      <3> QED
        BY <3>7, <3>10
    <2> QED
      BY <2>1, <2>2
  <1>4. PICK w1 : w1 = [w EXCEPT !.sys = k]
    BY Zenon
  <1>5. f \in {"aborted", "acceptor_"} /\ Follows(w.sys, k, {})
    BY <1>3, Zenon
  <1>6. Serves(w1, {}, {}) /\ w1.sys = k
    BY <1>4, <1>5, ServerSystem
  <1>7. w2 = [w1 EXCEPT ![f] = v]
    BY <1>3, <1>4, Zenon
  <1>8. IsRecord(w1, ServerFields) /\ f \in ServerFields
    BY <1>5, <1>6 DEF Serves, ServerFields
  <1>9. IsRecord(w2, ServerFields) /\ \A g \in ServerFields \ {f} : w2[g] = w1[g]
    <2>1. DOMAIN w1 = ServerFields
      BY <1>8 DEF IsRecord
    <2>2. w2 = [g \in ServerFields |-> IF g = f THEN v ELSE w1[g]]
      BY <1>7, <2>1
    <2> QED
      BY <2>2 DEF IsRecord
  <1>10. w2.sys = k /\ w2.conns = w1.conns /\ w2.connections_ = w1.connections_
    BY <1>5, <1>6, <1>9 DEF ServerFields
  <1> QED
    BY <1>5, <1>6, <1>9, <1>10 DEF Serves, Table, Counts

-----------------------------------------------------------------------------
(* The handlers of the client. *)

\* A state of the client.
Owns(w) == IsRecord(w, ClientFields) /\ System(w.sys) /\ w.buf_ \in Nat

\* The counters of the client.
Counters(w, sent, timers, chains) == w.sent_count_ = sent /\ w.timers = timers /\ w.chains = chains

\* The counters stay.
Keeps(w, w1) == Owns(w1) /\ Counters(w1, w.sent_count_, w.timers, w.chains)

\* The forms in which the handlers change what is not a counter.
LEMMA ClientKeeps ==
  ASSUME NEW w, Owns(w), NEW k, System(k), NEW fd, NEW b \in Nat
  PROVE  /\ Keeps(w, w)
         /\ Keeps(w, [w EXCEPT !.sys = k]) /\ [w EXCEPT !.sys = k].sys = k /\ [w EXCEPT !.sys = k].fd_ = w.fd_
         /\ Keeps(w, [w EXCEPT !.sys = k, !.fd_ = fd])
         /\ Keeps(w, [w EXCEPT !.sys = k, !.buf_ = b])
         /\ Keeps(w, [w EXCEPT !.sys = k, !.aborted = TRUE])
  <1> HIDE DEF System
  <1>1. DOMAIN w = ClientFields
    BY DEF Owns, IsRecord
  <1>2. Keeps(w, w)
    BY DEF Keeps, Counters
  <1>3. Keeps(w, [w EXCEPT !.sys = k]) /\ [w EXCEPT !.sys = k].sys = k /\ [w EXCEPT !.sys = k].fd_ = w.fd_
    <2>1. PICK w1 : w1 = [w EXCEPT !.sys = k]
      BY Zenon
    <2>2. w1 = [f \in ClientFields |-> IF f = "sys" THEN k ELSE w[f]]
      BY <1>1, <2>1
    <2> QED
      BY <2>1, <2>2 DEF Keeps, Owns, Counters, IsRecord, ClientFields
  <1>4. Keeps(w, [w EXCEPT !.sys = k, !.fd_ = fd])
    <2>1. PICK w1 : w1 = [w EXCEPT !.sys = k, !.fd_ = fd]
      BY Zenon
    <2>2. w1 = [f \in ClientFields |-> IF f = "sys" THEN k ELSE IF f = "fd_" THEN fd ELSE w[f]]
      BY <1>1, <2>1 DEF ClientFields
    <2> QED
      BY <2>1, <2>2 DEF Keeps, Owns, Counters, IsRecord, ClientFields
  <1>5. Keeps(w, [w EXCEPT !.sys = k, !.buf_ = b])
    <2>1. PICK w1 : w1 = [w EXCEPT !.sys = k, !.buf_ = b]
      BY Zenon
    <2>2. w1 = [f \in ClientFields |-> IF f = "sys" THEN k ELSE IF f = "buf_" THEN b ELSE w[f]]
      BY <1>1, <2>1 DEF ClientFields
    <2> QED
      BY <2>1, <2>2 DEF Keeps, Owns, Counters, IsRecord, ClientFields
  <1>6. Keeps(w, [w EXCEPT !.sys = k, !.aborted = TRUE])
    <2>1. PICK w1, v : w1 = [w EXCEPT !.sys = k, !.aborted = v] /\ v = TRUE
      BY Zenon
    <2>2. w1 = [f \in ClientFields |-> IF f = "sys" THEN k ELSE IF f = "aborted" THEN v ELSE w[f]]
      BY <1>1, <2>1 DEF ClientFields
    <2>3. Keeps(w, w1)
      BY <2>2 DEF Keeps, Owns, Counters, IsRecord, ClientFields
    <2> QED
      BY <2>1, <2>3, Zenon
  <1> QED
    BY <1>2, <1>3, <1>4, <1>5, <1>6

\* Cleanup leaves the counters alone.
LEMMA CleanupKeeps == ASSUME NEW w, Owns(w) PROVE Keeps(w, Client!Cleanup(w))
  <1>1. PICK h, bad : h = w.fd_ /\ bad = INVALID_SOCKET
    BY Zenon
  <1>2. PICK k : k = closesocket(RemoveFd(w.sys, h), h)
    BY Zenon
  <1>3. System(k) /\ 0 \in Nat
    BY <1>2, Closes DEF Owns, Follows
  <1>4. Client!closesocket(Client!RemoveFd(w.sys, h), h) = k
    <2>1. Client!RemoveFd(w.sys, h) = RemoveFd(w.sys, h)
      BY ClientRemoveFd, Zenon
    <2> QED
      BY <1>2, <2>1, Zenon DEF Client!closesocket, closesocket, Client!Without, Without
  <1>5. Client!Cleanup(w) = [w EXCEPT !.sys = k, !.fd_ = bad]
    BY <1>1, <1>4, Zenon DEF Client!Cleanup, Client!INVALID_SOCKET, INVALID_SOCKET
  <1>6. Keeps(w, [w EXCEPT !.sys = k, !.fd_ = bad])
    BY <1>3, ClientKeeps
  <1> QED
    BY <1>5, <1>6, Zenon

\* Start leaves the counters alone.
LEMMA StartKeeps == ASSUME NEW w, Owns(w), NEW w1 \in Client!Start(w) PROVE Keeps(w, w1)
  <1> DEFINE Registers(c, r) == [w EXCEPT !.sys = Client!SetPollOut(Client!SetPollIn(r.sys, c.fd), c.fd),
                                          !.fd_ = c.fd]
             Results(c) == IF c.fd = Client!INVALID_SOCKET THEN {[w EXCEPT !.sys = c.sys, !.aborted = TRUE]}
                           ELSE {Registers(c, r) : r \in Client!AddFd(c.sys, c.fd, 0)}
  <1>1. PICK c \in Client!CreateTcpConnector(w.sys) : w1 \in Results(c)
    <2>1. w1 \in UNION {Results(c) : c \in Client!CreateTcpConnector(w.sys)}
      BY Zenon DEF Client!Start
    <2> HIDE DEF Results
    <2> QED
      BY <2>1
  <1>2. System(c.sys) /\ c.fd \in Nat \cup {INVALID_SOCKET}
    BY ConnectorFollows DEF Owns, Follows
  <1>3. PICK h, s, k0 : h = c.fd /\ s = 0 /\ k0 = c.sys
    BY Zenon
  <1>4. CASE h = INVALID_SOCKET
    <2>1. w1 = [w EXCEPT !.sys = k0, !.aborted = TRUE]
      BY <1>1, <1>3, <1>4 DEF Client!INVALID_SOCKET, INVALID_SOCKET
    <2>2. System(k0) /\ 0 \in Nat
      BY <1>2, <1>3
    <2>3. Keeps(w, [w EXCEPT !.sys = k0, !.aborted = TRUE])
      BY <2>2, ClientKeeps
    <2> QED
      BY <2>1, <2>3, Zenon
  <1>5. CASE h # INVALID_SOCKET
    <2>1. PICK r \in Client!AddFd(k0, h, s) : w1 = Registers(c, r)
      <3> HIDE DEF Registers
      <3> QED
        BY <1>1, <1>3, <1>5 DEF Client!INVALID_SOCKET, INVALID_SOCKET
    <2>2. r \in AddFd(k0, h, s)
      BY <2>1, ClientAddFd, Zenon
    <2>3. h \in Nat /\ s \in Nat /\ System(k0)
      BY <1>2, <1>3, <1>5
    <2>4. System(r.sys)
      BY <2>2, <2>3, Adds DEF Follows
    <2>5. PICK k1, k : k1 = SetPollIn(r.sys, h) /\ k = SetPollOut(k1, h)
      BY Zenon
    <2>6. System(k1)
      BY <2>4, <2>5, Changes DEF Follows
    <2>7. System(k)
      BY <2>5, <2>6, Changes DEF Follows
    <2>8. Client!SetPollOut(Client!SetPollIn(r.sys, h), h) = k
      BY <2>5, ClientChanges, Zenon
    <2>9. w1 = [w EXCEPT !.sys = k, !.fd_ = h]
      BY <1>3, <2>1, <2>8, Zenon
    <2>10. Keeps(w, [w EXCEPT !.sys = k, !.fd_ = h])
      BY <2>3, <2>7, ClientKeeps
    <2> QED
      BY <2>9, <2>10, Zenon
  <1> QED
    BY <1>4, <1>5

\* OnReadable leaves the counters alone.
LEMMA ClientReads == ASSUME NEW w, Owns(w), NEW w1 \in Client!OnReadable(w) PROVE Keeps(w, w1)
  <1>1. PICK h : h = w.fd_
    BY Zenon
  <1>2. PICK r \in Client!ReadSome(w.sys, h, RecvBuf) :
          w1 = IF r.n < 0 THEN Client!Cleanup([w EXCEPT !.sys = r.sys])
               ELSE [w EXCEPT !.sys = r.sys, !.buf_ = IF r.n > 0 THEN r.n ELSE @]
    BY <1>1 DEF Client!OnReadable
  <1>3. PICK k, n, b : k = r.sys /\ n = r.n /\ b = IF r.n > 0 THEN r.n ELSE w.buf_
    BY Zenon
  <1>4. System(k) /\ n \in Int
    <2>1. RecvBuf \in Nat /\ System(w.sys)
      BY EchoAssumption DEF Owns
    <2> QED
      BY <1>2, <1>3, <2>1, Reads DEF Follows
  <1>5. b \in Nat
    BY <1>3, <1>4 DEF Owns
  <1>6. CASE r.n < 0
    <2>1. PICK w0 : w0 = [w EXCEPT !.sys = k]
      BY Zenon
    <2>2. Keeps(w, w0)
      BY <1>4, <1>5, <2>1, ClientKeeps
    <2>3. w1 = Client!Cleanup(w0)
      BY <1>2, <1>3, <1>6, <2>1
    <2>4. Keeps(w0, w1)
      BY <2>2, <2>3, CleanupKeeps DEF Keeps
    <2> QED
      BY <2>2, <2>4 DEF Keeps, Counters
  <1>7. CASE ~(r.n < 0)
    <2>1. w1 = [w EXCEPT !.sys = k, !.buf_ = b]
      BY <1>2, <1>3, <1>7
    <2>2. Keeps(w, [w EXCEPT !.sys = k, !.buf_ = b])
      BY <1>4, <1>5, ClientKeeps
    <2> QED
      BY <2>1, <2>2, Zenon
  <1> QED
    BY <1>6, <1>7

\* The counters get other values.
LEMMA ClientCounts ==
  ASSUME NEW w, Owns(w), NEW n
  PROVE  /\ LET w1 == [w EXCEPT !.timers = n]
            IN  /\ Owns(w1) /\ w1.sys = w.sys /\ w1.fd_ = w.fd_ /\ w1.buf_ = w.buf_
                /\ Counters(w1, w.sent_count_, n, w.chains)
         /\ LET w1 == [w EXCEPT !.sent_count_ = n]
            IN  /\ Owns(w1) /\ w1.sys = w.sys /\ w1.fd_ = w.fd_ /\ w1.buf_ = w.buf_
                /\ Counters(w1, n, w.timers, w.chains)
         /\ LET w1 == [w EXCEPT !.chains = n]
            IN  /\ Owns(w1) /\ w1.sys = w.sys /\ w1.fd_ = w.fd_ /\ w1.buf_ = w.buf_
                /\ Counters(w1, w.sent_count_, w.timers, n)
  <1> HIDE DEF System
  <1>1. DOMAIN w = ClientFields
    BY DEF Owns, IsRecord
  <1>2. ASSUME NEW w1, w1 = [f \in ClientFields |-> IF f = "timers" THEN n ELSE w[f]]
        PROVE  /\ Owns(w1) /\ w1.sys = w.sys /\ w1.fd_ = w.fd_ /\ w1.buf_ = w.buf_
               /\ Counters(w1, w.sent_count_, n, w.chains)
    BY <1>2 DEF Owns, Counters, IsRecord, ClientFields
  <1>3. ASSUME NEW w1, w1 = [f \in ClientFields |-> IF f = "sent_count_" THEN n ELSE w[f]]
        PROVE  /\ Owns(w1) /\ w1.sys = w.sys /\ w1.fd_ = w.fd_ /\ w1.buf_ = w.buf_
               /\ Counters(w1, n, w.timers, w.chains)
    BY <1>3 DEF Owns, Counters, IsRecord, ClientFields
  <1>4. ASSUME NEW w1, w1 = [f \in ClientFields |-> IF f = "chains" THEN n ELSE w[f]]
        PROVE  /\ Owns(w1) /\ w1.sys = w.sys /\ w1.fd_ = w.fd_ /\ w1.buf_ = w.buf_
               /\ Counters(w1, w.sent_count_, w.timers, n)
    BY <1>4 DEF Owns, Counters, IsRecord, ClientFields
  <1>5. [w EXCEPT !.timers = n] = [f \in ClientFields |-> IF f = "timers" THEN n ELSE w[f]]
    BY <1>1 DEF ClientFields
  <1>6. [w EXCEPT !.sent_count_ = n] = [f \in ClientFields |-> IF f = "sent_count_" THEN n ELSE w[f]]
    BY <1>1 DEF ClientFields
  <1>7. [w EXCEPT !.chains = n] = [f \in ClientFields |-> IF f = "chains" THEN n ELSE w[f]]
    BY <1>1 DEF ClientFields
  <1> QED
    BY <1>2, <1>3, <1>4, <1>5, <1>6, <1>7

\* OnWritable starts over, or starts a timer.
LEMMA ClientWrites ==
  ASSUME NEW w, Owns(w), NEW w1 \in Client!OnWritable(w)
  PROVE  \/ Keeps(w, w1)
         \/ Owns(w1) /\ Counters(w1, w.sent_count_, w.timers + 1, w.chains + 1)
  <1>1. CASE w1 \in Client!Start(Client!Cleanup(w))
    <2>1. PICK w0 : w0 = Client!Cleanup(w)
      BY Zenon
    <2>2. Keeps(w, w0)
      BY <2>1, CleanupKeeps
    <2>3. Keeps(w0, w1)
      BY <1>1, <2>1, <2>2, StartKeeps DEF Keeps
    <2> QED
      BY <2>2, <2>3 DEF Keeps, Counters
  <1>2. CASE w1 \in {[Client!AddTimer(w) EXCEPT !.chains = @ + 1, !.sys = Client!ResetPollOut(@, w.fd_)]}
    <2>1. PICK n, m, h : n = w.timers + 1 /\ m = w.chains + 1 /\ h = w.fd_
      BY Zenon
    <2>2. PICK w2 : w2 = [w EXCEPT !.timers = n]
      BY Zenon
    <2>3. PICK w3 : w3 = [w2 EXCEPT !.chains = m]
      BY Zenon
    <2>4. /\ Owns(w3) /\ w3.sys = w.sys /\ w3.fd_ = w.fd_ /\ w3.buf_ = w.buf_
          /\ Counters(w3, w.sent_count_, n, m)
      <3>1. /\ Owns(w2) /\ w2.sys = w.sys /\ w2.fd_ = w.fd_ /\ w2.buf_ = w.buf_
            /\ Counters(w2, w.sent_count_, n, w.chains)
        BY <2>2, ClientCounts
      <3>2. /\ Owns(w3) /\ w3.sys = w2.sys /\ w3.fd_ = w2.fd_ /\ w3.buf_ = w2.buf_
            /\ Counters(w3, w2.sent_count_, w2.timers, m)
        BY <2>3, <3>1, ClientCounts
      <3> QED
        BY <3>1, <3>2 DEF Counters
    <2>5. PICK k : k = ResetPollOut(w.sys, h)
      BY Zenon
    <2>6. System(k)
      BY <2>5, Changes DEF Owns, Follows
    <2>7. Client!ResetPollOut(w.sys, h) = k
      BY <2>5, ClientChanges, Zenon
    <2>8. w1 = [w3 EXCEPT !.sys = k]
      <3>1. w2.chains = w.chains /\ w2.sys = w.sys
        BY <2>2
      <3>2. Client!AddTimer(w) = w2
        BY <2>1, <2>2, Zenon DEF Client!AddTimer
      <3>3. w1 = [Client!AddTimer(w) EXCEPT !.chains = @ + 1, !.sys = Client!ResetPollOut(@, h)]
        BY <1>2, <2>1
      <3>4. w1 = [w2 EXCEPT !.chains = m, !.sys = k]
        BY <2>1, <2>7, <3>1, <3>2, <3>3, Zenon
      <3> QED
        BY <2>3, <3>4
    <2>9. Keeps(w3, w1)
      <3>1. 0 \in Nat
        OBVIOUS
      <3> QED
        BY <2>4, <2>6, <2>8, <3>1, ClientKeeps
    <2> QED
      BY <2>1, <2>4, <2>9 DEF Keeps, Counters
  <1>3. Client!OnWritable(w) = IF Client!IsSelfConnection(w.sys, w.fd_) THEN Client!Start(Client!Cleanup(w))
          ELSE {[Client!AddTimer(w) EXCEPT !.chains = @ + 1, !.sys = Client!ResetPollOut(@, w.fd_)]}
    BY Zenon DEF Client!OnWritable
  <1> QED
    BY <1>1, <1>2, <1>3

\* The client sends one message more.
LEMMA ClientSends ==
  ASSUME NEW w, Owns(w), NEW w1 \in Client!SendData(w)
  PROVE  Owns(w1) /\ Counters(w1, w.sent_count_ + 1, w.timers, w.chains)
  <1>1. PICK h, len, n : /\ h = w.fd_ /\ n = w.sent_count_ + 1
                         /\ len = IF w.sent_count_ > 0 /\ w.buf_ > 0 THEN w.buf_ ELSE 1
    BY Zenon
  <1>2. PICK w0 : w0 = [w EXCEPT !.sent_count_ = n]
    BY Zenon
  <1>3. PICK x \in Client!WriteSome(w.sys, h, len) :
          w1 = IF x.n < 0 THEN Client!Cleanup([w0 EXCEPT !.sys = x.sys]) ELSE [w0 EXCEPT !.sys = x.sys, !.buf_ = 0]
    BY <1>1, <1>2 DEF Client!SendData
  <1>4. /\ Owns(w0) /\ w0.sys = w.sys /\ w0.fd_ = w.fd_ /\ w0.buf_ = w.buf_
        /\ Counters(w0, n, w.timers, w.chains)
    BY <1>2, ClientCounts
  <1>5. PICK k : k = x.sys
    BY Zenon
  <1>6. System(k)
    <2>1. len \in Nat /\ System(w.sys)
      BY <1>1 DEF Owns
    <2> QED
      BY <1>3, <1>5, <2>1, Writes DEF Follows
  <1>7. PICK b : b = 0 /\ b \in Nat
    BY SMT
  <1>8. CASE x.n < 0
    <2>1. PICK w2 : w2 = [w0 EXCEPT !.sys = k]
      BY Zenon
    <2>2. Keeps(w0, w2)
      BY <1>4, <1>6, <1>7, <2>1, ClientKeeps
    <2>3. w1 = Client!Cleanup(w2)
      BY <1>3, <1>5, <1>8, <2>1
    <2>4. Keeps(w2, w1)
      BY <2>2, <2>3, CleanupKeeps DEF Keeps
    <2> QED
      BY <1>1, <1>4, <2>2, <2>4 DEF Keeps, Counters
  <1>9. CASE ~(x.n < 0)
    <2>1. w1 = [w0 EXCEPT !.sys = k, !.buf_ = b]
      BY <1>3, <1>5, <1>7, <1>9
    <2>2. Keeps(w0, [w0 EXCEPT !.sys = k, !.buf_ = b])
      BY <1>4, <1>6, <1>7, ClientKeeps
    <2>3. Keeps(w0, w1)
      BY <2>1, <2>2, Zenon
    <2> QED
      BY <1>1, <1>4, <2>3 DEF Keeps, Counters
  <1> QED
    BY <1>8, <1>9

\* A timer fires: it is set again unless everything is sent.
LEMMA ClientFires ==
  ASSUME NEW w, Owns(w), w.timers \in Nat, NEW w2 \in Client!TimerFires(w)
  PROVE  /\ Owns(w2)
         /\ \E s \in {w.sent_count_, w.sent_count_ + 1} :
              Counters(w2, s, IF s < MAX_SEND_COUNT THEN w.timers ELSE w.timers - 1, w.chains)
  <1>1. PICK n : n = w.timers - 1
    BY Zenon
  <1>2. PICK w0 : w0 = [w EXCEPT !.timers = n]
    BY Zenon
  <1>3. /\ Owns(w0) /\ w0.sys = w.sys /\ w0.fd_ = w.fd_ /\ w0.buf_ = w.buf_
        /\ Counters(w0, w.sent_count_, n, w.chains)
    BY <1>2, ClientCounts
  <1>4. w2 \in Client!OnTimeout(w0)
    BY <1>1, <1>2, Zenon DEF Client!TimerFires
  <1>5. PICK w1 : /\ w1 \in {w0} \cup Client!SendData(w0)
                  /\ w2 = IF w1.sent_count_ < MAX_SEND_COUNT THEN Client!AddTimer(w1) ELSE w1
    BY <1>4 DEF Client!OnTimeout
  <1>6. PICK s \in {w.sent_count_, w.sent_count_ + 1} : Owns(w1) /\ Counters(w1, s, n, w.chains)
    <2>1. CASE w1 = w0
      BY <1>3, <2>1
    <2>2. CASE w1 \in Client!SendData(w0)
      <3>1. Owns(w1) /\ Counters(w1, w0.sent_count_ + 1, w0.timers, w0.chains)
        BY <1>3, <2>2, ClientSends
      <3> QED
        BY <1>3, <3>1 DEF Counters
    <2> QED
      BY <1>5, <2>1, <2>2
  <1>7. CASE s < MAX_SEND_COUNT
    <2>1. PICK t : t = w1.timers + 1
      BY Zenon
    <2>2. w2 = [w1 EXCEPT !.timers = t]
      <3>1. w2 = Client!AddTimer(w1)
        BY <1>5, <1>6, <1>7 DEF Counters
      <3> QED
        BY <2>1, <3>1, Zenon DEF Client!AddTimer
    <2>3. Owns(w2) /\ Counters(w2, w1.sent_count_, t, w1.chains)
      BY <1>6, <2>2, ClientCounts
    <2>4. t = w.timers
      BY <1>1, <1>6, <2>1 DEF Counters
    <2> QED
      BY <1>6, <1>7, <2>3, <2>4 DEF Counters
  <1>8. CASE ~(s < MAX_SEND_COUNT)
    <2>1. w2 = w1
      BY <1>5, <1>6, <1>8 DEF Counters
    <2> QED
      BY <1>1, <1>6, <1>8, <2>1
  <1> QED
    BY <1>7, <1>8

-----------------------------------------------------------------------------
(* The actions. *)

\* A callback of the server leaves the table in order, and closes a socket
\* only for a reason.
LEMMA ServerCalls ==
  ASSUME NEW w, Serves(w, {}, {}), NEW id, id = 0 \/ id \in DOMAIN w.conns,
         NEW readable, NEW w2 \in Server!Callback(w, id, readable)
  PROVE  /\ Serves(w2, {}, {})
         /\ \A h \in Conns(w.sys) : h \notin Conns(w2.sys) =>
              h \in DOMAIN w.connections_ /\ Reason(w, w.connections_[h], h, w2)
  <1>1. CASE w2 = w
    BY <1>1
  <1>2. CASE w2 \in Server!OnReadable(w)
    <2>1. Serves(w2, {}, {}) /\ Follows(w.sys, w2.sys, {})
      BY <1>2, OnReadableServes
    <2> QED
      BY <2>1 DEF Follows
  <1>3. CASE id \in DOMAIN w.conns /\ w2 \in Server!StartRead(w, id)
    <2>1. PICK X : X = {}
      BY Zenon
    <2>2. Serves(w, X, {}) /\ id \notin X
      BY <2>1
    <2>3. /\ Leaves(w, id, X, w2)
          /\ \A h \in Conns(w.sys) : h \notin Conns(w2.sys) => Reason(w, id, h, w2)
      BY <1>3, <2>2, StartReadLeaves
    <2>4. Serves(w2, {}, {})
      BY <2>1, <2>3, Zenon DEF Leaves
    <2>5. \A h \in Conns(w.sys) : h \notin Conns(w2.sys) => h \in DOMAIN w.connections_ /\ w.connections_[h] = id
      BY <2>3 DEF Leaves
    <2> QED
      BY <2>3, <2>4, <2>5
  <1>4. \/ w2 = w
        \/ w2 \in Server!OnReadable(w)
        \/ id # 0 /\ w2 \in Server!StartRead(w, id)
    <2>1. w2 \in IF ~readable THEN {w} ELSE IF id = 0 THEN Server!OnReadable(w) ELSE Server!StartRead(w, id)
      BY Zenon DEF Server!Callback
    <2> QED
      BY <2>1
  <1> QED
    BY <1>1, <1>2, <1>3, <1>4

\* Between two handlers the server's record has no system in it.
LEMMA ServerState ==
  ASSUME System(os), IsRecord(app, ServerFields), Table(os, app, {}), Counts(app, {})
  PROVE  /\ Serves(State, {}, {})
         /\ State.sys = os /\ State.conns = app.conns /\ State.connections_ = app.connections_
  <1>1. PICK w : w = State
    BY Zenon
  <1>2. w = Serving(app, os, app.conns, app.connections_)
    <2>1. [app EXCEPT !.sys = os] = Serving(app, os, app.conns, app.connections_)
      BY ServingForms
    <2> QED
      BY <1>1, <2>1, Zenon DEF State
  <1>3. IsRecord(w, ServerFields) /\ w.sys = os /\ w.conns = app.conns /\ w.connections_ = app.connections_
    BY <1>2, ServingFields
  <1>4. Serves(w, {}, {})
    BY <1>3 DEF Serves, Table, Counts
  <1> QED
    BY <1>1, <1>3, <1>4

\* A handler of the server ends.
LEMMA ServerHandled ==
  ASSUME NEW w, Serves(w, {}, {}), os' = w.sys, app' = [w EXCEPT !.sys = NULL]
  PROVE  /\ System(os') /\ IsRecord(app', ServerFields)
         /\ Table(os', app', {}) /\ Counts(app', {})
  <1>1. PICK w1 : w1 = [w EXCEPT !.sys = NULL]
    BY Zenon
  <1>2. w1 = Serving(w, NULL, w.conns, w.connections_)
    <2>1. IsRecord(w, ServerFields)
      BY DEF Serves
    <2>2. [w EXCEPT !.sys = NULL] = Serving(w, NULL, w.conns, w.connections_)
      BY <2>1, ServingForms
    <2> QED
      BY <1>1, <2>2, Zenon
  <1>3. IsRecord(w1, ServerFields) /\ w1.conns = w.conns /\ w1.connections_ = w.connections_
    BY <1>2, ServingFields DEF Serves
  <1>4. System(w.sys) /\ Table(w.sys, w1, {}) /\ Counts(w1, {})
    BY <1>3 DEF Serves, Table, Counts
  <1> QED
    BY <1>1, <1>3, <1>4

\* Between two handlers the client's record has no system in it.
LEMMA ClientState ==
  ASSUME System(os), IsRecord(app, ClientFields), ClientInv(app)
  PROVE  Owns(State) /\ Counters(State, app.sent_count_, app.timers, app.chains)
  <1>1. PICK w : w = State
    BY Zenon
  <1>2. w = [app EXCEPT !.sys = os]
    BY <1>1, Zenon DEF State
  <1>3. IsRecord(w, ClientFields) /\ w.sys = os /\ \A f \in ClientFields \ {"sys"} : w[f] = app[f]
    <2>1. "sys" \in ClientFields
      BY DEF ClientFields
    <2> QED
      BY <1>2, <2>1, Assign
  <1>4. w.buf_ = app.buf_ /\ w.sent_count_ = app.sent_count_ /\ w.timers = app.timers /\ w.chains = app.chains
    BY <1>3 DEF ClientFields
  <1> QED
    BY <1>1, <1>3, <1>4 DEF Owns, Counters, ClientInv

\* A handler of the client ends.
LEMMA ClientHandled ==
  ASSUME NEW w, Owns(w), NEW s, NEW t, NEW c, Counters(w, s, t, c), os' = w.sys, app' = [w EXCEPT !.sys = NULL]
  PROVE  /\ System(os') /\ IsRecord(app', ClientFields)
         /\ Counters(app', s, t, c) /\ app'.buf_ \in Nat
  <1>1. PICK w1 : w1 = [w EXCEPT !.sys = NULL]
    BY Zenon
  <1>2. IsRecord(w1, ClientFields) /\ \A f \in ClientFields \ {"sys"} : w1[f] = w[f]
    <2>1. "sys" \in ClientFields /\ IsRecord(w, ClientFields)
      BY DEF ClientFields, Owns
    <2> QED
      BY <1>1, <2>1, Assign
  <1>3. w1.buf_ = w.buf_ /\ w1.sent_count_ = w.sent_count_ /\ w1.timers = w.timers /\ w1.chains = w.chains
    BY <1>2 DEF ClientFields
  <1>4. System(w.sys) /\ Counters(w1, s, t, c) /\ w1.buf_ \in Nat
    BY <1>3 DEF Owns, Counters
  <1> QED
    BY <1>1, <1>2, <1>4

\* The system before the program is started, and when it has ended.
LEMMA EmptySystemIs == ASSUME NEW type PROVE System(EmptySystem(type))
  <1>1. PICK k : k = EmptySystem(type)
    BY Zenon
  <1>2. IsRecord(k, SystemFields)
    BY <1>1 DEF EmptySystem, IsRecord, SystemFields
  <1>3. DOMAIN k.socks = {} /\ DOMAIN k.events = {} /\ k.fds_ = <<>> /\ k.faults = MaxFaults
    BY <1>1 DEF EmptySystem
  <1>4. Room(k)
    BY <1>3, NetworkAssumption DEF Room
  <1>5. k.fds_ \in Seq(EntryType)
    <2> HIDE DEF EntryType
    <2> QED
      BY <1>3
  <1>6. System(k)
    BY <1>2, <1>3, <1>4, <1>5, NetworkAssumption, FS_EmptySet DEF System
  <1> QED
    BY <1>1, <1>6, Zenon

\* IInv holds at first.
LEMMA InitIInv == Init => IInv
  <1> SUFFICES ASSUME Init PROVE IInv
    OBVIOUS
  <1>1. PICK type : os = EmptySystem(type)
    BY DEF Init, NetworkInit
  <1>2. IsFiniteSet({})
    BY FS_EmptySet
  <1>3. System(os)
    BY <1>1, EmptySystemIs, Zenon
  <1>4. pc \in PCs /\ role \in {"server", "client"} /\ connects \in 0 .. MaxConns
    BY EchoAssumption DEF Init, NetworkInit, PCs
  <1>5. ServerInv
    <2> SUFFICES ASSUME role = "server" PROVE IsRecord(app, ServerFields) /\ Table(os, app, {}) /\ Counts(app, {})
      BY DEF ServerInv, IsServer
    <2>1. app = Server!NewServer(NULL)
      BY DEF Init
    <2>2. IsRecord(app, ServerFields) /\ DOMAIN app.conns = {} /\ DOMAIN app.connections_ = {}
      BY <2>1 DEF Server!NewServer, IsRecord, ServerFields
    <2> QED
      BY <1>2, <2>2 DEF Table, Counts
  <1>6. RunsClient
    <2> SUFFICES ASSUME role # "server" PROVE IsRecord(app, ClientFields) /\ ClientInv(app) /\ due \in 0 .. app.timers
      BY DEF RunsClient, IsServer
    <2>1. app = Client!NewClient(NULL) /\ due = 0
      BY DEF Init
    <2>2. IsRecord(app, ClientFields) /\ Counters(app, 0, 0, 0) /\ app.buf_ = 0
      BY <2>1 DEF Client!NewClient, IsRecord, ClientFields, Counters
    <2> QED
      BY <2>1, <2>2, EchoAssumption DEF ClientInv, Counters
  <1>7. NoTimers
    BY DEF Init, NoTimers
  <1> QED
    BY <1>3, <1>4, <1>5, <1>6, <1>7 DEF IInv

\* The invariant after a step that leaves the program alone.
LEMMA AppStays ==
  ASSUME IInv, Follows(os, os', {}), pc # "stopped", UNCHANGED <<role, app>>,
         pc' \in PCs, connects' \in 0 .. MaxConns, due' \in 0 .. IF IsServer THEN 0 ELSE app.timers
  PROVE  IInv'
  <1>1. System(os')
    BY DEF Follows
  <1>2. ServerInv'
    <2> SUFFICES ASSUME IsServer
                 PROVE  IsRecord(app', ServerFields) /\ Table(os', app', {}) /\ Counts(app', {})
      BY Zenon DEF ServerInv, IsServer
    <2>1. IsRecord(app, ServerFields) /\ Table(os, app, {}) /\ Counts(app, {})
      BY Zenon DEF IInv, ServerInv
    <2>2. PICK k, w : k = os' /\ w = app
      BY Zenon
    <2>3. \A id \in DOMAIN w.conns : w.conns[id] \in ConnType /\ w.conns[id].fd_ \in {w.conns[id].fd_, INVALID_SOCKET}
      <3> HIDE DEF ConnType
      <3> QED
        BY <2>1, <2>2 DEF Table
    <2>4. Table(os, w, {}) /\ Follows(os, k, {})
      BY <2>1, <2>2, Zenon
    <2>5. Table(k, w, {})
      BY <2>3, <2>4, TableFollows
    <2> QED
      BY <2>1, <2>2, <2>5, Zenon
  <1>3. RunsClient'
    BY DEF IInv, RunsClient, IsServer
  <1>4. NoTimers'
    BY DEF NoTimers, IsServer
  <1> QED
    BY <1>1, <1>2, <1>3, <1>4 DEF IInv

\* The invariant after a handler of the server.
LEMMA ServerHandles ==
  ASSUME IInv, IsServer, UNCHANGED <<role, due, connects>>, NEW w, Serves(w, {}, {}),
         os' = w.sys, app' = [w EXCEPT !.sys = NULL], pc' \in PCs
  PROVE  IInv'
  <1>1. System(os') /\ IsRecord(app', ServerFields) /\ Table(os', app', {}) /\ Counts(app', {})
    BY ServerHandled, Zenon
  <1>2. ServerInv' /\ RunsClient'
    BY <1>1, Zenon DEF ServerInv, RunsClient, IsServer
  <1>3. NoTimers'
    BY DEF IInv, NoTimers, IsServer
  <1> QED
    BY <1>1, <1>2, <1>3 DEF IInv

\* The invariant after a handler of the client.
LEMMA ClientHandles ==
  ASSUME IInv, ~IsServer, UNCHANGED <<role, connects>>, NEW w, Owns(w),
         os' = w.sys, app' = [w EXCEPT !.sys = NULL], pc' \in PCs,
         NEW s \in Nat, NEW t \in Nat, NEW c \in Nat, Counters(w, s, t, c),
         t <= c, s >= MAX_SEND_COUNT => s + t < MAX_SEND_COUNT + c, due' \in 0 .. t
  PROVE  IInv'
  <1>1. System(os') /\ IsRecord(app', ClientFields) /\ Counters(app', s, t, c) /\ app'.buf_ \in Nat
    BY ClientHandled, Zenon
  <1>2. ServerInv'
    BY Zenon DEF ServerInv, IsServer
  <1>3. ClientInv(app)' /\ (due \in 0 .. app.timers)'
    BY <1>1 DEF ClientInv, Counters
  <1>4. RunsClient'
    BY <1>1, <1>3, Zenon DEF RunsClient
  <1>5. NoTimers'
    BY DEF NoTimers, IsServer
  <1> QED
    BY <1>1, <1>2, <1>4, <1>5 DEF IInv

\* Begin keeps the invariant.
LEMMA BeginIInv == ASSUME IInv, Begin PROVE IInv' /\ (IsServer => Follows(os, os', {}))
  <1>1. UNCHANGED <<role, due, connects>> /\ pc # "stopped"
    BY DEF Begin
  <1>2. PICK w \in IF IsServer THEN Server!Start(State) ELSE Client!Start(State) :
          os' = w.sys /\ app' = [w EXCEPT !.sys = NULL] /\ pc' = IF w.aborted THEN "aborted" ELSE "idle"
    BY DEF Begin, Handled
  <1>3. pc' \in PCs
    BY <1>2 DEF PCs
  <1>4. CASE IsServer
    <2>1. w \in Server!Start(State)
      BY <1>2, <1>4
    <2>2. IsRecord(app, ServerFields) /\ Table(os, app, {}) /\ Counts(app, {}) /\ System(os)
      BY <1>1, <1>4, Zenon DEF IInv, ServerInv
    <2>3. Serves(State, {}, {}) /\ State.sys = os
      BY <2>2, ServerState, Zenon
    <2>4. Serves(w, {}, {}) /\ Follows(State.sys, w.sys, {})
      BY <2>1, <2>3, StartServes
    <2>5. IInv'
      BY <1>1, <1>2, <1>3, <1>4, <2>4, ServerHandles
    <2> QED
      BY <1>2, <2>3, <2>4, <2>5
  <1>5. CASE ~IsServer
    <2>1. w \in Client!Start(State)
      BY <1>2, <1>5
    <2>2. System(os) /\ IsRecord(app, ClientFields) /\ ClientInv(app) /\ due \in 0 .. app.timers
      BY <1>5, Zenon DEF IInv, RunsClient
    <2>3. Owns(State) /\ Counters(State, app.sent_count_, app.timers, app.chains)
      BY <2>2, ClientState, Zenon
    <2>4. Keeps(State, w)
      BY <2>1, <2>3, StartKeeps
    <2>5. PICK s, t, c : s = app.sent_count_ /\ t = app.timers /\ c = app.chains
      BY Zenon
    <2>6. Owns(w) /\ Counters(w, s, t, c)
      BY <2>3, <2>4, <2>5 DEF Keeps, Counters
    <2>7. /\ s \in Nat /\ t \in Nat /\ c \in Nat
          /\ t <= c /\ (s >= MAX_SEND_COUNT => s + t < MAX_SEND_COUNT + c) /\ due' \in 0 .. t
      BY <1>1, <2>2, <2>5 DEF ClientInv
    <2> QED
      BY <1>1, <1>2, <1>3, <1>5, <2>6, <2>7, ClientHandles
  <1> QED
    BY <1>4, <1>5

\* Why the server may have closed the socket h, in the words of ClosedForAReason.
ClosedFor(h) == \/ os.socks[h].fin
                \/ os.socks[h].rx >= MAX_CONN_RECVBUF
                \/ app.conns[app.connections_[h]].recv_count_ = MAX_RECV_COUNT - 1
                \/ os'.faults # os.faults

\* Call keeps the invariant.
LEMMA CallIInv ==
  ASSUME IInv, Call
  PROVE  IInv' /\ (IsServer => \A h \in Conns(os) : h \notin Conns(os)' => ClosedFor(h))
  <1>1. UNCHANGED <<role, due, connects>> /\ pc # "stopped"
    BY DEF Call, Calling
  <1>2. PICK w \in IF IsServer THEN Server!Callback(State, CalledSink, Readable) ELSE Client!Callback(State, Readable) :
          os' = w.sys /\ app' = [w EXCEPT !.sys = NULL] /\ pc' = IF w.aborted THEN "aborted" ELSE "dispatch"
    BY DEF Call, Handled
  <1>3. pc' \in PCs
    BY <1>2 DEF PCs
  <1>4. CASE IsServer
    <2>1. PICK id, readable : id = CalledSink /\ readable = Readable
      BY Zenon
    <2>2. w \in Server!Callback(State, id, readable)
      BY <1>2, <1>4, <2>1, Zenon
    <2>3. IsRecord(app, ServerFields) /\ Table(os, app, {}) /\ Counts(app, {}) /\ System(os)
      BY <1>1, <1>4, Zenon DEF IInv, ServerInv
    <2>4. /\ Serves(State, {}, {})
          /\ State.sys = os /\ State.conns = app.conns /\ State.connections_ = app.connections_
      BY <2>3, ServerState, Zenon
    <2>5. id = 0 \/ id \in DOMAIN State.conns
      BY <2>1, <2>4 DEF Call, Exists
    <2>6. /\ Serves(w, {}, {})
          /\ \A h \in Conns(State.sys) : h \notin Conns(w.sys) =>
               h \in DOMAIN State.connections_ /\ Reason(State, State.connections_[h], h, w)
      BY <2>2, <2>4, <2>5, ServerCalls
    <2>7. IInv'
      BY <1>1, <1>2, <1>3, <1>4, <2>6, ServerHandles
    <2>8. ASSUME NEW h \in Conns(os), h \notin Conns(os)' PROVE ClosedFor(h)
      <3>1. Conns(os)' = Conns(w.sys)
        BY <1>2 DEF Conns
      <3>2. Reason(State, State.connections_[h], h, w)
        BY <2>4, <2>6, <2>8, <3>1
      <3> QED
        BY <1>2, <2>4, <3>2 DEF Reason, ClosedFor
    <2> QED
      BY <2>7, <2>8
  <1>5. CASE ~IsServer
    <2>1. w \in Client!OnReadable(State) \/ w \in Client!OnWritable(State)
      BY <1>2, <1>5 DEF Client!Callback
    <2>2. System(os) /\ IsRecord(app, ClientFields) /\ ClientInv(app) /\ due \in 0 .. app.timers
      BY <1>5, Zenon DEF IInv, RunsClient
    <2>3. Owns(State) /\ Counters(State, app.sent_count_, app.timers, app.chains)
      BY <2>2, ClientState, Zenon
    <2>4. \/ Keeps(State, w)
          \/ Owns(w) /\ Counters(w, State.sent_count_, State.timers + 1, State.chains + 1)
      BY <2>1, <2>3, ClientReads, ClientWrites
    <2>5. PICK s, t, c : /\ s = app.sent_count_
                         /\ (t = app.timers /\ c = app.chains) \/ (t = app.timers + 1 /\ c = app.chains + 1)
                         /\ Owns(w) /\ Counters(w, s, t, c)
      BY <2>3, <2>4 DEF Keeps, Counters
    <2>6. /\ s \in Nat /\ t \in Nat /\ c \in Nat
          /\ t <= c /\ (s >= MAX_SEND_COUNT => s + t < MAX_SEND_COUNT + c) /\ due' \in 0 .. t
      BY <1>1, <2>2, <2>5, EchoAssumption DEF ClientInv
    <2>7. Owns(w) /\ Counters(w, s, t, c)
      BY <2>5, Zenon
    <2>8. IInv'
      BY <1>1, <1>2, <1>3, <1>5, <2>6, <2>7, ClientHandles
    <2> QED
      BY <1>5, <2>8
  <1> QED
    BY <1>4, <1>5

\* Timer keeps the invariant; the server has no timers.
LEMMA TimerIInv == ASSUME IInv, Timer PROVE IInv' /\ ~IsServer
  <1>1. /\ UNCHANGED <<role, connects>> /\ due > 0 /\ due' = due - 1
        /\ ~IsServer
    BY DEF Timer, IInv, NoTimers
  <1>2. PICK w \in Client!TimerFires(State) :
          os' = w.sys /\ app' = [w EXCEPT !.sys = NULL] /\ pc' = IF w.aborted THEN "aborted" ELSE "timers"
    BY DEF Timer, Handled
  <1>3. pc' \in PCs
    BY <1>2 DEF PCs
  <1>4. System(os) /\ IsRecord(app, ClientFields) /\ ClientInv(app) /\ due \in 0 .. app.timers
    BY <1>1, Zenon DEF IInv, RunsClient
  <1>5. Owns(State) /\ Counters(State, app.sent_count_, app.timers, app.chains)
    BY <1>4, ClientState, Zenon
  <1>6. /\ Owns(w)
        /\ \E s \in {State.sent_count_, State.sent_count_ + 1} :
             Counters(w, s, IF s < MAX_SEND_COUNT THEN State.timers ELSE State.timers - 1, State.chains)
    <2>1. State.timers \in Nat
      BY <1>4, <1>5 DEF Counters, ClientInv
    <2> QED
      BY <1>2, <1>5, <2>1, ClientFires
  <1>7. PICK s, t, c : /\ s \in {app.sent_count_, app.sent_count_ + 1} /\ c = app.chains
                       /\ t = IF s < MAX_SEND_COUNT THEN app.timers ELSE app.timers - 1
                       /\ Counters(w, s, t, c)
    BY <1>5, <1>6 DEF Counters
  <1>8. /\ s \in Nat /\ t \in Nat /\ c \in Nat
        /\ t <= c /\ (s >= MAX_SEND_COUNT => s + t < MAX_SEND_COUNT + c) /\ due' \in 0 .. t
    <2>1. /\ app.sent_count_ \in Nat /\ app.timers \in Nat /\ app.chains \in Nat
          /\ app.timers <= app.chains /\ due \in 0 .. app.timers
          /\ app.sent_count_ >= MAX_SEND_COUNT => app.sent_count_ + app.timers < MAX_SEND_COUNT + app.chains
      BY <1>4 DEF ClientInv
    <2>2. MAX_SEND_COUNT \in Nat
      BY EchoAssumption
    <2> QED
      BY <1>1, <1>7, <2>1, <2>2
  <1>9. Owns(w) /\ Counters(w, s, t, c)
    BY <1>6, <1>7, Zenon
  <1> QED
    BY <1>1, <1>2, <1>3, <1>8, <1>9, ClientHandles

\* Poll keeps the invariant.
LEMMA PollIInv == ASSUME IInv, Poll PROVE IInv' /\ Follows(os, os', {})
  <1>1. PollStep /\ UNCHANGED <<role, app, due, connects>>
    BY DEF Poll
  <1>2. Follows(os, os', {}) /\ pc' \in PCs
    BY <1>1, Polls DEF IInv
  <1>3. pc # "stopped"
    BY <1>1 DEF PollStep, Event!PollStep, Message!PollStep, Event!PollWait, Event!PollNothing, Event!PollLost,
                Event!PollEnumerate, Event!PollReturns, Message!PollBegin, Message!PollMessage,
                Message!PollUnknown, Message!PollNext, Message!PollDrained, Message!PollEnd
  <1>4. connects' \in 0 .. MaxConns /\ due' \in 0 .. IF IsServer THEN 0 ELSE app.timers
    BY <1>1 DEF IInv, RunsClient, NoTimers
  <1> QED
    BY <1>1, <1>2, <1>3, <1>4, AppStays

\* A peer has sent one message more.
LEMMA SentCalm ==
  ASSUME NEW k, System(k), NEW h \in DOMAIN k.socks
  PROVE  Calm(k, [k EXCEPT !.socks[h].sent = @ + 1])
  <1>1. PICK s, g : s = k.socks[h] /\ g = s.sent + 1
    BY Zenon
  <1>2. PICK x : x = [s EXCEPT !.sent = g]
    BY Zenon
  <1>3. s \in SocketType
    BY <1>1 DEF System
  <1>4. g \in Nat
    BY <1>1, <1>3 DEF SocketType
  <1>5. x \in SocketType /\ x.kind = s.kind /\ x.fin = s.fin
    BY <1>2, <1>3, <1>4 DEF SocketType
  <1>6. Calm(k, [k EXCEPT !.socks[h] = x])
    BY <1>1, <1>5, PutCalm
  <1> QED
    BY <1>1, <1>2, <1>6, Zenon

\* The peers keep the invariant.
LEMMA PeersIInv == ASSUME IInv, Peers PROVE IInv' /\ Follows(os, os', {})
  <1>1. pc \in PCs /\ pc # "stopped" /\ UNCHANGED <<poll, role, app, due>>
    BY DEF Peers, Running, PCs
  <1>2. System(os) /\ connects \in 0 .. MaxConns
    BY DEF IInv
  <1>3. Follows(os, os', {}) /\ connects' \in 0 .. MaxConns
    <2>1. CASE PeerConnects
      <3>1. PICK h, ev : h = app.acceptor_ /\ ev = "FD_ACCEPT"
        BY Zenon
      <3>2. h \in DOMAIN os.socks /\ os' = Arrive(os, h, ev) /\ connects' \in 0 .. MaxConns
        BY <1>2, <2>1, <3>1, EchoAssumption DEF PeerConnects, IsOpen
      <3>3. Calm(os, Arrive(os, h, ev))
        BY <1>2, <3>2, ArriveCalm
      <3> QED
        BY <3>2, <3>3, CalmFollows
    <2>2. CASE \E h \in Conns(os) : PeerSends(h)
      <3>0. PICK h \in Conns(os) : PeerSends(h)
        BY <2>2
      <3>1. PICK ev : PeerSends(h) /\ ev = "FD_READ"
        BY <3>0, Zenon
      <3>2. PICK k : k = [os EXCEPT !.socks[h].sent = @ + 1]
        BY Zenon
      <3>3. h \in DOMAIN os.socks /\ os' = Arrive(k, h, ev) /\ connects' = connects
        BY <3>1, <3>2 DEF PeerSends, Conns
      <3>4. Calm(os, k)
        BY <1>2, <3>2, <3>3, SentCalm
      <3>5. System(k) /\ h \in DOMAIN k.socks
        BY <3>3, <3>4 DEF Calm
      <3>6. Calm(k, Arrive(k, h, ev))
        BY <3>5, ArriveCalm
      <3>7. Calm(os, Arrive(k, h, ev))
        BY <3>4, <3>6, FollowsTwice
      <3> QED
        BY <1>2, <3>3, <3>7, CalmFollows
    <2>3. CASE \E h \in Conns(os) : PeerCloses(h)
      <3>1. PICK h \in Conns(os) : PeerCloses(h)
        BY <2>3
      <3>2. h \in DOMAIN os.socks /\ os' = PeerClose(os, h) /\ connects' = connects
        BY <3>1 DEF PeerCloses, Conns
      <3> QED
        BY <1>2, <3>2, PeerCloseFollows
    <2> QED
      BY <2>1, <2>2, <2>3 DEF Peers
  <1>4. pc' \in PCs /\ due' \in 0 .. IF IsServer THEN 0 ELSE app.timers
    BY <1>1 DEF IInv, RunsClient, NoTimers, poll
  <1> QED
    BY <1>1, <1>3, <1>4, AppStays

\* The end of an attempt to connect keeps the invariant.
LEMMA AnsweredIInv == ASSUME IInv, Answered PROVE IInv' /\ Follows(os, os', {})
  <1>1. pc \in PCs /\ pc # "stopped" /\ UNCHANGED <<poll, role, app, due>>
    BY DEF Answered, Running, PCs
  <1>2. System(os) /\ connects \in 0 .. MaxConns
    BY DEF IInv
  <1>3. PICK h \in DOMAIN os.socks : PeerAnswers(h)
    BY DEF Answered
  <1>4. os.socks[h].kind = "connecting" /\ connects' = connects
    BY <1>3 DEF PeerAnswers
  <1>5. PICK k, kind, evs : /\ k \in {os} \cup Faulty(os) /\ kind \in {"conn", "self", "refused"}
                            /\ os' = Report([k EXCEPT !.socks[h].kind = kind], h, evs)
    BY <1>3 DEF PeerAnswers
  <1>6. Follows(os, k, {}) /\ k.socks = os.socks
    BY <1>2, <1>5, FaultyFollows, FollowsTwice
  <1>7. System(k) /\ h \in DOMAIN k.socks /\ k.socks[h].kind = "connecting" /\ kind \in Kinds
    BY <1>4, <1>5, <1>6 DEF Follows, Kinds
  <1>8. Follows(k, Report([k EXCEPT !.socks[h].kind = kind], h, evs), {})
    BY <1>7, AnswerFollows
  <1>9. Follows(os, os', {})
    BY <1>5, <1>6, <1>8, FollowsTwice
  <1>10. pc' \in PCs /\ due' \in 0 .. IF IsServer THEN 0 ELSE app.timers
    BY <1>1 DEF IInv, RunsClient, NoTimers, poll
  <1> QED
    BY <1>1, <1>2, <1>4, <1>9, <1>10, AppStays

\* A call on a connection that is gone keeps the invariant.
LEMMA CallOnDeletedIInv == ASSUME IInv, CallOnDeleted PROVE IInv' /\ os' = os
  <1>1. UNCHANGED <<os, role, app, due, connects>> /\ pc' \in PCs /\ pc # "stopped"
    BY DEF CallOnDeleted, Calling, PCs
  <1>2. Follows(os, os, {})
    BY FollowsTwice DEF IInv
  <1>3. connects' \in 0 .. MaxConns /\ due' \in 0 .. IF IsServer THEN 0 ELSE app.timers
    BY <1>1 DEF IInv, RunsClient, NoTimers
  <1> QED
    BY <1>1, <1>2, <1>3, AppStays

\* Time that passes keeps the invariant.
LEMMA ExpireIInv == ASSUME IInv, Expire PROVE IInv' /\ os' = os
  <1>1. /\ UNCHANGED <<os, pc, role, app, connects>> /\ pc \in PCs /\ pc # "stopped"
        /\ ~IsServer /\ due < app.timers /\ due' = due + 1
    BY DEF Expire, Running, PCs, poll
  <1>2. Follows(os, os, {})
    BY FollowsTwice DEF IInv
  <1>3. due \in 0 .. app.timers /\ app.timers \in Nat
    BY <1>1 DEF IInv, RunsClient, ClientInv
  <1>4. connects' \in 0 .. MaxConns /\ due' \in 0 .. IF IsServer THEN 0 ELSE app.timers
    BY <1>1, <1>3 DEF IInv
  <1> QED
    BY <1>1, <1>2, <1>4, AppStays

\* The end of the process keeps the invariant.
LEMMA StopIInv == ASSUME IInv, Stop PROVE IInv' /\ pc' = "stopped"
  <1>1. UNCHANGED <<role, app, due, connects>> /\ pc' = "stopped" /\ os' = EmptySystem(os.poller)
    BY DEF Stop
  <1>2. System(os')
    <2>1. PICK type : type = os.poller
      BY Zenon
    <2> QED
      BY <1>1, <2>1, EmptySystemIs, Zenon
  <1>3. ServerInv' /\ pc' \in PCs
    BY <1>1 DEF ServerInv, PCs
  <1>4. RunsClient' /\ NoTimers'
    BY <1>1 DEF IInv, RunsClient, NoTimers, IsServer
  <1> QED
    BY <1>1, <1>2, <1>3, <1>4 DEF IInv

\* A step that changes nothing keeps the invariant.
LEMMA StutterIInv == ASSUME IInv, UNCHANGED vars PROVE IInv' /\ os' = os
  <1>1. UNCHANGED <<os, pc, role, app, due, connects>>
    BY DEF vars, poll
  <1>2. ServerInv' /\ RunsClient' /\ NoTimers'
    BY <1>1 DEF IInv, ServerInv, RunsClient, NoTimers, IsServer
  <1> QED
    BY <1>1, <1>2 DEF IInv

\* Every step keeps the invariant.
LEMMA NextIInv == IInv /\ [Next]_vars => IInv'
  <1> SUFFICES ASSUME IInv, [Next]_vars PROVE IInv'
    OBVIOUS
  <1>1. CASE Begin
    BY <1>1, BeginIInv
  <1>2. CASE Poll
    BY <1>2, PollIInv
  <1>3. CASE Call
    BY <1>3, CallIInv
  <1>4. CASE CallOnDeleted
    BY <1>4, CallOnDeletedIInv
  <1>5. CASE Expire
    BY <1>5, ExpireIInv
  <1>6. CASE Timer
    BY <1>6, TimerIInv
  <1>7. CASE Stop
    BY <1>7, StopIInv
  <1>8. CASE Answered
    BY <1>8, AnsweredIInv
  <1>9. CASE Peers
    BY <1>9, PeersIInv
  <1>10. CASE UNCHANGED vars
    BY <1>10, StutterIInv
  <1>11. CASE Halted
    <2>1. UNCHANGED vars
      BY <1>11 DEF Halted
    <2> QED
      BY <2>1, StutterIInv
  <1> QED
    BY <1>1, <1>2, <1>3, <1>4, <1>5, <1>6, <1>7, <1>8, <1>9, <1>10, <1>11 DEF Next
-----------------------------------------------------------------------------
(* The theorems. *)

\* IInv holds in every reachable state of the echo program, the server's or the
\* client's, on both pollers.
THEOREM Invariance == Spec => []IInv
  <1>1. Init => IInv
    BY InitIInv
  <1>2. IInv /\ [Next]_vars => IInv'
    BY NextIInv
  <1> QED
    BY <1>1, <1>2, PTL DEF Spec

\* The poller's vector stays within its limit, and the counters are what they
\* should be.
THEOREM TypeCorrect == Spec => []TypeOK
  <1>1. IInv => TypeOK
    BY DEF IInv, System, Room, SocketType, PCs, TypeOK
  <1> QED
    BY <1>1, Invariance, PTL

\* connections_ has as many entries as there are connections.
LEMMA SameNumber ==
  ASSUME System(os), Table(os, app, {})
  PROVE  /\ DOMAIN app.conns = {app.connections_[fd] : fd \in DOMAIN app.connections_}
         /\ Cardinality(DOMAIN app.conns) = Cardinality(DOMAIN app.connections_)
  <1> DEFINE S == DOMAIN app.connections_
             T == DOMAIN app.conns
             f == [fd \in S |-> app.connections_[fd]]
  <1>1. /\ \A fd \in S : app.connections_[fd] \in T
        /\ \A id \in T : \E fd \in S : app.connections_[fd] = id
        /\ \A fd, g \in S : app.connections_[fd] = app.connections_[g] => fd = g
    BY DEF Table
  <1>2. IsFiniteSet(S)
    <2>1. S \subseteq DOMAIN os.socks /\ IsFiniteSet(DOMAIN os.socks)
      BY DEF Table, System, Conns
    <2> QED
      BY <2>1, FS_Subset
  <1>3. ExistsBijection(S, T)
    <2>1. f \in [S -> T]
      BY <1>1
    <2>2. \A a, b \in DOMAIN f : f[a] = f[b] => a = b
      BY <1>1
    <2>3. \A t \in T : \E s \in S : f[s] = t
      BY <1>1
    <2>4. f \in Bijection(S, T)
      BY <2>1, <2>2, <2>3, Zenon DEF Bijection, Injection, Surjection, IsInjective
    <2> QED
      BY <2>4 DEF ExistsBijection
  <1>4. T = {app.connections_[fd] : fd \in S}
    BY <1>1
  <1> HIDE DEF S, T, f
  <1>5. Cardinality(T) = Cardinality(S)
    BY <1>2, <1>3, FS_Bijection
  <1> QED
    BY <1>4, <1>5 DEF S, T

\* Between any two callbacks of the server its table, its connections and the
\* poller agree, whatever its clients do and whichever calls fail.
THEOREM ConnectionsCorrect == Spec => []ConnectionsOwnSockets
  <1>1. IInv => ConnectionsOwnSockets
    <2> SUFFICES ASSUME IInv, IsServer, Running PROVE ConnectionsOwnSockets
      BY DEF ConnectionsOwnSockets
    <2>1. System(os) /\ Table(os, app, {})
      BY DEF IInv, ServerInv, Running
    <2>2. ASSUME NEW fd \in DOMAIN app.connections_
          PROVE  /\ fd \in Conns(os) \cap Registered
                 /\ \E i \in LiveEntries : os.fds_[i].fd = fd /\ os.fds_[i].sink = app.connections_[fd]
                 /\ app.conns[app.connections_[fd]].fd_ \in {fd, INVALID_SOCKET}
      <3>1. /\ fd \in Conns(os) /\ HasEntry(os, fd, app.connections_[fd])
            /\ app.conns[app.connections_[fd]].fd_ \in {fd, INVALID_SOCKET}
        BY <2>1 DEF Table
      <3>2. fd # INVALID_SOCKET
        BY <2>1, <3>1 DEF System, Conns, Handles, INVALID_SOCKET
      <3>3. PICK i \in DOMAIN os.fds_ : os.fds_[i].fd = fd /\ os.fds_[i].sink = app.connections_[fd]
        BY <3>1 DEF HasEntry
      <3>4. i \in LiveEntries
        BY <3>2, <3>3 DEF LiveEntries
      <3> QED
        BY <3>1, <3>3, <3>4 DEF Registered
    <2> QED
      BY <2>1, <2>2, SameNumber DEF ConnectionsOwnSockets
  <1> QED
    BY <1>1, Invariance, PTL

\* However many timers OnWritable starts and in whatever order they fire, the
\* client sends at most one message per timer beyond MAX_SEND_COUNT.
THEOREM SendsCorrect == Spec => []SendsBounded
  <1>1. IInv => SendsBounded
    <2> SUFFICES ASSUME IInv, ~IsServer, app.sent_count_ > 0
                 PROVE  app.sent_count_ <= MAX_SEND_COUNT + app.chains - 1
      BY DEF SendsBounded
    <2>1. ClientInv(app)
      BY DEF IInv, RunsClient
    <2>2. MAX_SEND_COUNT \in Nat /\ app.sent_count_ \in Nat /\ app.timers \in Nat /\ app.chains \in Nat
      BY <2>1, EchoAssumption DEF ClientInv
    <2> QED
      BY <2>1, <2>2 DEF ClientInv
  <1> QED
    BY <1>1, Invariance, PTL

\* The server ends a connection only when its client closed, its receives are
\* used up, its messages filled the buffer or a call failed.
THEOREM ReasonsCorrect == Spec => ClosedForAReason
  <1> DEFINE A == \A h \in Conns(os) :
                    (h \notin Conns(os)' /\ IsServer /\ pc' # "stopped") => ClosedFor(h)
  <1>1. IInv /\ [Next]_vars => A
    <2> SUFFICES ASSUME IInv, [Next]_vars, IsServer, pc' # "stopped",
                        NEW h \in Conns(os), h \notin Conns(os)'
                 PROVE  ClosedFor(h)
      OBVIOUS
    <2>1. ~Follows(os, os', {}) /\ os' # os
      BY DEF Follows, Conns
    <2>2. ~Begin /\ ~Poll /\ ~Answered /\ ~Peers
      BY <2>1, BeginIInv, PollIInv, AnsweredIInv, PeersIInv
    <2>3. ~CallOnDeleted /\ ~Expire /\ ~Stop /\ ~Timer
      BY <2>1, CallOnDeletedIInv, ExpireIInv, StopIInv, TimerIInv
    <2>4. ~UNCHANGED vars /\ ~Halted
      BY <2>1, StutterIInv DEF Halted
    <2>5. Call
      BY <2>2, <2>3, <2>4 DEF Next
    <2> QED
      BY <2>5, CallIInv
  <1>2. [A]_vars => [\A h \in Conns(os) :
          (h \notin Conns(os)' /\ IsServer /\ pc' # "stopped") =>
             \/ os.socks[h].fin
             \/ os.socks[h].rx >= MAX_CONN_RECVBUF
             \/ app.conns[app.connections_[h]].recv_count_ = MAX_RECV_COUNT - 1
             \/ os'.faults # os.faults]_vars
    BY Zenon DEF ClosedFor
  <1> HIDE DEF A
  <1> QED
    BY <1>1, <1>2, Invariance, PTL DEF Spec, ClosedForAReason
=============================================================================
