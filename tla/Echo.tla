-------------------------------- MODULE Echo --------------------------------
(***************************************************************************)
(* The echo program (src/examples/echo): a server or a client, on one of   *)
(* the pollers that are told of network events, with its peers on the other*)
(* side of the network.  main starts the one or the other and calls Poll   *)
(* until it is stopped.                                                    *)
(*                                                                         *)
(* A callback or a timer runs to its end in one step.  A call on a         *)
(* connection that was deleted is undefined behaviour.                     *)
(***************************************************************************)
EXTENDS PollerBase

CONSTANTS Roles,       \* what main may be told to run
          Addresses, MAX_CONN_RECVBUF, MAX_RECV_COUNT, MAX_SEND_COUNT, RecvBuf,
          MaxMessages, EarlyClose,
          MaxConns     \* bound: clients that connect to the server

ASSUME EchoAssumption == /\ Roles \subseteq {"server", "client"}
                         /\ Addresses \in Nat \ {0}
                         /\ {MAX_CONN_RECVBUF, MAX_RECV_COUNT, MAX_SEND_COUNT, RecvBuf} \subseteq Nat \ {0}
                         /\ MaxMessages \in Nat /\ MaxConns \in Nat
                         /\ EarlyClose \in BOOLEAN

VARIABLES role,
          app,      \* the server's or the client's state; its sys is os
          due,      \* how many of the client's timers are due
          connects  \* clients that have connected to the server so far

Server == INSTANCE EchoServer
Client == INSTANCE EchoClient

vars == <<os, poll, role, app, due, connects>>

IsServer == role = "server"

Init == /\ NetworkInit
        /\ role \in Roles
        /\ app = IF role = "server" THEN Server!NewServer(NULL) ELSE Client!NewClient(NULL)
        /\ due = 0
        /\ connects = 0

\* A handler takes the program to one of the states set.
Handled(set, to) == \E w \in set : /\ os' = w.sys
                                   /\ app' = [w EXCEPT !.sys = NULL]
                                   /\ pc' = IF w.aborted THEN "aborted" ELSE to

State   == [app EXCEPT !.sys = os]
Started == IF IsServer THEN app.acceptor_ # INVALID_SOCKET ELSE app.chains > 0 \/ app.fd_ # INVALID_SOCKET
Running == pc \in {"idle", "peek", "timers", "dispatch"}

\* main: Start, before the loop.
Begin == /\ pc = "idle"
         /\ ~Started
         /\ Handled(IF IsServer THEN Server!Start(State) ELSE Client!Start(State), "idle")
         /\ UNCHANGED <<wait, calls, role, due, connects>>

\* UpdateTimer does not return while a timer is due.
Poll == /\ Started
        /\ pc = "timers" => due = 0
        /\ PollStep
        /\ UNCHANGED <<role, app, due, connects>>

Exists(sink) == sink = 0 \/ (IsServer /\ sink \in DOMAIN app.conns)

Call == /\ Calling
        /\ Exists(CalledSink)
        /\ Handled(IF IsServer THEN Server!Callback(State, CalledSink, Readable)
                               ELSE Client!Callback(State, Readable), "dispatch")
        /\ calls' = Tail(calls)
        /\ UNCHANGED <<wait, role, due, connects>>

CallOnDeleted == /\ Calling
                 /\ ~Exists(CalledSink)
                 /\ pc' = "undefined"
                 /\ UNCHANGED <<os, wait, calls, role, app, due, connects>>

\* Time passes; UpdateTimer reads the clock once, at its start.
Expire == /\ Running
          /\ pc # "timers"
          /\ ~IsServer
          /\ due < app.timers
          /\ due' = due + 1
          /\ UNCHANGED <<os, poll, role, app, connects>>

Timer == /\ pc = "timers"
         /\ due > 0
         /\ due' = due - 1
         /\ Handled(Client!TimerFires(State), "timers")
         /\ UNCHANGED <<wait, calls, role, connects>>

\* SIGINT: main deletes the poller and the process ends with all it has.
Stop == /\ pc = "idle"
        /\ Started
        /\ pc' = "stopped"
        /\ os' = EmptySystem(os.poller)
        /\ UNCHANGED <<wait, calls, role, app, due, connects>>

Halted == pc \in {"aborted", "undefined", "stopped"} /\ UNCHANGED vars
-----------------------------------------------------------------------------
(* The peers.                                                              *)

\* A client of the server connects.
PeerConnects == /\ IsServer
                /\ IsOpen(os, app.acceptor_)
                /\ connects < MaxConns
                /\ connects' = connects + 1
                /\ os' = Arrive(os, app.acceptor_, "FD_ACCEPT")

\* The server of the client answers: it accepts, the socket is connected to
\* itself, or it refuses.
PeerAnswers(h) ==
  LET Connected(k, kind) == Report([k EXCEPT !.socks[h].kind = kind], h, {"FD_WRITE", "FD_CONNECT"})
  IN  /\ os.socks[h].kind = "connecting"
      /\ os' \in {Connected(os, "conn")} \cup {Connected(k, "self") : k \in Faulty(os)}
                   \cup {Report([k EXCEPT !.socks[h].kind = "refused"], h, {"FD_CONNECT"}) : k \in Faulty(os)}
      /\ UNCHANGED connects

\* A client sends its messages, a server sends back what it got.
PeerSends(h) == /\ ~os.socks[h].fin
                /\ os.socks[h].sent < IF IsServer THEN MaxMessages ELSE os.socks[h].got
                /\ os' = Arrive([os EXCEPT !.socks[h].sent = @ + 1], h, "FD_READ")
                /\ UNCHANGED connects

PeerCloses(h) == /\ ~os.socks[h].fin
                 /\ EarlyClose \/ (IsServer /\ os.socks[h].got = MaxMessages)
                 /\ os' = PeerClose(os, h)
                 /\ UNCHANGED connects

Answered == /\ Running
            /\ \E h \in DOMAIN os.socks : PeerAnswers(h)
            /\ UNCHANGED <<poll, role, app, due>>

Peers == /\ Running
         /\ PeerConnects \/ \E h \in Conns(os) : PeerSends(h) \/ PeerCloses(h)
         /\ UNCHANGED <<poll, role, app, due>>

Next == Begin \/ Poll \/ Call \/ CallOnDeleted \/ Expire \/ Timer \/ Stop \/ Answered \/ Peers \/ Halted

Spec == Init /\ [][Next]_vars

\* main calls Poll in a loop; callbacks and timers run when Poll comes to
\* them; time passes; a connection attempt comes to an end.
Fairness == /\ SF_vars(Poll)
            /\ WF_calls(Calling /\ calls' = Tail(calls))
            /\ WF_due(pc = "timers" /\ due > 0 /\ due' = due - 1)
            /\ SF_vars(Expire)
            /\ WF_vars(Answered)

FairSpec == Spec /\ Fairness
-----------------------------------------------------------------------------
(* Properties *)

Over == ~Running

TypeOK ==
  /\ \A h \in DOMAIN os.socks : os.socks[h].sent \in Nat /\ os.socks[h].got \in Nat
  /\ Len(os.fds_) <= IF OnEvents(os) THEN WSA_MAXIMUM_WAIT_EVENTS ELSE FD_SETSIZE
  /\ pc \in {"idle", "peek", "timers", "dispatch", "aborted", "undefined", "stopped"}
  /\ connects \in 0 .. MaxConns

\* The server's table, its connections and the poller agree between any two
\* callbacks: a connection in the table has an open socket that is registered
\* with that very connection as its sink, no two share one, and no connection
\* object exists outside the table, although a first read may close the
\* connection before it is in the table and handles are reused at once.
ConnectionsOwnSockets == IsServer /\ Running =>
  /\ DOMAIN app.conns = {app.connections_[fd] : fd \in DOMAIN app.connections_}
  /\ Cardinality(DOMAIN app.conns) = Cardinality(DOMAIN app.connections_)
  /\ \A fd \in DOMAIN app.connections_ :
       /\ fd \in Conns(os) \cap Registered
       /\ \E i \in LiveEntries : os.fds_[i].fd = fd /\ os.fds_[i].sink = app.connections_[fd]
       /\ app.conns[app.connections_[fd]].fd_ \in {fd, INVALID_SOCKET}

\* The server ends a connection only for a reason: the client closed, its
\* MAX_RECV_COUNT receives are used up, its messages filled the buffer, or a
\* call failed.
ClosedForAReason == [][\A h \in Conns(os) :
  (h \notin Conns(os)' /\ IsServer /\ pc' # "stopped") =>
     \/ os.socks[h].fin
     \/ os.socks[h].rx >= MAX_CONN_RECVBUF
     \/ app.conns[app.connections_[h]].recv_count_ = MAX_RECV_COUNT - 1
     \/ os'.faults # os.faults]_vars

\* The connections that the server serves: in the table, and not closed by
\* their first read, which comes before the table is filled.
Served == IF IsServer /\ Running
            THEN {fd \in DOMAIN app.connections_ : app.conns[app.connections_[fd]].fd_ = fd}
            ELSE {}

\* The n-th message of a served connection is echoed, unless its client closes, a
\* call fails or the unread messages fill the buffer (which ReadSome takes for the
\* end of the stream).
MessageEchoed(n) == \A h \in 1 .. MaxConns + 1 :
  (h \in Served /\ os.socks[h].sent >= n)
    ~> (\/ Over \/ os.faults # MaxFaults
        \/ h \in Conns(os) /\ (\/ os.socks[h].got >= n
                               \/ os.socks[h].fin
                               \/ os.socks[h].rx >= MAX_CONN_RECVBUF))

\* The server echoes the messages of a connection that come before its
\* MAX_RECV_COUNT-th, on both pollers: it does not close before.
EarlierMessagesEchoed ==
  \A n \in 1 .. MaxMessages : n < MAX_RECV_COUNT => MessageEchoed(n)

\* The client of src/tests/echo/echo.go waits for the echo of every message it
\* sends, also of the last one (echo.go:50, 68).
EveryMessageEchoed == \A n \in 1 .. MaxMessages : MessageEchoed(n)

\* When the client of a served connection closes, the server closes its end and
\* forgets the connection, unless a call fails.
EofEndsConnection == \A h \in 1 .. MaxConns + 1 :
  (h \in Served /\ os.socks[h].fin)
    ~> (h \notin Served \/ ~os.socks[h].fin \/ os.faults # MaxFaults)

\* However many timers OnWritable has started, the client sends at most one
\* message per timer beyond MAX_SEND_COUNT.
SendsBounded == ~IsServer /\ app.sent_count_ > 0 =>
  app.sent_count_ <= MAX_SEND_COUNT + app.chains - 1

\* The client does not hang: once started it sends MAX_SEND_COUNT messages or
\* gives its socket up, unless the socket could not be made or registered.
ClientEnds == (~IsServer /\ Started) ~> (\/ IsServer \/ Over
                                        \/ app.sent_count_ >= MAX_SEND_COUNT
                                        \/ app.fd_ \notin DOMAIN os.socks \cap Registered)
=============================================================================
