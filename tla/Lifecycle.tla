-------------------------------- MODULE Lifecycle --------------------------------
(***************************************************************************)
(* The client and one torrent in it (client.py): adding, starting,         *)
(* stopping and removing the torrent, leaving the client, and the tasks    *)
(* that run meanwhile: dials by add_peer and by the discovery loop,        *)
(* incoming connections, the peers' transfers and the choking task.  Each  *)
(* await of the code ends an action.  What the tasks do inside is in       *)
(* Engine, Choking, Mse, Announce, Discovery and Resume.                   *)
(***************************************************************************)
EXTENDS Naturals, FiniteSets

CONSTANTS
    Callers,   \* tasks of the application that call the client and the handle
    Dials,     \* connections by the application's add_peer
    Found,     \* connections by the discovery loop's add_peer
    Incoming,  \* connections that remote peers make
    Host,      \* the address that dials go to
    Nobody,    \* no connection
    MaxSessions  \* how often the torrent is added (a bound)

Conns    == Dials \cup Found \cup Incoming
Sessions == 1 .. MaxSessions
Absent   == 0

ASSUME LifecycleAssumption ==
    /\ Dials \cap Found = {} /\ (Dials \cup Found) \cap Incoming = {}
    /\ Host \notin Conns /\ Nobody \notin Conns /\ MaxSessions \in Nat \ {0}

VARIABLES
    client,    \* "out", "in", "leaving": __aexit__ runs, "left"
    server,    \* whether the TCP server listens
    registry,  \* Client._sessions at the torrent's info hash: a session or Absent
    created,   \* number of _TorrentSession objects made
    session,   \* the sessions
    peers,     \* session.peers: a connection, or Nobody, at each address
    call,      \* the call each caller is in
    conn       \* the connections

vars == <<client, server, registry, created, session, peers, call, conn>>

\* An incoming connection comes from a port of its own.
AddrOf(k) == IF k \in Incoming THEN k ELSE Host
Addrs     == Incoming \cup {Host}

\* known: there is a handle for it; revived: history, its choking task was made by
\* a start() when the torrent was no longer here.
NewSession == [state |-> "STOPPED", checked |-> "no", complete |-> FALSE,
               done |-> FALSE, choking |-> "none", known |-> FALSE, revived |-> FALSE]
NoCall == [op |-> "none", at |-> "idle", s |-> Absent, start |-> FALSE, seen |-> {}, size |-> 0]
NoConn == [at |-> "off", s |-> Absent, closed |-> FALSE, cancelled |-> FALSE]

Active     == {"DOWNLOADING", "SEEDING"}
Listed(s)  == {a \in Addrs : peers[s][a] # Nobody}
Transfers  == {"running", "completing"}   \* in run_peer

TypeOK ==
    /\ client \in {"out", "in", "leaving", "left"} /\ server \in BOOLEAN
    /\ registry \in 0 .. created /\ created \in 0 .. MaxSessions
    /\ session \in [Sessions -> [state : {"STOPPED", "CHECKING"} \cup Active,
                                 checked : {"no", "running", "done"},
                                 complete : BOOLEAN, done : BOOLEAN,
                                 choking : {"none", "running", "cancelled", "ended", "died"},
                                 known : BOOLEAN, revived : BOOLEAN]]
    /\ peers \in [Sessions -> [Addrs -> Conns \cup {Nobody}]]
    /\ \A c \in Callers : /\ call[c].s \in 0 .. created /\ call[c].seen \subseteq Addrs
                          /\ call[c].op = "none" <=> call[c] = NoCall
    /\ conn \in [Conns -> [at : {"off", "connecting", "answering", "announcing", "ending"} \cup Transfers,
                           s : 0 .. created, closed : BOOLEAN, cancelled : BOOLEAN]]

Init ==
    /\ client = "out" /\ server = FALSE
    /\ registry = Absent /\ created = 0
    /\ session = [s \in Sessions |-> NewSession]
    /\ peers = [s \in Sessions |-> [a \in Addrs |-> Nobody]]
    /\ call = [c \in Callers |-> NoCall]
    /\ conn = [k \in Conns |-> NoConn]

-----------------------------------------------------------------------------
(* Helpers: a call moves on or returns, a session changes *)

Goes(c, at)  == call' = [call EXCEPT ![c].at = at]
Returns(c)   == call' = [call EXCEPT ![c] = NoCall]
Calls(c, op, at, s, start) ==
    call' = [call EXCEPT ![c] = [NoCall EXCEPT !.op = op, !.at = at, !.s = s, !.start = start]]
In(c, op, at) == call[c].op = op /\ call[c].at = at
Free(c)       == client = "in" /\ call[c] = NoCall

\* The state of a session whose pieces are all there or not, once it runs.
Activated(x) == IF x.complete THEN [x EXCEPT !.state = "SEEDING", !.done = TRUE]
                ELSE [x EXCEPT !.state = "DOWNLOADING"]

Checked(x, all) == [x EXCEPT !.checked = "done", !.complete = @ \/ all]

Unchoking(x) == [x EXCEPT !.choking = IF @ = "running" THEN "cancelled" ELSE @]
ChokingOn(s) == session[s].choking \in {"running", "cancelled"}

-----------------------------------------------------------------------------
(* __aenter__, and _register for add_torrent, add_torrent_file, _bytes *)

Enter(c) ==
    /\ client = "out"
    /\ client' = "in" /\ server' = TRUE
    /\ UNCHANGED <<registry, created, session, peers, call, conn>>

\* handle.start() up to its first await.
StartNow(c, s, x) ==
    CASE x.state \in Active -> /\ Returns(c)
                               /\ UNCHANGED session
      [] x.state \notin Active /\ x.checked = "no" ->
            /\ session' = [session EXCEPT ![s] = [x EXCEPT !.state = "CHECKING", !.checked = "running"]]
            /\ Calls(c, "start", "check", s, TRUE)
      [] OTHER -> /\ session' = [session EXCEPT ![s] = Activated(x)]
                  /\ Calls(c, "start", "emit", s, TRUE)

\* A torrent that is there: its handle, started if it is wanted and stopped.
AddAgain(c, start) ==
    /\ Free(c) /\ registry # Absent
    /\ start /\ session[registry].state = "STOPPED"
    /\ StartNow(c, registry, session[registry])
    /\ UNCHANGED <<client, server, registry, created, peers, conn>>

\* A new session; its storage is being prepared.
Add(c, start) ==
    /\ Free(c) /\ registry = Absent /\ created < MaxSessions
    /\ created' = created + 1
    /\ Calls(c, "add", "prepare", created', start)
    /\ UNCHANGED <<client, server, registry, session, peers, conn>>

AddFails(c) ==
    /\ In(c, "add", "prepare")
    /\ Returns(c)
    /\ UNCHANGED <<client, server, registry, created, session, peers, conn>>

\* Registered; TORRENT_ADDED is emitted.
Registered(c) ==
    /\ In(c, "add", "prepare")
    /\ registry' = call[c].s
    /\ session' = [session EXCEPT ![registry'].known = TRUE]
    /\ Goes(c, "emit")
    /\ UNCHANGED <<client, server, created, peers, conn>>

Added(c) ==
    /\ In(c, "add", "emit")
    /\ IF call[c].start THEN StartNow(c, call[c].s, session[call[c].s])
       ELSE Returns(c) /\ UNCHANGED session
    /\ UNCHANGED <<client, server, registry, created, peers, conn>>

-----------------------------------------------------------------------------
(* TorrentHandle.start and stop, on any handle: its torrent may be removed *)

Start(c, s) ==
    /\ Free(c) /\ session[s].known
    /\ session[s].state \notin Active
    /\ StartNow(c, s, session[s])
    /\ UNCHANGED <<client, server, registry, created, peers, conn>>

\* The check is over; on disk there may be the whole torrent.
StartChecked(c) ==
    /\ In(c, "start", "check")
    /\ \E all \in BOOLEAN :
          session' = [session EXCEPT ![call[c].s] = Activated(Checked(@, all))]
    /\ Goes(c, "emit")
    /\ UNCHANGED <<client, server, registry, created, peers, conn>>

\* STATE_CHANGED is emitted; the choking task is made if none is at work.
StartChokes(c) ==
    /\ In(c, "start", "emit")
    /\ LET s == call[c].s
       IN  session' = IF ChokingOn(s) THEN session
                      ELSE [session EXCEPT ![s].choking = "running",
                                           ![s].revived = (s # registry)]
    /\ Returns(c)
    /\ UNCHANGED <<client, server, registry, created, peers, conn>>

Stopped(x) == [x EXCEPT !.state = "STOPPED"]

\* Mutant: the choking task is left alone.
StopOnly(c, s) ==
    /\ Free(c) /\ session[s].known
    /\ session[s].state # "STOPPED"
    /\ session' = [session EXCEPT ![s] = Stopped(@)]
    /\ Calls(c, "stop", "announce", s, FALSE)
    /\ UNCHANGED <<client, server, registry, created, peers, conn>>

\* stop() cancels the choking task and waits for it.
Stop(c, s) ==
    /\ Free(c) /\ session[s].known
    /\ session[s].state # "STOPPED"
    /\ IF ChokingOn(s)
       THEN /\ session' = [session EXCEPT ![s] = Unchoking(@)]
            /\ Calls(c, "stop", "choking", s, FALSE)
       ELSE /\ session' = [session EXCEPT ![s] = Stopped(@)]
            /\ Calls(c, "stop", "announce", s, FALSE)
    /\ UNCHANGED <<client, server, registry, created, peers, conn>>

ChokingEnds(s) ==
    /\ session[s].choking = "cancelled"
    /\ session' = [session EXCEPT ![s].choking = "ended", ![s].revived = FALSE]
    /\ UNCHANGED <<client, server, registry, created, peers, call, conn>>

\* A round in which a peer comes or goes ends the task: Choking says when.
ChokingDies(s) ==
    /\ session[s].choking = "running"
    /\ session' = [session EXCEPT ![s].choking = "died", ![s].revived = FALSE]
    /\ UNCHANGED <<client, server, registry, created, peers, call, conn>>

StopResumes(c) ==
    /\ In(c, "stop", "choking") /\ ~ ChokingOn(call[c].s)
    /\ session' = [session EXCEPT ![call[c].s] = Stopped([@ EXCEPT !.choking = "none"])]
    /\ Goes(c, "announce")
    /\ UNCHANGED <<client, server, registry, created, peers, conn>>

\* STATE_CHANGED and the announce to the tracker.
StopReturns(c) ==
    /\ In(c, "stop", "announce")
    /\ Returns(c)
    /\ UNCHANGED <<client, server, registry, created, session, peers, conn>>

-----------------------------------------------------------------------------
(* The loop over session.peers.values() that disconnects each of them, of *)
(* remove_torrent and of __aexit__: a dict that has changed its size under *)
(* the loop is a RuntimeError                                              *)

Resized(s, size) == Cardinality(Listed(s)) # size
Over(s, seen)    == Listed(s) \subseteq seen

\* The next peer is disconnected, which takes a moment.
Disconnects(c, op, s, seen, size) ==
    \E a \in Listed(s) \ seen :
       /\ call' = [call EXCEPT ![c] = [op |-> op, at |-> "closing", s |-> s, start |-> FALSE,
                                       seen |-> seen \cup {a}, size |-> size]]
       /\ conn' = [conn EXCEPT ![peers[s][a]].closed = (conn[peers[s][a]] # NoConn)]

-----------------------------------------------------------------------------
(* remove_torrent *)

\* RuntimeError leaves the call; after the loop, the waiters are signalled.
RemoveTurn(c, s, seen, size) ==
    /\ \/ Resized(s, size) /\ Returns(c) /\ UNCHANGED <<session, conn>>
       \/ /\ ~ Resized(s, size) /\ Over(s, seen)
          /\ session' = [session EXCEPT ![s].done = TRUE]
          /\ Calls(c, "remove", "emit", s, FALSE)
          /\ UNCHANGED conn
       \/ ~ Resized(s, size) /\ Disconnects(c, "remove", s, seen, size) /\ UNCHANGED session
    /\ UNCHANGED <<client, server, created, peers>>

RemoveLoop(c, s) == RemoveTurn(c, s, {}, Cardinality(Listed(s)))

\* The torrent is taken out; a choking task is cancelled and waited for.
Remove(c) ==
    /\ Free(c) /\ registry # Absent
    /\ registry' = Absent
    /\ IF ChokingOn(registry)
       THEN /\ session' = [session EXCEPT ![registry] = Unchoking(@)]
            /\ Calls(c, "remove", "choking", registry, FALSE)
            /\ UNCHANGED <<client, server, created, peers, conn>>
       ELSE RemoveLoop(c, registry)

RemoveResumes(c) ==
    /\ In(c, "remove", "choking") /\ ~ ChokingOn(call[c].s)
    /\ RemoveLoop(c, call[c].s)
    /\ UNCHANGED registry

RemoveGoesOn(c) ==
    /\ In(c, "remove", "closing")
    /\ RemoveTurn(c, call[c].s, call[c].seen, call[c].size)
    /\ UNCHANGED registry

RemoveReturns(c) ==
    /\ In(c, "remove", "emit")
    /\ Returns(c)
    /\ UNCHANGED <<client, server, registry, created, session, peers, conn>>

-----------------------------------------------------------------------------
(* __aexit__ *)

\* The application leaves when its other calls have returned.
Exit(c) ==
    /\ Free(c)
    /\ \A d \in Callers : call[d] = NoCall
    /\ \A k \in Dials : conn[k].at \in {"off", "ending"} \cup Transfers
    /\ client' = "leaving"
    /\ Calls(c, "exit", "discovery", registry, FALSE)
    /\ UNCHANGED <<server, registry, created, session, peers, conn>>

\* Discovery has ended; the server closes.
ExitCloses(c) ==
    /\ In(c, "exit", "discovery")
    /\ server' = FALSE
    /\ Goes(c, "server")
    /\ UNCHANGED <<client, registry, created, session, peers, conn>>

\* Mutant: the dials of the discovery loop are not kept.
HandlersOnly(k) == conn[k].at \in {"ending"} \cup Transfers

InPeerTasks(k) == conn[k].at \in {"ending"} \cup Transfers \/ (k \in Found /\ conn[k].at # "off")

\* Since Python 3.12 wait_closed waits for the server's connections too.  It
\* may return while the handler of one that has broken still works on it.
Held(c) == In(c, "exit", "server") /\ \E k \in Incoming : conn[k].at \notin {"off", "ending"}

\* The choking task and all tasks in _peer_tasks are cancelled.
ExitCancels(c) ==
    /\ In(c, "exit", "server")
    /\ conn' = [k \in Conns |-> IF InPeerTasks(k) THEN [conn[k] EXCEPT !.cancelled = TRUE] ELSE conn[k]]
    /\ session' = IF registry = Absent THEN session
                  ELSE [session EXCEPT ![registry] = Unchoking(@)]
    /\ Goes(c, "gather")
    /\ UNCHANGED <<client, server, registry, created, peers>>

\* RuntimeError leaves __aexit__ with the torrent still here; after the loop, the
\* storage is closed.
ExitTurn(c, seen, size) ==
    /\ \/ Resized(registry, size) /\ client' = "left" /\ Returns(c) /\ UNCHANGED conn
       \/ /\ ~ Resized(registry, size) /\ Over(registry, seen)
          /\ Calls(c, "exit", "storage", registry, FALSE)
          /\ UNCHANGED <<client, conn>>
       \/ /\ ~ Resized(registry, size) /\ Disconnects(c, "exit", registry, seen, size)
          /\ UNCHANGED client
    /\ UNCHANGED <<server, registry, created, session, peers>>

\* The tasks have ended; peers still listed are disconnected.
ExitGathered(c) ==
    /\ In(c, "exit", "gather")
    /\ \A k \in Conns : ~ conn[k].cancelled
    /\ registry # Absent => ~ ChokingOn(registry)
    /\ IF registry # Absent
       THEN ExitTurn(c, {}, Cardinality(Listed(registry)))
       ELSE /\ client' = "left" /\ Returns(c)
            /\ UNCHANGED <<server, registry, created, session, peers, conn>>

ExitGoesOn(c) ==
    /\ In(c, "exit", "closing")
    /\ ExitTurn(c, call[c].seen, call[c].size)

ExitReturns(c) ==
    /\ In(c, "exit", "storage")
    /\ client' = "left" /\ registry' = Absent
    /\ Returns(c)
    /\ UNCHANGED <<server, created, session, peers, conn>>

-----------------------------------------------------------------------------
(* Connections *)

\* add_peer, by the application or as a task of the discovery loop.
Dial(k) ==
    /\ client = "in" /\ k \in Dials \cup Found /\ conn[k] = NoConn
    /\ registry # Absent /\ peers[registry][AddrOf(k)] = Nobody
    /\ conn' = [conn EXCEPT ![k].at = "connecting", ![k].s = registry]
    /\ UNCHANGED <<client, server, registry, created, session, peers, call>>

Accept(k) ==
    /\ server /\ k \in Incoming /\ conn[k] = NoConn
    /\ conn' = [conn EXCEPT ![k].at = "connecting"]
    /\ UNCHANGED <<client, server, registry, created, session, peers, call>>

\* A remote peer has named the torrent it wants, which is looked up.
Greeted(k) ==
    /\ k \in Incoming /\ conn[k].at = "connecting" /\ registry # Absent
    /\ conn' = [conn EXCEPT ![k].at = "answering", ![k].s = registry]
    /\ UNCHANGED <<client, server, registry, created, session, peers, call>>

\* The handshake or the connection fails, or no such torrent is here.
ConnectFails(k) ==
    /\ conn[k].at \in {"connecting", "answering"}
    /\ conn' = [conn EXCEPT ![k] = NoConn]
    /\ UNCHANGED <<client, server, registry, created, session, peers, call>>

\* The session, looked up before, lists the peer; PEER_CONNECTED is emitted.
Connected(k) ==
    /\ conn[k].at = IF k \in Incoming THEN "answering" ELSE "connecting"
    /\ ~ conn[k].cancelled
    /\ peers' = [peers EXCEPT ![conn[k].s][AddrOf(k)] = k]
    /\ conn' = [conn EXCEPT ![k].at = "announcing"]
    /\ UNCHANGED <<client, server, registry, created, session, call>>

\* The peer is registered with the choking manager and gets a task.
Launch(k) ==
    /\ conn[k].at = "announcing" /\ ~ conn[k].cancelled
    /\ conn' = [conn EXCEPT ![k].at = "running"]
    /\ UNCHANGED <<client, server, registry, created, session, peers, call>>

\* A task of the discovery loop that is cancelled while it dials.
DialCancelled(k) ==
    /\ conn[k].at \in {"connecting", "announcing"} /\ conn[k].cancelled
    /\ conn' = [conn EXCEPT ![k] = NoConn]
    /\ UNCHANGED <<client, server, registry, created, session, peers, call>>

\* The last piece is marked, and a moment later done_event is set.
Completes(k) ==
    /\ conn[k].at = "running" /\ ~ session[conn[k].s].complete
    /\ ~ conn[k].closed /\ ~ conn[k].cancelled
    /\ session' = [session EXCEPT ![conn[k].s].complete = TRUE]
    /\ conn' = [conn EXCEPT ![k].at = "completing"]
    /\ UNCHANGED <<client, server, registry, created, peers, call>>

SetsDone(k) ==
    /\ conn[k].at = "completing" /\ ~ conn[k].cancelled
    /\ session' = [session EXCEPT ![conn[k].s].done = TRUE]
    /\ conn' = [conn EXCEPT ![k].at = "running"]
    /\ UNCHANGED <<client, server, registry, created, peers, call>>

\* Mutant: the peer stays listed.
EndsListed(k) ==
    /\ conn[k].at \in Transfers
    /\ conn' = [conn EXCEPT ![k].at = "ending"]
    /\ UNCHANGED <<client, server, registry, created, session, peers, call>>

\* run_peer ends, by itself, cancelled or disconnected: whoever is listed at
\* the address is taken off.
Ends(k) ==
    /\ conn[k].at \in Transfers
    /\ peers' = [peers EXCEPT ![conn[k].s][AddrOf(k)] = Nobody]
    /\ conn' = [conn EXCEPT ![k].at = "ending"]
    /\ UNCHANGED <<client, server, registry, created, session, call>>

Ended(k) ==
    /\ conn[k].at = "ending"
    /\ conn' = [conn EXCEPT ![k] = NoConn]
    /\ UNCHANGED <<client, server, registry, created, session, peers, call>>

-----------------------------------------------------------------------------
CallStep(c) ==
    \/ AddFails(c) \/ Registered(c) \/ Added(c)
    \/ StartChecked(c) \/ StartChokes(c) \/ StopResumes(c) \/ StopReturns(c)
    \/ RemoveResumes(c) \/ RemoveGoesOn(c) \/ RemoveReturns(c)
    \/ ExitCloses(c) \/ ExitCancels(c) \/ ExitGathered(c) \/ ExitGoesOn(c) \/ ExitReturns(c)

Next ==
    \/ \E c \in Callers :
          \/ Enter(c) \/ Remove(c) \/ Exit(c)
          \/ \E s \in 1 .. created : Start(c, s) \/ Stop(c, s)
          \/ \E start \in BOOLEAN : Add(c, start) \/ AddAgain(c, start)
          \/ CallStep(c)
    \/ \E s \in Sessions : ChokingEnds(s) \/ ChokingDies(s)
    \/ \E k \in Conns :
          \/ Dial(k) \/ Accept(k) \/ Greeted(k) \/ ConnectFails(k) \/ Connected(k) \/ Launch(k)
          \/ DialCancelled(k) \/ Completes(k) \/ SetsDone(k) \/ Ends(k) \/ Ended(k)

Spec == Init /\ [][Next]_vars

\* Every await ends, but that of a transfer: a peer may stay as long as it is
\* not disconnected or cancelled, and wait_closed waits as long as one is there.
FairSpec ==
    /\ Spec
    /\ \A c \in Callers : WF_vars(~ Held(c) /\ CallStep(c))
    /\ \A s \in Sessions : WF_vars(ChokingEnds(s))
    /\ \A k \in Conns :
          /\ WF_vars(ConnectFails(k) \/ Connected(k) \/ Launch(k) \/ DialCancelled(k) \/ Ended(k))
          /\ WF_vars(SetsDone(k))
          /\ WF_vars((conn[k].closed \/ conn[k].cancelled) /\ Ends(k))

-----------------------------------------------------------------------------
(* Properties *)

\* When no call is under way: a choking task runs only for a torrent that is
\* started and here; one that is started and here has its task, unless that died
\* of a round (choking.py:205).  So a stop, a removal or an addition leaves none
\* behind, and a start that finds a dead or a stopped one makes another.  Only
\* start() on the handle of a removed torrent, which looks at neither, makes one
\* for a torrent that is gone; stop() on it ends that too (client.py:244-308,
\* 859-913).
ChokingFollowsState ==
    (client = "in" /\ \A c \in Callers : call[c] = NoCall) =>
       \A s \in Sessions :
          /\ ChokingOn(s) => session[s].state \in Active /\ (s = registry \/ session[s].revived)
          /\ (s = registry /\ session[s].state \in Active) =>
                session[s].choking \in {"running", "died"}

\* A peer that is listed is there: no entry outlives its connection, which
\* would keep add_peer from dialling that address again (client.py:943, 958,
\* 1175, 1228-1232).
ListedIsAlive ==
    client = "in" =>
       \A s \in Sessions : \A a \in Listed(s) :
          /\ conn[peers[s][a]].s = s
          /\ conn[peers[s][a]].at \in {"announcing"} \cup Transfers

\* After the exit nothing that the client began runs: no connection that it
\* dialled, however far it was, in whichever session, and no choking task of a
\* torrent that was started while it was here (client.py:748-822).  The handler of
\* an incoming connection that broke may be still at work, and the task that
\* start() made for a removed torrent is never ended.
LeftIsQuiet ==
    client = "left" => /\ \A k \in Dials \cup Found : conn[k] = NoConn
                       /\ \A s \in Sessions : ChokingOn(s) => session[s].revived

\* Those who wait for the torrent learn of its removal (client.py:310-319;
\* tests/test_client.py:329: "Remove should unblock the waiter").
RemovalIsSignalled ==
    \A c \in Callers, s \in Sessions :
       (call[c].op = "remove" /\ call[c].s = s) ~> session[s].done

\* Leaving the client comes to an end (client.py:791: "with timeout to prevent
\* hangs").
ExitEnds == client = "leaving" ~> client = "left"
=============================================================================
