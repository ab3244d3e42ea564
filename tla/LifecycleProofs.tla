---------------------------- MODULE LifecycleProofs ----------------------------
(***************************************************************************)
(* Proofs about Lifecycle, for any connections and number of sessions.     *)
(* With any callers: types, and that no entry of session.peers outlives    *)
(* its connection while the client is entered.  With calls made one after  *)
(* the other: that the choking task follows the torrent's state, and that  *)
(* no dial runs after the exit, nor a choking task but one that start()    *)
(* made for a removed torrent.                                             *)
(***************************************************************************)
EXTENDS Lifecycle, TLAPS

SessionType == [state : {"STOPPED", "CHECKING"} \cup Active,
                checked : {"no", "running", "done"},
                complete : BOOLEAN, done : BOOLEAN,
                choking : {"none", "running", "cancelled", "ended", "died"},
                known : BOOLEAN, revived : BOOLEAN]

Sizes == {0} \cup {Cardinality(A) : A \in SUBSET Addrs}

CallType(n) ==
    [op : {"none", "add", "start", "stop", "remove", "exit"},
     at : {"idle", "prepare", "emit", "check", "choking", "announce", "closing",
           "discovery", "server", "gather", "storage"},
     s : 0 .. n, start : BOOLEAN, seen : SUBSET Addrs, size : Sizes]

ConnType(n) ==
    [at : {"off", "connecting", "answering", "announcing", "ending"} \cup Transfers,
     s : 0 .. n, closed : BOOLEAN, cancelled : BOOLEAN]

\* TypeOK says of calls only what a reader needs; this is what a step needs.
CallsTyped == call \in [Callers -> CallType(created)]

-----------------------------------------------------------------------------
(* Types of what the helpers return *)

LEMMA SessionOps ==
    ASSUME NEW x \in SessionType
    PROVE  /\ Activated(x) \in SessionType /\ Unchoking(x) \in SessionType
           /\ Stopped(x) \in SessionType
           /\ \A all \in BOOLEAN : Checked(x, all) \in SessionType
  BY DEF SessionType, Activated, Unchoking, Stopped, Checked, Active

Counted == /\ client \in {"out", "in", "leaving", "left"} /\ server \in BOOLEAN
           /\ created \in 0 .. MaxSessions /\ registry \in 0 .. created

Calling == CallsTyped /\ \A c \in Callers : call[c].op = "none" <=> call[c] = NoCall

SessionsTyped == session \in [Sessions -> SessionType]
PeersTyped    == peers \in [Sessions -> [Addrs -> Conns \cup {Nobody}]]
ConnsTyped    == conn \in [Conns -> ConnType(created)]

State == Counted /\ Calling /\ SessionsTyped /\ PeersTyped /\ ConnsTyped

LEMMA Parts == State <=> TypeOK /\ CallsTyped
  BY LifecycleAssumption DEF State, TypeOK, Counted, Calling, CallsTyped, SessionsTyped,
     PeersTyped, ConnsTyped, SessionType, ConnType, CallType

LEMMA Indices ==
    ASSUME Counted
    PROVE  /\ created \in Nat /\ 0 .. created \subseteq {0} \cup Sessions
           /\ registry # Absent => registry \in Sessions
  BY LifecycleAssumption DEF Counted, Sessions, Absent

\* What the three ways to move a call leave behind.
Ats == {"idle", "prepare", "emit", "check", "choking", "announce", "closing",
        "discovery", "server", "gather", "storage"}

\* A step of caller c changes no other call.
Alone(c) == \A d \in Callers \ {c} : call'[d] = call[d]

LEMMA GoesFacts ==
    ASSUME Calling, NEW c \in Callers, NEW at \in Ats, call[c].op # "none",
           Goes(c, at), UNCHANGED created
    PROVE  Calling' /\ Alone(c) /\ call'[c] = [call[c] EXCEPT !.at = at]
  BY DEF Calling, CallsTyped, CallType, Goes, Ats, NoCall, Alone

LEMMA SetFacts ==
    ASSUME Calling, NEW c \in Callers, NEW r \in CallType(created), r.op # "none",
           call' = [call EXCEPT ![c] = r], UNCHANGED created
    PROVE  Calling' /\ Alone(c) /\ call'[c] = r
  <1>1. NoCall.op = "none"
    BY DEF NoCall
  <1> QED
    BY <1>1 DEF Calling, CallsTyped, Alone

LEMMA ReturnsFacts ==
    ASSUME Calling, NEW c \in Callers, Returns(c), UNCHANGED created, created \in Nat
    PROVE  Calling' /\ Alone(c) /\ call'[c] = NoCall
  BY DEF Calling, CallsTyped, CallType, Sizes, Returns, NoCall, Absent, Alone

LEMMA CallsFacts ==
    ASSUME Calling, created \in Nat, NEW c \in Callers, NEW at \in Ats,
           NEW op \in {"add", "start", "stop", "remove", "exit"},
           created' \in Nat, created' >= created, NEW s \in 0 .. created',
           NEW start \in BOOLEAN, Calls(c, op, at, s, start)
    PROVE  /\ Calling' /\ Alone(c)
           /\ call'[c].op = op /\ call'[c].at = at /\ call'[c].s = s /\ call'[c].start = start
  <1> DEFINE r == [NoCall EXCEPT !.op = op, !.at = at, !.s = s, !.start = start]
  <1>1. r \in CallType(created') /\ NoCall.op = "none"
        /\ r.op = op /\ r.at = at /\ r.s = s /\ r.start = start
    BY DEF NoCall, CallType, Sizes, Ats, Absent
  <1>2. 0 .. created \subseteq 0 .. created'
    OBVIOUS
  <1>3. CallType(created) \subseteq CallType(created')
    BY <1>2 DEF CallType
  <1>4. call' = [call EXCEPT ![c] = r]
    BY DEF Calls
  <1> HIDE DEF r
  <1>5. CallsTyped' /\ Alone(c) /\ call'[c] = r
    BY <1>1, <1>3, <1>4 DEF Calling, CallsTyped, Alone
  <1>6. \A d \in Callers : call'[d].op = "none" <=> call'[d] = NoCall
    BY <1>1, <1>5 DEF Calling, Alone
  <1> QED
    BY <1>1, <1>5, <1>6 DEF Calling

-----------------------------------------------------------------------------
(* Types: one step per action, for the parts it changes.  A session at an  *)
(* index that is none is never changed, which is why 0 needs no exception. *)

LEMMA SessionSet ==
    ASSUME SessionsTyped, NEW s, NEW x, s \in Sessions => x \in SessionType,
           session' = [session EXCEPT ![s] = x]
    PROVE  SessionsTyped'
  BY DEF SessionsTyped

LEMMA StartNowFacts ==
    ASSUME Counted, Calling, SessionsTyped, NEW c \in Callers, NEW s \in 0 .. created,
           NEW x, s \in Sessions => x \in SessionType, UNCHANGED created, StartNow(c, s, x)
    PROVE  /\ Calling' /\ SessionsTyped' /\ Alone(c)
           /\ call'[c].op # "exit"
  <1>1. /\ created \in Nat /\ created' \in Nat /\ created' >= created
        /\ s \in 0 .. created' /\ TRUE \in BOOLEAN
    BY Indices
  <1>2. CASE Returns(c) /\ UNCHANGED session
    BY <1>1, <1>2, ReturnsFacts DEF SessionsTyped, NoCall
  <1> DEFINE y == [x EXCEPT !.state = "CHECKING", !.checked = "running"]
  <1>3. CASE session' = [session EXCEPT ![s] = y] /\ Calls(c, "start", "check", s, TRUE)
    <2>1. s \in Sessions => y \in SessionType
      BY DEF SessionType
    <2> HIDE DEF y
    <2>2. SessionsTyped'
      BY <1>3, <2>1, SessionSet
    <2>3. Calling' /\ Alone(c) /\ call'[c].op = "start"
      BY <1>1, <1>3, CallsFacts DEF Ats
    <2> QED
      BY <2>2, <2>3
  <1>4. CASE session' = [session EXCEPT ![s] = Activated(x)] /\ Calls(c, "start", "emit", s, TRUE)
    <2>1. SessionsTyped'
      BY <1>4, SessionSet, SessionOps
    <2>2. Calling' /\ Alone(c) /\ call'[c].op = "start"
      BY <1>1, <1>4, CallsFacts DEF Ats
    <2> QED
      BY <2>1, <2>2
  <1> QED
    BY <1>2, <1>3, <1>4 DEF StartNow

\* What a step of a call does besides: it changes no peer and exits only by Exit.
LEMMA AddTypes ==
    ASSUME State, NEW c \in Callers,
           \/ \E start \in BOOLEAN : Add(c, start)
           \/ AddFails(c) \/ Registered(c)
    PROVE  State' /\ Alone(c) /\ call'[c].op # "exit"
  <1> USE DEF State
  <1>1. created \in Nat /\ MaxSessions \in Nat /\ call[c] \in CallType(created)
    BY Indices, LifecycleAssumption DEF Calling, CallsTyped
  <1>2. ASSUME NEW start \in BOOLEAN, Add(c, start)
        PROVE  State' /\ Alone(c) /\ call'[c].op # "exit"
    <2>1. created' = created + 1 /\ created' \in 0 .. MaxSessions /\ created' \in 0 .. created'
      BY <1>1, <1>2 DEF Add, Counted
    <2>2. Calling' /\ Alone(c) /\ call'[c].op = "add"
      BY <1>1, <1>2, <2>1, CallsFacts DEF Add, Ats
    <2>3. Counted'
      BY <1>2, <2>1 DEF Add, Counted
    <2>4. ConnsTyped'
      BY <1>1, <1>2, <2>1 DEF Add, ConnsTyped, ConnType
    <2>5. SessionsTyped' /\ PeersTyped'
      BY <1>2 DEF Add, SessionsTyped, PeersTyped
    <2> QED
      BY <2>2, <2>3, <2>4, <2>5
  <1>3. CASE AddFails(c)
    BY <1>1, <1>3, ReturnsFacts
       DEF AddFails, NoCall, Counted, SessionsTyped, PeersTyped, ConnsTyped
  <1>4. CASE Registered(c)
    <2>1. registry' \in 0 .. created'
      BY <1>1, <1>4 DEF Registered, CallType
    <2>2. Calling' /\ Alone(c) /\ call'[c].op = "add"
      BY <1>1, <1>4, GoesFacts DEF Registered, In, Ats, CallType
    <2>3. SessionsTyped'
      BY <1>4 DEF Registered, SessionsTyped, SessionType
    <2> QED
      BY <1>4, <2>1, <2>2, <2>3 DEF Registered, Counted, PeersTyped, ConnsTyped
  <1> QED
    BY <1>2, <1>3, <1>4

LEMMA StartTypes ==
    ASSUME State, NEW c \in Callers,
           \/ \E start \in BOOLEAN : AddAgain(c, start)
           \/ \E s \in 1 .. created : Start(c, s)
           \/ Added(c) \/ StartChecked(c) \/ StartChokes(c)
    PROVE  State' /\ Alone(c) /\ call'[c].op # "exit"
  <1> USE DEF State
  <1>1. /\ created \in Nat /\ call[c] \in CallType(created) /\ call[c].s \in 0 .. created
        /\ registry \in 0 .. created
        /\ 1 .. created \subseteq 0 .. created
        /\ \A s \in Sessions : session[s] \in SessionType
    BY Indices DEF Calling, CallsTyped, CallType, SessionsTyped, Counted
  <1>2. CASE (\E s \in 1 .. created : Start(c, s)) \/ \E start \in BOOLEAN : AddAgain(c, start)
    BY <1>1, <1>2, StartNowFacts DEF Start, AddAgain, Counted, PeersTyped, ConnsTyped
  <1>3. CASE Added(c)
    <2>1. Calling' /\ SessionsTyped' /\ Alone(c) /\ call'[c].op # "exit"
      BY <1>1, <1>3, StartNowFacts, ReturnsFacts DEF Added, SessionsTyped, NoCall
    <2> QED
      BY <1>3, <2>1 DEF Added, Counted, PeersTyped, ConnsTyped
  <1>4. CASE StartChecked(c)
    <2>1. PICK all \in BOOLEAN :
            session' = [session EXCEPT ![call[c].s] = Activated(Checked(session[call[c].s], all))]
      BY <1>4 DEF StartChecked
    <2>2. call[c].s \in Sessions => Checked(session[call[c].s], all) \in SessionType
      BY <1>1, SessionOps
    <2>4. SessionsTyped'
      BY <2>1, <2>2, SessionSet, SessionOps
    <2>5. Calling' /\ Alone(c) /\ call'[c].op = "start"
      BY <1>1, <1>4, GoesFacts DEF StartChecked, In, Ats, CallType
    <2> QED
      BY <1>4, <2>4, <2>5 DEF StartChecked, Counted, PeersTyped, ConnsTyped
  <1>5. CASE StartChokes(c)
    <2>1. SessionsTyped'
      <3> DEFINE s == call[c].s
                 y == [session[s] EXCEPT !.choking = "running", !.revived = (s # registry)]
      <3>1. s \in Sessions => y \in SessionType
        BY <1>1 DEF SessionType
      <3>2. session' = session \/ session' = [session EXCEPT ![s] = y]
        BY <1>5 DEF StartChokes
      <3> HIDE DEF y, s
      <3> QED
        BY <3>1, <3>2, SessionSet DEF SessionsTyped
    <2>2. Calling' /\ Alone(c) /\ call'[c].op # "exit"
      BY <1>1, <1>5, ReturnsFacts DEF StartChokes, NoCall
    <2> QED
      BY <1>5, <2>1, <2>2 DEF StartChokes, Counted, PeersTyped, ConnsTyped
  <1> QED
    BY <1>2, <1>3, <1>4, <1>5

LEMMA StopTypes ==
    ASSUME State, NEW c \in Callers,
           (\E s \in 1 .. created : Stop(c, s)) \/ StopResumes(c) \/ StopReturns(c)
    PROVE  State' /\ Alone(c) /\ call'[c].op # "exit"
  <1> USE DEF State
  <1>1. /\ created \in Nat /\ call[c] \in CallType(created) /\ call[c].s \in 0 .. created
        /\ registry \in 0 .. created /\ FALSE \in BOOLEAN
        /\ \A s \in Sessions : session[s] \in SessionType
    BY Indices DEF Calling, CallsTyped, CallType, SessionsTyped, Counted
  <1>2. ASSUME NEW s \in 1 .. created, Stop(c, s)
        PROVE  State' /\ Alone(c) /\ call'[c].op # "exit"
    <2>1. SessionsTyped'
      BY <1>1, <1>2, SessionSet, SessionOps DEF Stop
    <2>2. created' = created /\ created' \in Nat /\ created' >= created /\ s \in 0 .. created'
      BY <1>1, <1>2 DEF Stop
    <2>3. Calling' /\ Alone(c) /\ call'[c].op = "stop"
      BY <1>1, <1>2, <2>2, CallsFacts DEF Stop, Ats
    <2> QED
      BY <1>2, <2>1, <2>3 DEF Stop, Counted, PeersTyped, ConnsTyped
  <1>3. CASE StopResumes(c)
    <2>1. SessionsTyped'
      BY <1>3 DEF StopResumes, SessionsTyped, SessionType, Stopped
    <2>2. Calling' /\ Alone(c) /\ call'[c].op = "stop"
      BY <1>1, <1>3, GoesFacts DEF StopResumes, In, Ats, CallType
    <2> QED
      BY <1>3, <2>1, <2>2 DEF StopResumes, Counted, PeersTyped, ConnsTyped
  <1>4. CASE StopReturns(c)
    BY <1>1, <1>4, ReturnsFacts
       DEF StopReturns, NoCall, Counted, SessionsTyped, PeersTyped, ConnsTyped
  <1> QED
    BY <1>2, <1>3, <1>4

\* What a turn of the loop that disconnects leaves as it is.
ConnsKept == \A j \in Conns : /\ conn'[j].at = conn[j].at /\ conn'[j].s = conn[j].s
                              /\ conn'[j].cancelled = conn[j].cancelled
                              /\ conn[j] = NoConn => conn'[j] = NoConn

ChokingKept == \A t \in Sessions : /\ session'[t].state = session[t].state
                                   /\ session'[t].choking = session[t].choking
                                   /\ session'[t].revived = session[t].revived

LEMMA DisconnectsFacts ==
    ASSUME State, NEW c \in Callers, NEW op \in {"remove", "exit"}, NEW s \in 0 .. created,
           NEW seen \in SUBSET Addrs, NEW size \in Sizes,
           Disconnects(c, op, s, seen, size), UNCHANGED created
    PROVE  /\ Calling' /\ Alone(c) /\ ConnsTyped' /\ ConnsKept
           /\ call'[c].op = op /\ call'[c].at = "closing" /\ call'[c].s = s
  <1>1. Calling /\ ConnsTyped
    BY DEF State
  <1>2. PICK a \in Addrs :
          /\ call' = [call EXCEPT ![c] = [op |-> op, at |-> "closing", s |-> s, start |-> FALSE,
                                          seen |-> seen \cup {a}, size |-> size]]
          /\ conn' = [conn EXCEPT ![peers[s][a]].closed = (conn[peers[s][a]] # NoConn)]
    BY DEF Disconnects, Listed
  <1> DEFINE r == [op |-> op, at |-> "closing", s |-> s, start |-> FALSE,
                   seen |-> seen \cup {a}, size |-> size]
             k == peers[s][a]
  <1>3. r \in CallType(created) /\ r.op = op /\ r.op # "none" /\ r.at = "closing" /\ r.s = s
    BY <1>1 DEF CallType
  <1>4. call' = [call EXCEPT ![c] = r]
    BY <1>2
  <1> HIDE DEF r
  <1>5. Calling' /\ Alone(c) /\ call'[c] = r
    BY <1>1, <1>3, <1>4, SetFacts
  <1>6. conn' = [conn EXCEPT ![k].closed = (conn[k] # NoConn)]
    BY <1>2
  <1> HIDE DEF k
  <1>7. ConnsTyped'
    BY <1>1, <1>6 DEF ConnsTyped, ConnType
  <1>8. ConnsKept
    <2>1. \A j \in Conns : /\ conn'[j].at = conn[j].at /\ conn'[j].s = conn[j].s
                           /\ conn'[j].cancelled = conn[j].cancelled
      BY <1>1, <1>6 DEF ConnsTyped, ConnType
    <2>2. ASSUME NEW j \in Conns, conn[j] = NoConn PROVE conn'[j] = NoConn
      <3>1. CASE j # k
        BY <1>1, <1>6, <2>2, <3>1 DEF ConnsTyped
      <3>2. CASE j = k
        <4>1. conn'[j] = [NoConn EXCEPT !.closed = FALSE]
          BY <1>1, <1>6, <2>2, <3>2 DEF ConnsTyped
        <4> QED
          BY <4>1 DEF NoConn
      <3> QED
        BY <3>1, <3>2
    <2> QED
      BY <2>1, <2>2 DEF ConnsKept
  <1> QED
    BY <1>3, <1>5, <1>7, <1>8

\* All that the proofs say of a turn of remove_torrent's loop.
LEMMA RemoveTurnFacts ==
    ASSUME State, NEW c \in Callers, NEW s \in 0 .. created,
           NEW seen \in SUBSET Addrs, NEW size \in Sizes,
           RemoveTurn(c, s, seen, size), registry' \in 0 .. created
    PROVE  /\ State' /\ Alone(c) /\ ConnsKept /\ ChokingKept
           /\ UNCHANGED <<client, created, peers>>
           /\ \/ call'[c].op = "none"
              \/ call'[c].op = "remove" /\ call'[c].s = s /\ call'[c].at \in {"closing", "emit"}
  <1> USE DEF State
  <1>1. /\ created \in Nat /\ FALSE \in BOOLEAN
        /\ created' \in Nat /\ created' >= created /\ s \in 0 .. created'
        /\ Counted' /\ PeersTyped' /\ UNCHANGED <<client, created, peers>>
    BY Indices DEF RemoveTurn, Counted, PeersTyped
  <1>2. CASE Returns(c) /\ UNCHANGED <<session, conn>>
    <2>1. Calling' /\ Alone(c) /\ call'[c].op = "none"
      BY <1>1, <1>2, ReturnsFacts DEF NoCall
    <2> QED
      BY <1>1, <1>2, <2>1 DEF SessionsTyped, ConnsTyped, ConnsKept, ChokingKept
  <1>3. CASE /\ session' = [session EXCEPT ![s].done = TRUE]
             /\ Calls(c, "remove", "emit", s, FALSE) /\ UNCHANGED conn
    <2>1. Calling' /\ Alone(c) /\ call'[c].op = "remove" /\ call'[c].at = "emit" /\ call'[c].s = s
      BY <1>1, <1>3, CallsFacts DEF Ats
    <2>2. SessionsTyped' /\ ChokingKept
      BY <1>3 DEF SessionsTyped, SessionType, ChokingKept
    <2> QED
      BY <1>1, <1>3, <2>1, <2>2 DEF ConnsTyped, ConnsKept
  <1>4. CASE Disconnects(c, "remove", s, seen, size) /\ UNCHANGED session
    <2>1. /\ Calling' /\ Alone(c) /\ ConnsTyped' /\ ConnsKept
          /\ call'[c].op = "remove" /\ call'[c].at = "closing" /\ call'[c].s = s
      BY <1>1, <1>4, DisconnectsFacts
    <2> QED
      BY <1>1, <1>4, <2>1 DEF SessionsTyped, ChokingKept
  <1> QED
    BY <1>2, <1>3, <1>4 DEF RemoveTurn

\* The loop begins with what is listed now.
LEMMA Begins == ASSUME NEW s PROVE {} \in SUBSET Addrs /\ Cardinality(Listed(s)) \in Sizes
  BY DEF Listed, Sizes

\* remove_torrent is called for a torrent whose choking task does not run, goes
\* on after it has ended, or after a peer was disconnected.
RemoveLoops(c, s) ==
    \/ Remove(c) /\ ~ ChokingOn(registry) /\ s = registry
    \/ RemoveResumes(c) /\ s = call[c].s
    \/ RemoveGoesOn(c) /\ s = call[c].s

LEMMA RemoveLoopFacts ==
    ASSUME State, NEW c \in Callers, NEW s \in 0 .. created, RemoveLoops(c, s)
    PROVE  /\ State' /\ Alone(c) /\ ConnsKept /\ ChokingKept
           /\ UNCHANGED <<client, created, peers>>
           /\ \/ call'[c].op = "none"
              \/ call'[c].op = "remove" /\ call'[c].s = s /\ call'[c].at \in {"closing", "emit"}
  <1>1. /\ registry \in 0 .. created /\ created \in Nat
        /\ call[c].seen \in SUBSET Addrs /\ call[c].size \in Sizes
    BY Indices DEF State, Counted, Calling, CallsTyped, CallType
  <1>2. registry' \in {Absent, registry}
    BY DEF RemoveLoops, Remove, RemoveResumes, RemoveGoesOn
  <1>3. registry' \in 0 .. created
    BY <1>1, <1>2 DEF Absent
  <1> QED
    BY <1>1, <1>3, Begins, RemoveTurnFacts
       DEF RemoveLoops, Remove, RemoveResumes, RemoveGoesOn, RemoveLoop

LEMMA RemoveTypes ==
    ASSUME State, NEW c \in Callers,
           Remove(c) \/ RemoveResumes(c) \/ RemoveGoesOn(c) \/ RemoveReturns(c)
    PROVE  State' /\ Alone(c) /\ call'[c].op # "exit" /\ ConnsKept /\ UNCHANGED <<client, peers>>
  <1>1. /\ created \in Nat /\ call[c] \in CallType(created) /\ call[c].s \in 0 .. created
        /\ registry \in 0 .. created /\ FALSE \in BOOLEAN /\ Calling
        /\ \A s \in Sessions : session[s] \in SessionType
    BY Indices DEF State, Calling, CallsTyped, CallType, SessionsTyped, Counted
  <1>2. CASE \E s \in 0 .. created : RemoveLoops(c, s)
    BY <1>2, RemoveLoopFacts
  <1>3. CASE Remove(c) /\ ChokingOn(registry)
    <2> USE DEF State
    <2>1. SessionsTyped'
      BY <1>1, <1>3, SessionSet, SessionOps DEF Remove
    <2>2. created' = created /\ created' \in Nat /\ created' >= created /\ registry \in 0 .. created'
      BY <1>1, <1>3 DEF Remove
    <2>3. Calling' /\ Alone(c) /\ call'[c].op = "remove"
      BY <1>1, <1>3, <2>2, CallsFacts DEF Remove, Ats
    <2>4. registry' \in 0 .. created'
      BY <1>1, <1>3, <2>2 DEF Remove, Absent
    <2> QED
      BY <1>3, <2>1, <2>3, <2>4 DEF Remove, Counted, PeersTyped, ConnsTyped, ConnsKept
  <1>4. CASE RemoveReturns(c)
    BY <1>1, <1>4, ReturnsFacts
       DEF RemoveReturns, NoCall, State, Counted, SessionsTyped, PeersTyped, ConnsTyped, ConnsKept
  <1> QED
    BY <1>1, <1>2, <1>3, <1>4 DEF RemoveLoops

\* All that the proofs say of a turn of the exit's loop.
LEMMA ExitTurnFacts ==
    ASSUME State, NEW c \in Callers,
           NEW seen \in SUBSET Addrs, NEW size \in Sizes, ExitTurn(c, seen, size)
    PROVE  /\ State' /\ Alone(c) /\ ConnsKept /\ UNCHANGED <<registry, created, session>>
           /\ \/ client' = "left" /\ call'[c].op = "none"
              \/ UNCHANGED client /\ call'[c].op = "exit" /\ call'[c].at \in {"closing", "storage"}
  <1> USE DEF State
  <1>1. /\ created \in Nat /\ registry \in 0 .. created
        /\ FALSE \in BOOLEAN /\ created' \in Nat /\ created' >= created /\ registry \in 0 .. created'
        /\ SessionsTyped' /\ PeersTyped' /\ UNCHANGED <<server, registry, created, session>>
    BY Indices DEF ExitTurn, Counted, SessionsTyped, PeersTyped
  <1>2. CASE client' = "left" /\ Returns(c) /\ UNCHANGED conn
    <2>1. Calling' /\ Alone(c) /\ call'[c].op = "none"
      BY <1>1, <1>2, ReturnsFacts DEF NoCall
    <2> QED
      BY <1>1, <1>2, <2>1 DEF Counted, ConnsTyped, ConnsKept
  <1>3. CASE Calls(c, "exit", "storage", registry, FALSE) /\ UNCHANGED <<client, conn>>
    <2>1. Calling' /\ Alone(c) /\ call'[c].op = "exit" /\ call'[c].at = "storage"
      BY <1>1, <1>3, CallsFacts DEF Ats
    <2> QED
      BY <1>1, <1>3, <2>1 DEF Counted, ConnsTyped, ConnsKept
  <1>4. CASE Disconnects(c, "exit", registry, seen, size) /\ UNCHANGED client
    <2>1. /\ Calling' /\ Alone(c) /\ ConnsTyped' /\ ConnsKept
          /\ call'[c].op = "exit" /\ call'[c].at = "closing"
      BY <1>1, <1>4, DisconnectsFacts
    <2> QED
      BY <1>1, <1>4, <2>1 DEF Counted
  <1> QED
    BY <1>2, <1>3, <1>4 DEF ExitTurn

\* The last part of the exit, after the tasks have ended.
ExitGoes(c) == ExitGathered(c) \/ ExitGoesOn(c) \/ ExitReturns(c)

LEMMA ExitGoesFacts ==
    ASSUME State, NEW c \in Callers, ExitGoes(c)
    PROVE  /\ State' /\ Alone(c) /\ ConnsKept /\ UNCHANGED <<created, session>>
           /\ registry' \in {Absent, registry}
           /\ \/ client' = "left" /\ call'[c].op = "none"
              \/ /\ UNCHANGED <<client, registry>>
                 /\ call'[c].op = "exit" /\ call'[c].at \in {"closing", "storage"}
  <1>1. /\ registry \in 0 .. created /\ created \in Nat /\ Calling
        /\ call[c].seen \in SUBSET Addrs /\ call[c].size \in Sizes
    BY Indices DEF State, Counted, Calling, CallsTyped, CallType
  <1>2. CASE ExitGoesOn(c) \/ (registry # Absent /\ ExitGathered(c))
    <2>1. \/ ExitTurn(c, {}, Cardinality(Listed(registry)))
          \/ ExitTurn(c, call[c].seen, call[c].size)
      BY <1>2 DEF ExitGathered, ExitGoesOn
    <2> QED
      BY <1>1, <1>2, <2>1, Begins, ExitTurnFacts
  <1>3. CASE ExitReturns(c) \/ (registry = Absent /\ ExitGathered(c))
    <2>1. /\ client' = "left" /\ registry' = Absent /\ Returns(c)
          /\ UNCHANGED <<server, created, session, peers, conn>>
      BY <1>3 DEF ExitReturns, ExitGathered
    <2>2. Calling' /\ Alone(c) /\ call'[c].op = "none"
      BY <1>1, <2>1, ReturnsFacts DEF NoCall
    <2>3. Counted'
      BY <1>1, <2>1 DEF State, Counted, Absent
    <2> QED
      BY <2>1, <2>2, <2>3 DEF State, SessionsTyped, PeersTyped, ConnsTyped, ConnsKept
  <1> QED
    BY <1>2, <1>3 DEF ExitGoes

LEMMA ExitTypes ==
    ASSUME State, NEW c \in Callers,
           Exit(c) \/ ExitCloses(c) \/ ExitCancels(c) \/ ExitGoes(c)
    PROVE  State'
  <1>1. /\ created \in Nat /\ call[c] \in CallType(created) /\ call[c].s \in 0 .. created
        /\ registry \in 0 .. created /\ FALSE \in BOOLEAN /\ Calling
        /\ \A s \in Sessions : session[s] \in SessionType
    BY Indices DEF State, Calling, CallsTyped, CallType, SessionsTyped, Counted
  <1>2. CASE Exit(c)
    <2>1. created' = created /\ created' \in Nat /\ created' >= created /\ registry \in 0 .. created'
      BY <1>1, <1>2 DEF Exit
    <2>2. Calling'
      BY <1>1, <1>2, <2>1, CallsFacts DEF Exit, Ats
    <2> QED
      BY <1>2, <2>2 DEF Exit, State, Counted, SessionsTyped, PeersTyped, ConnsTyped
  <1>3. CASE ExitCloses(c)
    <2>1. Calling'
      BY <1>1, <1>3, GoesFacts DEF ExitCloses, In, Ats, CallType
    <2> QED
      BY <1>3, <2>1 DEF ExitCloses, State, Counted, SessionsTyped, PeersTyped, ConnsTyped
  <1>4. CASE ExitCancels(c)
    <2> USE DEF State
    <2>1. Calling'
      BY <1>1, <1>4, GoesFacts DEF ExitCancels, In, Ats, CallType
    <2>2. SessionsTyped'
      BY <1>1, <1>4, SessionSet, SessionOps DEF ExitCancels, SessionsTyped
    <2>3. ConnsTyped'
      BY <1>4 DEF ExitCancels, ConnsTyped, ConnType
    <2> QED
      BY <1>4, <2>1, <2>2, <2>3 DEF ExitCancels, Counted, PeersTyped
  <1>5. CASE ExitGoes(c)
    BY <1>5, ExitGoesFacts
  <1> QED
    BY <1>2, <1>3, <1>4, <1>5

\* The steps of the tasks of the client.
ConnStep(k) ==
    \/ Dial(k) \/ Accept(k) \/ Greeted(k) \/ ConnectFails(k) \/ Connected(k) \/ Launch(k)
    \/ DialCancelled(k) \/ Completes(k) \/ SetsDone(k) \/ Ends(k) \/ Ended(k)

LEMMA CallingStays == Calling /\ UNCHANGED <<call, created>> => Calling'
  BY DEF Calling, CallsTyped

LEMMA ConnTypes ==
    ASSUME State, NEW k \in Conns, ConnStep(k)
    PROVE  State' /\ UNCHANGED <<client, call>>
  <1> USE DEF State
  <1>1. /\ registry \in 0 .. created /\ created \in Nat /\ NoConn \in ConnType(created)
        /\ conn[k] \in ConnType(created)
    BY Indices DEF Counted, NoConn, ConnType, Absent, ConnsTyped
  <1>2. UNCHANGED <<client, server, registry, created, call>>
    BY DEF ConnStep, Dial, Accept, Greeted, ConnectFails, Connected, Launch, DialCancelled,
           Completes, SetsDone, Ends, Ended
  <1>3. Calling' /\ Counted'
    BY <1>2, CallingStays DEF Counted
  <1>4. SessionsTyped'
    <2>1. CASE Completes(k)
      BY <2>1 DEF Completes, SessionsTyped, SessionType
    <2>3. CASE SetsDone(k)
      BY <2>3 DEF SetsDone, SessionsTyped, SessionType
    <2>2. CASE UNCHANGED session
      BY <2>2 DEF SessionsTyped
    <2> QED
      BY <2>1, <2>2, <2>3 DEF ConnStep, Dial, Accept, Greeted, ConnectFails, Connected, Launch,
         DialCancelled, Ends, Ended
  <1>5. PeersTyped'
    <2>1. ASSUME NEW v \in Conns \cup {Nobody}, NEW s, NEW a, peers' = [peers EXCEPT ![s][a] = v]
          PROVE  PeersTyped'
      <3> DEFINE f == [peers[s] EXCEPT ![a] = v]
      <3>1. peers' = [peers EXCEPT ![s] = f]
        BY <2>1
      <3>2. s \in Sessions => f \in [Addrs -> Conns \cup {Nobody}]
        BY DEF PeersTyped
      <3> HIDE DEF f
      <3> QED
        BY <3>1, <3>2 DEF PeersTyped
    <2>2. CASE UNCHANGED peers
      BY <2>2 DEF PeersTyped
    <2> QED
      BY <2>1, <2>2 DEF ConnStep, Dial, Accept, Greeted, ConnectFails, Connected, Launch,
         DialCancelled, Completes, SetsDone, Ends, Ended
  <1>6. ConnsTyped'
    <2>1. CASE Dial(k) \/ Accept(k) \/ Greeted(k)
      BY <1>1, <1>2, <2>1 DEF Dial, Accept, Greeted, ConnsTyped, ConnType
    <2>2. CASE ConnectFails(k) \/ DialCancelled(k) \/ Ended(k)
      BY <1>1, <1>2, <2>2 DEF ConnectFails, DialCancelled, Ended, ConnsTyped
    <2>3. CASE Connected(k) \/ Launch(k) \/ Completes(k) \/ SetsDone(k) \/ Ends(k)
      BY <1>1, <1>2, <2>3
         DEF Connected, Launch, Completes, SetsDone, Ends, ConnsTyped, ConnType, Transfers
    <2> QED
      BY <2>1, <2>2, <2>3 DEF ConnStep
  <1> QED
    BY <1>2, <1>3, <1>4, <1>5, <1>6

LEMMA OtherTypes ==
    ASSUME State,
           (\E c \in Callers : Enter(c)) \/ (\E s \in Sessions : ChokingEnds(s) \/ ChokingDies(s)) \/ UNCHANGED vars
    PROVE  State' /\ UNCHANGED <<peers, call, conn>>
  <1> USE DEF State
  <1>1. UNCHANGED <<registry, created, call, conn, peers>>
    BY DEF Enter, ChokingEnds, ChokingDies, vars
  <1>2. SessionsTyped'
    <2>1. ASSUME NEW s \in Sessions, NEW how \in {"ended", "died"},
                 session' = [session EXCEPT ![s].choking = how, ![s].revived = FALSE]
          PROVE  SessionsTyped'
      <3> DEFINE y == [session[s] EXCEPT !.choking = how, !.revived = FALSE]
      <3>1. y \in SessionType
        BY DEF SessionsTyped, SessionType
      <3>2. session' = [session EXCEPT ![s] = y]
        BY <2>1
      <3> HIDE DEF y
      <3> QED
        BY <3>1, <3>2, SessionSet
    <2>2. CASE UNCHANGED session
      BY <2>2 DEF SessionsTyped
    <2> QED
      BY <2>1, <2>2 DEF Enter, ChokingEnds, ChokingDies, vars
  <1>3. Counted'
    BY DEF Enter, ChokingEnds, ChokingDies, vars, Counted
  <1> QED
    BY <1>1, <1>2, <1>3, CallingStays DEF PeersTyped, ConnsTyped

LEMMA TypeStep == State /\ [Next]_vars => State'
  BY AddTypes, StartTypes, StopTypes, RemoveTypes, ExitTypes, ConnTypes, OtherTypes
     DEF Next, CallStep, ConnStep, ExitGoes

LEMMA TypeInit == Init => State
  <1> SUFFICES ASSUME Init PROVE State
    OBVIOUS
  <1>1. /\ NoCall \in CallType(0) /\ NoConn \in ConnType(0) /\ NewSession \in SessionType
        /\ NoCall.op = "none"
    BY DEF NoCall, CallType, Sizes, NoConn, ConnType, NewSession, SessionType, Absent
  <1>2. created = 0 /\ registry = 0 /\ 0 \in 0 .. MaxSessions
    BY LifecycleAssumption DEF Init, Absent
  <1>3. Calling
    BY <1>1, <1>2 DEF Init, Calling, CallsTyped
  <1>4. ConnsTyped /\ SessionsTyped /\ PeersTyped
    BY <1>1, <1>2 DEF Init, ConnsTyped, SessionsTyped, PeersTyped
  <1>5. client \in {"out", "in", "leaving", "left"} /\ server \in BOOLEAN
    BY DEF Init
  <1>6. created \in 0 .. MaxSessions /\ registry \in 0 .. created
    BY <1>2
  <1> QED
    BY <1>3, <1>4, <1>5, <1>6 DEF State, Counted

\* Types, for any callers, connections and number of sessions.
THEOREM TypeCorrect == Spec => []TypeOK
  <1>1. State => TypeOK
    BY Parts
  <1> QED
    BY <1>1, TypeInit, TypeStep, PTL DEF Spec

-----------------------------------------------------------------------------
(***************************************************************************)
(* The inductive invariant.  A connection is listed only at its own        *)
(* address, and in the session it belongs to: were it listed twice, the    *)
(* end of its transfer would take off only one entry.  While the client is *)
(* entered nothing is cancelled, because only __aexit__ cancels.           *)
(***************************************************************************)
Entered == client \in {"out", "in"}

Own == \A s \in Sessions, a \in Addrs :
          peers[s][a] # Nobody =>
             /\ AddrOf(peers[s][a]) = a
             /\ conn[peers[s][a]].s = s
             /\ conn[peers[s][a]].at \in {"announcing"} \cup Transfers

NobodyExits == \A c \in Callers : call[c].op # "exit"

NothingCancelled == \A k \in Conns : ~ conn[k].cancelled

LInv == State /\ (Entered => Own /\ NobodyExits /\ NothingCancelled)

\* Calls that move only their own caller along leave nobody leaving.
LEMMA StillNobody ==
    ASSUME NobodyExits, NEW c \in Callers, Alone(c), call'[c].op # "exit"
    PROVE  NobodyExits'
  BY DEF NobodyExits, Alone

\* The steps of the calls, but for the exit's.
OtherCall(c) ==
    \/ \E start \in BOOLEAN : Add(c, start) \/ AddAgain(c, start)
    \/ AddFails(c) \/ Registered(c) \/ Added(c)
    \/ \E s \in 1 .. created : Start(c, s) \/ Stop(c, s)
    \/ StartChecked(c) \/ StartChokes(c) \/ StopResumes(c) \/ StopReturns(c)
    \/ Remove(c) \/ RemoveResumes(c) \/ RemoveGoesOn(c) \/ RemoveReturns(c)

LEMMA OtherCallFacts ==
    ASSUME State, NEW c \in Callers, OtherCall(c)
    PROVE  State' /\ Alone(c) /\ call'[c].op # "exit" /\ ConnsKept /\ UNCHANGED <<client, peers>>
  <1>1. CASE Remove(c) \/ RemoveResumes(c) \/ RemoveGoesOn(c) \/ RemoveReturns(c)
    BY <1>1, RemoveTypes
  <1>2. CASE ~ (Remove(c) \/ RemoveResumes(c) \/ RemoveGoesOn(c) \/ RemoveReturns(c))
    <2>1. State' /\ Alone(c) /\ call'[c].op # "exit"
      BY <1>2, AddTypes, StartTypes, StopTypes DEF OtherCall
    <2>2. UNCHANGED <<client, peers, conn>>
      BY <1>2 DEF OtherCall, Add, AddAgain, AddFails, Registered, Added, Start, StartChecked,
         StartChokes, Stop, StopResumes, StopReturns
    <2> QED
      BY <2>1, <2>2 DEF ConnsKept
  <1> QED
    BY <1>1, <1>2

\* Closing a connection leaves it where it is.
LEMMA CallKeepsPeers ==
    ASSUME LInv, NEW c \in Callers, OtherCall(c) PROVE LInv'
  <1>1. State' /\ Alone(c) /\ call'[c].op # "exit" /\ ConnsKept /\ UNCHANGED <<client, peers>>
    BY OtherCallFacts DEF LInv
  <1>2. Own => Own'
    BY <1>1 DEF LInv, State, PeersTyped, Own, ConnsKept
  <1> QED
    BY <1>1, <1>2, StillNobody DEF LInv, Entered, NothingCancelled, ConnsKept

\* From the exit on the claim is void.
LEMMA ExitKeepsPeers ==
    ASSUME LInv, NEW c \in Callers,
           Exit(c) \/ ExitCloses(c) \/ ExitCancels(c) \/ ExitGoes(c)
    PROVE  LInv'
  <1>1. State'
    BY ExitTypes DEF LInv
  <1>2. ~ Entered'
    <2>1. CASE ExitGoes(c)
      <3>1. client' = "left" \/ client' = client
        BY <2>1, ExitGoesFacts DEF LInv
      <3> QED
        BY <2>1, <3>1 DEF LInv, ExitGoes, ExitGathered, ExitGoesOn, ExitReturns, In, NobodyExits,
           Entered
    <2>2. CASE Exit(c) \/ ExitCloses(c) \/ ExitCancels(c)
      BY <2>2 DEF LInv, Exit, ExitCloses, ExitCancels, In, NobodyExits, Entered
    <2> QED
      BY <2>1, <2>2
  <1> QED
    BY <1>1, <1>2 DEF LInv

\* A connection that is not listed may do what it likes to itself.
LEMMA UnlistedMoves ==
    ASSUME LInv, Entered, NEW k \in Conns,
           conn[k].at \notin {"announcing"} \cup Transfers,
           UNCHANGED peers, \A j \in Conns \ {k} : conn'[j] = conn[j]
    PROVE  Own'
  BY DEF LInv, State, PeersTyped, Own

LEMMA ConnKeepsPeers ==
    ASSUME LInv, NEW k \in Conns, ConnStep(k) PROVE LInv'
  <1>1. State' /\ UNCHANGED <<client, call>>
    BY ConnTypes DEF LInv
  <1> SUFFICES ASSUME Entered PROVE Own' /\ NobodyExits' /\ NothingCancelled'
    BY <1>1 DEF LInv, Entered
  <1>2. NobodyExits' /\ ConnsTyped /\ PeersTyped /\ Own /\ NothingCancelled
    BY <1>1 DEF LInv, NobodyExits, State
  <1>3. /\ \A j \in Conns \ {k} : conn'[j] = conn[j]
        /\ conn'[k].cancelled = FALSE
    BY <1>2 DEF ConnStep, Dial, Accept, Greeted, ConnectFails, Connected, Launch, DialCancelled,
       Completes, SetsDone, Ends, Ended, ConnsTyped, ConnType, NothingCancelled, NoConn
  <1>4. NothingCancelled'
    BY <1>2, <1>3 DEF NothingCancelled
  <1>5. CASE Dial(k) \/ Accept(k) \/ Greeted(k) \/ ConnectFails(k) \/ Ended(k)
    <2>1. conn[k].at \notin {"announcing"} \cup Transfers /\ UNCHANGED peers
      BY <1>5 DEF Dial, Accept, Greeted, ConnectFails, Ended, NoConn, Transfers
    <2> QED
      BY <1>2, <1>3, <1>4, <2>1, UnlistedMoves
  <1>6. CASE DialCancelled(k)
    BY <1>2, <1>6 DEF DialCancelled, NothingCancelled
  <1>7. CASE Launch(k) \/ Completes(k) \/ SetsDone(k)
    <2>1. /\ UNCHANGED peers /\ conn'[k].s = conn[k].s
          /\ conn'[k].at \in {"announcing"} \cup Transfers
      BY <1>2, <1>7 DEF Launch, Completes, SetsDone, Transfers, ConnsTyped, ConnType
    <2> QED
      BY <1>2, <1>3, <1>4, <2>1 DEF Own, PeersTyped
  <1>8. CASE Connected(k)
    <2>1. /\ conn[k].at \notin {"announcing"} \cup Transfers
          /\ conn'[k].s = conn[k].s /\ conn'[k].at = "announcing"
          /\ peers' = [peers EXCEPT ![conn[k].s][AddrOf(k)] = k]
      BY <1>2, <1>8 DEF Connected, Transfers, ConnsTyped, ConnType
    <2>2. \A s \in Sessions, a \in Addrs :
             peers'[s][a] = IF s = conn[k].s /\ a = AddrOf(k) THEN k ELSE peers[s][a]
      BY <1>2, <2>1 DEF PeersTyped
    <2> QED
      BY <1>2, <1>3, <1>4, <2>1, <2>2 DEF Own, PeersTyped
  <1>9. CASE Ends(k)
    <2>1. peers' = [peers EXCEPT ![conn[k].s][AddrOf(k)] = Nobody]
      BY <1>9 DEF Ends
    <2>2. \A s \in Sessions, a \in Addrs :
             peers'[s][a] = IF s = conn[k].s /\ a = AddrOf(k) THEN Nobody ELSE peers[s][a]
      BY <1>2, <2>1 DEF PeersTyped
    <2> QED
      BY <1>2, <1>3, <1>4, <2>2 DEF Own, PeersTyped
  <1> QED
    BY <1>5, <1>6, <1>7, <1>8, <1>9 DEF ConnStep

LEMMA OtherKeepsPeers ==
    ASSUME LInv,
           (\E c \in Callers : Enter(c)) \/ (\E s \in Sessions : ChokingEnds(s) \/ ChokingDies(s)) \/ UNCHANGED vars
    PROVE  LInv'
  <1>1. State' /\ UNCHANGED <<peers, call, conn>>
    BY OtherTypes DEF LInv
  <1>2. Entered' => Entered
    BY DEF Enter, ChokingEnds, ChokingDies, vars, Entered
  <1> QED
    BY <1>1, <1>2 DEF LInv, Own, NobodyExits, NothingCancelled

LEMMA ListStep == LInv /\ [Next]_vars => LInv'
  BY CallKeepsPeers, ExitKeepsPeers, ConnKeepsPeers, OtherKeepsPeers
     DEF Next, CallStep, ConnStep, OtherCall, ExitGoes

LEMMA ListInit == Init => LInv
  BY TypeInit DEF Init, LInv, Own, NobodyExits, NothingCancelled, NoCall, NoConn

\* While the client is entered, a peer that is listed is there, in the session
\* that lists it: for any number of callers whose calls overlap, of dials,
\* connections and sessions (_accept_and_launch_peer, add_peer, remove_torrent).
THEOREM NoStaleEntry == Spec => []ListedIsAlive
  <1>1. LInv => ListedIsAlive
    BY DEF LInv, State, Entered, Own, ListedIsAlive, Listed
  <1> QED
    BY <1>1, ListInit, ListStep, PTL DEF Spec

-----------------------------------------------------------------------------
(* One caller: the choking task follows the state *)

\* The application makes its calls one after the other.
OneCaller == \E c : Callers = {c}

Me == CHOOSE c : Callers = {c}

LEMMA OnlyMe == ASSUME OneCaller PROVE Callers = {Me}
  BY DEF OneCaller, Me

Resting(s) == session[s].choking \in {"none", "ended", "died"}

\* The call under way is about this session.
About(s) == call[Me].op \in {"start", "stop", "remove"} /\ call[Me].s = s

\* A session that is not there yet, or just being added, has never run.
Fresh ==
    \A s \in Sessions : s > created \/ (call[Me].op = "add" /\ s = call[Me].s) =>
       Resting(s) /\ session[s].state = "STOPPED"

\* The choking task is that of the torrent that is here, or of a removed one that
\* was started again, or is being cancelled by the removal.
Elsewhere ==
    \A s \in Sessions :
       \/ Resting(s) \/ s = registry \/ session[s].revived
       \/ In(Me, "remove", "choking") /\ call[Me].s = s

\* A choking task that no call is about runs, and its torrent is started.
Steady ==
    client = "in" =>
       \A s \in Sessions : \/ Resting(s) \/ About(s)
                           \/ session[s].choking = "running" /\ session[s].state \in Active

\* The torrent that is here and started has its task, or that has died.
BetweenCalls ==
    client = "in" /\ registry # Absent /\ ~ About(registry) /\ session[registry].state \in Active =>
       session[registry].choking \in {"running", "died"}

Adding ==
    call[Me].op = "add" =>
       /\ call[Me].s \in Sessions /\ call[Me].at \in {"prepare", "emit"}
       /\ registry = IF call[Me].at = "emit" THEN call[Me].s ELSE Absent

Starting ==
    call[Me].op = "start" =>
       /\ call[Me].s \in Sessions /\ call[Me].at \in {"check", "emit"} /\ Resting(call[Me].s)
       /\ call[Me].at = "emit" => session[call[Me].s].state \in Active

Stopping ==
    call[Me].op = "stop" =>
       /\ call[Me].s \in Sessions /\ call[Me].at \in {"choking", "announce"}
       /\ session[call[Me].s].choking # "running"
       /\ call[Me].at = "announce" => session[call[Me].s].state = "STOPPED" /\ Resting(call[Me].s)

Removing ==
    call[Me].op = "remove" =>
       /\ registry = Absent /\ call[Me].s \in Sessions
       /\ call[Me].at \in {"choking", "closing", "emit"}
       /\ session[call[Me].s].choking # "running"
       /\ call[Me].at # "choking" => Resting(call[Me].s)

\* The exit: its loop over the peers may end it with the torrent still here.
Leaving ==
    /\ call[Me].op = "exit" => client = "leaving"
    /\ call[Me].op \notin {"none", "exit"} => client = "in"
    /\ client = "out" => registry = Absent /\ \A s \in Sessions : Resting(s)
    /\ registry # Absent =>
          /\ In(Me, "exit", "gather") => session[registry].choking # "running"
          /\ call[Me].op = "exit" /\ call[Me].at \in {"closing", "storage"} => Resting(registry)
          /\ client = "left" => Resting(registry)

Tidy == /\ Fresh /\ Elsewhere /\ Steady /\ BetweenCalls
        /\ Adding /\ Starting /\ Stopping /\ Removing /\ Leaving

\* What Tidy speaks of.
Same == /\ UNCHANGED <<client, registry, created>>
        /\ call'[Me].op = call[Me].op /\ call'[Me].s = call[Me].s
        /\ ChokingKept

LEMMA SameKeeps ==
    ASSUME State, Tidy, Same, call'[Me].at = call[Me].at PROVE Tidy'
  <1>1. registry # Absent => registry \in Sessions
    BY Indices DEF State
  <1> QED
    BY <1>1 DEF Tidy, Same, ChokingKept, Fresh, Elsewhere, Steady, BetweenCalls, Adding, Starting,
       Stopping, Removing, Leaving, Resting, About, In

\* What the steps need to know of the state: indices, and that values are records.
LEMMA Known ==
    ASSUME State, OneCaller
    PROVE  /\ Me \in Callers /\ Calling /\ created \in Nat /\ 0 \notin Sessions
           /\ registry \in 0 .. created /\ (registry # Absent => registry \in Sessions)
           /\ call[Me] \in CallType(created) /\ call[Me].s \in 0 .. created
           /\ session \in [Sessions -> SessionType]
           /\ TRUE \in BOOLEAN /\ FALSE \in BOOLEAN
           /\ NoCall.op = "none" /\ NoCall.at = "idle"
           /\ 1 .. created \subseteq Sessions /\ 1 .. created \subseteq 0 .. created
  <1>1. /\ Counted /\ Calling /\ SessionsTyped /\ 0 \notin Sessions
        /\ NoCall.op = "none" /\ NoCall.at = "idle"
    BY DEF State, Sessions, NoCall
  <1>2. 1 .. created \subseteq Sessions /\ 1 .. created \subseteq 0 .. created
    BY <1>1, LifecycleAssumption DEF Counted, Sessions
  <1> QED
    BY <1>1, <1>2, OnlyMe, Indices DEF Counted, Calling, CallsTyped, CallType, SessionsTyped

LEMMA SessionFields ==
    ASSUME NEW x \in SessionType
    PROVE  /\ Activated(x).state \in Active /\ Activated(x).choking = x.choking
           /\ Activated(x).revived = x.revived
           /\ Unchoking(x).state = x.state /\ Unchoking(x).revived = x.revived
           /\ Unchoking(x).choking = IF x.choking = "running" THEN "cancelled" ELSE x.choking
           /\ Stopped(x).state = "STOPPED" /\ Stopped(x).choking = x.choking
           /\ Stopped(x).revived = x.revived
           /\ \A all \in BOOLEAN : /\ Checked(x, all).state = x.state
                                   /\ Checked(x, all).choking = x.choking
                                   /\ Checked(x, all).revived = x.revived
           /\ x.choking \in {"none", "running", "cancelled", "ended", "died"}
  BY DEF SessionType, Activated, Unchoking, Stopped, Checked, Active

\* A choking task that was cancelled ends; one that runs may die.
LEMMA EndingKeepsTidy ==
    ASSUME State, OneCaller, Tidy, NEW s \in Sessions, ChokingEnds(s) \/ ChokingDies(s)
    PROVE  Tidy'
  <1>1. UNCHANGED <<client, registry, created, call>>
    BY DEF ChokingEnds, ChokingDies
  <1>2. PICK how \in {"ended", "died"} :
          /\ session' = [session EXCEPT ![s].choking = how, ![s].revived = FALSE]
          /\ session[s].choking = IF how = "ended" THEN "cancelled" ELSE "running"
    BY DEF ChokingEnds, ChokingDies
  <1>3. /\ session'[s].state = session[s].state /\ session'[s].choking = how
        /\ \A t \in Sessions \ {s} : session'[t] = session[t]
    BY <1>2, Known DEF SessionType
  <1> QED
    BY <1>1, <1>2, <1>3, Known DEF Tidy, Fresh, Elsewhere, Steady, BetweenCalls, Adding, Starting,
       Stopping, Removing, Leaving, Resting, About, In

LEMMA GoesMe ==
    ASSUME State, OneCaller, NEW at \in Ats, call[Me].op # "none", Goes(Me, at), UNCHANGED created
    PROVE  call'[Me].op = call[Me].op /\ call'[Me].at = at /\ call'[Me].s = call[Me].s
  <1>1. call'[Me] = [call[Me] EXCEPT !.at = at]
    BY Known, GoesFacts
  <1> QED
    BY <1>1, Known DEF CallType

LEMMA StartNowTidy ==
    ASSUME State, OneCaller, Tidy, NEW s \in 1 .. created, client = "in",
           call[Me].op \in {"none", "add"}, call[Me].op = "add" => s = call[Me].s,
           session[s].state \notin Active, StartNow(Me, s, session[s]),
           UNCHANGED <<client, registry, created>>
    PROVE  Tidy'
  <1>1. /\ s \in Sessions /\ session[s] \in SessionType /\ created' \in Nat
        /\ created' >= created /\ s \in 0 .. created' /\ s <= created
    BY Known
  <1>2. Resting(s)
    BY <1>1 DEF Tidy, Steady, About
  <1> DEFINE y == [session[s] EXCEPT !.state = "CHECKING", !.checked = "running"]
  <1>3. y.choking = session[s].choking /\ y.revived = session[s].revived
    BY <1>1 DEF SessionType
  <1>4. \/ session' = [session EXCEPT ![s] = y] /\ Calls(Me, "start", "check", s, TRUE)
        \/ session' = [session EXCEPT ![s] = Activated(session[s])]
              /\ Calls(Me, "start", "emit", s, TRUE)
    BY DEF StartNow
  <1> HIDE DEF y
  <1>5. /\ call'[Me].op = "start" /\ call'[Me].s = s
        /\ \/ call'[Me].at = "check"
           \/ call'[Me].at = "emit" /\ session'[s].state \in Active
    <2>1. CASE Calls(Me, "start", "check", s, TRUE)
      BY <1>1, <2>1, Known, CallsFacts DEF Ats
    <2>2. CASE /\ session' = [session EXCEPT ![s] = Activated(session[s])]
               /\ Calls(Me, "start", "emit", s, TRUE)
      <3>1. session'[s].state \in Active
        BY <1>1, <2>2, Known, SessionFields
      <3> QED
        BY <1>1, <2>2, <3>1, Known, CallsFacts DEF Ats
    <2> QED
      BY <1>4, <2>1, <2>2
  <1>6. /\ session'[s].choking = session[s].choking /\ session'[s].revived = session[s].revived
        /\ \A t \in Sessions \ {s} : session'[t] = session[t]
    BY <1>1, <1>3, <1>4, Known, SessionFields
  <1> QED
    BY <1>1, <1>2, <1>5, <1>6, Known DEF Tidy, Fresh, Elsewhere, Steady, BetweenCalls, Adding,
       Starting, Stopping, Removing, Leaving, Resting, About, In

LEMMA AddTidy ==
    ASSUME State, OneCaller, Tidy,
           (\E start \in BOOLEAN : Add(Me, start)) \/ AddFails(Me) \/ Registered(Me)
    PROVE  Tidy'
  <1>1. CASE \E start \in BOOLEAN : Add(Me, start)
    <2>1. PICK start \in BOOLEAN : Add(Me, start)
      BY <1>1
    <2>2. /\ client = "in" /\ call[Me].op = "none" /\ registry = Absent
          /\ created' = created + 1 /\ created' \in Sessions
          /\ UNCHANGED <<client, registry, session>>
      BY <2>1, Known, LifecycleAssumption DEF Add, Free, Sessions
    <2>3. /\ call'[Me].op = "add" /\ call'[Me].at = "prepare" /\ call'[Me].s = created'
      <3>1. created' \in Nat /\ created' >= created /\ created' \in 0 .. created'
        BY <2>2, Known
      <3> QED
        BY <2>1, <3>1, Known, CallsFacts DEF Add, Ats
    <2>4. \A s \in Sessions : s > created' \/ s = created' => s > created
      BY <2>2, Known DEF Sessions
    <2> QED
      BY <2>2, <2>3, <2>4 DEF Tidy, Fresh, Elsewhere, Steady, BetweenCalls, Adding, Starting,
         Stopping, Removing, Leaving, Resting, About, In
  <1>2. CASE AddFails(Me)
    <2>1. /\ call'[Me].op = "none" /\ registry = Absent /\ call[Me].op = "add" /\ client = "in"
          /\ UNCHANGED <<client, registry, created, session>>
      BY <1>2, Known, ReturnsFacts DEF AddFails, In, Tidy, Adding, Leaving
    <2> QED
      BY <2>1 DEF Tidy, Fresh, Elsewhere, Steady, BetweenCalls, Adding, Starting, Stopping,
         Removing, Leaving, Resting, About, In
  <1>3. CASE Registered(Me)
    <2>1. /\ call[Me].op = "add" /\ registry = Absent /\ registry' = call[Me].s
          /\ call[Me].s \in Sessions /\ client = "in" /\ UNCHANGED <<client, created>>
          /\ session' = [session EXCEPT ![call[Me].s].known = TRUE]
      BY <1>3 DEF Registered, In, Tidy, Adding, Leaving
    <2>2. call'[Me].op = "add" /\ call'[Me].at = "emit" /\ call'[Me].s = call[Me].s
      BY <1>3, <2>1, GoesMe DEF Registered, Ats
    <2>3. ChokingKept
      BY <2>1, Known DEF ChokingKept, SessionType
    <2> QED
      BY <2>1, <2>2, <2>3, Known DEF ChokingKept, Tidy, Fresh, Elsewhere, Steady, BetweenCalls,
         Adding, Starting, Stopping, Removing, Leaving, Resting, About, In, Absent, Active
  <1> QED
    BY <1>1, <1>2, <1>3

LEMMA StartTidy ==
    ASSUME State, OneCaller, Tidy,
           \/ \E start \in BOOLEAN : AddAgain(Me, start)
           \/ Added(Me) \/ \E s \in 1 .. created : Start(Me, s)
    PROVE  Tidy'
  <1>1. ASSUME NEW start \in BOOLEAN, AddAgain(Me, start) PROVE Tidy'
    <2>1. /\ client = "in" /\ call[Me].op = "none" /\ registry \in 1 .. created
          /\ session[registry].state = "STOPPED"
      BY <1>1, Known DEF AddAgain, Free, Absent
    <2> QED
      BY <1>1, <2>1, StartNowTidy DEF AddAgain, Active
  <1>2. ASSUME NEW s \in 1 .. created, Start(Me, s) PROVE Tidy'
    <2>1. client = "in" /\ call[Me].op = "none"
      BY <1>2, Known DEF Start, Free
    <2> QED
      BY <1>2, <2>1, StartNowTidy DEF Start
  <1>3. CASE Added(Me)
    <2>1. /\ call[Me].op = "add" /\ registry = call[Me].s /\ registry \in Sessions /\ client = "in"
          /\ Resting(registry) /\ session[registry].state = "STOPPED" /\ registry \in 1 .. created
          /\ UNCHANGED <<client, registry, created>>
      BY <1>3, Known DEF Added, In, Tidy, Adding, Leaving, Fresh
    <2>2. CASE StartNow(Me, call[Me].s, session[call[Me].s])
      BY <2>1, <2>2, StartNowTidy DEF Active
    <2>3. CASE Returns(Me) /\ UNCHANGED session
      <3>1. call'[Me].op = "none"
        BY <2>1, <2>3, Known, ReturnsFacts
      <3> QED
        BY <2>1, <2>3, <3>1 DEF Tidy, Fresh, Elsewhere, Steady, BetweenCalls, Adding, Starting,
           Stopping, Removing, Leaving, Resting, About, In, Active
    <2> QED
      BY <1>3, <2>2, <2>3 DEF Added
  <1> QED
    BY <1>1, <1>2, <1>3

LEMMA StartedTidy ==
    ASSUME State, OneCaller, Tidy, StartChecked(Me) \/ StartChokes(Me) PROVE Tidy'
  <1> DEFINE s == call[Me].s
  <1>1. /\ call[Me].op = "start" /\ s \in Sessions /\ client = "in" /\ Resting(s)
        /\ s \in 0 .. created /\ created \in Nat /\ ~ (s > created)
    BY Known DEF StartChecked, StartChokes, In, Tidy, Starting, Leaving
  <1>2. UNCHANGED <<client, registry, created>>
    BY DEF StartChecked, StartChokes
  <1>3. CASE StartChecked(Me)
    <2>1. PICK all \in BOOLEAN : session' = [session EXCEPT ![s] = Activated(Checked(session[s], all))]
      BY <1>3 DEF StartChecked
    <2>2. call'[Me].op = "start" /\ call'[Me].at = "emit" /\ call'[Me].s = s
      BY <1>3, <1>1, GoesMe DEF StartChecked, Ats
    <2> HIDE DEF s
    <2> DEFINE y == Checked(session[s], all)
    <2>3. /\ y \in SessionType /\ y.choking = session[s].choking /\ y.revived = session[s].revived
          /\ session' = [session EXCEPT ![s] = Activated(y)]
      BY <1>1, <2>1, Known, SessionOps, SessionFields
    <2> HIDE DEF y
    <2>4. /\ session'[s].state \in Active /\ session'[s].choking = session[s].choking
          /\ session'[s].revived = session[s].revived
          /\ \A t \in Sessions \ {s} : session'[t] = session[t]
      BY <1>1, <2>3, Known, SessionFields
    <2> QED
      BY <1>1, <1>2, <2>2, <2>4, Known DEF s, Tidy, Fresh, Elsewhere, Steady, BetweenCalls, Adding,
         Starting, Stopping, Removing, Leaving, Resting, About, In
  <1>4. CASE StartChokes(Me)
    <2>1. session[s].state \in Active /\ ~ ChokingOn(s)
      BY <1>1, <1>4 DEF StartChokes, In, Tidy, Starting, Resting, ChokingOn
    <2>2. session' = [session EXCEPT ![s].choking = "running", ![s].revived = (s # registry)]
      BY <1>4, <2>1 DEF StartChokes
    <2>3. call'[Me].op = "none"
      BY <1>4, Known, ReturnsFacts DEF StartChokes
    <2>5. call[Me].s = s
      OBVIOUS
    <2> HIDE DEF s
    <2>4. /\ session'[s].state = session[s].state /\ session'[s].choking = "running"
          /\ session'[s].revived = (s # registry)
          /\ \A t \in Sessions \ {s} : session'[t] = session[t]
      BY <1>1, <2>2, Known DEF SessionType
    <2>6. Elsewhere'
      BY <1>1, <1>2, <2>4, <2>5 DEF Tidy, Elsewhere, Resting, In
    <2>7. Steady' /\ BetweenCalls'
      BY <1>1, <1>2, <2>1, <2>4, <2>5, Known DEF Tidy, Steady, BetweenCalls, Resting, About
    <2>8. Fresh'
      BY <1>1, <1>2, <2>3, <2>4 DEF Tidy, Fresh, Resting
    <2> QED
      BY <1>1, <1>2, <2>3, <2>6, <2>7, <2>8 DEF Tidy, Adding, Starting, Stopping, Removing, Leaving,
         In
  <1> QED
    BY <1>3, <1>4

LEMMA StopTidy ==
    ASSUME State, OneCaller, Tidy,
           (\E s \in 1 .. created : Stop(Me, s)) \/ StopResumes(Me) \/ StopReturns(Me)
    PROVE  Tidy'
  <1>1. UNCHANGED <<client, registry, created>>
    BY DEF Stop, StopResumes, StopReturns
  <1>2. ASSUME NEW s \in 1 .. created, Stop(Me, s) PROVE Tidy'
    <2>1. /\ client = "in" /\ call[Me].op = "none" /\ s \in Sessions /\ ~ (s > created)
          /\ created' \in Nat /\ created' >= created /\ s \in 0 .. created'
      BY <1>1, <1>2, Known DEF Stop, Free
    <2>2. session[s].choking \in {"none", "running", "ended", "died"}
      BY <2>1, Known, SessionFields DEF Tidy, Steady, About, Resting
    <2>4. CASE /\ ChokingOn(s) /\ session' = [session EXCEPT ![s] = Unchoking(@)]
               /\ Calls(Me, "stop", "choking", s, FALSE)
      <3>1. call'[Me].op = "stop" /\ call'[Me].at = "choking" /\ call'[Me].s = s
        BY <2>1, <2>4, Known, CallsFacts DEF Ats
      <3>2. /\ session'[s].choking = "cancelled" /\ session'[s].revived = session[s].revived
            /\ ~ Resting(s)
            /\ \A t \in Sessions \ {s} : session'[t] = session[t]
        BY <2>1, <2>2, <2>4, Known, SessionFields DEF ChokingOn, Resting
      <3> QED
        BY <1>1, <2>1, <3>1, <3>2, Known DEF Tidy, Fresh, Elsewhere, Steady, BetweenCalls, Adding, Starting,
           Stopping, Removing, Leaving, Resting, About, In
    <2>5. CASE /\ ~ ChokingOn(s) /\ session' = [session EXCEPT ![s] = Stopped(@)]
               /\ Calls(Me, "stop", "announce", s, FALSE)
      <3>1. call'[Me].op = "stop" /\ call'[Me].at = "announce" /\ call'[Me].s = s
        BY <2>1, <2>5, Known, CallsFacts DEF Ats
      <3>2. /\ session'[s].choking = session[s].choking
            /\ session'[s].state = "STOPPED" /\ session'[s].revived = session[s].revived
            /\ session[s].choking \in {"none", "ended", "died"}
            /\ \A t \in Sessions \ {s} : session'[t] = session[t]
        BY <2>1, <2>2, <2>5, Known, SessionFields DEF ChokingOn
      <3> QED
        BY <1>1, <2>1, <3>1, <3>2, Known DEF Tidy, Fresh, Elsewhere, Steady, BetweenCalls, Adding, Starting,
           Stopping, Removing, Leaving, Resting, About, In
    <2> QED
      BY <1>2, <2>4, <2>5 DEF Stop
  <1>3. CASE StopResumes(Me)
    <2> DEFINE s == call[Me].s
    <2>1. call[Me].op = "stop" /\ s \in Sessions /\ client = "in" /\ s \in 0 .. created
          /\ created \in Nat /\ ~ (s > created)
      BY <1>3, Known DEF StopResumes, In, Tidy, Stopping, Leaving
    <2>2. call'[Me].op = "stop" /\ call'[Me].at = "announce" /\ call'[Me].s = s
      BY <1>3, <2>1, GoesMe DEF StopResumes, Ats
    <2>3. /\ session'[s].choking = "none" /\ session'[s].state = "STOPPED"
          /\ \A t \in Sessions \ {s} : session'[t] = session[t]
      BY <1>3, <2>1, Known DEF StopResumes, Stopped, SessionType
    <2> HIDE DEF s
    <2> QED
      BY <1>1, <2>1, <2>2, <2>3, Known DEF s, Tidy, Fresh, Elsewhere, Steady, BetweenCalls, Adding, Starting,
         Stopping, Removing, Leaving, Resting, About, In, Active
  <1>4. CASE StopReturns(Me)
    <2>1. /\ session[call[Me].s].state = "STOPPED" /\ Resting(call[Me].s)
          /\ client = "in" /\ call[Me].op = "stop" /\ UNCHANGED session
      BY <1>4 DEF StopReturns, In, Tidy, Stopping, Leaving
    <2>2. call'[Me].op = "none"
      BY <1>4, Known, ReturnsFacts DEF StopReturns
    <2> QED
      BY <1>1, <2>1, <2>2 DEF Tidy, Fresh, Elsewhere, Steady, BetweenCalls, Adding, Starting, Stopping,
         Removing, Leaving, Resting, About, In, Active
  <1> QED
    BY <1>2, <1>3, <1>4

LEMMA RemoveTidy ==
    ASSUME State, OneCaller, Tidy,
           Remove(Me) \/ RemoveResumes(Me) \/ RemoveGoesOn(Me) \/ RemoveReturns(Me)
    PROVE  Tidy'
  <1>1. ASSUME NEW s \in 0 .. created, RemoveLoops(Me, s) PROVE Tidy'
    <2>1. /\ s \in Sessions /\ Resting(s) /\ registry' = Absent /\ client = "in"
          /\ call[Me].op \in {"none", "remove"} /\ registry \in {Absent, s}
          /\ call[Me].op = "remove" => call[Me].s = s
          /\ ~ (s > created)
      <3>1. CASE Remove(Me) /\ ~ ChokingOn(registry) /\ s = registry
        BY <3>1, Known, SessionFields DEF Remove, Free, ChokingOn, Resting
      <3>2. CASE RemoveResumes(Me) /\ s = call[Me].s
        BY <3>2, Known, SessionFields
           DEF RemoveResumes, In, ChokingOn, Resting, Tidy, Removing, Leaving
      <3>3. CASE RemoveGoesOn(Me) /\ s = call[Me].s
        BY <3>3, Known DEF RemoveGoesOn, In, Tidy, Removing, Leaving
      <3> QED
        BY <1>1, <3>1, <3>2, <3>3 DEF RemoveLoops
    <2>2. /\ UNCHANGED <<client, created>> /\ ChokingKept
          /\ \/ call'[Me].op = "none"
             \/ call'[Me].op = "remove" /\ call'[Me].s = s /\ call'[Me].at \in {"closing", "emit"}
      BY <1>1, Known, RemoveLoopFacts
    <2> QED
      BY <2>1, <2>2, Known DEF ChokingKept, Tidy, Fresh, Elsewhere, Steady, BetweenCalls, Adding,
         Starting, Stopping, Removing, Leaving, Resting, About, In, Absent
  <1>2. CASE Remove(Me) /\ ChokingOn(registry)
    <2>1. /\ client = "in" /\ call[Me].op = "none" /\ registry \in Sessions
          /\ registry' = Absent /\ UNCHANGED <<client, created>>
          /\ created' \in Nat /\ created' >= created /\ registry \in 0 .. created'
          /\ ~ (registry > created)
      BY <1>2, Known DEF Remove, Free
    <2>2. call'[Me].op = "remove" /\ call'[Me].at = "choking" /\ call'[Me].s = registry
      BY <1>2, <2>1, Known, CallsFacts DEF Remove, Ats
    <2>3. /\ session'[registry].choking # "running"
          /\ \A t \in Sessions \ {registry} : session'[t] = session[t]
      BY <1>2, <2>1, Known, SessionFields DEF Remove
    <2> QED
      BY <2>1, <2>2, <2>3, Known DEF Tidy, Fresh, Elsewhere, Steady, BetweenCalls, Adding, Starting,
         Stopping, Removing, Leaving, Resting, About, In, Absent
  <1>3. CASE RemoveReturns(Me)
    <2>1. /\ call[Me].op = "remove" /\ Resting(call[Me].s) /\ registry = Absent /\ client = "in"
          /\ UNCHANGED <<client, registry, created, session>>
      BY <1>3 DEF RemoveReturns, In, Tidy, Removing, Leaving
    <2>2. call'[Me].op = "none"
      BY <1>3, Known, ReturnsFacts DEF RemoveReturns
    <2>3. ~ In(Me, "remove", "choking")
      BY <1>3 DEF RemoveReturns, In
    <2> QED
      BY <2>1, <2>2, <2>3 DEF Tidy, Fresh, Elsewhere, Steady, BetweenCalls, Adding, Starting, Stopping,
         Removing, Leaving, Resting, About, In
  <1> QED
    BY <1>1, <1>2, <1>3, Known DEF RemoveLoops

LEMMA ExitTidy ==
    ASSUME State, OneCaller, Tidy,
           Exit(Me) \/ ExitCloses(Me) \/ ExitCancels(Me) \/ ExitGoes(Me)
    PROVE  Tidy'
  <1>1. CASE Exit(Me)
    <2>1. /\ client = "in" /\ call[Me].op = "none" /\ client' = "leaving"
          /\ UNCHANGED <<registry, created, session>>
          /\ created' \in Nat /\ created' >= created /\ registry \in 0 .. created'
      BY <1>1, Known DEF Exit, Free
    <2>2. call'[Me].op = "exit" /\ call'[Me].at = "discovery"
      BY <1>1, <2>1, Known, CallsFacts DEF Exit, Ats
    <2> QED
      BY <2>1, <2>2 DEF Tidy, Fresh, Elsewhere, Steady, BetweenCalls, Adding, Starting, Stopping,
         Removing, Leaving, Resting, About, In
  <1>2. CASE ExitCloses(Me)
    <2>1. /\ call[Me].op = "exit" /\ client = "leaving"
          /\ UNCHANGED <<client, registry, created, session>>
      BY <1>2 DEF ExitCloses, In, Tidy, Leaving
    <2>2. call'[Me].op = "exit" /\ call'[Me].at = "server"
      BY <1>2, <2>1, GoesMe DEF ExitCloses, Ats
    <2> QED
      BY <2>1, <2>2 DEF Tidy, Fresh, Elsewhere, Steady, BetweenCalls, Adding, Starting, Stopping,
         Removing, Leaving, Resting, About, In
  <1>3. CASE ExitCancels(Me)
    <2>1. /\ call[Me].op = "exit" /\ client = "leaving" /\ registry \in 0 .. created
          /\ created \in Nat /\ UNCHANGED <<client, registry, created>>
      BY <1>3, Known DEF ExitCancels, In, Tidy, Leaving
    <2>2. call'[Me].op = "exit" /\ call'[Me].at = "gather"
      BY <1>3, <2>1, GoesMe DEF ExitCancels, Ats
    <2>3. /\ registry # Absent => /\ session'[registry].choking # "running"
                                  /\ Resting(registry) => Resting(registry)'
                                  /\ session'[registry].state = session[registry].state
          /\ \A t \in Sessions : t # registry => session'[t] = session[t]
      BY <1>3, Known, SessionFields DEF ExitCancels, Resting
    <2> QED
      BY <2>1, <2>2, <2>3 DEF Tidy, Fresh, Elsewhere, Steady, BetweenCalls, Adding, Starting,
         Stopping, Removing, Leaving, Resting, About, In
  <1>4. CASE ExitGoes(Me)
    <2>1. /\ call[Me].op = "exit" /\ client = "leaving"
          /\ registry # Absent => Resting(registry)
      <3>1. CASE ExitGathered(Me)
        BY <3>1, Known, SessionFields
           DEF ExitGathered, In, ChokingOn, Resting, Tidy, Leaving
      <3>2. CASE ExitGoesOn(Me) \/ ExitReturns(Me)
        BY <3>2 DEF ExitGoesOn, ExitReturns, In, Tidy, Leaving
      <3> QED
        BY <1>4, <3>1, <3>2 DEF ExitGoes
    <2>2. /\ UNCHANGED <<created, session>> /\ registry' \in {Absent, registry}
          /\ \/ client' = "left" /\ call'[Me].op = "none"
             \/ /\ UNCHANGED <<client, registry>>
                /\ call'[Me].op = "exit" /\ call'[Me].at \in {"closing", "storage"}
      BY <1>4, Known, ExitGoesFacts
    <2> QED
      BY <2>1, <2>2, Known DEF Tidy, Fresh, Elsewhere, Steady, BetweenCalls, Adding, Starting,
         Stopping, Removing, Leaving, Resting, About, In
  <1> QED
    BY <1>1, <1>2, <1>3, <1>4

LEMMA ConnTidy ==
    ASSUME State, Tidy, NEW k \in Conns, ConnStep(k) PROVE Tidy'
  <1>1. UNCHANGED <<client, registry, created, call>>
    BY DEF ConnStep, Dial, Accept, Greeted, ConnectFails, Connected, Launch, DialCancelled,
       Completes, SetsDone, Ends, Ended
  <1>2. ChokingKept
    <2>1. SessionsTyped
      BY DEF State
    <2>2. CASE Completes(k) \/ SetsDone(k)
      BY <2>1, <2>2 DEF Completes, SetsDone, SessionsTyped, SessionType, ChokingKept
    <2>3. CASE UNCHANGED session
      BY <2>3 DEF ChokingKept
    <2> QED
      BY <2>2, <2>3 DEF ConnStep, Dial, Accept, Greeted, ConnectFails, Connected, Launch,
         DialCancelled, Ends, Ended
  <1> QED
    BY <1>1, <1>2, SameKeeps DEF Same

LEMMA OtherTidy ==
    ASSUME State, OneCaller, Tidy,
           \/ \E c \in Callers : Enter(c)
           \/ \E s \in Sessions : ChokingEnds(s) \/ ChokingDies(s)
           \/ UNCHANGED vars
    PROVE  Tidy'
  <1>1. CASE \E c \in Callers : Enter(c)
    <2>1. client = "out" /\ client' = "in" /\ UNCHANGED <<registry, created, session, call>>
      BY <1>1 DEF Enter
    <2>2. /\ registry = Absent /\ call[Me].op \in {"none", "exit"} /\ call[Me].op # "exit"
          /\ \A s \in Sessions : Resting(s)
      BY <2>1 DEF Tidy, Leaving
    <2> QED
      BY <2>1, <2>2 DEF Tidy, Fresh, Elsewhere, Steady, BetweenCalls, Adding, Starting, Stopping,
         Removing, Leaving, Resting, About, In
  <1>2. CASE UNCHANGED vars
    BY <1>2, SameKeeps DEF vars, Same, ChokingKept
  <1> QED
    BY <1>1, <1>2, EndingKeepsTidy

LEMMA TidyStep == ASSUME State, OneCaller, Tidy, [Next]_vars PROVE Tidy'
  BY AddTidy, StartTidy, StartedTidy, StopTidy, RemoveTidy, ExitTidy, ConnTidy, OtherTidy, OnlyMe
     DEF Next, CallStep, ConnStep, ExitGoes

LEMMA TidyInit == ASSUME OneCaller, Init PROVE Tidy
  BY TypeInit, Known DEF Init, Tidy, Fresh, Elsewhere, Steady, BetweenCalls, Adding, Starting,
     Stopping, Removing, Leaving, Resting, About, In, NewSession, NoCall, Absent

\* With calls made one after the other, between two calls a choking task runs only
\* for a started torrent, which is here unless its removed session was started
\* again by its old handle; and the torrent that is here and started has its
\* task unless that has died: for any number of additions and removals
\* (TorrentHandle.start, stop, remove_torrent).
THEOREM ChokingIsTidy == ASSUME OneCaller PROVE Spec => []ChokingFollowsState
  <1>1. State /\ Tidy => ChokingFollowsState
    <2> SUFFICES ASSUME State, Tidy, client = "in", \A c \in Callers : call[c] = NoCall,
                        NEW s \in Sessions
                 PROVE  /\ ChokingOn(s) => /\ session[s].state \in Active
                                           /\ s = registry \/ session[s].revived
                        /\ (s = registry /\ session[s].state \in Active) =>
                              session[s].choking \in {"running", "died"}
      BY DEF ChokingFollowsState
    <2>1. call[Me].op = "none" /\ s # Absent
      BY Known DEF Absent
    <2> QED
      BY <2>1 DEF Tidy, Elsewhere, Steady, BetweenCalls, Resting, About, ChokingOn, In
  <1>2. Init => State /\ Tidy
    BY TypeInit, TidyInit
  <1>3. State /\ Tidy /\ [Next]_vars => State' /\ Tidy'
    BY TypeStep, TidyStep
  <1> QED
    BY <1>1, <1>2, <1>3, PTL DEF Spec

-----------------------------------------------------------------------------
(***************************************************************************)
(* The exit.  Only a connection that is there is ever closed or cancelled; *)
(* once the client is leaving no call but the exit is under way, nothing   *)
(* is dialled, and the exit waits for all that it has cancelled.           *)
(***************************************************************************)
Unused == \A k \in Conns : conn[k].at = "off" => conn[k] = NoConn

OnlyExits == ~ Entered => \A c \in Callers : call[c].op \in {"none", "exit"}

DialsMade == client = "leaving" => \A k \in Dials : conn[k].at \in {"off", "ending"} \cup Transfers

Gathered ==
    ~ Entered => \A c \in Callers : In(c, "exit", "gather") =>
       \A k \in Dials \cup Found : conn[k].at = "off" \/ conn[k].cancelled

Quiet ==
    ~ Entered => \A c \in Callers : call[c].op = "exit" /\ call[c].at \in {"closing", "storage"} =>
       \A k \in Dials \cup Found : conn[k] = NoConn

Gone == client = "left" => \A k \in Dials \cup Found : conn[k] = NoConn

Calm == Unused /\ OnlyExits /\ DialsMade /\ Gathered /\ Quiet /\ Gone

\* While the client is entered only Unused says anything.
LEMMA EnteredIsCalm == ASSUME Entered', Unused' PROVE Calm'
  BY DEF Calm, OnlyExits, DialsMade, Gathered, Quiet, Gone, Entered

LEMMA CallCalm ==
    ASSUME LInv, Calm, NEW c \in Callers, OtherCall(c)
    PROVE  Calm'
  <1>1. ConnsKept /\ UNCHANGED client
    BY OtherCallFacts DEF LInv
  <1>2. client = "in" \/ call[c].op \notin {"none", "exit"}
    BY DEF OtherCall, Add, AddAgain, AddFails, Registered, Added, Start, StartChecked, StartChokes,
       Stop, StopResumes, StopReturns, Remove, RemoveResumes, RemoveGoesOn, RemoveReturns, Free, In
  <1>3. Unused'
    BY <1>1 DEF Calm, Unused, ConnsKept
  <1> QED
    BY <1>1, <1>2, <1>3, EnteredIsCalm DEF Calm, OnlyExits, Entered

LEMMA ExitCalm ==
    ASSUME LInv, OneCaller, Calm, NEW c \in Callers,
           Exit(c) \/ ExitCloses(c) \/ ExitCancels(c) \/ ExitGoes(c)
    PROVE  Calm'
  <1>1. /\ created \in Nat /\ call[c] \in CallType(created) /\ registry \in 0 .. created
        /\ FALSE \in BOOLEAN /\ Calling /\ ConnsTyped
    BY Indices DEF LInv, State, Calling, CallsTyped, Counted
  <1>2. CASE Exit(c)
    <2>1. /\ client' = "leaving" /\ UNCHANGED conn /\ \A d \in Callers : call[d] = NoCall
          /\ \A k \in Dials : conn[k].at \in {"off", "ending"} \cup Transfers
      BY <1>2 DEF Exit
    <2>2. created' = created /\ created' \in Nat /\ created' >= created /\ registry \in 0 .. created'
      BY <1>1, <1>2 DEF Exit
    <2>3. Alone(c) /\ call'[c].op = "exit" /\ call'[c].at = "discovery" /\ NoCall.op = "none"
      BY <1>1, <1>2, <2>2, CallsFacts DEF Exit, Ats, NoCall
    <2> QED
      BY <2>1, <2>3 DEF Alone, Calm, Unused, OnlyExits, DialsMade, Gathered, Quiet, Gone, In
  <1>3. CASE ExitCloses(c)
    <2>1. call[c].op = "exit" /\ UNCHANGED <<client, conn, created>>
      BY <1>3 DEF ExitCloses, In
    <2>2. Alone(c) /\ call'[c].op = "exit" /\ call'[c].at = "server"
      BY <1>1, <1>3, <2>1, GoesFacts DEF ExitCloses, Ats, CallType
    <2> QED
      BY <2>1, <2>2 DEF Alone, Calm, Unused, OnlyExits, DialsMade, Gathered, Quiet, Gone, In, Entered
  <1>4. CASE ExitCancels(c)
    <2>1. call[c].op = "exit" /\ UNCHANGED <<client, created>>
      BY <1>4 DEF ExitCancels, In
    <2>2. Alone(c) /\ call'[c].op = "exit" /\ call'[c].at = "gather"
      BY <1>1, <1>4, <2>1, GoesFacts DEF ExitCancels, Ats, CallType
    <2>3. \A k \in Conns : /\ conn'[k].at = conn[k].at
                           /\ conn'[k].cancelled = (conn[k].cancelled \/ InPeerTasks(k))
                           /\ ~ InPeerTasks(k) => conn'[k] = conn[k]
      BY <1>1, <1>4 DEF ExitCancels, ConnsTyped, ConnType
    <2>4. \A k \in Conns : /\ conn[k].at = "off" => ~ InPeerTasks(k)
                           /\ k \in Found => conn[k].at = "off" \/ InPeerTasks(k)
                           /\ conn[k].at \in {"ending"} \cup Transfers => InPeerTasks(k)
      BY DEF InPeerTasks, Transfers
    <2>5. client \in {"leaving", "left"} \/ Entered
      BY DEF LInv, State, Counted, Entered
    <2>6. ~ Entered
      BY <2>1 DEF LInv, NobodyExits
    <2>7. \A k \in Dials \cup Found : conn[k].at = "off" \/ InPeerTasks(k)
      BY <2>4, <2>5, <2>6 DEF Calm, DialsMade, Gone, NoConn, Conns
    <2>8. Unused' /\ DialsMade' /\ Gone'
      <3>1. \A k \in Conns : conn[k].at = "off" => conn'[k] = conn[k]
        BY <2>3, <2>4
      <3>2. NoConn.at = "off" /\ Dials \cup Found \subseteq Conns
        BY DEF NoConn, Conns
      <3> QED
        BY <2>1, <2>3, <3>1, <3>2 DEF Calm, Unused, DialsMade, Gone
    <2>9. OnlyExits'
      BY <2>1, <2>2 DEF Alone, Calm, OnlyExits, Entered
    <2>10. Gathered'
      BY <2>3, <2>7 DEF Gathered, Conns
    <2>11. Quiet'
      BY <2>1, <2>2, <2>6, OnlyMe DEF Quiet
    <2> QED
      BY <2>8, <2>9, <2>10, <2>11 DEF Calm
  <1>5. CASE ExitGoes(c)
    <2>1. /\ Alone(c) /\ ConnsKept
          /\ \/ client' = "left" /\ call'[c].op = "none"
             \/ /\ UNCHANGED client
                /\ call'[c].op = "exit" /\ call'[c].at \in {"closing", "storage"}
      BY <1>5, ExitGoesFacts DEF LInv
    <2>2. ~ Entered /\ call[c].op = "exit"
      BY <1>5 DEF LInv, NobodyExits, In, ExitGoes, ExitGathered, ExitGoesOn, ExitReturns
    <2>3. \A k \in Dials \cup Found : conn[k] = NoConn
      <3>1. CASE ExitGathered(c)
        BY <2>2, <3>1 DEF ExitGathered, Calm, Gathered, Unused, Conns
      <3>2. CASE ExitGoesOn(c) \/ ExitReturns(c)
        BY <2>2, <3>2 DEF ExitGoesOn, ExitReturns, In, Calm, Quiet
      <3> QED
        BY <1>5, <3>1, <3>2 DEF ExitGoes
    <2>4. \A k \in Dials \cup Found : conn'[k] = NoConn
      BY <2>1, <2>3 DEF ConnsKept, Conns
    <2>7. \A k \in Dials \cup Found : conn'[k].at = "off"
      BY <2>4 DEF NoConn
    <2>5. Unused' /\ DialsMade' /\ Gone' /\ Quiet' /\ Gathered'
      BY <2>1, <2>4, <2>7 DEF ConnsKept, Calm, Unused, DialsMade, Gone, Quiet, Gathered
    <2>6. OnlyExits'
      BY <2>1, <2>2 DEF Alone, Calm, OnlyExits
    <2> QED
      BY <2>5, <2>6 DEF Calm
  <1> QED
    BY <1>2, <1>3, <1>4, <1>5

LEMMA ConnCalm ==
    ASSUME LInv, Calm, NEW k \in Conns, ConnStep(k) PROVE Calm'
  <1>1. /\ UNCHANGED <<client, call>> /\ ConnsTyped /\ NoConn.at = "off"
    BY ConnTypes DEF LInv, State, NoConn
  <1>2. /\ \A j \in Conns \ {k} : conn'[j] = conn[j]
        /\ conn'[k].at = "off" => conn'[k] = NoConn
    BY <1>1 DEF ConnStep, Dial, Accept, Greeted, ConnectFails, Connected, Launch, DialCancelled,
       Completes, SetsDone, Ends, Ended, ConnsTyped, ConnType, Transfers
  <1>3. Unused'
    BY <1>2 DEF Calm, Unused
  <1>4. ASSUME ~ Entered, k \in Dials \cup Found
        PROVE  /\ conn[k].at # "off"
               /\ conn'[k].at = "off" \/ conn'[k].cancelled = conn[k].cancelled
               /\ conn[k].at \in {"ending"} \cup Transfers =>
                     conn'[k].at \in {"off", "ending"} \cup Transfers
    <2>1. ~ Dial(k) /\ ~ Accept(k) /\ ~ Greeted(k)
      BY <1>4, LifecycleAssumption DEF Dial, Accept, Greeted, Entered
    <2> QED
      BY <1>1, <2>1 DEF ConnStep, ConnectFails, Connected, Launch, DialCancelled, Completes,
         SetsDone, Ends, Ended, ConnsTyped, ConnType, Transfers
  <1>5. ~ Entered => ~ Entered'
    BY <1>1 DEF Entered
  <1>6. Dials \cup Found \subseteq Conns
    BY DEF Conns
  <1>7. OnlyExits'
    BY <1>1, <1>5 DEF Calm, OnlyExits, Entered
  <1>8. DialsMade'
    BY <1>1, <1>2, <1>4, <1>6 DEF Calm, DialsMade, Entered
  <1>9. Gathered'
    BY <1>1, <1>2, <1>4, <1>6 DEF Calm, Gathered, In, Entered
  <1>10. Gone'
    BY <1>1, <1>2, <1>4, <1>6 DEF Calm, Gone, Entered
  <1>11. Quiet'
    BY <1>1, <1>2, <1>4, <1>6 DEF Calm, Quiet, Entered
  <1> QED
    BY <1>3, <1>7, <1>8, <1>9, <1>10, <1>11 DEF Calm

LEMMA CalmStep == ASSUME LInv, OneCaller, Calm, [Next]_vars PROVE Calm'
  <1>1. ASSUME \/ \E c \in Callers : Enter(c)
               \/ \E s \in Sessions : ChokingEnds(s) \/ ChokingDies(s)
               \/ UNCHANGED vars
        PROVE  Calm'
    <2>1. UNCHANGED <<call, conn>> /\ (client' = client \/ Entered')
      BY <1>1 DEF Enter, ChokingEnds, ChokingDies, vars, Entered
    <2> QED
      BY <1>1, <2>1, EnteredIsCalm
         DEF Calm, Unused, OnlyExits, DialsMade, Gathered, Quiet, Gone, In, Entered
  <1> QED
    BY <1>1, CallCalm, ExitCalm, ConnCalm DEF Next, CallStep, ConnStep, OtherCall, ExitGoes

LEMMA CalmInit == Init => Calm
  BY EnteredIsCalm DEF Init, Calm, Unused, OnlyExits, DialsMade, Gathered, Quiet, Gone, Entered, NoConn, In

\* With calls made one after the other, no dial is under way after the exit, and
\* no choking task but that of a removed torrent started again by its handle,
\* however the calls mixed with discovery, incoming connections, the ends of
\* transfers and deaths of choking tasks, and though the exit may end in the middle
\* of its loop (__aexit__).
THEOREM ExitIsQuiet == ASSUME OneCaller PROVE Spec => []LeftIsQuiet
  <1>1. State /\ Tidy /\ Calm => LeftIsQuiet
    <2> SUFFICES ASSUME State, Tidy, Calm, client = "left"
                 PROVE  /\ \A k \in Dials \cup Found : conn[k] = NoConn
                        /\ \A s \in Sessions : ChokingOn(s) => session[s].revived
      BY DEF LeftIsQuiet
    <2>1. \A k \in Dials \cup Found : conn[k] = NoConn
      BY DEF Calm, Gone
    <2>2. call[Me].op # "remove" /\ (registry # Absent => Resting(registry))
      BY DEF Tidy, Leaving
    <2>3. \A s \in Sessions : Resting(s) \/ session[s].revived
      BY <2>2, Known DEF Tidy, Elsewhere, In, Absent
    <2> QED
      BY <2>1, <2>3 DEF Resting, ChokingOn
  <1>2. Init => LInv /\ Tidy /\ Calm
    BY ListInit, TypeInit, TidyInit, CalmInit
  <1>3. LInv /\ Tidy /\ Calm /\ [Next]_vars => LInv' /\ Tidy' /\ Calm'
    BY ListStep, TidyStep, CalmStep DEF LInv
  <1>4. LInv => State
    BY DEF LInv
  <1> QED
    BY <1>1, <1>2, <1>3, <1>4, PTL DEF Spec
=============================================================================
