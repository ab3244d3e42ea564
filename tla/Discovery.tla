-------------------------------- MODULE Discovery --------------------------------
(***************************************************************************)
(* Local discovery: discovery.py as the client drives it.  Every node      *)
(* multicasts the torrents it has and listens to the others.  Datagrams    *)
(* get lost, arrive twice, come back to their sender, and are dropped by a *)
(* full receive queue; torrents come and go between a datagram's arrival,  *)
(* the consumer's look at it, the dial it makes and the connection.        *)
(***************************************************************************)
EXTENDS Naturals, Sequences, FiniteSets, SequencesExt

CONSTANTS
    Nodes,
    Listeners,  \* nodes whose receiving half is followed
    Busy,       \* nodes that stop and whose torrents come and go
    Hashes,     \* info hashes
    Library,    \* of each node: the torrents that may be added there
    MaxBatch,   \* info hashes per packet (50 in the code)
    QueueSize,  \* of the receive queue (256 in the code)
    MaxFound    \* bound of the discovered-peer queue, unbounded in the code

ASSUME DiscoveryAssumption ==
    /\ Listeners \subseteq Nodes /\ Busy \subseteq Nodes
    /\ IsFiniteSet(Hashes) /\ Library \in [Nodes -> SUBSET Hashes]
    /\ MaxBatch \in Nat \ {0} /\ QueueSize \in Nat \ {0} /\ MaxFound \in Nat

VARIABLES
    lsd,       \* the node's LocalDiscovery: "off", "starting", "up", "stopping";
               \* "none" when the client runs without it
    sessions,  \* torrents registered with the client
    active,    \* _info_hashes
    lan,       \* datagrams on the network
    recvq,     \* _recv_queue
    peerq,     \* _peer_queue
    conns      \* add_peer calls of the consumer and the connections they made

queues == <<recvq, peerq>>
vars   == <<lsd, sessions, active, lan, queues, conns>>

Packets == [from : Nodes, hashes : SUBSET Hashes]
Packet(n, B) == [from |-> n, hashes |-> B]
Found   == Nodes \X Hashes

\* To a peer for a torrent: a task that has not begun, its dial, or its
\* connection; gone if the session it belongs to has been removed.  Calls at
\* the same point for the same peer and session are one.
Stages == {"task", "dialling", "up"}
Conns  == [to : Found, at : Stages, gone : BOOLEAN]
Conn(f, at) == [to |-> f, at |-> at, gone |-> FALSE]

TypeOK ==
    /\ lsd \in [Nodes -> {"off", "starting", "up", "stopping", "none"}]
    /\ sessions \in [Nodes -> SUBSET Hashes]
    /\ active \in [Nodes -> SUBSET Hashes]
    /\ \A p \in lan : p \in Packets /\ Cardinality(p.hashes) \in 1 .. MaxBatch
    /\ recvq \in [Nodes -> Seq(Packets)] /\ \A n \in Nodes : Len(recvq[n]) <= QueueSize
    /\ peerq \in [Nodes -> Seq(Found)] /\ \A n \in Nodes : Len(peerq[n]) <= MaxFound
    /\ conns \in [Nodes -> SUBSET Conns]

Init ==
    /\ lsd = [n \in Nodes |-> "off"]
    /\ sessions = [n \in Nodes |-> {}]
    /\ active = [n \in Nodes |-> {}]
    /\ lan = {}
    /\ recvq = [n \in Nodes |-> <<>>]
    /\ peerq = [n \in Nodes |-> <<>>]
    /\ conns = [n \in Nodes |-> {}]

-----------------------------------------------------------------------------
(* The client: entering, leaving, adding and removing torrents *)

\* __aenter__ sets _lsd and begins to join the multicast group.
Start(n) ==
    /\ lsd[n] = "off"
    /\ lsd' = [lsd EXCEPT ![n] = "starting"]
    /\ UNCHANGED <<sessions, active, lan, queues, conns>>

\* Both tasks run; torrents added meanwhile are announced too.
Started(n) ==
    /\ lsd[n] = "starting"
    /\ lsd' = [lsd EXCEPT ![n] = "up"]
    /\ active' = [active EXCEPT ![n] = @ \cup sessions[n]]
    /\ UNCHANGED <<sessions, lan, queues, conns>>

\* No multicast here: the client goes on without.
StartFails(n) ==
    /\ lsd[n] = "starting" /\ n \in Busy
    /\ lsd' = [lsd EXCEPT ![n] = "none"]
    /\ active' = [active EXCEPT ![n] = {}]
    /\ recvq' = [recvq EXCEPT ![n] = <<>>]
    /\ UNCHANGED <<sessions, lan, peerq, conns>>

HasLsd(n)  == lsd[n] \in {"starting", "up"}
Running(n) == HasLsd(n) \/ lsd[n] = "none"

\* _register
Register(n, h) ==
    /\ Running(n) /\ h \in Library[n] \ sessions[n]
    /\ sessions' = [sessions EXCEPT ![n] = @ \cup {h}]
    /\ active' = [active EXCEPT ![n] = IF HasLsd(n) THEN @ \cup {h} ELSE @]
    /\ UNCHANGED <<lsd, lan, queues, conns>>

\* What is dialled or connected for a torrent stays with its session.
Orphaned(C, h) ==
    {IF c.to[2] = h /\ c.at # "task" THEN [c EXCEPT !.gone = TRUE] ELSE c : c \in C}

\* Mutant: the removed torrent is not withdrawn.
RemoveQuietly(n, h) ==
    /\ Running(n) /\ h \in sessions[n] /\ n \in Busy
    /\ sessions' = [sessions EXCEPT ![n] = @ \ {h}]
    /\ conns' = [conns EXCEPT ![n] = Orphaned(@, h)]
    /\ UNCHANGED <<lsd, active, lan, queues>>

\* remove_torrent: withdrawn.  A dial goes on; a connection that was listed is
\* disconnected and will end.
RemoveTorrent(n, h) ==
    /\ Running(n) /\ h \in sessions[n] /\ n \in Busy
    /\ sessions' = [sessions EXCEPT ![n] = @ \ {h}]
    /\ active' = [active EXCEPT ![n] = IF HasLsd(n) THEN @ \ {h} ELSE @]
    /\ conns' = [conns EXCEPT ![n] = Orphaned(@, h)]
    /\ UNCHANGED <<lsd, lan, queues>>

\* __aexit__: the consumer is cancelled, then _stop cancels the two tasks ...
Stop(n) ==
    /\ n \in Busy /\ lsd[n] \in {"up", "none"}
    /\ lsd' = [lsd EXCEPT ![n] = "stopping"]
    /\ UNCHANGED <<sessions, active, lan, queues, conns>>

\* ... and closes the sockets; the client ends its dials and connections.
\* Packets do not outlive it.
Stopped(n) ==
    /\ lsd[n] = "stopping"
    /\ lsd' = [lsd EXCEPT ![n] = "off"]
    /\ sessions' = [sessions EXCEPT ![n] = {}]
    /\ active' = [active EXCEPT ![n] = {}]
    /\ lan' = {p \in lan : p.from # n}
    /\ recvq' = [recvq EXCEPT ![n] = <<>>]
    /\ peerq' = [peerq EXCEPT ![n] = <<>>]
    /\ conns' = [conns EXCEPT ![n] = {}]

-----------------------------------------------------------------------------
(* Announcing *)

\* Mutant: a batch takes one info hash too many.
BatchesOverlong(S) ==
    LET list   == SetToSeq(S)
        starts == {i \in 0 .. Len(list) : i < Len(list) /\ i % MaxBatch = 0}
    IN  {{list[j] : j \in {k \in DOMAIN list : k > i /\ k <= i + MaxBatch + 1}} : i \in starts}

\* _send_announce: the info hashes listed, in the order Python gives a set, cut
\* into batches, one packet each.
Batches(S) ==
    LET list   == SetToSeq(S)
        starts == {i \in 0 .. Len(list) : i < Len(list) /\ i % MaxBatch = 0}
    IN  {{list[j] : j \in {k \in DOMAIN list : k > i /\ k <= i + MaxBatch}} : i \in starts}

\* The announce loop wakes up, or the loop's first round.
AnnounceRound(n) ==
    /\ lsd[n] = "up"
    /\ lan' = lan \cup {Packet(n, B) : B \in Batches(active[n])}
    /\ UNCHANGED <<lsd, sessions, active, queues, conns>>

\* A datagram is gone for those it has not reached.
Lose(p) ==
    /\ p \in lan
    /\ lan' = lan \ {p}
    /\ UNCHANGED <<lsd, sessions, active, queues, conns>>

-----------------------------------------------------------------------------
(* Listening *)

\* A datagram arrives, perhaps not for the first time, perhaps our own.  A
\* full queue drops it.
Receive(n, p) ==
    /\ p \in lan /\ n \in Listeners
    /\ lsd[n] \in {"starting", "up", "stopping"}
    /\ IF Len(recvq[n]) < QueueSize
       THEN recvq' = [recvq EXCEPT ![n] = Append(@, p)] /\ UNCHANGED lan
       ELSE lan' = lan \ {p} /\ UNCHANGED recvq
    /\ UNCHANGED <<lsd, sessions, active, peerq, conns>>

\* The peers a packet tells node n of: none if the cookie is ours, and only
\* for torrents we announce ourselves.
News(n, p) ==
    IF p.from = n THEN <<>>
    ELSE LET wanted == SetToSeq(p.hashes \cap active[n])
         IN  [i \in DOMAIN wanted |-> <<p.from, wanted[i]>>]

\* The listen loop takes a datagram and queues what it tells.
Listen(n) ==
    /\ lsd[n] = "up" /\ recvq[n] # <<>>
    /\ LET news == News(n, Head(recvq[n]))
       IN  /\ Len(peerq[n]) + Len(news) <= MaxFound
           /\ peerq' = [peerq EXCEPT ![n] = @ \o news]
    /\ recvq' = [recvq EXCEPT ![n] = Tail(@)]
    /\ UNCHANGED <<lsd, sessions, active, lan, conns>>

-----------------------------------------------------------------------------
(* Dialling *)

Up(n, f) == Conn(f, "up") \in conns[n]

\* Mutant: a connection of the removed session counts for the one that is here.
WantsUnknown(n, f) ==
    f[2] \in sessions[n] /\ \A c \in conns[n] : ~ (c.to = f /\ c.at = "up")

\* A peer is worth a dial if the torrent is here and it is not connected.
Wants(n, f) == f[2] \in sessions[n] /\ ~ Up(n, f)

\* The client's consumer loop takes a peer: an add_peer task is made unless the
\* torrent is gone or the peer connected already.
Consume(n) ==
    /\ lsd[n] = "up" /\ peerq[n] # <<>>
    /\ LET f == Head(peerq[n])
       IN  conns' = IF Wants(n, f) THEN [conns EXCEPT ![n] = @ \cup {Conn(f, "task")}] ELSE conns
    /\ peerq' = [peerq EXCEPT ![n] = Tail(@)]
    /\ UNCHANGED <<lsd, sessions, active, lan, recvq>>

\* add_peer begins: it looks again, and takes the session along.
AddPeer(n, f) ==
    /\ Conn(f, "task") \in conns[n]
    /\ conns' = [conns EXCEPT ![n] =
                   (@ \ {Conn(f, "task")})
                     \cup (IF Running(n) /\ Wants(n, f) THEN {Conn(f, "dialling")} ELSE {})]
    /\ UNCHANGED <<lsd, sessions, active, lan, queues>>

\* The connection is made and listed in that session, removed or not.
Connected(n, c) ==
    /\ c \in conns[n] /\ c.at = "dialling"
    /\ conns' = [conns EXCEPT ![n] = (@ \ {c}) \cup {[c EXCEPT !.at = "up"]}]
    /\ UNCHANGED <<lsd, sessions, active, lan, queues>>

\* A dial fails, or a connection ends.
Disconnect(n, c) ==
    /\ c \in conns[n] /\ c.at # "task"
    /\ conns' = [conns EXCEPT ![n] = @ \ {c}]
    /\ UNCHANGED <<lsd, sessions, active, lan, queues>>

-----------------------------------------------------------------------------
Next ==
    \/ \E n \in Nodes :
          \/ Start(n) \/ Started(n) \/ StartFails(n) \/ Stop(n) \/ Stopped(n)
          \/ \E h \in Hashes : Register(n, h) \/ RemoveTorrent(n, h)
          \/ AnnounceRound(n) \/ Listen(n) \/ Consume(n)
          \/ \E p \in lan : Receive(n, p)
          \/ \E c \in conns[n] : AddPeer(n, c.to) \/ Connected(n, c) \/ Disconnect(n, c)
    \/ \E p \in lan : Lose(p)

Spec == Init /\ [][Next]_vars

\* Of the packets that tell a node of a torrent again and again, not all are
\* lost or meet a full queue.
UnderWay(m, h) == \E p \in lan : p.from = m /\ h \in p.hashes
Heard(n, m, h) ==
    /\ Len(recvq[n]) < QueueSize
    /\ \E p \in lan : p.from = m /\ h \in p.hashes /\ Receive(n, p)
FairLink(n, m, h) ==
    <>[](lsd[n] = "up") /\ []<>UnderWay(m, h) => []<><<Heard(n, m, h)>>_vars

\* Tasks get their turns and the announce timer fires again and again; of the
\* dials that are made again and again, not all fail.
FairSpec ==
    /\ Spec
    /\ \A n \in Nodes : /\ WF_vars(Started(n)) /\ WF_vars(Stopped(n))
                        /\ WF_vars(AnnounceRound(n))
    /\ \A n \in Listeners :
          /\ WF_vars(Listen(n)) /\ WF_vars(Consume(n))
          /\ \A m \in Nodes \ {n}, h \in Hashes :
                /\ FairLink(n, m, h)
                /\ WF_vars(AddPeer(n, <<m, h>>))
                /\ SF_vars(Connected(n, Conn(<<m, h>>, "dialling")))

-----------------------------------------------------------------------------
(* Properties *)

\* A round names each torrent that is registered, and none that has been
\* removed: LocalDiscovery keeps a list of its own, which the client changes
\* while it starts, fails to start, runs and stops (client.py:735-736, 880-881,
\* 1030-1032, discovery.py:289-300, 493-538).
RoundsTellWhatIsHere ==
    [][\A n \in Nodes : AnnounceRound(n) =>
          /\ \A h \in sessions[n] : \E p \in lan' : p.from = n /\ h \in p.hashes
          /\ \A p \in lan' \ lan : p.hashes \subseteq sessions[n]]_vars

\* Two nodes that stay and share a torrent: the one is connected to the other
\* in the session that is here, again and again if the connection ends, although
\* datagrams are lost and dropped and a dial of a removed session may still be
\* under way or connected (discovery.py:187-211, 493-572, client.py:924-998).
SharersConnect ==
    \A n \in Listeners, m \in Nodes, h \in Hashes : n # m =>
       (<>[](lsd[n] = "up" /\ lsd[m] = "up" /\ h \in sessions[n] /\ h \in sessions[m])
          => []<>Up(n, <<m, h>>))
=============================================================================
