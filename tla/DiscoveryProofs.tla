--------------------------- MODULE DiscoveryProofs ---------------------------
(***************************************************************************)
(* Proofs about Discovery, for any nodes, batch size and queue bounds.     *)
(***************************************************************************)
EXTENDS Discovery, DataProofs

(* Sets in a sequence, and its batches *)

\* After a multiple of the batch size comes the next.
LEMMA NextMultiple ==
    ASSUME NEW m \in Nat \ {0}, NEW i \in Nat, i % m = 0
    PROVE  (i + m) % m = 0
  <1> DEFINE x == i + m
             d == (i \div m) + 1 - (x \div m)
             r == x % m
  <1>1. /\ i \div m \in Int /\ x \div m \in Int /\ r \in 0 .. m - 1 /\ d \in Int
        /\ i = m * (i \div m) /\ x = m * (x \div m) + r
    OBVIOUS
  <1>2. r = m * d
    BY <1>1
  <1> HIDE DEF d, r
  <1>3. d < 0 => m * d < 0
    BY <1>1
  <1>4. d > 0 => m * d >= m
    BY <1>1
  <1>5. d = 0
    BY <1>1, <1>2, <1>3, <1>4
  <1>6. r = 0
    BY <1>2, <1>5
  <1> QED
    BY <1>6 DEF r

LEMMA SeqOfSet ==
    ASSUME NEW S, IsFiniteSet(S)
    PROVE  /\ SetToSeq(S) \in Seq(S) /\ Len(SetToSeq(S)) \in Nat
           /\ DOMAIN SetToSeq(S) = 1 .. Len(SetToSeq(S))
           /\ \A x \in S : \E i \in DOMAIN SetToSeq(S) : SetToSeq(S)[i] = x
  <1> DEFINE n == Cardinality(S)
  <1>1. n \in Nat /\ ExistsBijection(1 .. n, S)
    BY FS_CardinalityType
  <1>2. PICK f \in Bijection(1 .. n, S) : TRUE
    BY <1>1 DEF ExistsBijection
  <1>3. f \in [1 .. n -> S] /\ IsInjective(f)
    BY <1>2 DEF Bijection, Injection
  <1>4. SetToSeq(S) \in [1 .. n -> S] /\ IsInjective(SetToSeq(S))
    BY <1>3 DEF SetToSeq
  <1> DEFINE g == SetToSeq(S)
  <1> HIDE DEF g
  <1>5. g \in Injection(1 .. n, S)
    BY <1>4 DEF Injection, g
  <1>6. g \in Surjection(1 .. n, S)
    <2>1. IsFiniteSet(1 .. n) /\ Cardinality(1 .. n) = n
      BY <1>1, FS_Interval
    <2> QED
      BY <1>5, <2>1, FS_Injection
  <1>7. g \in Seq(S) /\ Len(g) = n /\ DOMAIN g = 1 .. n
    BY <1>1, <1>4 DEF g
  <1>8. \A x \in S : \E i \in 1 .. n : g[i] = x
    BY <1>6 DEF Surjection
  <1> QED
    BY <1>1, <1>7, <1>8 DEF g

\* The batches of a set are small parts of it, and together the whole set: an
\* announcement leaves no torrent out.
LEMMA BatchesFacts ==
    ASSUME NEW S, IsFiniteSet(S)
    PROVE  /\ UNION Batches(S) = S
           /\ \A B \in Batches(S) : B \subseteq S /\ IsFiniteSet(B)
                                    /\ Cardinality(B) \in 1 .. MaxBatch
  <1> DEFINE list == SetToSeq(S)
             n == Len(list)
             starts == {i \in 0 .. n : i < n /\ i % MaxBatch = 0}
             K(i) == {k \in DOMAIN list : k > i /\ k <= i + MaxBatch}
             batch(i) == {list[j] : j \in K(i)}
  <1>1. MaxBatch \in Nat \ {0}
    BY DiscoveryAssumption
  <1>2. /\ list \in Seq(S) /\ n \in Nat /\ DOMAIN list = 1 .. n
        /\ \A x \in S : \E i \in 1 .. n : list[i] = x
    BY SeqOfSet
  <1>3. Batches(S) = {batch(i) : i \in starts}
    BY DEF Batches
  <1> HIDE DEF list, n
  <1>4. \A j \in 1 .. n : list[j] \in S
    BY <1>2
  <1>5. ASSUME NEW i \in starts
        PROVE  batch(i) \subseteq S /\ IsFiniteSet(batch(i)) /\ Cardinality(batch(i)) \in 1 .. MaxBatch
    <2>1. K(i) \subseteq 1 .. n /\ K(i) \subseteq i + 1 .. i + MaxBatch /\ i + 1 \in K(i)
      BY <1>1, <1>2
    <2>2. IsFiniteSet(i + 1 .. i + MaxBatch) /\ Cardinality(i + 1 .. i + MaxBatch) = MaxBatch
      BY <1>1, <1>2, FS_Interval
    <2> DEFINE k == K(i)
               b == batch(i)
               f == [j \in k |-> list[j]]
    <2> HIDE DEF K
    <2>3. f \in Surjection(k, b)
      BY DEF Surjection
    <2> HIDE DEF k, f, b
    <2>4. IsFiniteSet(k) /\ Cardinality(k) <= MaxBatch
      BY <2>1, <2>2, FS_Subset DEF k
    <2>5. IsFiniteSet(b) /\ Cardinality(b) <= Cardinality(k)
      BY <2>3, <2>4, FS_Surjection
    <2>6. Cardinality(b) # 0
      <3>1. list[i + 1] \in b
        BY <2>1 DEF b
      <3> QED
        BY <2>5, <3>1, FS_EmptySet
    <2>7. Cardinality(b) \in Nat /\ Cardinality(k) \in Nat
      BY <2>4, <2>5, FS_CardinalityType
    <2>8. b \subseteq S
      BY <1>4, <2>1 DEF b
    <2>9. Cardinality(b) \in 1 .. MaxBatch
      BY <1>1, <2>4, <2>5, <2>6, <2>7
    <2> QED
      BY <2>5, <2>8, <2>9 DEF b
  \* Each place of the list is in the batch of the last multiple before it.
  <1>6. ASSUME NEW j \in 1 .. n
        PROVE  \E i \in starts : j \in K(i)
    <2> DEFINE T == {k \in Nat : \E i \in Nat : i <= k /\ k < i + MaxBatch /\ i % MaxBatch = 0}
    <2>1. 0 \in T
      BY <1>1
    <2>2. ASSUME NEW k \in Nat, k \in T PROVE k + 1 \in T
      <3>1. PICK i \in Nat : i <= k /\ k < i + MaxBatch /\ i % MaxBatch = 0
        BY <2>2
      <3>2. CASE k + 1 < i + MaxBatch
        BY <3>1, <3>2
      <3>3. CASE k + 1 = i + MaxBatch
        <4>1. (i + MaxBatch) % MaxBatch = 0
          BY <1>1, <3>1, NextMultiple
        <4>2. i + MaxBatch \in Nat /\ i + MaxBatch <= k + 1 /\ k + 1 < (i + MaxBatch) + MaxBatch
          BY <1>1, <3>3
        <4> QED
          BY <4>1, <4>2
      <3> QED
        BY <1>1, <3>1, <3>2, <3>3
    <2> HIDE DEF T
    <2>3. j - 1 \in T
      <3>1. Nat \subseteq T
        BY <2>1, <2>2, Induction
      <3> QED
        BY <1>2, <3>1
    <2>4. PICK i \in Nat : i <= j - 1 /\ j - 1 < i + MaxBatch /\ i % MaxBatch = 0
      BY <2>3 DEF T
    <2>5. i \in starts /\ j \in K(i)
      BY <1>1, <1>2, <2>4
    <2> QED
      BY <2>5
  <1>7. S \subseteq UNION Batches(S)
    <2> SUFFICES ASSUME NEW x \in S PROVE x \in UNION Batches(S)
      OBVIOUS
    <2>1. PICK j \in 1 .. n : list[j] = x
      BY <1>2
    <2>2. PICK i \in starts : j \in K(i)
      BY <1>6
    <2> HIDE DEF starts, K
    <2> QED
      BY <1>3, <2>1, <2>2
  <1> HIDE DEF batch, starts
  <1>8. \A B \in Batches(S) : \E i \in starts : B = batch(i)
    BY <1>3
  <1> QED
    BY <1>5, <1>7, <1>8

\* What a packet tells: peers for torrents that the node announces.
LEMMA NewsType ==
    ASSUME NEW n \in Nodes, NEW p \in Packets
    PROVE  News(n, p) \in Seq(Found)
  <1>1. CASE p.from = n
    BY <1>1 DEF News
  <1>2. CASE p.from # n
    <2> DEFINE S == p.hashes \cap active[n]
               wanted == SetToSeq(S)
    <2>1. S \subseteq Hashes /\ IsFiniteSet(S) /\ p.from \in Nodes
      BY FS_Subset, DiscoveryAssumption DEF Packets
    <2> HIDE DEF S
    <2>2. /\ wanted \in Seq(S) /\ Len(wanted) \in Nat
          /\ DOMAIN wanted = 1 .. Len(wanted)
      BY <2>1, SeqOfSet
    <2>3. News(n, p) = [i \in DOMAIN wanted |-> <<p.from, wanted[i]>>]
      BY <1>2 DEF News, S
    <2> HIDE DEF wanted
    <2>4. \A i \in 1 .. Len(wanted) : wanted[i] \in Hashes
      BY <2>1, <2>2
    <2>5. News(n, p) \in [1 .. Len(wanted) -> Found]
      BY <2>1, <2>2, <2>3, <2>4 DEF Found
    <2> QED
      BY <2>2, <2>5
  <1> QED
    BY <1>1, <1>2

-----------------------------------------------------------------------------
(* The inductive invariant *)

\* Until it stops, a LocalDiscovery that exists announces what is registered.
InStep ==
    \A n \in Nodes : /\ lsd[n] = "off" => sessions[n] = {}
                     /\ lsd[n] \in {"off", "starting", "up"} => active[n] = sessions[n]

IInv == TypeOK /\ InStep

LEMMA InitInv == Init => IInv
  <1> SUFFICES ASSUME Init PROVE IInv
    OBVIOUS
  <1>1. MaxFound \in Nat /\ QueueSize \in Nat
    BY DiscoveryAssumption
  <1>2. TypeOK
    BY <1>1 DEF Init, TypeOK
  <1>3. InStep
    BY DEF Init, InStep
  <1> QED
    BY <1>2, <1>3 DEF IInv

\* What a removal leaves of a node's connections, and what one more adds.
LEMMA OrphanedType ==
    ASSUME NEW C \in SUBSET Conns, NEW h
    PROVE  Orphaned(C, h) \subseteq Conns
  <1>1. ASSUME NEW c \in C
        PROVE  (IF c.to[2] = h /\ c.at # "task" THEN [c EXCEPT !.gone = TRUE] ELSE c) \in Conns
    BY DEF Conns
  <1> QED
    BY <1>1 DEF Orphaned

LEMMA ConnType ==
    ASSUME NEW f \in Found, NEW at \in Stages
    PROVE  Conn(f, at) \in Conns
  BY DEF Conn, Conns

\* Steps of the client that leave the network and the queues alone.
LEMMA ClientStep ==
    ASSUME IInv, NEW n \in Nodes, UNCHANGED <<lan, queues>>,
           \/ Start(n) \/ Started(n) \/ Stop(n)
           \/ \E h \in Hashes : Register(n, h) \/ RemoveTorrent(n, h)
    PROVE  IInv'
  <1> USE DEF IInv
  <1>1. CASE Start(n) \/ Started(n) \/ Stop(n)
    <2>1. /\ lsd' \in [Nodes -> {"off", "starting", "up", "stopping", "none"}]
          /\ sessions' = sessions /\ conns' = conns
      BY <1>1 DEF TypeOK, Start, Started, Stop
    <2>2. active' \in [Nodes -> SUBSET Hashes]
      BY <1>1 DEF TypeOK, Start, Started, Stop
    <2>3. TypeOK'
      BY <2>1, <2>2 DEF TypeOK, queues
    <2>4. InStep'
      <3>1. CASE Start(n)
        <4>1. lsd' = [lsd EXCEPT ![n] = "starting"] /\ lsd[n] = "off" /\ UNCHANGED <<sessions, active>>
          BY <3>1 DEF Start
        <4> QED
          BY <4>1 DEF InStep, TypeOK
      <3>2. CASE Started(n)
        <4>1. /\ lsd' = [lsd EXCEPT ![n] = "up"] /\ lsd[n] = "starting" /\ sessions' = sessions
              /\ active' = [active EXCEPT ![n] = active[n] \cup sessions[n]]
          BY <3>2 DEF Started, TypeOK
        <4>2. active' = active
          BY <4>1 DEF InStep, TypeOK
        <4> QED
          BY <4>1, <4>2 DEF InStep, TypeOK
      <3>3. CASE Stop(n)
        <4>1. lsd' = [lsd EXCEPT ![n] = "stopping"] /\ UNCHANGED <<sessions, active>>
          BY <3>3 DEF Stop
        <4> QED
          BY <4>1 DEF InStep, TypeOK
      <3> QED
        BY <1>1, <3>1, <3>2, <3>3
    <2> QED
      BY <2>3, <2>4
  <1>2. ASSUME NEW h \in Hashes, Register(n, h) PROVE IInv'
    <2>1. /\ sessions' = [sessions EXCEPT ![n] = @ \cup {h}]
          /\ lsd' = lsd /\ conns' = conns
      BY <1>2 DEF Register
    <2>2. active' \in [Nodes -> SUBSET Hashes]
      BY <1>2 DEF TypeOK, Register
    <2>3. TypeOK'
      BY <2>1, <2>2 DEF TypeOK, queues
    <2>4. InStep'
      BY <1>2 DEF InStep, TypeOK, Register, Running, HasLsd
    <2> QED
      BY <2>3, <2>4
  <1>3. ASSUME NEW h \in Hashes, RemoveTorrent(n, h) PROVE IInv'
    <2>1. /\ sessions' = [sessions EXCEPT ![n] = @ \ {h}]
          /\ conns' = [conns EXCEPT ![n] = Orphaned(conns[n], h)]
          /\ lsd' = lsd
      BY <1>3 DEF RemoveTorrent, TypeOK
    <2>2. active' \in [Nodes -> SUBSET Hashes]
      BY <1>3 DEF TypeOK, RemoveTorrent
    <2>3. conns' \in [Nodes -> SUBSET Conns]
      <3>1. Orphaned(conns[n], h) \in SUBSET Conns
        BY OrphanedType DEF TypeOK
      <3> QED
        BY <2>1, <3>1 DEF TypeOK
    <2>4. TypeOK'
      BY <2>1, <2>2, <2>3 DEF TypeOK, queues
    <2>5. InStep'
      BY <1>3 DEF InStep, TypeOK, RemoveTorrent, Running, HasLsd
    <2> QED
      BY <2>4, <2>5
  <1> QED
    BY <1>1, <1>2, <1>3

\* Steps that change only datagrams, what waits to be looked at, and connections.
LEMMA TrafficStep ==
    ASSUME IInv, UNCHANGED <<lsd, sessions, active>>,
           \A p \in lan' : p \in Packets /\ Cardinality(p.hashes) \in 1 .. MaxBatch,
           recvq' \in [Nodes -> Seq(Packets)],
           \A n \in Nodes : Len(recvq'[n]) <= QueueSize,
           peerq' \in [Nodes -> Seq(Found)], \A n \in Nodes : Len(peerq'[n]) <= MaxFound,
           conns' \in [Nodes -> SUBSET Conns]
    PROVE  IInv'
  BY DEF IInv, TypeOK, InStep

\* Steps of a node's dials and connections.
LEMMA ConnStep ==
    ASSUME IInv, NEW n \in Nodes, NEW C \in SUBSET Conns,
           conns' = [conns EXCEPT ![n] = C],
           UNCHANGED <<lsd, sessions, active, lan, queues>>
    PROVE  IInv'
  <1>1. conns' \in [Nodes -> SUBSET Conns]
    BY DEF IInv, TypeOK
  <1> QED
    BY <1>1, TrafficStep DEF IInv, TypeOK, queues

LEMMA NextInv == ASSUME IInv, [Next]_vars PROVE IInv'
  <1> USE DEF IInv
  <1>1. ASSUME NEW n \in Nodes,
               \/ Start(n) \/ Started(n) \/ Stop(n)
               \/ \E h \in Hashes : Register(n, h) \/ RemoveTorrent(n, h)
        PROVE  IInv'
    <2>1. UNCHANGED <<lan, queues>>
      BY <1>1 DEF Start, Started, Stop, Register, RemoveTorrent
    <2> QED
      BY <1>1, <2>1, ClientStep
  <1>2. ASSUME NEW n \in Nodes, StartFails(n) PROVE IInv'
    <2>1. QueueSize \in Nat
      BY DiscoveryAssumption
    <2>2. TypeOK'
      BY <1>2, <2>1 DEF StartFails, TypeOK
    <2> QED
      BY <1>2, <2>2 DEF StartFails, InStep, TypeOK
  <1>3. ASSUME NEW n \in Nodes, Stopped(n) PROVE IInv'
    <2>1. QueueSize \in Nat /\ MaxFound \in Nat
      BY DiscoveryAssumption
    <2>2. TypeOK'
      BY <1>3, <2>1 DEF Stopped, TypeOK
    <2>3. InStep'
      BY <1>3 DEF Stopped, InStep, TypeOK
    <2> QED
      BY <2>2, <2>3
  <1>4. ASSUME NEW n \in Nodes, AnnounceRound(n) PROVE IInv'
    <2>1. IsFiniteSet(active[n]) /\ active[n] \subseteq Hashes
      BY FS_Subset, DiscoveryAssumption DEF TypeOK
    <2>2. \A B \in Batches(active[n]) : B \subseteq Hashes /\ Cardinality(B) \in 1 .. MaxBatch
      BY <2>1, BatchesFacts
    <2>3. /\ lan' = lan \cup {Packet(n, B) : B \in Batches(active[n])}
          /\ UNCHANGED <<lsd, sessions, active, queues, conns>>
      BY <1>4 DEF AnnounceRound
    <2>4. \A p \in lan' : p \in Packets /\ Cardinality(p.hashes) \in 1 .. MaxBatch
      BY <2>2, <2>3 DEF Packet, Packets, TypeOK
    <2> QED
      BY <2>3, <2>4, TrafficStep DEF TypeOK, queues
  <1>5. ASSUME NEW p \in lan, Lose(p) PROVE IInv'
    <2>1. lan' = lan \ {p} /\ UNCHANGED <<lsd, sessions, active, queues, conns>>
      BY <1>5 DEF Lose
    <2> QED
      BY <2>1, TrafficStep DEF TypeOK, queues
  <1>6. ASSUME NEW n \in Nodes, NEW p \in lan, Receive(n, p) PROVE IInv'
    <2>1. UNCHANGED <<lsd, sessions, active, peerq, conns>>
      BY <1>6 DEF Receive
    <2>2. CASE Len(recvq[n]) < QueueSize
      <3>1. recvq' = [recvq EXCEPT ![n] = Append(recvq[n], p)] /\ lan' = lan
        BY <1>6, <2>2 DEF Receive, TypeOK
      <3>2. p \in Packets /\ QueueSize \in Nat /\ recvq[n] \in Seq(Packets)
        BY DiscoveryAssumption DEF TypeOK
      <3>3. Append(recvq[n], p) \in Seq(Packets) /\ Len(Append(recvq[n], p)) <= QueueSize
        BY <2>2, <3>2
      <3>4. recvq' \in [Nodes -> Seq(Packets)] /\ \A m \in Nodes : Len(recvq'[m]) <= QueueSize
        BY <3>1, <3>3 DEF TypeOK
      <3> QED
        BY <2>1, <3>1, <3>4, TrafficStep DEF TypeOK
    <2>3. CASE ~(Len(recvq[n]) < QueueSize)
      <3>1. lan' = lan \ {p} /\ recvq' = recvq
        BY <1>6, <2>3 DEF Receive
      <3> QED
        BY <2>1, <3>1, TrafficStep DEF TypeOK
    <2> QED
      BY <2>2, <2>3
  <1>7. ASSUME NEW n \in Nodes, Listen(n) PROVE IInv'
    <2> DEFINE q == recvq[n]
               news == News(n, Head(q))
               found == peerq[n] \o news
    <2>1. /\ q # <<>> /\ Len(peerq[n]) + Len(news) <= MaxFound
          /\ peerq' = [peerq EXCEPT ![n] = found]
          /\ recvq' = [recvq EXCEPT ![n] = Tail(q)]
          /\ UNCHANGED <<lsd, sessions, active, lan, conns>>
      BY <1>7 DEF Listen, TypeOK
    <2>2. q \in Seq(Packets) /\ peerq[n] \in Seq(Found) /\ Len(q) <= QueueSize /\ QueueSize \in Nat
      BY DiscoveryAssumption DEF TypeOK
    <2> HIDE DEF q
    <2>3. Head(q) \in Packets /\ Tail(q) \in Seq(Packets) /\ Len(Tail(q)) <= QueueSize
      BY <2>1, <2>2
    <2>4. news \in Seq(Found)
      BY <2>3, NewsType
    <2> HIDE DEF news
    <2>5. found \in Seq(Found) /\ Len(found) = Len(peerq[n]) + Len(news)
      BY <2>2, <2>4, ConcatProperties
    <2> HIDE DEF found
    <2>6. /\ recvq' \in [Nodes -> Seq(Packets)] /\ \A m \in Nodes : Len(recvq'[m]) <= QueueSize
          /\ peerq' \in [Nodes -> Seq(Found)] /\ \A m \in Nodes : Len(peerq'[m]) <= MaxFound
      BY <2>1, <2>3, <2>5 DEF TypeOK
    <2> QED
      BY <2>1, <2>6, TrafficStep DEF TypeOK
  <1>8. ASSUME NEW n \in Nodes, Consume(n) PROVE IInv'
    <2> DEFINE q == peerq[n]
               task == Conn(Head(q), "task")
    <2>1. /\ q # <<>> /\ peerq' = [peerq EXCEPT ![n] = Tail(q)]
          /\ UNCHANGED <<lsd, sessions, active, lan, recvq>>
          /\ conns' = conns \/ conns' = [conns EXCEPT ![n] = conns[n] \cup {task}]
      BY <1>8 DEF Consume, TypeOK
    <2>2. q \in Seq(Found) /\ Len(q) <= MaxFound /\ MaxFound \in Nat
      BY DiscoveryAssumption DEF TypeOK
    <2> HIDE DEF q
    <2>3. Head(q) \in Found /\ Tail(q) \in Seq(Found) /\ Len(Tail(q)) <= MaxFound
      BY <2>1, <2>2
    <2>4. task \in Conns
      BY <2>3, ConnType DEF Stages
    <2> HIDE DEF task
    <2>5. conns' \in [Nodes -> SUBSET Conns]
      BY <2>1, <2>4 DEF TypeOK
    <2>6. peerq' \in [Nodes -> Seq(Found)] /\ \A m \in Nodes : Len(peerq'[m]) <= MaxFound
      BY <2>1, <2>3 DEF TypeOK
    <2> QED
      BY <2>1, <2>5, <2>6, TrafficStep DEF TypeOK
  <1>9. ASSUME NEW n \in Nodes, NEW c \in conns[n],
               AddPeer(n, c.to) \/ Connected(n, c) \/ Disconnect(n, c)
        PROVE  IInv'
    <2>1. c \in Conns /\ conns[n] \subseteq Conns
      BY DEF TypeOK
    <2>2. CASE AddPeer(n, c.to)
      <3> DEFINE more == IF Running(n) /\ Wants(n, c.to) THEN {Conn(c.to, "dialling")} ELSE {}
                 C == (conns[n] \ {Conn(c.to, "task")}) \cup more
      <3>1. conns' = [conns EXCEPT ![n] = C] /\ UNCHANGED <<lsd, sessions, active, lan, queues>>
        BY <2>2 DEF AddPeer, TypeOK
      <3>2. more \subseteq Conns
        <4>1. Conn(c.to, "dialling") \in Conns
          BY <2>1, ConnType DEF Conns, Stages
        <4> QED
          BY <4>1
      <3> HIDE DEF more
      <3>3. C \in SUBSET Conns
        BY <2>1, <3>2
      <3> QED
        BY <3>1, <3>3, ConnStep
    <2>3. CASE Connected(n, c)
      <3> DEFINE C == (conns[n] \ {c}) \cup {[c EXCEPT !.at = "up"]}
      <3>1. conns' = [conns EXCEPT ![n] = C] /\ UNCHANGED <<lsd, sessions, active, lan, queues>>
        BY <2>3 DEF Connected, TypeOK
      <3>2. [c EXCEPT !.at = "up"] \in Conns
        BY <2>1 DEF Conns, Stages
      <3>3. C \in SUBSET Conns
        BY <2>1, <3>2
      <3> QED
        BY <3>1, <3>3, ConnStep
    <2>4. CASE Disconnect(n, c)
      <3> DEFINE C == conns[n] \ {c}
      <3>1. conns' = [conns EXCEPT ![n] = C] /\ UNCHANGED <<lsd, sessions, active, lan, queues>>
        BY <2>4 DEF Disconnect, TypeOK
      <3>2. C \in SUBSET Conns
        BY <2>1
      <3> QED
        BY <3>1, <3>2, ConnStep
    <2> QED
      BY <1>9, <2>2, <2>3, <2>4
  <1>10. CASE UNCHANGED vars
    <2>1. UNCHANGED <<lsd, sessions, active, lan, recvq, peerq, conns>>
      BY <1>10 DEF vars, queues
    <2> QED
      BY <2>1 DEF TypeOK, InStep
  <1> QED
    BY <1>1, <1>2, <1>3, <1>4, <1>5, <1>6, <1>7, <1>8, <1>9, <1>10 DEF Next

LEMMA Invariance == Spec => []IInv
  <1>1. IInv /\ [Next]_vars => IInv'
    BY NextInv
  <1> QED
    BY InitInv, <1>1, PTL DEF Spec

-----------------------------------------------------------------------------
(* Theorems *)

\* The types hold: among others, no packet is empty or holds more info hashes
\* than one may, and the receive queue keeps its bound
\* (discovery.py:199-206, 503-538).
THEOREM Typed == Spec => []TypeOK
  <1>1. IInv => TypeOK
    BY DEF IInv
  <1> QED
    BY Invariance, <1>1, PTL

\* The packets of a round name each torrent that is registered and none that
\* has been removed, whatever their number, the size of a packet, and what
\* happened while LocalDiscovery started (client.py:735-736, 880-881, 1030-1032,
\* discovery.py:493-538).
THEOREM RoundTellsAll == Spec => RoundsTellWhatIsHere
  <1> DEFINE Tells == \A n \in Nodes : AnnounceRound(n) =>
                /\ \A h \in sessions[n] : \E p \in lan' : p.from = n /\ h \in p.hashes
                /\ \A p \in lan' \ lan : p.hashes \subseteq sessions[n]
  <1>1. ASSUME IInv PROVE Tells
    <2> SUFFICES ASSUME NEW n \in Nodes, AnnounceRound(n)
                 PROVE  /\ \A h \in sessions[n] : \E p \in lan' : p.from = n /\ h \in p.hashes
                        /\ \A p \in lan' \ lan : p.hashes \subseteq sessions[n]
      OBVIOUS
    <2>1. /\ active[n] = sessions[n] /\ IsFiniteSet(active[n])
          /\ lan' = lan \cup {Packet(n, B) : B \in Batches(active[n])}
      BY <1>1, FS_Subset, DiscoveryAssumption DEF AnnounceRound, IInv, InStep, TypeOK
    <2>2. UNION Batches(active[n]) = active[n]
      BY <2>1, BatchesFacts
    <2>3. \A B : Packet(n, B).from = n /\ Packet(n, B).hashes = B
      BY DEF Packet
    <2>4. ASSUME NEW h \in sessions[n] PROVE \E p \in lan' : p.from = n /\ h \in p.hashes
      <3>1. PICK B \in Batches(active[n]) : h \in B
        BY <2>1, <2>2
      <3>2. Packet(n, B) \in lan'
        BY <2>1
      <3> QED
        BY <2>3, <3>1, <3>2
    <2>5. ASSUME NEW p \in lan' \ lan PROVE p.hashes \subseteq sessions[n]
      <3>1. PICK B \in Batches(active[n]) : p = Packet(n, B)
        BY <2>1
      <3> QED
        BY <2>1, <2>2, <2>3, <3>1
    <2> QED
      BY <2>4, <2>5
  <1>2. Spec => []IInv
    BY Invariance
  <1>3. IInv => Tells
    BY <1>1
  <1>4. Spec => [][Tells]_vars
    BY <1>2, <1>3, PTL
  <1> QED
    BY <1>4 DEF RoundsTellWhatIsHere
=============================================================================
