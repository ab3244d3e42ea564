--------------------------- MODULE ChokingProofs ---------------------------
(***************************************************************************)
(* Proofs about Choking: the type invariant, the optimistic slot, what a   *)
(* finished round leaves unchoked, and the bound on the slots.             *)
(***************************************************************************)
EXTENDS Choking, DataProofs

(* Sequences *)

\* The place of an address is that of an entry with it, if there is one.
LEMMA PlaceOfFacts ==
    ASSUME NEW s \in Seq(Conns), NEW a
    PROVE  /\ PlaceOf(s, a) \in 0 .. Len(s)
           /\ PlaceOf(s, a) # 0 => AddrOf[s[PlaceOf(s, a)]] = a
           /\ PlaceOf(s, a) = 0 => \A i \in 1 .. Len(s) : AddrOf[s[i]] # a
  <1> DEFINE I == {i \in 1 .. Len(s) : AddrOf[s[i]] = a}
  <1>1. PlaceOf(s, a) = IF I # {} THEN Min(I) ELSE 0
    BY DEF PlaceOf, SelectInSeq
  <1>2. I # {} => Min(I) \in I
    <2>1. I \in SUBSET Nat
      OBVIOUS
    <2> HIDE DEF I
    <2> QED
      BY <2>1, MinFacts
  <1>3. CASE I # {}
    BY <1>1, <1>2, <1>3
  <1>4. CASE I = {}
    <2>1. \A i \in 1 .. Len(s) : AddrOf[s[i]] # a
      BY <1>4
    <2> QED
      BY <1>1, <1>4, <2>1
  <1> QED
    BY <1>3, <1>4

LEMMA FirstTurnedFacts ==
    ASSUME NEW s \in Seq(Conns), NEW n \in Nat, NEW g,
           NEW i, i = FirstTurned(s, n, g)
    PROVE  /\ i \in 0 .. Len(s) /\ i <= n
           /\ i # 0 => /\ Turned(s[i], g)
                       /\ \A j \in 1 .. i - 1 : ~Turned(s[j], g)
           /\ i = 0 /\ Len(s) <= n => \A j \in 1 .. Len(s) : ~Turned(s[j], g)
  <1> DEFINE m == IF n < Len(s) THEN n ELSE Len(s)
             r == SubSeq(s, 1, m)
             I == {j \in 1 .. Len(r) : Turned(r[j], g)}
  <1>1. m \in Nat /\ m <= Len(s) /\ m <= n
    OBVIOUS
  <1>2. Len(r) = m /\ \A j \in 1 .. m : r[j] = s[j]
    <2>1. \A j \in 1 .. m : s[j] \in Conns
      BY <1>1, ElementOfSeq
    <2> HIDE DEF m
    <2> QED
      BY <1>1, <2>1, SubSeqProperties
  <1>3. i = IF I # {} THEN Min(I) ELSE 0
    BY DEF FirstTurned, SelectInSeq
  <1> HIDE DEF m, r
  <1>4. I = {j \in 1 .. m : Turned(s[j], g)}
    BY <1>2
  <1>5. I # {} => Min(I) \in I /\ \A y \in I : Min(I) <= y
    <2>1. I \in SUBSET Nat
      BY <1>1, <1>4
    <2> HIDE DEF I
    <2> QED
      BY <2>1, MinFacts
  <1>6. CASE I # {}
    <2>1. i \in I /\ \A y \in I : i <= y
      BY <1>3, <1>5, <1>6
    <2>2. i \in 1 .. m /\ Turned(s[i], g)
      BY <1>4, <2>1
    <2>3. \A j \in 1 .. m : Turned(s[j], g) => i <= j
      BY <1>4, <2>1
    <2>4. \A j \in 1 .. i - 1 : j \in 1 .. m /\ ~(i <= j)
      BY <1>1, <2>2
    <2> QED
      BY <1>1, <2>2, <2>3, <2>4
  <1>7. CASE I = {}
    BY <1>1, <1>3, <1>4, <1>7 DEF m
  <1> QED
    BY <1>6, <1>7

-----------------------------------------------------------------------------
(* The dict *)

\* Removing an address leaves the entries of the others.
LEMMA WithoutFacts ==
    ASSUME NEW s \in Seq(Conns), NEW a
    PROVE  /\ Without(s, a) \in Seq(Conns)
           /\ \A c \in ToSet(s) : AddrOf[c] # a => c \in ToSet(Without(s, a))
           /\ OnePerAddress(s) => OnePerAddress(Without(s, a))
  <1> DEFINE i == PlaceOf(s, a)
             t == Without(s, a)
  <1>1. i \in 0 .. Len(s) /\ (i # 0 => AddrOf[s[i]] = a)
    BY PlaceOfFacts
  <1>2. CASE i = 0
    BY <1>2 DEF Without
  <1>3. CASE i # 0
    <2> DEFINE u == SubSeq(s, 1, i - 1)
               v == SubSeq(s, i + 1, Len(s))
    <2>1. t = u \o v
      BY <1>3 DEF Without, RemoveAt
    <2> HIDE DEF i, t
    <2>2. \A j \in 1 .. Len(s) : s[j] \in Conns
      BY ElementOfSeq
    <2>3. u \in Seq(Conns) /\ Len(u) = i - 1 /\ \A j \in 1 .. i - 1 : u[j] = s[j]
      BY <1>1, <1>3, <2>2, SubSeqProperties
    <2>4. /\ v \in Seq(Conns) /\ Len(v) = Len(s) - i
          /\ \A j \in 1 .. Len(s) - i : v[j] = s[i + j]
      <3>1. \A j \in i + 1 .. Len(s) : s[j] \in Conns
        BY <1>1, <2>2
      <3>2. /\ v \in Seq(Conns)
            /\ Len(v) = IF i + 1 <= Len(s) THEN Len(s) - (i + 1) + 1 ELSE 0
            /\ \A j \in 1 .. Len(s) - (i + 1) + 1 : v[j] = s[(i + 1) + j - 1]
        BY <1>1, <3>1, SubSeqProperties
      <3> QED
        BY <1>1, <1>3, <3>2
    <2> HIDE DEF u, v
    <2>5. /\ t \in Seq(Conns) /\ Len(t) = Len(s) - 1
          /\ \A j \in 1 .. Len(s) - 1 : t[j] = IF j <= i - 1 THEN u[j] ELSE v[j - (i - 1)]
      <3>1. Len(u) + Len(v) = Len(s) - 1
        BY <1>1, <2>3, <2>4
      <3>2. /\ t \in Seq(Conns) /\ Len(t) = Len(u) + Len(v)
            /\ \A j \in 1 .. Len(u) + Len(v) :
                  t[j] = IF j <= Len(u) THEN u[j] ELSE v[j - Len(u)]
        BY <2>1, <2>3, <2>4, ConcatProperties
      <3> QED
        BY <2>3, <3>1, <3>2
    <2>6. ASSUME NEW j \in 1 .. Len(s) - 1
          PROVE  t[j] = IF j < i THEN s[j] ELSE s[j + 1]
      <3>1. CASE j < i
        <4>1. j \in 1 .. i - 1 /\ j <= i - 1
          BY <1>1, <3>1
        <4> QED
          BY <2>3, <2>5, <3>1, <4>1
      <3>2. CASE ~(j < i)
        <4>1. /\ j - (i - 1) \in 1 .. Len(s) - i /\ ~(j <= i - 1)
              /\ i + (j - (i - 1)) = j + 1
          BY <1>1, <1>3, <3>2
        <4>2. t[j] = v[j - (i - 1)]
          BY <2>5, <4>1
        <4> QED
          BY <2>4, <3>2, <4>1, <4>2
      <3> QED
        BY <3>1, <3>2
    <2>7. ASSUME NEW c \in ToSet(s), AddrOf[c] # a
          PROVE  c \in ToSet(t)
      <3>1. PICK k \in 1 .. Len(s) : c = s[k]
        BY DEF ToSet
      <3>2. k # i
        BY <1>1, <1>3, <2>7, <3>1
      <3>3. CASE k < i
        <4>1. k \in 1 .. Len(s) - 1
          BY <1>1, <1>3, <3>3
        <4>2. t[k] = c
          BY <2>6, <3>1, <3>3, <4>1
        <4>3. k \in DOMAIN t
          BY <2>5, <4>1
        <4> QED
          BY <4>2, <4>3 DEF ToSet
      <3>4. CASE k > i
        <4>1. k - 1 \in 1 .. Len(s) - 1 /\ ~(k - 1 < i) /\ (k - 1) + 1 = k
          BY <1>1, <1>3, <3>4
        <4>2. t[k - 1] = c
          BY <2>6, <3>1, <4>1
        <4>3. k - 1 \in DOMAIN t
          BY <2>5, <4>1
        <4> QED
          BY <4>2, <4>3 DEF ToSet
      <3> QED
        BY <1>1, <3>2, <3>3, <3>4
    <2>8. ASSUME OnePerAddress(s)
          PROVE  OnePerAddress(t)
      <3> SUFFICES ASSUME NEW j \in 1 .. Len(s) - 1, NEW k \in 1 .. Len(s) - 1,
                          AddrOf[t[j]] = AddrOf[t[k]]
                   PROVE  j = k
        BY <2>5 DEF OnePerAddress
      <3> DEFINE jj == IF j < i THEN j ELSE j + 1
                 kk == IF k < i THEN k ELSE k + 1
      <3>1. jj \in 1 .. Len(s) /\ kk \in 1 .. Len(s)
        OBVIOUS
      <3>2. AddrOf[s[jj]] = AddrOf[s[kk]]
        BY <2>6
      <3>3. jj = kk
        BY <2>8, <3>1, <3>2 DEF OnePerAddress
      <3> QED
        BY <1>1, <3>3
    <2> QED
      BY <2>5, <2>7, <2>8 DEF t
  <1> QED
    BY <1>2, <1>3

\* An assignment to a key that is there changes that entry only.
LEMMA ReplacedFacts ==
    ASSUME NEW s \in Seq(Conns), NEW c \in Conns
    PROVE  /\ Replaced(s, c) \in Seq(Conns)
           /\ \A d \in ToSet(s) : AddrOf[d] # AddrOf[c] => d \in ToSet(Replaced(s, c))
           /\ PlaceOf(s, AddrOf[c]) # 0 => c \in ToSet(Replaced(s, c))
           /\ OnePerAddress(s) => OnePerAddress(Replaced(s, c))
  <1> DEFINE i == PlaceOf(s, AddrOf[c])
             t == Replaced(s, c)
  <1>1. i \in 0 .. Len(s) /\ (i # 0 => AddrOf[s[i]] = AddrOf[c])
    BY PlaceOfFacts
  <1>2. CASE i = 0
    BY <1>2 DEF Replaced
  <1>3. CASE i # 0
    <2>1. t = [s EXCEPT ![i] = c]
      BY <1>3 DEF Replaced
    <2> HIDE DEF i, t
    <2>2. t \in Seq(Conns) /\ Len(t) = Len(s) /\ DOMAIN t = DOMAIN s
      BY <1>1, <1>3, <2>1
    <2>3. \A j \in 1 .. Len(s) : t[j] = IF j = i THEN c ELSE s[j]
      BY <2>1
    <2>4. c \in ToSet(t)
      BY <1>1, <1>3, <2>2, <2>3 DEF ToSet
    <2>5. \A d \in ToSet(s) : AddrOf[d] # AddrOf[c] => d \in ToSet(t)
      BY <1>1, <1>3, <2>2, <2>3 DEF ToSet
    <2>6. OnePerAddress(s) => OnePerAddress(t)
      <3>1. \A j \in 1 .. Len(s) : AddrOf[t[j]] = AddrOf[s[j]]
        BY <1>1, <1>3, <2>3
      <3> QED
        BY <2>2, <3>1 DEF OnePerAddress
    <2> QED
      BY <2>2, <2>4, <2>5, <2>6 DEF t
  <1> QED
    BY <1>2, <1>3 DEF i

LEMMA AppendFacts ==
    ASSUME NEW s \in Seq(Conns), NEW c \in Conns
    PROVE  /\ Append(s, c) \in Seq(Conns)
           /\ ToSet(Append(s, c)) = ToSet(s) \cup {c}
           /\ OnePerAddress(s) /\ PlaceOf(s, AddrOf[c]) = 0
                 => OnePerAddress(Append(s, c))
  <1> DEFINE t == Append(s, c)
  <1>1. /\ t \in Seq(Conns) /\ Len(t) = Len(s) + 1
        /\ \A j \in 1 .. Len(s) : t[j] = s[j]
        /\ t[Len(s) + 1] = c
    BY AppendProperties
  <1> HIDE DEF t
  <1>2. ToSet(t) = ToSet(s) \cup {c}
    BY <1>1 DEF ToSet
  <1>3. ASSUME OnePerAddress(s), PlaceOf(s, AddrOf[c]) = 0
        PROVE  OnePerAddress(t)
    <2>1. \A j \in 1 .. Len(s) : AddrOf[s[j]] # AddrOf[c]
      BY <1>3, PlaceOfFacts
    <2>2. \A j, k \in 1 .. Len(s) : AddrOf[s[j]] = AddrOf[s[k]] => j = k
      BY <1>3 DEF OnePerAddress
    <2>3. \A j \in 1 .. Len(s) + 1 : j \in 1 .. Len(s) \/ j = Len(s) + 1
      OBVIOUS
    <2> QED
      BY <1>1, <2>1, <2>2, <2>3 DEF OnePerAddress
  <1> QED
    BY <1>1, <1>2, <1>3 DEF t

\* An address is registered when one of the entries has it.
LEMMA RegisteredIsPresent ==
    ASSUME entries \in Seq(Conns), NEW a
    PROVE  Registered(a) <=> \E c \in ToSet(entries) : AddrOf[c] = a
  BY PlaceOfFacts DEF Registered, ToSet

-----------------------------------------------------------------------------
(* The loop of a round *)

\* A connection is unchoked only by a grant.
Granted(c, g) == link[c] = "up" /\ ~amChoking[c] => AddrOf[c] \in g

\* The types of what the loop changes, and where it can be afterwards.
LEMMA VisitTypes ==
    ASSUME TypeOK, NEW s \in Seq(Conns), NEW total \in Nat, NEW n \in 0 .. total,
           NEW g, Visit(s, n, g, total)
    PROVE  /\ phase' \in {"sending", "dead", "waiting"}
           /\ rest' \in Seq(Conns)
           /\ size' \in Nat /\ left' \in 0 .. size'
           /\ sendTo' \in Conns \cup {None}
           /\ amChoking' \in [Conns -> BOOLEAN]
           /\ down' \in [Conns -> 0 .. MaxBytes] /\ up' \in [Conns -> 0 .. MaxBytes]
           /\ wake' \in BOOLEAN
  <1> DEFINE i == FirstTurned(s, n, g)
  <1>1. i \in 0 .. Len(s) /\ i <= n
    BY FirstTurnedFacts
  <1>2. CASE i # 0 /\ Turn(s, n, i, total)
    <2> HIDE DEF i
    <2>1. s[i] \in Conns /\ \A j \in i + 1 .. Len(s) : s[j] \in Conns
      BY <1>1, <1>2, ElementOfSeq
    <2>2. SubSeq(s, i + 1, Len(s)) \in Seq(Conns)
      BY <1>1, <2>1, SubSeqProperties
    <2>3. n - i \in 0 .. total
      BY <1>1
    <2> QED
      BY <1>2, <2>1, <2>2, <2>3 DEF Turn, TypeOK
  <1>3. CASE Die
    BY <1>3 DEF Die, TypeOK
  <1>4. CASE Settle
    <2>1. 0 \in 0 .. MaxBytes
      BY ChokingAssumption
    <2>2. down' \in [Conns -> 0 .. MaxBytes] /\ up' \in [Conns -> 0 .. MaxBytes]
      BY <1>4, <2>1 DEF Settle, TypeOK
    <2>3. <<>> \in Seq(Conns) /\ 0 \in 0 .. 0
      BY EmptySeq
    <2> QED
      BY <1>4, <2>2, <2>3 DEF Settle, TypeOK
  <1> QED
    BY <1>2, <1>3, <1>4 DEF Visit

\* The loop from s on, when the entries it has passed are as they should be:
\* if it suspends, those it has passed then are, and if it ends, all are.
LEMMA VisitFacts ==
    ASSUME TypeOK, NEW s \in Seq(Conns), NEW n \in Nat, NEW g, NEW total,
           Visit(s, n, g, total), UNCHANGED link,
           \A c \in Conns : c \in ToSet(s) \/ Granted(c, g)
    PROVE  /\ phase' = "sending" =>
                 \A c \in Conns :
                    \/ c \in ToSet(rest')
                    \/ link'[c] = "up" /\ ~amChoking'[c] => AddrOf[c] \in g
           /\ phase' = "waiting" =>
                 amChoking' = amChoking /\ \A c \in Conns : Granted(c, g)
  <1> DEFINE i == FirstTurned(s, n, g)
  <1>1. /\ i \in 0 .. Len(s)
        /\ i # 0 => Turned(s[i], g) /\ \A j \in 1 .. i - 1 : ~Turned(s[j], g)
        /\ i = 0 /\ Len(s) <= n => \A j \in 1 .. Len(s) : ~Turned(s[j], g)
    BY FirstTurnedFacts
  <1>2. \A c \in Conns : link[c] = "up" /\ ~Turned(c, g) => Granted(c, g)
    BY DEF Turned, Granted, TypeOK
  <1>3. \A c \in Conns : Turned(c, g) => (AddrOf[c] \in g <=> amChoking[c])
    BY DEF Turned, TypeOK
  <1>4. \A c \in Conns : c \in ToSet(s) => \E j \in 1 .. Len(s) : c = s[j]
    BY DEF ToSet
  <1>5. CASE i # 0 /\ Turn(s, n, i, total)
    <2> HIDE DEF i
    <2>1. s[i] \in Conns /\ \A j \in i + 1 .. Len(s) : s[j] \in Conns
      BY <1>1, <1>5, ElementOfSeq
    <2>2. /\ rest' = SubSeq(s, i + 1, Len(s)) /\ phase' = "sending"
          /\ amChoking' = [amChoking EXCEPT ![s[i]] = ~@]
      BY <1>5 DEF Turn
    <2>3. ASSUME NEW j \in i + 1 .. Len(s)
          PROVE  s[j] \in ToSet(rest')
      <3>1. /\ Len(rest') = Len(s) - i
            /\ \A k \in 1 .. Len(s) - (i + 1) + 1 : rest'[k] = s[(i + 1) + k - 1]
        <4>1. /\ rest' \in Seq(Conns)
              /\ Len(rest') = IF i + 1 <= Len(s) THEN Len(s) - (i + 1) + 1 ELSE 0
              /\ \A k \in 1 .. Len(s) - (i + 1) + 1 : rest'[k] = s[(i + 1) + k - 1]
          BY <1>1, <2>1, <2>2, SubSeqProperties
        <4> QED
          BY <1>1, <4>1
      <3>2. /\ j - i \in 1 .. Len(s) - (i + 1) + 1 /\ (i + 1) + (j - i) - 1 = j
            /\ j - i \in 1 .. Len(s) - i
        BY <1>1
      <3>3. s[j] = rest'[j - i] /\ j - i \in 1 .. Len(rest')
        BY <3>1, <3>2
      <3>4. rest' \in Seq(Conns)
        BY <1>1, <2>1, <2>2, SubSeqProperties
      <3> QED
        BY <3>3, <3>4 DEF ToSet
    <2>4. ASSUME NEW c \in Conns, c \notin ToSet(rest'), link'[c] = "up", ~amChoking'[c]
          PROVE  AddrOf[c] \in g
      <3>1. CASE c = s[i]
        <4>1. amChoking'[c] = ~amChoking[c]
          BY <2>2, <3>1 DEF TypeOK
        <4> QED
          BY <1>1, <1>3, <1>5, <2>4, <3>1, <4>1
      <3>2. CASE c # s[i] /\ c \in ToSet(s)
        <4>1. PICK j \in 1 .. Len(s) : c = s[j]
          BY <1>4, <3>2
        <4>2. j \in 1 .. i - 1
          BY <1>1, <2>3, <2>4, <3>2, <4>1
        <4>3. ~amChoking[c]
          BY <2>2, <2>4, <3>2 DEF TypeOK
        <4> QED
          BY <1>1, <1>2, <1>5, <2>4, <4>1, <4>2, <4>3 DEF Granted
      <3>3. CASE c # s[i] /\ c \notin ToSet(s)
        <4>1. ~amChoking[c]
          BY <2>2, <2>4, <3>3 DEF TypeOK
        <4> QED
          BY <2>4, <3>3, <4>1 DEF Granted
      <3> QED
        BY <3>1, <3>2, <3>3
    <2> QED
      BY <2>2, <2>4
  <1>6. CASE i = 0 /\ Len(s) > n /\ Die
    BY <1>6 DEF Die
  <1>7. CASE i = 0 /\ Len(s) <= n /\ Settle
    <2>1. ASSUME NEW c \in Conns
          PROVE  Granted(c, g)
      BY <1>1, <1>2, <1>4, <1>7 DEF Granted
    <2> QED
      BY <1>7, <2>1 DEF Settle
  <1> QED
    BY <1>5, <1>6, <1>7 DEF Visit

-----------------------------------------------------------------------------
(* Types and the optimistic slot, for any addresses *)

\* What a round may choose.
LEMMA ChoiceFacts ==
    ASSUME TypeOK, Candidates # {}, NEW top \in SUBSET Candidates, IsTop(top),
           NEW o, o \in OptimisticChoices(top, Rotates)
    PROVE  o \in {AddrOf[c] : c \in Candidates} \cup {None, optimistic}
  BY DEF OptimisticChoices

LEMMA InitType == Init => TypeOK
  <1> SUFFICES ASSUME Init PROVE TypeOK
    OBVIOUS
  <1>1. <<>> \in Seq(Conns) /\ OnePerAddress(<<>>)
    BY EmptySeq DEF OnePerAddress
  <1>2. /\ 0 \in 0 .. MaxBytes /\ 0 \in 0 .. OptimisticEvery - 1
        /\ OptimisticEvery \in 0 .. OptimisticEvery
    BY ChokingAssumption
  <1>3. /\ [c \in Conns |-> 0] \in [Conns -> 0 .. MaxBytes]
        /\ [c \in Conns |-> "out"] \in [Conns -> {"out", "dialing", "up", "closing"}]
        /\ [c \in Conns |-> FALSE] \in [Conns -> BOOLEAN]
        /\ [c \in Conns |-> TRUE] \in [Conns -> BOOLEAN]
        /\ 0 \in Nat /\ 0 \in 0 .. 0
    BY <1>2
  <1> QED
    BY <1>1, <1>2, <1>3, Zenon DEF Init, TypeOK, Phases

\* Steps of one connection.
ConnStep(c) ==
    \/ Dial(c) \/ DialFails(c) \/ Register(c) \/ Close(c) \/ Unregister(c)
    \/ \E b \in BOOLEAN : RecvInterest(c, b)
    \/ RecvBlock(c) \/ RecvRequest(c) \/ SendBlock(c)

LEMMA ConnStepTypes ==
    ASSUME TypeOK, NEW c \in Conns, ConnStep(c)
    PROVE  TypeOK'
  <1> USE ChokingAssumption DEF TypeOK, peers, round, manager
  <1>1. CASE Dial(c) \/ DialFails(c) \/ Close(c)
    BY <1>1 DEF Dial, DialFails, Close, OnePerAddress
  <1>2. CASE Register(c)
    <2>1. entries' \in Seq(Conns) /\ OnePerAddress(entries)'
      <3>1. CASE Registered(AddrOf[c])
        BY <1>2, <3>1, ReplacedFacts DEF Register, OnePerAddress
      <3>2. CASE ~Registered(AddrOf[c])
        <4>1. entries \in Seq(Conns) /\ OnePerAddress(entries) /\ PlaceOf(entries, AddrOf[c]) = 0
          BY <3>2 DEF Registered
        <4>2. entries' = Append(entries, c)
          BY <1>2, <3>2 DEF Register
        <4> QED
          BY <4>1, <4>2, AppendFacts DEF OnePerAddress
      <3> QED
        BY <3>1, <3>2
    <2>2. rest' \in Seq(Conns)
      <3>1. Replaced(rest, c) \in Seq(Conns) /\ Append(rest, c) \in Seq(Conns)
        BY ReplacedFacts, AppendFacts
      <3> QED
        BY <1>2, <3>1 DEF Register
    <2> QED
      BY <1>2, <2>1, <2>2 DEF Register
  <1>3. CASE Unregister(c)
    <2>1. entries' \in Seq(Conns) /\ OnePerAddress(entries)' /\ rest' \in Seq(Conns)
      BY <1>3, WithoutFacts DEF Unregister, OnePerAddress
    <2> QED
      BY <1>3, <2>1 DEF Unregister, Forgotten
  <1>4. CASE \E b \in BOOLEAN : RecvInterest(c, b)
    BY <1>4 DEF RecvInterest, OnePerAddress
  <1>5. CASE RecvBlock(c)
    BY <1>5 DEF RecvBlock, OnePerAddress
  <1>6. CASE RecvRequest(c)
    BY <1>6 DEF RecvRequest, OnePerAddress
  <1>7. CASE SendBlock(c)
    <2>1. up[c] \in 0 .. MaxBytes /\ (IF up[c] < MaxBytes THEN up[c] + 1 ELSE up[c]) \in 0 .. MaxBytes
      OBVIOUS
    <2> QED
      BY <1>7, <2>1 DEF SendBlock, OnePerAddress
  <1> QED
    BY <1>1, <1>2, <1>3, <1>4, <1>5, <1>6, <1>7 DEF ConnStep

LEMMA BeginsTypes ==
    ASSUME TypeOK, NEW timer \in BOOLEAN, Begins(timer)
    PROVE  /\ ticks' \in 0 .. OptimisticEvery - 1 /\ unseen' \in BOOLEAN
  <1>1. ticks \in 0 .. OptimisticEvery - 1
    BY DEF TypeOK
  <1>2. Ticked \in 0 .. OptimisticEvery - 1
    BY <1>1, ChokingAssumption DEF Ticked, Rotates
  <1> QED
    BY <1>2 DEF Begins

LEMMA TaskStepTypes ==
    ASSUME TypeOK, NEW timer \in BOOLEAN, NEW o \in Addrs \cup {None},
           Complete \/ Start \/ Stop \/ Sent \/ IdleRound(timer) \/ Rechoke(timer, o)
    PROVE  TypeOK'
  <1>1. CASE Complete \/ Start
    BY <1>1 DEF Complete, Start, TypeOK, OnePerAddress, peers, round, manager, Phases
  <1>2. CASE Stop
    <2>1. <<>> \in Seq(Conns)
      BY EmptySeq
    <2> QED
      BY <1>2, <2>1 DEF Stop, TypeOK, OnePerAddress, peers, manager, Phases
  <1>3. CASE Sent
    <2>1. /\ phase' \in Phases
          /\ rest' \in Seq(Conns)
          /\ size' \in Nat /\ left' \in 0 .. size'
          /\ sendTo' \in Conns \cup {None}
          /\ amChoking' \in [Conns -> BOOLEAN]
          /\ down' \in [Conns -> 0 .. MaxBytes] /\ up' \in [Conns -> 0 .. MaxBytes]
          /\ wake' \in BOOLEAN
      <3>1. CASE Die
        BY <3>1, EmptySeq DEF Die, TypeOK, Phases
      <3>2. CASE Visit(rest, left, granted, size)
        BY <3>2, VisitTypes DEF TypeOK, Phases
      <3> QED
        BY <1>3, <3>1, <3>2 DEF Sent
    <2> QED
      BY <1>3, <2>1 DEF Sent, TypeOK, OnePerAddress
  <1>4. CASE IdleRound(timer)
    BY <1>4, BeginsTypes DEF IdleRound, TypeOK, OnePerAddress, peers, Phases
  <1>5. CASE Rechoke(timer, o)
    <2>1. PICK top \in SUBSET Candidates :
             /\ granted' = {AddrOf[c] : c \in top} \cup ({o} \ {None})
             /\ Visit(entries, Len(entries), granted', Len(entries))
      BY <1>5 DEF Rechoke
    <2>2. granted' \subseteq Addrs
      <3>1. Candidates \subseteq Conns
        BY DEF Candidates, ToSet, TypeOK
      <3> QED
        BY <2>1, <3>1 DEF Addrs
    <2>3. entries \in Seq(Conns) /\ Len(entries) \in Nat /\ Len(entries) \in 0 .. Len(entries)
      BY DEF TypeOK
    <2>4. /\ phase' \in Phases
          /\ rest' \in Seq(Conns)
          /\ size' \in Nat /\ left' \in 0 .. size'
          /\ sendTo' \in Conns \cup {None}
          /\ amChoking' \in [Conns -> BOOLEAN]
          /\ down' \in [Conns -> 0 .. MaxBytes] /\ up' \in [Conns -> 0 .. MaxBytes]
          /\ wake' \in BOOLEAN
      BY <2>1, <2>3, VisitTypes DEF Phases
    <2>5. /\ ticks' \in 0 .. OptimisticEvery - 1 /\ unseen' \in BOOLEAN
      BY <1>5, BeginsTypes DEF Rechoke
    <2> QED
      BY <1>5, <2>2, <2>4, <2>5 DEF Rechoke, TypeOK, OnePerAddress
  <1> QED
    BY <1>1, <1>2, <1>3, <1>4, <1>5

LEMMA StepTypes == TypeOK /\ [Next]_vars => TypeOK'
  <1> SUFFICES ASSUME TypeOK, [Next]_vars PROVE TypeOK'
    OBVIOUS
  <1>1. CASE UNCHANGED vars
    BY <1>1 DEF vars, peers, round, manager, TypeOK, OnePerAddress
  <1>2. ASSUME NEW c \in Conns, ConnStep(c)
        PROVE  TypeOK'
    BY <1>2, ConnStepTypes
  <1>3. CASE Complete \/ Start \/ Stop \/ Sent
    BY <1>3, TaskStepTypes
  <1>4. ASSUME NEW timer \in BOOLEAN,
               IdleRound(timer) \/ \E o \in Addrs \cup {None} : Rechoke(timer, o)
        PROVE  TypeOK'
    BY <1>4, TaskStepTypes
  <1> QED
    BY <1>1, <1>2, <1>3, <1>4 DEF Next, ConnStep

\* Every variable keeps its type, and the dict one entry per address.
THEOREM TypeCorrect == Spec => []TypeOK
  BY InitType, StepTypes, PTL DEF Spec

LEMMA OptimisticStep ==
    TypeOK /\ OptimisticIsRegistered /\ [Next]_vars => OptimisticIsRegistered'
  <1> SUFFICES ASSUME TypeOK, OptimisticIsRegistered, [Next]_vars, optimistic' # None
               PROVE  Registered(optimistic)'
    BY DEF OptimisticIsRegistered
  <1> DEFINE Has(s) == \E c \in ToSet(s) : AddrOf[c] = optimistic'
  <1>1. TypeOK'
    BY StepTypes
  <1>2. Registered(optimistic)' <=> Has(entries')
    <2>1. entries' \in Seq(Conns)
      BY <1>1 DEF TypeOK
    <2> QED
      BY <2>1, PlaceOfFacts DEF Registered, ToSet
  <1>3. optimistic # None => \E c \in ToSet(entries) : AddrOf[c] = optimistic
    BY RegisteredIsPresent DEF TypeOK, OptimisticIsRegistered
  <1>4. CASE UNCHANGED <<entries, optimistic>>
    BY <1>2, <1>3, <1>4
  <1>5. ASSUME NEW c \in Conns, Register(c)
        PROVE  Has(entries')
    <2>1. optimistic' = optimistic
      BY <1>5 DEF Register
    <2>2. PICK d \in ToSet(entries) : AddrOf[d] = optimistic
      BY <1>3, <2>1
    <2>3. CASE Registered(AddrOf[c])
      <3>1. /\ AddrOf[d] # AddrOf[c] => d \in ToSet(entries')
            /\ c \in ToSet(entries')
        BY <1>5, <2>2, <2>3, ReplacedFacts DEF Register, Registered, TypeOK
      <3> QED
        BY <2>1, <2>2, <3>1
    <2>4. CASE ~Registered(AddrOf[c])
      <3>1. d \in ToSet(entries')
        <4>1. entries \in Seq(Conns)
          BY DEF TypeOK
        <4>2. entries' = Append(entries, c)
          BY <1>5, <2>4 DEF Register
        <4>3. ToSet(Append(entries, c)) = ToSet(entries) \cup {c}
          BY <4>1, AppendFacts
        <4> QED
          BY <2>2, <4>2, <4>3
      <3> QED
        BY <2>1, <2>2, <3>1
    <2> QED
      BY <2>3, <2>4
  <1>6. ASSUME NEW c \in Conns, Unregister(c)
        PROVE  Has(entries')
    <2>1. /\ optimistic' = optimistic /\ optimistic # AddrOf[c]
          /\ entries' = Without(entries, AddrOf[c])
      BY <1>6 DEF Unregister, Forgotten
    <2>2. PICK d \in ToSet(entries) : AddrOf[d] = optimistic
      BY <1>3, <2>1
    <2> QED
      BY <2>1, <2>2, WithoutFacts DEF TypeOK
  <1>7. ASSUME NEW timer \in BOOLEAN, NEW o \in Addrs \cup {None}, Rechoke(timer, o)
        PROVE  Has(entries')
    <2>1. UNCHANGED entries /\ optimistic' = o
      BY <1>7 DEF Rechoke
    <2>2. o \in {AddrOf[c] : c \in Candidates} \cup {None, optimistic}
      BY <1>7, ChoiceFacts DEF Rechoke
    <2> QED
      BY <1>3, <2>1, <2>2 DEF Candidates
  <1>8. ASSUME NEW c \in Conns, ConnStep(c), ~Register(c), ~Unregister(c)
        PROVE  UNCHANGED <<entries, optimistic>>
    BY <1>8 DEF ConnStep, Dial, DialFails, Close, RecvInterest, RecvBlock,
                RecvRequest, SendBlock, manager
  <1>9. ASSUME NEW timer \in BOOLEAN,
               Complete \/ Start \/ Stop \/ Sent \/ IdleRound(timer) \/ UNCHANGED vars
        PROVE  UNCHANGED <<entries, optimistic>>
    BY <1>9 DEF Complete, Start, Stop, Sent, IdleRound, vars, manager
  <1>10. CASE Has(entries')
    BY <1>2, <1>10
  <1> QED
    BY <1>4, <1>5, <1>6, <1>7, <1>8, <1>9, <1>10 DEF Next, ConnStep

\* The optimistic slot belongs to a registered address, whoever leaves while a
\* round is sending (unregister), two connections to one address included.
THEOREM OptimisticBelongs == Spec => []OptimisticIsRegistered
  <1>1. Init => OptimisticIsRegistered
    BY DEF Init, OptimisticIsRegistered
  <1> QED
    BY <1>1, TypeCorrect, OptimisticStep, PTL DEF Spec

-----------------------------------------------------------------------------
(* Rounds, when every connection has an address of its own *)

OwnAddresses == \A c, d \in Conns : AddrOf[c] = AddrOf[d] => c = d

Present == \A c \in Conns : link[c] = "up" => c \in ToSet(entries)

\* A round in progress has settled the connections it will not come to.
RoundSoFar ==
    phase = "sending" => \A c \in Conns : c \in ToSet(rest) \/ Granted(c, granted)

RInv == TypeOK /\ Present /\ RoundSoFar

\* A step of one connection unchokes nobody, and takes from the round only a
\* connection that is not unchoked.
LEMMA ConnStepRound ==
    ASSUME OwnAddresses, RInv, NEW c \in Conns, ConnStep(c)
    PROVE  /\ UNCHANGED <<phase, granted>>
           /\ Unchoked' \subseteq Unchoked
           /\ Present'
           /\ \A d \in ToSet(rest) : d \in ToSet(rest') \/ d \notin Unchoked'
  <1> USE DEF RInv
  <1>1. CASE Register(c)
    <2>1. /\ link' = [link EXCEPT ![c] = "up"] /\ UNCHANGED <<phase, granted>>
          /\ amChoking' = [amChoking EXCEPT ![c] = TRUE]
      BY <1>1 DEF Register
    <2>2. /\ c \in ToSet(entries')
          /\ \A d \in ToSet(entries) : d \in ToSet(entries') \/ AddrOf[d] = AddrOf[c]
      <3>1. CASE Registered(AddrOf[c])
        <4>1. entries' = Replaced(entries, c) /\ PlaceOf(entries, AddrOf[c]) # 0
          BY <1>1, <3>1 DEF Register, Registered
        <4> QED
          BY <4>1, ReplacedFacts DEF TypeOK
      <3>2. CASE ~Registered(AddrOf[c])
        <4>1. entries' = Append(entries, c)
          BY <1>1, <3>2 DEF Register
        <4> QED
          BY <4>1, AppendFacts DEF TypeOK
      <3> QED
        BY <3>1, <3>2
    <2>3. \A d \in ToSet(rest) : d \in ToSet(rest') \/ AddrOf[d] = AddrOf[c]
      <3>1. rest' = Replaced(rest, c) \/ rest' = Append(rest, c) \/ rest' = rest
        BY <1>1 DEF Register
      <3>2. \A d \in ToSet(rest) : d \in ToSet(Replaced(rest, c)) \/ AddrOf[d] = AddrOf[c]
        BY ReplacedFacts DEF TypeOK
      <3>3. \A d \in ToSet(rest) : d \in ToSet(Append(rest, c))
        BY AppendFacts DEF TypeOK
      <3> QED
        BY <3>1, <3>2, <3>3
    <2>4. ToSet(rest) \subseteq Conns
      BY DEF TypeOK, ToSet
    <2>5. Present'
      BY <2>1, <2>2 DEF Present, OwnAddresses, TypeOK
    <2>6. Unchoked' \subseteq Unchoked /\ c \notin Unchoked'
      BY <2>1 DEF Unchoked, TypeOK
    <2> QED
      BY <2>1, <2>3, <2>4, <2>5, <2>6 DEF OwnAddresses
  <1>2. CASE Unregister(c)
    <2>1. link' = [link EXCEPT ![c] = "out"] /\ UNCHANGED <<phase, granted, amChoking>>
      BY <1>2 DEF Unregister
    <2>2. \A d \in ToSet(entries) : d \in ToSet(entries') \/ AddrOf[d] = AddrOf[c]
      BY <1>2, WithoutFacts DEF Unregister, TypeOK
    <2>3. \A d \in ToSet(rest) : d \in ToSet(rest') \/ AddrOf[d] = AddrOf[c]
      BY <1>2, WithoutFacts DEF Unregister, TypeOK
    <2>4. ToSet(rest) \subseteq Conns
      BY DEF TypeOK, ToSet
    <2>5. Present'
      BY <2>1, <2>2 DEF Present, OwnAddresses, TypeOK
    <2>6. Unchoked' \subseteq Unchoked /\ c \notin Unchoked'
      BY <2>1 DEF Unchoked, TypeOK
    <2> QED
      BY <2>1, <2>3, <2>4, <2>5, <2>6 DEF OwnAddresses
  <1>3. CASE Dial(c) \/ DialFails(c) \/ Close(c)
    <2>1. /\ UNCHANGED <<phase, granted, amChoking, entries, rest>>
          /\ link' = [link EXCEPT ![c] = link'[c]] /\ link'[c] # "up"
      BY <1>3 DEF Dial, DialFails, Close, manager, round, TypeOK
    <2> QED
      BY <2>1 DEF Present, Unchoked, TypeOK
  <1>4. CASE (\E b \in BOOLEAN : RecvInterest(c, b)) \/ RecvBlock(c) \/ RecvRequest(c) \/ SendBlock(c)
    <2>1. UNCHANGED <<phase, granted, amChoking, entries, rest, link>>
      BY <1>4 DEF RecvInterest, RecvBlock, RecvRequest, SendBlock, manager, round
    <2> QED
      BY <2>1 DEF Present, Unchoked
  <1> QED
    BY <1>1, <1>2, <1>3, <1>4 DEF ConnStep

\* What a step that goes on with the loop leaves.
LEMMA LoopRound ==
    ASSUME OwnAddresses, RInv, NEW timer \in BOOLEAN, NEW o \in Addrs \cup {None},
           Sent \/ Rechoke(timer, o)
    PROVE  /\ UNCHANGED <<link, entries>>
           /\ phase' \in {"sending", "dead", "waiting"}
           /\ phase' = "sending" =>
                 \A c \in Conns : c \in ToSet(rest') \/ Granted(c, granted)'
           /\ phase' = "waiting" =>
                 \A c \in Conns : Granted(c, granted)' /\ amChoking'[c] = amChoking[c]
  <1> USE DEF RInv
  <1>1. CASE Sent
    <2>1. UNCHANGED <<link, entries, granted>>
      BY <1>1 DEF Sent
    <2>2. CASE Die
      BY <2>1, <2>2 DEF Die
    <2>3. CASE Visit(rest, left, granted, size)
      <3>1. \A c \in Conns : c \in ToSet(rest) \/ Granted(c, granted)
        BY <1>1 DEF Sent, RoundSoFar
      <3>2. rest \in Seq(Conns) /\ left \in Nat /\ size \in Nat /\ left \in 0 .. size
        BY DEF TypeOK
      <3> QED
        BY <2>1, <2>3, <3>1, <3>2, VisitFacts, VisitTypes DEF Granted
    <2> QED
      BY <1>1, <2>2, <2>3 DEF Sent
  <1>2. CASE Rechoke(timer, o)
    <2>1. UNCHANGED <<link, entries>> /\ Visit(entries, Len(entries), granted', Len(entries))
      BY <1>2 DEF Rechoke
    <2>2. \A c \in Conns : c \in ToSet(entries) \/ Granted(c, granted')
      BY DEF Present, Granted
    <2>3. entries \in Seq(Conns) /\ Len(entries) \in Nat /\ Len(entries) \in 0 .. Len(entries)
      BY DEF TypeOK
    <2> QED
      BY <2>1, <2>2, <2>3, VisitFacts, VisitTypes DEF Granted
  <1> QED
    BY <1>1, <1>2

LEMMA RStep == OwnAddresses /\ RInv /\ [Next]_vars => RInv'
  <1> SUFFICES ASSUME OwnAddresses, RInv, [Next]_vars PROVE Present' /\ RoundSoFar'
    BY StepTypes DEF RInv
  <1>1. CASE UNCHANGED <<link, amChoking, entries, phase, rest, granted>>
    BY <1>1 DEF RInv, Present, RoundSoFar, Granted
  <1>2. ASSUME NEW c \in Conns, ConnStep(c)
        PROVE  Present' /\ RoundSoFar'
    BY <1>2, ConnStepRound DEF RInv, RoundSoFar, Granted, Unchoked
  <1>3. ASSUME NEW timer \in BOOLEAN, NEW o \in Addrs \cup {None},
               Sent \/ Rechoke(timer, o)
        PROVE  Present' /\ RoundSoFar'
    BY <1>3, LoopRound DEF RInv, RoundSoFar, Present
  <1>4. ASSUME NEW timer \in BOOLEAN, Start \/ Stop \/ IdleRound(timer)
        PROVE  Present' /\ RoundSoFar'
    <2>1. UNCHANGED <<link, entries>> /\ phase' # "sending"
      BY <1>4 DEF Start, Stop, IdleRound, peers, manager
    <2> QED
      BY <2>1 DEF RInv, Present, RoundSoFar
  <1>5. CASE Complete \/ UNCHANGED vars
    BY <1>1, <1>5 DEF Complete, vars, peers, round, manager
  <1> QED
    BY <1>2, <1>3, <1>4, <1>5 DEF Next, ConnStep

\* A round that is not cut short leaves unchoked only what it granted, for any
\* number of connections with addresses of their own, however often the task
\* is stopped in between (_rechoke).
THEOREM RoundsAreApplied ==
    ASSUME OwnAddresses
    PROVE  Spec => RoundIsApplied
  <1>1. Init => RInv
    BY InitType DEF Init, RInv, Present, RoundSoFar
  <1>2. RInv /\ [Next]_vars =>
           [phase = "sending" /\ phase' = "waiting" =>
               \A c \in Unchoked : AddrOf[c] \in granted]_vars
    <2> SUFFICES ASSUME RInv, Next, phase = "sending", phase' = "waiting"
                 PROVE  \A c \in Unchoked : AddrOf[c] \in granted
      OBVIOUS
    <2>1. Sent
      BY ConnStepRound DEF Next, ConnStep, Complete, Start, Stop, IdleRound, Rechoke,
                           Begins, round
    <2>2. UNCHANGED <<link, granted>> /\ \A c \in Conns : Granted(c, granted)'
                                         /\ amChoking'[c] = amChoking[c]
      BY <2>1, LoopRound DEF Sent
    <2> QED
      BY <2>2 DEF Granted, Unchoked
  <1> QED
    BY <1>1, <1>2, RStep, PTL DEF Spec, RoundIsApplied

-----------------------------------------------------------------------------
(* The slots *)

LEMMA GrantsAreBounded ==
    ASSUME TypeOK, NEW timer \in BOOLEAN, NEW o \in Addrs \cup {None}, Rechoke(timer, o)
    PROVE  IsFiniteSet(granted') /\ Cardinality(granted') <= MaxUnchoked + 1
  <1>1. PICK top \in SUBSET Candidates :
           IsTop(top) /\ granted' = {AddrOf[c] : c \in top} \cup ({o} \ {None})
    BY DEF Rechoke
  <1> DEFINE T == {AddrOf[c] : c \in top}
             f == [a \in T |-> CHOOSE c \in top : AddrOf[c] = a]
  <1>2. IsFiniteSet(top) /\ Cardinality(top) <= MaxUnchoked
    <2>1. top \in SUBSET Conns
      BY DEF Candidates, ToSet, TypeOK
    <2> QED
      BY <1>1, <2>1, ChokingAssumption, FS_Subset DEF IsTop
  <1>3. f \in Injection(T, top)
    <2>1. \A a \in T : f[a] \in top /\ AddrOf[f[a]] = a
      OBVIOUS
    <2>2. f \in [T -> top]
      BY <2>1
    <2> HIDE DEF f
    <2> QED
      BY <2>1, <2>2 DEF Injection, IsInjective
  <1>4. IsFiniteSet(T) /\ Cardinality(T) <= Cardinality(top)
    <2> HIDE DEF f, T
    <2> QED
      BY <1>2, <1>3, FS_Injection
  <1>5. Cardinality(T) \in Nat /\ Cardinality(top) \in Nat /\ MaxUnchoked \in Nat
    BY <1>2, <1>4, FS_CardinalityType, ChokingAssumption
  <1> HIDE DEF T
  <1>6. granted' = T \/ granted' = T \cup {o}
    BY <1>1 DEF T
  <1>7. /\ IsFiniteSet(T \cup {o})
        /\ Cardinality(T \cup {o}) = IF o \in T THEN Cardinality(T) ELSE Cardinality(T) + 1
    BY <1>4, FS_AddElement
  <1> QED
    BY <1>2, <1>4, <1>5, <1>6, <1>7

SInv ==
    /\ RInv
    /\ IsFiniteSet(granted) /\ Cardinality(granted) <= MaxUnchoked + 1
    /\ phase = "waiting" => \A c \in Conns : Granted(c, granted)
    /\ phase \in {"off", "due"} => Unchoked = {}

LEMMA SInit == Init => SInv
  <1> SUFFICES ASSUME Init PROVE SInv
    OBVIOUS
  <1>1. IsFiniteSet({}) /\ Cardinality({}) = 0 /\ 0 <= MaxUnchoked + 1
    BY FS_EmptySet, ChokingAssumption
  <1> QED
    BY <1>1, InitType DEF Init, SInv, RInv, Present, RoundSoFar, Unchoked

LEMMA SStep ==
    ASSUME OwnAddresses, MayStop = FALSE
    PROVE  SInv /\ [Next]_vars => SInv'
  <1> SUFFICES ASSUME SInv, [Next]_vars
               PROVE  /\ IsFiniteSet(granted') /\ Cardinality(granted') <= MaxUnchoked + 1
                      /\ phase' = "waiting" => \A c \in Conns : Granted(c, granted)'
                      /\ phase' \in {"off", "due"} => Unchoked' = {}
    BY RStep DEF SInv
  <1> USE DEF SInv
  <1>1. CASE UNCHANGED <<link, amChoking, phase, granted>>
    BY <1>1 DEF Granted, Unchoked
  <1>2. ASSUME NEW c \in Conns, ConnStep(c)
        PROVE  /\ UNCHANGED <<phase, granted>>
               /\ Unchoked' \subseteq Unchoked
    BY <1>2, ConnStepRound
  <1>3. CASE UNCHANGED <<phase, granted>> /\ Unchoked' \subseteq Unchoked
    BY <1>3 DEF Granted, Unchoked
  <1>4. CASE Start
    BY <1>4 DEF Start, peers, Unchoked
  <1>5. CASE Sent
    <2>1. phase' \in {"sending", "dead", "waiting"} /\ UNCHANGED granted
      BY <1>5, LoopRound DEF Sent
    <2> QED
      BY <1>5, <2>1, LoopRound
  <1>6. ASSUME NEW timer \in BOOLEAN, IdleRound(timer)
        PROVE  UNCHANGED <<link, amChoking, granted>> /\ phase' = "waiting"
               /\ \A c \in Conns : Granted(c, granted)
    BY <1>6 DEF IdleRound, Begins, peers, Granted, Unchoked
  <1>7. ASSUME NEW timer \in BOOLEAN, IdleRound(timer)
        PROVE  phase' = "waiting" /\ UNCHANGED granted /\ \A c \in Conns : Granted(c, granted)'
    BY <1>6, <1>7 DEF Granted
  <1>8. ASSUME NEW timer \in BOOLEAN, NEW o \in Addrs \cup {None}, Rechoke(timer, o)
        PROVE  /\ IsFiniteSet(granted') /\ Cardinality(granted') <= MaxUnchoked + 1
               /\ phase' \in {"sending", "dead", "waiting"}
               /\ phase' = "waiting" => \A c \in Conns : Granted(c, granted)'
    BY <1>8, GrantsAreBounded, LoopRound DEF RInv
  <1>9. CASE Complete \/ UNCHANGED vars
    BY <1>1, <1>9 DEF Complete, vars, peers, round
  <1>10. CASE Stop
    BY <1>10 DEF Stop
  <1> QED
    BY <1>2, <1>3, <1>4, <1>5, <1>7, <1>8, <1>9, <1>10 DEF Next, ConnStep

\* For any number of connections with addresses of their own, while the task is
\* not stopped: between two rounds at most the regular slots and the optimistic
\* one are in use (_rechoke).
THEOREM SlotsAreBounded ==
    ASSUME OwnAddresses, MayStop = FALSE
    PROVE  Spec => []SlotBound
  <1>1. SInv => SlotBound
    <2> SUFFICES ASSUME SInv, phase = "waiting"
                 PROVE  Cardinality(Unchoked) <= MaxUnchoked + 1
      BY DEF SlotBound
    <2> DEFINE f == [c \in Unchoked |-> AddrOf[c]]
    <2>1. f \in Injection(Unchoked, granted)
      <3>1. \A c \in Unchoked : f[c] \in granted /\ c \in Conns
        BY DEF SInv, Granted, Unchoked
      <3> QED
        BY <3>1 DEF Injection, IsInjective, OwnAddresses
    <2> HIDE DEF f
    <2>2. IsFiniteSet(granted) /\ Cardinality(granted) <= MaxUnchoked + 1
      BY DEF SInv
    <2>3. IsFiniteSet(Unchoked) /\ Cardinality(Unchoked) <= Cardinality(granted)
      BY <2>1, <2>2, FS_Injection
    <2> QED
      BY <2>2, <2>3, FS_CardinalityType, ChokingAssumption
  <1> QED
    BY <1>1, SInit, SStep, PTL DEF Spec
=============================================================================
