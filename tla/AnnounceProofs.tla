----------------------------- MODULE AnnounceProofs -----------------------------
(***************************************************************************)
(* Proofs about Announce, for any callers, trackers and tiers: types, that *)
(* a call fails only when it has tried every tracker, and that a promotion *)
(* lasts until the next one.                                               *)
(***************************************************************************)
EXTENDS Announce, DataProofs

(* The tiers that are built *)

Tier == Seq(Urls) \ {<<>>}

\* NonEmpty's recursion, as one turn of it.
Turn(list, f, i) ==
    IF i = 0 THEN <<>>
    ELSE IF list[i] = <<>> THEN f[i - 1] ELSE Append(f[i - 1], list[i])

\* There is a function that takes these turns up to n.
Turns(list, n) ==
    {f \in [0 .. n -> Seq(Tier)] : \A i \in 0 .. n : f[i] = Turn(list, f, i)}

LEMMA TurnsExist ==
    ASSUME NEW list \in Seq(Seq(Urls))
    PROVE  \A n \in 0 .. Len(list) : Turns(list, n) # {}
  <1> DEFINE T == {n \in Nat : Turns(list, n) # {}}
  <1>1. 0 \in T
    <2> DEFINE f == [i \in 0 .. 0 |-> <<>>]
    <2>1. f \in [0 .. 0 -> Seq(Tier)] /\ \A i \in 0 .. 0 : f[i] = Turn(list, f, i)
      BY DEF Turn
    <2> QED
      BY <2>1 DEF Turns
  <1>2. ASSUME NEW n \in 0 .. Len(list) - 1, n \in T PROVE n + 1 \in T
    <2>1. PICK f \in [0 .. n -> Seq(Tier)] : \A i \in 0 .. n : f[i] = Turn(list, f, i)
      BY <1>2 DEF Turns
    <2>2. /\ n \in Nat /\ n \in 0 .. n /\ list[n + 1] \in Seq(Urls)
          /\ f[n] \in Seq(Tier)
      OBVIOUS
    <2> DEFINE last == IF list[n + 1] = <<>> THEN f[n] ELSE Append(f[n], list[n + 1])
               g    == [i \in 0 .. n + 1 |-> IF i = n + 1 THEN last ELSE f[i]]
    <2>3. last \in Seq(Tier)
      <3>1. list[n + 1] # <<>> => list[n + 1] \in Tier
        BY <2>2 DEF Tier
      <3> QED
        BY <2>2, <3>1
    <2>4. g \in [0 .. n + 1 -> Seq(Tier)]
      BY <2>1, <2>3
    <2>5. \A i \in 0 .. n : g[i] = f[i]
      BY <2>2
    <2>6. g[n + 1] = last
      BY <2>2
    <2> HIDE DEF g
    <2>7. g[n + 1] = Turn(list, g, n + 1)
      <3>1. g[n] = f[n] /\ n + 1 # 0 /\ (n + 1) - 1 = n
        BY <2>2, <2>5
      <3> QED
        BY <2>6, <3>1 DEF Turn
    <2>8. \A i \in 0 .. n : g[i] = Turn(list, g, i)
      <3> SUFFICES ASSUME NEW i \in 0 .. n PROVE g[i] = Turn(list, g, i)
        OBVIOUS
      <3>1. i # 0 => g[i - 1] = f[i - 1]
        BY <2>2, <2>5
      <3> QED
        BY <2>1, <2>5, <3>1 DEF Turn
    <2>9. g \in Turns(list, n + 1)
      <3>1. \A i \in 0 .. n + 1 : i = n + 1 \/ i \in 0 .. n
        BY <2>2
      <3> QED
        BY <2>4, <2>7, <2>8, <3>1 DEF Turns
    <2> QED
      BY <2>2, <2>9
  <1> HIDE DEF T
  <1>3. Len(list) \in Nat
    OBVIOUS
  <1>4. \A n \in 0 .. Len(list) : n \in T
    BY <1>1, <1>2, <1>3, InductionTo
  <1> QED
    BY <1>4 DEF T

LEMMA NonEmptyType == ASSUME NEW list \in Seq(Seq(Urls)) PROVE NonEmpty(list) \in Seq(Tier)
  <1>1. PICK n \in Nat : n = Len(list)
    OBVIOUS
  <1> DEFINE K(f) == f = [i \in 0 .. n |-> Turn(list, f, i)]
             kept == CHOOSE f : K(f)
  <1>2. NonEmpty(list) = kept[n]
    BY <1>1 DEF NonEmpty, Turn
  <1>3. K(kept)
    <2>1. n \in 0 .. Len(list)
      BY <1>1
    <2>2. PICK f \in [0 .. n -> Seq(Tier)] : \A i \in 0 .. n : f[i] = Turn(list, f, i)
      BY <2>1, TurnsExist DEF Turns
    <2>3. f = [i \in 0 .. n |-> Turn(list, f, i)]
      BY <2>2
    <2> QED
      BY <2>3
  <1> HIDE DEF kept
  <1>4. \A i \in 0 .. n : kept[i] = Turn(list, kept, i)
    BY <1>3
  <1> HIDE DEF K
  <1> DEFINE T == {i \in 0 .. n : kept[i] \in Seq(Tier)}
  <1>5. 0 \in T
    <2>1. 0 \in 0 .. n /\ <<>> \in Seq(Tier)
      OBVIOUS
    <2>2. kept[0] = <<>>
      BY <1>4, <2>1 DEF Turn
    <2> QED
      BY <2>1, <2>2
  <1>6. ASSUME NEW i \in 0 .. n - 1, i \in T PROVE i + 1 \in T
    <2>1. list[i + 1] \in Seq(Urls) /\ kept[i] \in Seq(Tier) /\ i + 1 \in 0 .. n
      BY <1>1, <1>6
    <2>2. kept[i + 1] = IF list[i + 1] = <<>> THEN kept[i] ELSE Append(kept[i], list[i + 1])
      <3>1. i + 1 # 0 /\ (i + 1) - 1 = i
        OBVIOUS
      <3> QED
        BY <1>4, <2>1, <3>1 DEF Turn
    <2>3. list[i + 1] # <<>> => list[i + 1] \in Tier
      BY <2>1 DEF Tier
    <2>4. kept[i + 1] \in Seq(Tier)
      BY <2>1, <2>2, <2>3
    <2> QED
      BY <2>1, <2>4
  <1> HIDE DEF T
  <1>7. n \in 0 .. n
    OBVIOUS
  <1>8. n \in T
    BY <1>5, <1>6, <1>7, InductionTo
  <1> QED
    BY <1>2, <1>8 DEF T

LEMMA BuiltType == Built \in Seq(Tier)
  <1>1. NonEmpty(AnnounceList) \in Seq(Tier)
    BY NonEmptyType, AnnounceAssumption
  <1>2. AnnounceUrl # <<>> => <<AnnounceUrl>> \in Seq(Tier)
    BY AnnounceAssumption DEF Tier
  <1> QED
    BY <1>1, <1>2 DEF Built, BuildTiers

-----------------------------------------------------------------------------
(* Rearranging a tier *)

\* The URLs stay what they are.
LEMMA RearrangedFacts ==
    ASSUME NEW s \in Seq(Urls), NEW r \in Rearranged(s)
    PROVE  r \in Seq(Urls) /\ Len(r) = Len(s) /\ ToSet(r) = ToSet(s)
  <1>1. PICK p \in Surjection(DOMAIN s, DOMAIN s) : r = [i \in DOMAIN s |-> s[p[i]]]
    BY DEF Rearranged
  <1>2. /\ p \in [DOMAIN s -> DOMAIN s]
        /\ \A w \in DOMAIN s : \E v \in DOMAIN s : p[v] = w
    BY DEF Surjection
  <1>3. DOMAIN s = 1 .. Len(s) /\ Len(s) \in Nat /\ \A i \in 1 .. Len(s) : s[i] \in Urls
    OBVIOUS
  <1>4. r \in [1 .. Len(s) -> Urls]
    BY <1>1, <1>2, <1>3
  <1>5. r \in Seq(Urls) /\ Len(r) = Len(s)
    BY <1>3, <1>4
  <1>6. ToSet(r) = ToSet(s)
    <2>1. DOMAIN r = DOMAIN s /\ \A i \in DOMAIN s : r[i] = s[p[i]]
      BY <1>1
    <2> QED
      BY <1>2, <2>1 DEF ToSet
  <1> QED
    BY <1>5, <1>6

LEMMA RearrangedSelf == ASSUME NEW s \in Seq(Urls) PROVE s \in Rearranged(s)
  <1> DEFINE p == [i \in DOMAIN s |-> i]
  <1>1. p \in Surjection(DOMAIN s, DOMAIN s)
    BY DEF Surjection
  <1>2. s = [i \in DOMAIN s |-> s[p[i]]]
    OBVIOUS
  <1> QED
    BY <1>1, <1>2 DEF Rearranged

LEMMA RearrangedTwice ==
    ASSUME NEW s \in Seq(Urls), NEW r \in Rearranged(s), NEW q \in Rearranged(r)
    PROVE  q \in Rearranged(s)
  <1>1. PICK f \in Surjection(DOMAIN s, DOMAIN s) : r = [i \in DOMAIN s |-> s[f[i]]]
    BY DEF Rearranged
  <1>2. DOMAIN r = DOMAIN s
    BY <1>1
  <1>3. PICK g \in Surjection(DOMAIN s, DOMAIN s) : q = [i \in DOMAIN s |-> r[g[i]]]
    BY <1>2 DEF Rearranged
  <1> DEFINE p == [i \in DOMAIN s |-> f[g[i]]]
  <1>4. /\ f \in [DOMAIN s -> DOMAIN s] /\ g \in [DOMAIN s -> DOMAIN s]
        /\ \A w \in DOMAIN s : \E v \in DOMAIN s : f[v] = w
        /\ \A w \in DOMAIN s : \E v \in DOMAIN s : g[v] = w
    BY DEF Surjection
  <1>5. p \in [DOMAIN s -> DOMAIN s]
    BY <1>4
  <1>6. \A w \in DOMAIN s : \E v \in DOMAIN s : p[v] = w
    BY <1>4
  <1>7. q = [i \in DOMAIN s |-> s[p[i]]]
    BY <1>1, <1>3, <1>4
  <1> HIDE DEF p
  <1> QED
    BY <1>5, <1>6, <1>7 DEF Rearranged, Surjection

\* A shuffle leaves the first URL its place.
LEMMA ShuffledFacts ==
    ASSUME NEW s \in Tier, NEW h \in Shuffled(s)
    PROVE  h \in Rearranged(s) /\ Head(h) = Head(s)
  <1>1. PICK rest \in Rearranged(Tail(s)) : h = <<Head(s)>> \o rest
    BY DEF Shuffled
  <1> DEFINE n == Len(s)
             t == Tail(s)
  <1>2. /\ s \in Seq(Urls) /\ n \in Nat \ {0} /\ DOMAIN s = 1 .. n /\ Head(s) = s[1]
        /\ t \in Seq(Urls) /\ Len(t) = n - 1 /\ DOMAIN t = 1 .. n - 1
        /\ \A i \in 1 .. n - 1 : t[i] = s[i + 1]
    BY DEF Tier
  <1>3. PICK p \in Surjection(1 .. n - 1, 1 .. n - 1) : rest = [i \in 1 .. n - 1 |-> t[p[i]]]
    BY <1>2 DEF Rearranged
  <1>4. /\ p \in [1 .. n - 1 -> 1 .. n - 1]
        /\ \A w \in 1 .. n - 1 : \E v \in 1 .. n - 1 : p[v] = w
    BY DEF Surjection
  <1>5. rest \in Seq(Urls) /\ Len(rest) = n - 1
    <2>1. t \in Seq(Urls) /\ rest \in Rearranged(t)
      BY <1>2
    <2> HIDE DEF t
    <2> QED
      BY <1>2, <2>1, RearrangedFacts
  <1> HIDE DEF n, t
  <1> DEFINE q == [i \in 1 .. n |-> IF i = 1 THEN 1 ELSE p[i - 1] + 1]
  <1>6. q \in [1 .. n -> 1 .. n]
    <2> SUFFICES ASSUME NEW i \in 1 .. n, i # 1 PROVE p[i - 1] + 1 \in 1 .. n
      BY <1>2
    <2>1. i - 1 \in 1 .. n - 1
      BY <1>2
    <2>2. p[i - 1] \in 1 .. n - 1
      BY <1>4, <2>1
    <2> QED
      BY <1>2, <2>2
  <1>7. \A w \in 1 .. n : \E v \in 1 .. n : q[v] = w
    <2> SUFFICES ASSUME NEW w \in 1 .. n PROVE \E v \in 1 .. n : q[v] = w
      OBVIOUS
    <2>1. CASE w = 1
      BY <1>2, <2>1
    <2>2. CASE w # 1
      <3>1. w - 1 \in 1 .. n - 1
        BY <1>2, <2>2
      <3>2. PICK v \in 1 .. n - 1 : p[v] = w - 1
        BY <1>4, <3>1
      <3>3. v + 1 \in 1 .. n /\ q[v + 1] = w
        BY <1>2, <3>2
      <3> QED
        BY <3>3
    <2> QED
      BY <2>1, <2>2
  <1>8. /\ DOMAIN h = 1 .. n /\ h \in Seq(Urls)
        /\ h[1] = s[1] /\ \A i \in 2 .. n : h[i] = rest[i - 1]
    <2>1. <<Head(s)>> \in Seq(Urls) /\ Len(<<Head(s)>>) = 1 /\ <<Head(s)>>[1] = s[1]
      BY <1>2
    <2>2. /\ h \in Seq(Urls) /\ Len(h) = 1 + (n - 1)
          /\ \A i \in 1 .. 1 + (n - 1) :
                h[i] = IF i <= 1 THEN <<Head(s)>>[i] ELSE rest[i - 1]
      BY <1>1, <1>2, <1>5, <2>1, ConcatProperties
    <2> QED
      BY <1>2, <2>1, <2>2
  <1>9. \A i \in 1 .. n : h[i] = s[q[i]]
    <2> SUFFICES ASSUME NEW i \in 1 .. n PROVE h[i] = s[q[i]]
      OBVIOUS
    <2>1. CASE i = 1
      BY <1>8, <2>1
    <2>2. CASE i # 1
      <3>0. i \in 2 .. n /\ i - 1 \in 1 .. n - 1
        BY <1>2, <2>2
      <3>1. i \in 2 .. n /\ i - 1 \in 1 .. n - 1 /\ p[i - 1] \in 1 .. n - 1
        BY <1>4, <3>0
      <3>2. h[i] = rest[i - 1] /\ rest[i - 1] = t[p[i - 1]]
        BY <1>3, <1>8, <3>1
      <3>3. t[p[i - 1]] = s[p[i - 1] + 1]
        BY <1>2, <3>1
      <3>4. q[i] = p[i - 1] + 1
        BY <2>2
      <3> QED
        BY <3>2, <3>3, <3>4
    <2> QED
      BY <2>1, <2>2
  <1> HIDE DEF q
  <1>10. h = [i \in DOMAIN s |-> s[q[i]]]
    BY <1>2, <1>8, <1>9
  <1>11. q \in Surjection(DOMAIN s, DOMAIN s)
    BY <1>2, <1>6, <1>7 DEF Surjection
  <1>12. Head(h) = Head(s)
    BY <1>2, <1>8
  <1> QED
    BY <1>10, <1>11, <1>12 DEF Rearranged

\* A URL of a tier that is promoted becomes its first.
LEMMA PromoteFacts ==
    ASSUME NEW s \in Seq(Urls), NEW url \in ToSet(s)
    PROVE  Promote(s, url) \in Rearranged(s) /\ Head(Promote(s, url)) = url
  <1> DEFINE n == Len(s)
             I == {i \in 1 .. n : s[i] = url}
             k == Min(I)
             u == SubSeq(s, 1, k - 1)
             v == SubSeq(s, k + 1, n)
             t == u \o v
             h == <<url>> \o t
  <1>1. /\ n \in Nat /\ DOMAIN s = 1 .. n /\ \A i \in 1 .. n : s[i] \in Urls
        /\ url \in Urls /\ I # {} /\ I \in SUBSET Nat
    BY DEF ToSet
  <1>2. k \in I
    <2> HIDE DEF I
    <2> QED
      BY <1>1, MinFacts
  <1>3. Promote(s, url) = h
    BY <1>1 DEF Promote, RemoveFirst, RemoveAt, SelectInSeq
  <1>4. k \in 1 .. n /\ s[k] = url
    BY <1>2
  <1> HIDE DEF I, k, n, h
  <1>5. u \in Seq(Urls) /\ Len(u) = k - 1 /\ \A j \in 1 .. k - 1 : u[j] = s[j]
    <2>1. \A j \in 1 .. k - 1 : s[j] \in Urls /\ 1 + j - 1 = j
      BY <1>1, <1>4
    <2> QED
      BY <1>1, <1>4, <2>1, SubSeqProperties
  <1>6. v \in Seq(Urls) /\ Len(v) = n - k /\ \A j \in 1 .. n - k : v[j] = s[k + j]
    <2>1. \A j \in k + 1 .. n : s[j] \in Urls
      BY <1>1, <1>4
    <2>2. /\ v \in Seq(Urls)
          /\ Len(v) = IF k + 1 <= n THEN n - (k + 1) + 1 ELSE 0
          /\ \A j \in 1 .. n - (k + 1) + 1 : v[j] = s[(k + 1) + j - 1]
      BY <1>1, <1>4, <2>1, SubSeqProperties
    <2> QED
      BY <1>1, <1>4, <2>2
  <1> HIDE DEF u, v
  <1>7. /\ t \in Seq(Urls) /\ Len(t) = n - 1
        /\ \A j \in 1 .. n - 1 : t[j] = IF j < k THEN s[j] ELSE s[j + 1]
    <2>1. /\ t \in Seq(Urls) /\ Len(t) = Len(u) + Len(v)
          /\ \A j \in 1 .. Len(u) + Len(v) :
                t[j] = IF j <= Len(u) THEN u[j] ELSE v[j - Len(u)]
      BY <1>5, <1>6, ConcatProperties
    <2>2. Len(u) + Len(v) = n - 1
      BY <1>1, <1>4, <1>5, <1>6
    <2> SUFFICES ASSUME NEW j \in 1 .. n - 1
                 PROVE  t[j] = IF j < k THEN s[j] ELSE s[j + 1]
      BY <2>1, <2>2
    <2>3. t[j] = IF j <= k - 1 THEN u[j] ELSE v[j - (k - 1)]
      BY <1>5, <2>1, <2>2
    <2>4. CASE j < k
      BY <1>1, <1>4, <1>5, <2>3, <2>4
    <2>5. CASE ~(j < k)
      <3>1. j - (k - 1) \in 1 .. n - k /\ ~(j <= k - 1) /\ k + (j - (k - 1)) = j + 1
        BY <1>1, <1>4, <2>5
      <3> QED
        BY <1>6, <2>3, <2>5, <3>1
    <2> QED
      BY <2>4, <2>5
  <1> HIDE DEF t
  <1>8. /\ h \in Seq(Urls) /\ Len(h) = n /\ DOMAIN h = 1 .. n /\ h[1] = url
        /\ \A j \in 2 .. n : h[j] = t[j - 1]
    <2>1. <<url>> \in Seq(Urls) /\ Len(<<url>>) = 1 /\ <<url>>[1] = url
      BY <1>1
    <2>2. /\ h \in Seq(Urls) /\ Len(h) = 1 + Len(t)
          /\ \A j \in 1 .. 1 + Len(t) : h[j] = IF j <= 1 THEN <<url>>[j] ELSE t[j - 1]
      BY <1>7, <2>1, ConcatProperties DEF h
    <2>3. 1 + Len(t) = n
      BY <1>1, <1>7
    <2> QED
      BY <1>1, <1>4, <2>1, <2>2, <2>3
  <1> DEFINE q == [i \in 1 .. n |-> IF i = 1 THEN k ELSE IF i <= k THEN i - 1 ELSE i]
  <1>9. q \in [1 .. n -> 1 .. n]
    BY <1>1, <1>4
  <1>10. \A w \in 1 .. n : \E i \in 1 .. n : q[i] = w
    <2> SUFFICES ASSUME NEW w \in 1 .. n PROVE \E i \in 1 .. n : q[i] = w
      OBVIOUS
    <2>1. CASE w = k
      <3>1. 1 \in 1 .. n /\ q[1] = w
        BY <1>1, <1>4, <2>1
      <3> QED
        BY <3>1
    <2>2. CASE w < k
      <3>1. w + 1 \in 1 .. n /\ q[w + 1] = w
        BY <1>1, <1>4, <2>2
      <3> QED
        BY <3>1
    <2>3. CASE w > k
      <3>1. q[w] = w
        BY <1>1, <1>4, <2>3
      <3> QED
        BY <3>1
    <2> QED
      BY <1>1, <1>4, <2>1, <2>2, <2>3
  <1>11. \A i \in 1 .. n : h[i] = s[q[i]]
    <2> SUFFICES ASSUME NEW i \in 1 .. n PROVE h[i] = s[q[i]]
      OBVIOUS
    <2>1. CASE i = 1
      BY <1>4, <1>8, <2>1
    <2>2. CASE i # 1
      <3>1. i - 1 \in 1 .. n - 1 /\ h[i] = t[i - 1] /\ (i - 1) + 1 = i
        BY <1>1, <1>8, <2>2
      <3>2. h[i] = IF i - 1 < k THEN s[i - 1] ELSE s[i]
        BY <1>7, <3>1
      <3>3. q[i] = IF i <= k THEN i - 1 ELSE i
        BY <2>2
      <3>4. i - 1 < k <=> i <= k
        BY <1>1, <1>4
      <3> QED
        BY <3>2, <3>3, <3>4
    <2> QED
      BY <2>1, <2>2
  <1> HIDE DEF q
  <1>12. h = [i \in DOMAIN s |-> s[q[i]]]
    BY <1>1, <1>8, <1>11
  <1>13. q \in Surjection(DOMAIN s, DOMAIN s)
    BY <1>1, <1>9, <1>10 DEF Surjection
  <1>14. h \in Rearranged(s)
    BY <1>12, <1>13 DEF Rearranged
  <1>15. Head(h) = url
    BY <1>8
  <1> QED
    BY <1>3, <1>14, <1>15

\* A tier's URLs are its first and those after it.
LEMMA HeadAndRest ==
    ASSUME NEW s \in Tier
    PROVE  ToSet(s) = {Head(s)} \cup ToSet(Tail(s))
  <1>1. /\ Len(s) \in Nat \ {0} /\ DOMAIN s = 1 .. Len(s) /\ Head(s) = s[1]
        /\ DOMAIN Tail(s) = 1 .. Len(s) - 1
        /\ \A i \in 1 .. Len(s) - 1 : Tail(s)[i] = s[i + 1]
    BY DEF Tier
  <1>2. ToSet(s) \subseteq {Head(s)} \cup ToSet(Tail(s))
    <2> SUFFICES ASSUME NEW i \in 1 .. Len(s), i # 1 PROVE s[i] \in ToSet(Tail(s))
      BY <1>1 DEF ToSet
    <2>1. i - 1 \in 1 .. Len(s) - 1 /\ (i - 1) + 1 = i
      BY <1>1
    <2>2. Tail(s)[i - 1] = s[i]
      BY <1>1, <2>1
    <2> QED
      BY <1>1, <2>1, <2>2 DEF ToSet
  <1>3. {Head(s)} \cup ToSet(Tail(s)) \subseteq ToSet(s)
    BY <1>1 DEF ToSet
  <1> QED
    BY <1>2, <1>3

LEMMA RestFacts ==
    ASSUME NEW s \in Tier
    PROVE  IF Len(s) > 1 THEN Tail(s) \in Tier ELSE ToSet(Tail(s)) = {}
  <1>1. s \in Seq(Urls) /\ s # <<>>
    BY DEF Tier
  <1>2. /\ Len(s) \in Nat \ {0} /\ Tail(s) \in Seq(Urls)
        /\ DOMAIN Tail(s) = 1 .. Len(s) - 1
    BY <1>1
  <1>3. CASE Len(s) > 1
    <2>1. 1 \in DOMAIN Tail(s)
      BY <1>2, <1>3
    <2>2. Tail(s) # <<>>
      <3>1. DOMAIN <<>> = 1 .. 0 /\ ~(1 \in 1 .. 0)
        OBVIOUS
      <3> QED
        BY <2>1, <3>1
    <2> QED
      BY <1>2, <1>3, <2>2 DEF Tier
  <1>4. CASE ~(Len(s) > 1)
    <2>1. 1 .. Len(s) - 1 = {}
      BY <1>2, <1>4
    <2>2. ToSet(Tail(s)) = {}
      BY <1>2, <2>1 DEF ToSet
    <2> QED
      BY <1>4, <2>2
  <1> QED
    BY <1>3, <1>4

-----------------------------------------------------------------------------
(* The inductive invariant *)

\* The URLs of the first t tiers.
Covered(t) == UNION {ToSet(Built[i]) : i \in 1 .. t}

\* A call at work has tried, or has still to try in the copy of its tier, each
\* URL of the tiers up to that one.
Going(c) ==
    /\ tier[c] \in 1 .. Len(Built)
    /\ left[c] \in Tier
    /\ ToSet(left[c]) \subseteq ToSet(Built[tier[c]])
    /\ tried[c] \cup ToSet(Tail(left[c])) = Covered(tier[c])

\* A request of the call is on its way.
Asking(c) == udp[c].step \in {"connect", "announce"} /\ udp[c].tid \in Tids

IInv ==
    /\ TypeOK
    /\ \A c \in Calls : tried[c] \subseteq AllUrls
    /\ \A c \in Calls : at[c] \in Working => Going(c)
    /\ \A c \in Calls : at[c] = "udp" => Asking(c)
    /\ AllTriedBeforeFailing
    /\ PromotionLasts

\* The conjuncts of TypeOK about the tiers.
TiersOK ==
    /\ tiers \in Seq(Seq(Urls)) /\ Len(tiers) = Len(Built)
    /\ \A i \in DOMAIN tiers : tiers[i] \in Rearranged(Built[i])

LEMMA TierFacts ==
    ASSUME TiersOK
    PROVE  /\ Len(Built) \in Nat /\ DOMAIN tiers = 1 .. Len(Built)
           /\ DOMAIN Built = 1 .. Len(Built)
           /\ \A i \in 1 .. Len(Built) : /\ Built[i] \in Tier /\ tiers[i] \in Tier
                                         /\ ToSet(tiers[i]) = ToSet(Built[i])
  <1>1. /\ Len(Built) \in Nat /\ DOMAIN tiers = 1 .. Len(Built)
        /\ DOMAIN Built = 1 .. Len(Built)
        /\ \A i \in 1 .. Len(Built) : Built[i] \in Tier
    BY BuiltType DEF TiersOK
  <1>2. ASSUME NEW i \in 1 .. Len(Built)
        PROVE  tiers[i] \in Tier /\ ToSet(tiers[i]) = ToSet(Built[i])
    <2>1. Built[i] \in Seq(Urls) /\ Built[i] # <<>> /\ tiers[i] \in Rearranged(Built[i])
      BY <1>1 DEF TiersOK, Tier
    <2>2. /\ tiers[i] \in Seq(Urls) /\ Len(tiers[i]) = Len(Built[i])
          /\ ToSet(tiers[i]) = ToSet(Built[i])
      BY <2>1, RearrangedFacts
    <2>3. Len(Built[i]) # 0
      BY <2>1
    <2> QED
      BY <2>2, <2>3 DEF Tier
  <1> QED
    BY <1>1, <1>2

\* A tier may be rearranged.
LEMMA ReplaceTier ==
    ASSUME TiersOK, NEW i \in 1 .. Len(Built), NEW s \in Rearranged(tiers[i]),
           tiers' = [tiers EXCEPT ![i] = s]
    PROVE  TiersOK'
  <1>1. DOMAIN tiers = 1 .. Len(Built) /\ Len(Built) \in Nat
    BY TierFacts
  <1>2. Built[i] \in Seq(Urls) /\ tiers[i] \in Seq(Urls) /\ tiers[i] \in Rearranged(Built[i])
    BY <1>1, TierFacts DEF Tier, TiersOK
  <1>3. s \in Rearranged(Built[i]) /\ s \in Seq(Urls)
    BY <1>2, RearrangedTwice, RearrangedFacts
  <1>4. tiers' \in Seq(Seq(Urls)) /\ Len(tiers') = Len(tiers)
    BY <1>1, <1>3 DEF TiersOK
  <1>5. DOMAIN tiers' = DOMAIN tiers
    OBVIOUS
  <1>6. \A j \in DOMAIN tiers' : tiers'[j] \in Rearranged(Built[j])
    BY <1>1, <1>3, <1>5 DEF TiersOK
  <1> QED
    BY <1>4, <1>6 DEF TiersOK

\* What a call is covers all the URLs with the last tier.
LEMMA CoveredFacts ==
    ASSUME TiersOK
    PROVE  /\ Covered(0) = {} /\ Covered(Len(Built)) = AllUrls
           /\ \A t \in 1 .. Len(Built) : /\ Covered(t) \subseteq AllUrls
                                         /\ Covered(t) = Covered(t - 1) \cup ToSet(Built[t])
  <1>1. Len(Built) \in Nat /\ DOMAIN Built = 1 .. Len(Built)
    BY TierFacts
  <1>2. 1 .. 0 = {}
    OBVIOUS
  <1>3. Covered(0) = {} /\ Covered(Len(Built)) = AllUrls
    BY <1>1, <1>2 DEF Covered, AllUrls
  <1>4. ASSUME NEW t \in 1 .. Len(Built)
        PROVE  /\ Covered(t) \subseteq AllUrls
               /\ Covered(t) = Covered(t - 1) \cup ToSet(Built[t])
    <2>1. 1 .. t = 1 .. t - 1 \cup {t} /\ 1 .. t \subseteq 1 .. Len(Built)
      BY <1>1
    <2> QED
      BY <1>1, <2>1 DEF Covered, AllUrls
  <1> QED
    BY <1>3, <1>4

\* A call ends.
LEMMA EndCallInv ==
    ASSUME IInv, NEW c \in Calls, NEW how \in Ended, EndCall(c, how),
           mood' = mood, TiersOK', tried' = tried,
           proven' \in [DOMAIN Built -> SUBSET Urls], PromotionLasts',
           how = "failed" => tried[c] = AllUrls
    PROVE  IInv'
  <1> USE DEF IInv
  <1>1. TypeOK'
    <2>1. 0 \in 0 .. Retries
      BY AnnounceAssumption
    <2> QED
      BY <2>1 DEF TypeOK, TiersOK, EndCall, NoUdp, Ended
  <1>2. \A d \in Calls : d # c =>
           at'[d] = at[d] /\ tier'[d] = tier[d] /\ left'[d] = left[d]
    BY DEF EndCall, TypeOK
  <1>3. at'[c] = how
    BY DEF EndCall, TypeOK
  <1>4. \A d \in Calls : at'[d] \in Working => Going(d)'
    BY <1>2, <1>3 DEF Going, Working, Ended
  <1>7. \A d \in Calls : at'[d] = "udp" => Asking(d)'
    <2>1. \A d \in Calls : d # c => udp'[d] = udp[d]
      BY DEF EndCall, TypeOK
    <2> QED
      BY <1>2, <1>3, <2>1 DEF Asking, Ended
  <1>5. AllTriedBeforeFailing'
    BY <1>2, <1>3 DEF AllTriedBeforeFailing
  <1> QED
    BY <1>1, <1>4, <1>5, <1>7

\* A call goes on to a URL.
LEMMA TryInv ==
    ASSUME IInv, NEW c \in Calls, NEW t \in 1 .. Len(Built), NEW urls \in Tier,
           NEW before \in SUBSET AllUrls, Try(c, t, urls, before),
           ToSet(urls) \subseteq ToSet(Built[t]),
           before \cup ToSet(urls) = Covered(t),
           mood' = mood, proven' = proven, TiersOK', PromotionLasts'
    PROVE  IInv'
  <1> USE DEF IInv
  <1> DEFINE url == Head(urls)
  <1>1. url \in Urls /\ url \in ToSet(urls) /\ ToSet(urls) = {url} \cup ToSet(Tail(urls))
    BY HeadAndRest DEF Tier
  <1>2. Scheme[url] \in Working
    BY <1>1, AnnounceAssumption DEF Working
  <1>3. Len(Built) \in Nat /\ Covered(t) \subseteq AllUrls
    BY TierFacts, CoveredFacts DEF TypeOK, TiersOK
  <1>4. before \cup {url} \subseteq AllUrls
    BY <1>1, <1>3
  <1>5. AllUrls \subseteq Urls
    <2>1. \A i \in 1 .. Len(Built) : Built[i] \in Seq(Urls)
      BY TierFacts DEF TypeOK, TiersOK, Tier
    <2>2. \A i \in 1 .. Len(Built) : ToSet(Built[i]) \subseteq Urls
      BY <2>1 DEF ToSet
    <2> QED
      BY <2>2, TierFacts DEF TypeOK, TiersOK, AllUrls
  <1> HIDE DEF url
  <1>6. /\ tried' = [tried EXCEPT ![c] = before \cup {url}]
        /\ at' = [at EXCEPT ![c] = Scheme[url]]
        /\ tier' = [tier EXCEPT ![c] = t]
        /\ left' = [left EXCEPT ![c] = urls]
        /\ inbox' = [inbox EXCEPT ![c] = {}]
    BY DEF Try, url
  <1>7. /\ udp' \in [Calls -> [step : {"none", "connect", "announce"},
                              tid : Tids \cup {0}, n : 0 .. Retries]]
        /\ sent' \in [Calls -> SUBSET (Tids \X {"connect", "announce"})]
        /\ \A d \in Calls : d # c => udp'[d] = udp[d]
        /\ Scheme[url] = "udp" => Asking(c)'
    <2>1. 0 \in 0 .. Retries
      BY AnnounceAssumption
    <2>2. CASE Scheme[url] = "udp"
      <3>1. PICK tid \in Tids : Request(c, "connect", tid, 0, {})
        BY <2>2 DEF Try, url
      <3> QED
        BY <2>1, <2>2, <3>1 DEF Request, TypeOK, Asking
    <2>3. CASE Scheme[url] # "udp"
      <3>1. udp' = [udp EXCEPT ![c] = NoUdp] /\ sent' = [sent EXCEPT ![c] = {}]
        BY <2>3 DEF Try, url
      <3> QED
        BY <2>1, <2>3, <3>1 DEF NoUdp, TypeOK
    <2> QED
      BY <2>2, <2>3
  <1>8. TypeOK'
    <2>1. at' \in [Calls -> {"idle"} \cup Working \cup Ended]
      BY <1>2, <1>6 DEF TypeOK
    <2>2. tier' \in [Calls -> Nat] /\ left' \in [Calls -> Seq(Urls)]
      BY <1>3, <1>6 DEF TypeOK, Tier
    <2>3. tried' \in [Calls -> SUBSET Urls]
      BY <1>4, <1>5, <1>6 DEF TypeOK
    <2>4. inbox' \in [Calls -> SUBSET (Tids \X {"connect", "announce", "error"})]
      BY <1>6 DEF TypeOK
    <2>5. mood' \in [Urls -> AllMoods]
      BY DEF TypeOK
    <2> QED
      BY <1>7, <2>1, <2>2, <2>3, <2>4, <2>5 DEF TypeOK, TiersOK
  <1>9. \A d \in Calls : d # c =>
          /\ at'[d] = at[d] /\ tier'[d] = tier[d] /\ left'[d] = left[d]
          /\ tried'[d] = tried[d]
    BY <1>6 DEF TypeOK
  <1>10. /\ at'[c] \in Working /\ tier'[c] = t /\ left'[c] = urls
         /\ tried'[c] = before \cup {url}
    BY <1>2, <1>6 DEF TypeOK
  <1>11. \A d \in Calls : tried'[d] \subseteq AllUrls
    BY <1>4, <1>9, <1>10
  <1>12. \A d \in Calls : at'[d] \in Working => Going(d)'
    BY <1>1, <1>9, <1>10 DEF Going
  <1>13. AllTriedBeforeFailing'
    BY <1>9, <1>10 DEF AllTriedBeforeFailing, Working
  <1>14. \A d \in Calls : at'[d] = "udp" => Asking(d)'
    <2>1. at'[c] = Scheme[url]
      BY <1>6 DEF TypeOK
    <2> QED
      BY <1>7, <1>9, <2>1 DEF Asking
  <1> QED
    BY <1>8, <1>11, <1>12, <1>13, <1>14

\* A call goes on to the next tier.
LEMMA EnterTierInv ==
    ASSUME IInv, NEW c \in Calls, NEW t \in 1 .. Len(Built), EnterTier(c, t, Covered(t - 1)),
           UNCHANGED <<mood, proven>>
    PROVE  IInv'
  <1>1. TiersOK
    BY DEF IInv, TypeOK, TiersOK
  <1>2. PICK s \in Shuffled(tiers[t]) : /\ tiers' = [tiers EXCEPT ![t] = s]
                                        /\ Try(c, t, s, Covered(t - 1))
    BY DEF EnterTier
  <1>3. /\ Len(Built) \in Nat /\ DOMAIN tiers = 1 .. Len(Built)
        /\ tiers[t] \in Tier /\ ToSet(tiers[t]) = ToSet(Built[t])
    BY <1>1, TierFacts
  <1>4. s \in Rearranged(tiers[t]) /\ Head(s) = Head(tiers[t])
    BY <1>3, ShuffledFacts
  <1>5. TiersOK'
    BY <1>1, <1>2, <1>4, ReplaceTier
  <1>6. s \in Tier /\ ToSet(s) = ToSet(Built[t])
    <2>1. tiers[t] \in Seq(Urls) /\ Len(tiers[t]) # 0
      BY <1>3 DEF Tier
    <2>2. s \in Seq(Urls) /\ Len(s) = Len(tiers[t]) /\ ToSet(s) = ToSet(tiers[t])
      BY <1>4, <2>1, RearrangedFacts
    <2> QED
      BY <1>3, <2>1, <2>2 DEF Tier
  <1>7. Covered(t - 1) \in SUBSET AllUrls /\ Covered(t - 1) \cup ToSet(s) = Covered(t)
    BY <1>1, <1>6, CoveredFacts
  <1>8. \A i \in DOMAIN tiers : Head(tiers'[i]) = Head(tiers[i])
    BY <1>2, <1>4
  <1>9. PromotionLasts'
    <2>1. DOMAIN tiers' = DOMAIN tiers
      BY <1>2
    <2> QED
      BY <1>8, <2>1 DEF IInv, PromotionLasts
  <1> QED
    BY <1>2, <1>5, <1>6, <1>7, <1>9, TryInv

\* A call goes on to the next URL, or fails.
LEMMA FailoverInv ==
    ASSUME IInv, NEW c \in Calls, at[c] \in Working, Failover(c)
    PROVE  IInv'
  <1>1. /\ UNCHANGED <<mood, proven>> /\ TiersOK /\ TypeOK /\ Going(c)
        /\ Len(tiers) = Len(Built) /\ Len(Built) \in Nat
    BY TierFacts DEF IInv, TypeOK, TiersOK, Failover
  <1>2. left[c] \in Tier /\ tier[c] \in 1 .. Len(Built)
    BY <1>1 DEF Going
  <1>3. CASE Len(left[c]) > 1
    <2> DEFINE urls == Tail(left[c])
    <2>1. Try(c, tier[c], urls, tried[c]) /\ tiers' = tiers
      BY <1>3 DEF Failover
    <2>2. urls \in Tier
      BY <1>2, <1>3, RestFacts
    <2>3. ToSet(urls) \subseteq ToSet(Built[tier[c]])
      BY <1>1, HeadAndRest DEF Going
    <2>4. tried[c] \in SUBSET AllUrls /\ tried[c] \cup ToSet(urls) = Covered(tier[c])
      BY <1>1 DEF IInv, Going
    <2>5. TiersOK' /\ PromotionLasts'
      BY <1>1, <2>1 DEF TiersOK, IInv, PromotionLasts
    <2> HIDE DEF urls
    <2> QED
      BY <1>1, <1>2, <2>1, <2>2, <2>3, <2>4, <2>5, TryInv
  <1>4. CASE ~(Len(left[c]) > 1)
    <2>1. ToSet(Tail(left[c])) = {}
      BY <1>2, <1>4, RestFacts
    <2>2. tried[c] = Covered(tier[c])
      BY <1>1, <2>1 DEF Going
    <2>3. CASE tier[c] < Len(tiers)
      <3>1. EnterTier(c, tier[c] + 1, tried[c])
        BY <1>4, <2>3 DEF Failover
      <3>2. tier[c] + 1 \in 1 .. Len(Built) /\ (tier[c] + 1) - 1 = tier[c]
        BY <1>1, <1>2, <2>3
      <3> QED
        BY <1>1, <2>2, <3>1, <3>2, EnterTierInv
    <2>4. CASE ~(tier[c] < Len(tiers))
      <3>1. EndCall(c, "failed") /\ UNCHANGED <<tiers, tried>>
        BY <1>4, <2>4 DEF Failover
      <3>2. tried[c] = AllUrls
        BY <1>1, <1>2, <2>2, <2>4, CoveredFacts
      <3>3. TiersOK' /\ PromotionLasts' /\ proven' \in [DOMAIN Built -> SUBSET Urls]
        BY <1>1, <3>1 DEF TiersOK, IInv, TypeOK, PromotionLasts
      <3> QED
        BY <1>1, <3>1, <3>2, <3>3, EndCallInv DEF Ended
    <2> QED
      BY <2>3, <2>4
  <1> QED
    BY <1>3, <1>4

\* A call has its answer: the URL it came from is now the first of its tier.
LEMMA SucceedInv ==
    ASSUME IInv, NEW c \in Calls, at[c] \in Working, Succeed(c)
    PROVE  IInv'
  <1> DEFINE t == tier[c]
             s == Promote(tiers[t], Head(left[c]))
  <1>1. TiersOK /\ TypeOK /\ Going(c)
    BY DEF IInv, TypeOK, TiersOK
  <1>2. /\ t \in 1 .. Len(Built) /\ DOMAIN tiers = 1 .. Len(Built)
        /\ DOMAIN Built = 1 .. Len(Built)
        /\ tiers[t] \in Seq(Urls) /\ ToSet(tiers[t]) = ToSet(Built[t])
    BY <1>1, TierFacts DEF Going, Tier
  <1>3. Head(left[c]) \in ToSet(tiers[t]) /\ Head(left[c]) \in Urls
    BY <1>1, <1>2, HeadAndRest DEF Going, Tier
  <1>4. s \in Rearranged(tiers[t]) /\ Head(s) = Head(left[c])
    BY <1>2, <1>3, PromoteFacts
  <1>5. /\ tiers' = [tiers EXCEPT ![t] = s]
        /\ proven' = [proven EXCEPT ![t] = {Head(left[c])}]
        /\ EndCall(c, "ok") /\ mood' = mood /\ tried' = tried
    BY DEF Succeed
  <1> HIDE DEF s, t
  <1>6. TiersOK'
    BY <1>1, <1>2, <1>4, <1>5, ReplaceTier
  <1>7. proven' \in [DOMAIN Built -> SUBSET Urls]
    BY <1>1, <1>2, <1>3, <1>5 DEF TypeOK
  <1>8. PromotionLasts'
    <2>1. PromotionLasts /\ proven \in [1 .. Len(Built) -> SUBSET Urls]
      BY <1>1, <1>2 DEF IInv, TypeOK
    <2>2. DOMAIN tiers' = 1 .. Len(Built)
      BY <1>2, <1>5
    <2>3. tiers'[t] = s /\ proven'[t] = {Head(left[c])}
      BY <1>2, <1>5, <2>1
    <2>4. \A i \in 1 .. Len(Built) : i # t => tiers'[i] = tiers[i] /\ proven'[i] = proven[i]
      BY <1>2, <1>5, <2>1
    <2>5. \A i \in 1 .. Len(Built) : \A url \in proven[i] : Head(tiers[i]) = url
      BY <1>2, <2>1 DEF PromotionLasts
    <2> QED
      BY <1>4, <2>2, <2>3, <2>4, <2>5 DEF PromotionLasts
  <1> QED
    BY <1>5, <1>6, <1>7, <1>8, EndCallInv DEF Ended

\* Steps that touch nothing but the datagrams of a call.
LEMMA DatagramInv ==
    ASSUME IInv, UNCHANGED <<mood, tiers, at, tier, left, tried, proven>>,
           udp' \in [Calls -> [step : {"none", "connect", "announce"},
                               tid : Tids \cup {0}, n : 0 .. Retries]],
           sent' \in [Calls -> SUBSET (Tids \X {"connect", "announce"})],
           inbox' \in [Calls -> SUBSET (Tids \X {"connect", "announce", "error"})],
           \A c \in Calls : at[c] = "udp" => Asking(c)'
    PROVE  IInv'
  <1>1. TypeOK'
    BY DEF IInv, TypeOK
  <1>2. \A d \in Calls : Going(d)' <=> Going(d)
    BY DEF Going
  <1> QED
    BY <1>1, <1>2 DEF IInv, AllTriedBeforeFailing, PromotionLasts

LEMMA InitInv == Init => IInv
  <1> SUFFICES ASSUME Init PROVE IInv
    OBVIOUS
  <1>1. mood \in [Urls -> AllMoods]
    BY AnnounceAssumption DEF Init
  <1>2. TiersOK
    <2>1. Built \in Seq(Tier) /\ tiers = Built
      BY BuiltType DEF Init
    <2>2. \A i \in DOMAIN Built : Built[i] \in Seq(Urls)
      BY <2>1 DEF Tier
    <2>3. \A i \in DOMAIN tiers : tiers[i] \in Rearranged(Built[i])
      BY <2>1, <2>2, RearrangedSelf
    <2>4. tiers \in Seq(Seq(Urls))
      BY <2>1, SeqMonotonic DEF Tier
    <2> QED
      BY <2>1, <2>3, <2>4 DEF TiersOK
  <1>3. TypeOK
    <2>1. 0 \in 0 .. Retries
      BY AnnounceAssumption
    <2> QED
      BY <1>1, <1>2, <2>1 DEF Init, TypeOK, TiersOK, NoUdp
  <1>4. \A c \in Calls : at[c] = "idle" /\ tried[c] = {}
    BY DEF Init
  <1>5. PromotionLasts
    BY DEF Init, PromotionLasts
  <1> QED
    BY <1>3, <1>4, <1>5 DEF IInv, Working, AllTriedBeforeFailing

LEMMA NextInv == ASSUME IInv, [Next]_vars PROVE IInv'
  <1> USE DEF Working
  <1>1. ASSUME NEW c \in Calls, Begin(c) PROVE IInv'
    <2>1. TiersOK /\ TypeOK /\ UNCHANGED <<mood, proven>>
      BY <1>1 DEF IInv, TypeOK, TiersOK, Begin
    <2>2. Len(Built) \in Nat /\ Len(tiers) = Len(Built) /\ DOMAIN tiers = 1 .. Len(Built)
      BY <2>1, TierFacts DEF TiersOK
    <2>3. CASE tiers = <<>>
      <3>1. EndCall(c, "failed") /\ UNCHANGED <<tiers, tried>>
        BY <1>1, <2>3 DEF Begin
      <3>2. DOMAIN Built = {}
        BY <2>1, <2>2, <2>3, TierFacts
      <3>3. tried[c] = AllUrls
        BY <3>2 DEF IInv, AllUrls
      <3>4. proven' = proven
        BY <1>1 DEF Begin
      <3>5. TiersOK' /\ PromotionLasts' /\ proven' \in [DOMAIN Built -> SUBSET Urls]
        BY <2>1, <3>1, <3>4 DEF TiersOK, IInv, TypeOK, PromotionLasts
      <3> QED
        BY <2>1, <3>1, <3>3, <3>5, EndCallInv DEF Ended
    <2>4. CASE tiers # <<>>
      <3>1. EnterTier(c, 1, {})
        BY <1>1, <2>4 DEF Begin
      <3>2. 1 \in 1 .. Len(Built) /\ 1 - 1 = 0
        <4>1. Len(tiers) # 0
          BY <2>1, <2>4 DEF TiersOK
        <4> QED
          BY <2>2, <4>1
      <3>3. EnterTier(c, 1, Covered(1 - 1))
        BY <2>1, <3>1, <3>2, CoveredFacts
      <3> QED
        BY <2>1, <3>2, <3>3, EnterTierInv
    <2> QED
      BY <2>3, <2>4
  <1>2. ASSUME NEW c \in Calls, HttpAnswers(c) PROVE IInv'
    BY <1>2, SucceedInv DEF HttpAnswers
  <1>3. ASSUME NEW c \in Calls, HttpFails(c) PROVE IInv'
    BY <1>3, FailoverInv DEF HttpFails
  <1>4. ASSUME NEW c \in Calls, HttpGarbled(c) PROVE IInv'
    <2>1. EndCall(c, "raised") /\ UNCHANGED <<mood, tiers, tried, proven>>
      BY <1>4 DEF HttpGarbled, Raise
    <2>2. TiersOK' /\ PromotionLasts' /\ proven' \in [DOMAIN Built -> SUBSET Urls]
      BY <2>1 DEF IInv, TypeOK, TiersOK, PromotionLasts
    <2> QED
      BY <2>1, <2>2, EndCallInv DEF Ended
  <1>5. ASSUME NEW c \in Calls, Connected(c) PROVE IInv'
    <2>1. PICK tid \in Tids : Request(c, "announce", tid, 0, sent[c])
      BY <1>5 DEF Connected
    <2>2. 0 \in 0 .. Retries
      BY AnnounceAssumption
    <2>3. UNCHANGED <<mood, tiers, at, tier, left, tried, inbox, proven>>
      BY <1>5 DEF Connected
    <2>4. /\ udp' \in [Calls -> [step : {"none", "connect", "announce"},
                                tid : Tids \cup {0}, n : 0 .. Retries]]
          /\ sent' \in [Calls -> SUBSET (Tids \X {"connect", "announce"})]
      BY <2>1, <2>2 DEF Request, IInv, TypeOK
    <2>5. inbox' \in [Calls -> SUBSET (Tids \X {"connect", "announce", "error"})]
      BY <2>3 DEF IInv, TypeOK
    <2>6. \A d \in Calls : at[d] = "udp" => Asking(d)'
      BY <2>1 DEF Request, Asking, IInv, TypeOK
    <2> QED
      BY <2>3, <2>4, <2>5, <2>6, DatagramInv
  <1>6. ASSUME NEW c \in Calls, Announced(c) PROVE IInv'
    BY <1>6, SucceedInv DEF Announced, Received
  <1>7. ASSUME NEW c \in Calls, UdpRefused(c) PROVE IInv'
    <2>1. at[c] \in Working /\ Failover(c)
      BY <1>7 DEF UdpRefused, Received
    <2> QED
      BY <2>1, FailoverInv
  <1>8. ASSUME NEW c \in Calls, UdpLost(c) PROVE IInv'
    BY <1>8, FailoverInv DEF UdpLost
  <1>9. ASSUME NEW c \in Calls, TrackerAnswers(c) PROVE IInv'
    <2>1. UNCHANGED <<mood, tiers, at, tier, left, tried, udp, sent, proven>>
      BY <1>9 DEF TrackerAnswers
    <2>2. PICK r \in sent[c], kind \in {"connect", "announce", "error"} :
             inbox' = [inbox EXCEPT ![c] = @ \cup {<<r[1], kind>>}]
      BY <1>9 DEF TrackerAnswers
    <2>3. r[1] \in Tids
      BY DEF IInv, TypeOK
    <2>4. inbox' \in [Calls -> SUBSET (Tids \X {"connect", "announce", "error"})]
      BY <2>2, <2>3 DEF IInv, TypeOK
    <2>5. /\ udp' \in [Calls -> [step : {"none", "connect", "announce"},
                                tid : Tids \cup {0}, n : 0 .. Retries]]
          /\ sent' \in [Calls -> SUBSET (Tids \X {"connect", "announce"})]
      BY <2>1 DEF IInv, TypeOK
    <2>6. \A d \in Calls : at[d] = "udp" => Asking(d)'
      BY <2>1 DEF Asking, IInv
    <2> QED
      BY <2>1, <2>4, <2>5, <2>6, DatagramInv
  <1>10. ASSUME NEW c \in Calls, Resend(c) PROVE IInv'
    <2>1. /\ UNCHANGED <<mood, tiers, at, tier, left, tried, inbox, proven>>
          /\ at[c] = "udp" /\ udp[c].n < Retries
          /\ Request(c, udp[c].step, udp[c].tid, udp[c].n + 1, sent[c])
      BY <1>10 DEF Resend
    <2>2. udp[c].n + 1 \in 0 .. Retries
      BY <2>1, AnnounceAssumption DEF IInv, TypeOK
    <2>3. Asking(c)
      BY <2>1 DEF IInv
    <2>4. /\ udp' \in [Calls -> [step : {"none", "connect", "announce"},
                                tid : Tids \cup {0}, n : 0 .. Retries]]
          /\ sent' \in [Calls -> SUBSET (Tids \X {"connect", "announce"})]
      BY <2>1, <2>2, <2>3 DEF Request, Asking, IInv, TypeOK
    <2>5. inbox' \in [Calls -> SUBSET (Tids \X {"connect", "announce", "error"})]
      BY <2>1 DEF IInv, TypeOK
    <2>6. \A d \in Calls : at[d] = "udp" => Asking(d)'
      BY <2>1, <2>3 DEF Request, Asking, IInv, TypeOK
    <2> QED
      BY <2>1, <2>4, <2>5, <2>6, DatagramInv
  <1>11. CASE UNCHANGED vars
    <2>1. UNCHANGED <<mood, tiers, at, tier, left, tried, udp, sent, inbox, proven>>
      BY <1>11 DEF vars
    <2>2. TypeOK'
      BY <2>1 DEF IInv, TypeOK
    <2>3. \A d \in Calls : (Going(d)' <=> Going(d)) /\ (Asking(d)' <=> Asking(d))
      BY <2>1 DEF Going, Asking
    <2>4. IInv'
      BY <2>1, <2>2, <2>3 DEF IInv, AllTriedBeforeFailing, PromotionLasts
    <2> QED
      BY <2>1, <2>4
  <1> QED
    BY <1>1, <1>2, <1>3, <1>4, <1>5, <1>6, <1>7, <1>8, <1>9, <1>10, <1>11 DEF Next, Http, Udp

LEMMA Invariance == Spec => []IInv
  <1>1. IInv /\ [Next]_vars => IInv'
    BY NextInv
  <1> QED
    BY InitInv, <1>1, PTL DEF Spec

-----------------------------------------------------------------------------
(* Theorems *)

\* The types hold, and each tier keeps its URLs: no step of any call loses one
\* or adds one (client.py:543-565).
THEOREM Typed == Spec => []TypeOK
  <1>1. IInv => TypeOK
    BY DEF IInv
  <1> QED
    BY Invariance, <1>1, PTL

\* A call ends with "all trackers failed" only when it has tried every tracker
\* of every tier, whatever other calls do to the tiers (client.py:542-586).
THEOREM FailsAfterAll == Spec => []AllTriedBeforeFailing
  <1>1. IInv => AllTriedBeforeFailing
    BY DEF IInv
  <1> QED
    BY Invariance, <1>1, PTL

\* A URL that answered stays the first of its tier until another one answers:
\* no shuffle of a concurrent call takes the promotion back (client.py:543-565).
THEOREM ProvenStayFirst == Spec => []PromotionLasts
  <1>1. IInv => PromotionLasts
    BY DEF IInv
  <1> QED
    BY Invariance, <1>1, PTL
=============================================================================
