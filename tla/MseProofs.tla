------------------------------ MODULE MseProofs ------------------------------
(***************************************************************************)
(* Proofs about Mse: types, and that the connection setup implements       *)
(* Channel, for any policies, offers, torrents and faults.  What travels   *)
(* is constrained by the sets SentByA and SentByB: a handshake is on its   *)
(* way to A only if B is up, and an offer on its way to B is the one A     *)
(* makes.                                                                  *)
(***************************************************************************)
EXTENDS Mse, SequenceTheorems, TLAPS

USE DEF Modes, Policies

\* Tokens that may be on their way to A, and to B.
SentByB == {t \in Tokens : t.what = "hs" => pcB = "open" /\ t.mode = modeB}
SentByA == {t \in Tokens : t.what = "offer" => t.crypto = setup.offer}

Allowed == AcceptsA(setup) \cap Accepts(setup.policyB)

Shape ==
    /\ setup \in Setups
    /\ sessions \in SUBSET Hashes /\ lookup \in SUBSET Hashes /\ hashB \in SUBSET Hashes
    /\ pcA \in {"dial", "key", "vc", "hs", "open", "failed"}
    /\ pcB \in {"idle", "first", "key", "offer", "hs", "open", "failed"}
    /\ modeA \in Modes /\ modeB \in Modes
    /\ closed \in SUBSET {"A", "B"}
    /\ faulted \in BOOLEAN

Streams == toA \in Seq(SentByB) /\ toB \in Seq(SentByA)

\* Nothing is there before the dial.
BeforeDial == /\ pcA = "dial" <=> pcB = "idle"
              /\ pcA = "dial" => toA = <<>> /\ toB = <<>> /\ closed = {}

\* The first token of a dialling side that uses MSE is its key.
FirstIsKey ==
    pcB = "first" /\ UsesMse(setup) =>
       IF "B" \in closed THEN toB = <<>> ELSE toB # <<>> /\ Head(toB).what = "key"

\* B is in plaintext until it has selected, and selects what both accept.
ModeOfB == /\ pcB \in {"idle", "first", "key", "offer"} => modeB = "plain"
           /\ pcB \in {"hs", "open"} => modeB \in Allowed

MseInv == Shape /\ Streams /\ BeforeDial /\ FirstIsKey /\ ModeOfB

-----------------------------------------------------------------------------
(* Lemmas about setups, tokens and streams *)

\* What a setup consists of.
LEMMA SetupType ==
    ASSUME setup \in Setups
    PROVE  /\ setup.hash \in Hashes /\ setup.policyA \in Policies /\ setup.policyB \in Policies
           /\ setup.offer \in SUBSET Modes /\ setup.offer # {}
           /\ setup.who = "foreign" => setup.policyA = "PREFERRED"
           /\ setup.who # "foreign" => setup.offer = Accepts(setup.policyA)
<1>1. MseAssumption
  BY MseAssumption
<1> QED
  BY <1>1 DEF Setups, MseAssumption

\* The tokens both sides make are tokens.
LEMMA TokenType ==
    ASSUME setup \in Setups,
           NEW w \in {"key", "pad", "offer", "select", "hs", "msg"}, NEW m \in Modes, NEW c \in SUBSET Modes,
           w = "select" => \E n \in Modes : c = {n}
    PROVE  /\ Token(w, m, c) \in Tokens
           /\ Token(w, m, c).what = w /\ Token(w, m, c).mode = m /\ Token(w, m, c).crypto = c
BY SetupType DEF Token, Tokens

\* A stream of tokens of one kind is a stream of tokens of a wider kind.
LEMMA Widened ==
    ASSUME NEW S, NEW T, S \subseteq T, NEW s \in Seq(S)
    PROVE  s \in Seq(T)
<1>1. s \in [1 .. Len(s) -> S] /\ Len(s) \in Nat
  OBVIOUS
<1> QED
  BY <1>1

LEMMA Consumed ==
    ASSUME NEW S, NEW s \in Seq(S), s # <<>>
    PROVE  Head(s) \in S /\ Tail(s) \in Seq(S)
OBVIOUS

LEMMA Short ==
    ASSUME NEW S, NEW a \in S, NEW b \in S
    PROVE  /\ <<a>> \in Seq(S) /\ <<a>> # <<>> /\ Head(<<a>>) = a
           /\ <<a, b>> \in Seq(S) /\ <<a, b>> # <<>> /\ Head(<<a, b>>) = a
<1>1. Len(<<a, b>>) = 2 /\ Len(<<a>>) = 1 /\ Len(<<>>) = 0
  OBVIOUS
<1>2. <<a>> # <<>> /\ <<a, b>> # <<>>
  BY <1>1
<1>3. <<a>> \in Seq(S) /\ <<a, b>> \in Seq(S)
  OBVIOUS
<1>4. Head(<<a>>) = a /\ Head(<<a, b>>) = a
  OBVIOUS
<1> QED
  BY <1>2, <1>3, <1>4

LEMMA Joined ==
    ASSUME NEW S, NEW s \in Seq(S), NEW t \in Seq(S)
    PROVE  /\ s \o t \in Seq(S)
           /\ s # <<>> => s \o t # <<>> /\ Head(s \o t) = Head(s)
           /\ s = <<>> => s \o t = t
<1>1. s \o t \in Seq(S)
  OBVIOUS
<1>2. ASSUME s # <<>> PROVE s \o t # <<>> /\ Head(s \o t) = Head(s)
  <2>1. Len(s) > 0 /\ Len(s \o t) = Len(s) + Len(t) /\ (s \o t)[1] = s[1]
    BY <1>2
  <2> QED
    BY <1>1, <1>2, <2>1
<1> QED
  BY <1>1, <1>2

\* What may be on its way to B does not change; what may be on its way to A
\* only grows when B comes up.
LEMMA SentByAKept == ASSUME setup' = setup PROVE SentByA' = SentByA
BY DEF SentByA

LEMMA SentByBGrows ==
    ASSUME setup' = setup,
           \/ pcB' = pcB /\ modeB' = modeB
           \/ pcB # "open"
    PROVE  SentByB \subseteq SentByB'
BY DEF SentByB

-----------------------------------------------------------------------------
(* The invariant *)

LEMMA MseInvInit == Init => MseInv
<1> SUFFICES ASSUME Init PROVE MseInv
  OBVIOUS
<1>1. Shape
  BY DEF Init, Shape
<1>2. Streams
  BY DEF Init, Streams
<1> QED
  BY <1>1, <1>2 DEF Init, MseInv, BeforeDial, FirstIsKey, ModeOfB

\* Bytes that A writes keep the streams and the first token what they are.
LEMMA WrittenToB ==
    ASSUME MseInv, setup' = setup, NEW ts \in Seq(SentByA), ToB(ts)
    PROVE  /\ toB' \in Seq(SentByA')
           /\ pcB = "first" /\ UsesMse(setup) /\ "B" \notin closed =>
                 toB' # <<>> /\ Head(toB').what = "key"
           /\ "B" \in closed => toB' = toB
<1>1. toB \in Seq(SentByA)
  BY DEF MseInv, Streams
<1>2. SentByA' = SentByA
  BY SentByAKept
<1>3. toB \o ts \in Seq(SentByA)
  BY <1>1, Joined
<1>4. pcB = "first" /\ UsesMse(setup) /\ "B" \notin closed =>
         toB' # <<>> /\ Head(toB').what = "key"
  <2> SUFFICES ASSUME pcB = "first", UsesMse(setup), "B" \notin closed
               PROVE  toB' # <<>> /\ Head(toB').what = "key"
    OBVIOUS
  <2>1. toB # <<>> /\ Head(toB).what = "key"
    BY DEF MseInv, FirstIsKey
  <2>2. toB' = toB \o ts
    BY DEF ToB
  <2> QED
    BY <1>1, <2>1, <2>2, Joined
<1> QED
  BY <1>1, <1>2, <1>3, <1>4 DEF ToB

\* Bytes that B writes keep what may be on its way to A.
LEMMA WrittenToA ==
    ASSUME MseInv, SentByB \subseteq SentByB', NEW ts \in Seq(SentByB'), ToA(ts) \/ toA' = toA
    PROVE  toA' \in Seq(SentByB')
<1>1. toA \in Seq(SentByB)
  BY DEF MseInv, Streams
<1> DEFINE S == SentByB  T == SentByB'
<1>2. S \subseteq T /\ ts \in Seq(T) /\ toA \in Seq(S)
  BY <1>1
<1> HIDE DEF S, T
<1>3. toA \in Seq(T)
  BY <1>2, Widened
<1>4. toA \o ts \in Seq(T)
  BY <1>2, <1>3, Joined
<1>5. toA' \in Seq(T)
  BY <1>3, <1>4 DEF ToA
<1> QED
  BY <1>5 DEF T

\* What each side writes may be on its way.
LEMMA TokensOfA ==
    ASSUME setup \in Setups
    PROVE  /\ Key \in SentByA /\ Pad \in SentByA /\ Offer \in SentByA
           /\ \A m \in Modes : Hs(m) \in SentByA /\ Msg(m) \in SentByA
<1>1. setup.offer \in SUBSET Modes
  BY SetupType
<1>2. Key \in SentByA /\ Pad \in SentByA
  BY TokenType DEF Key, Pad, SentByA
<1>3. Offer \in SentByA
  BY <1>1, TokenType DEF Offer, SentByA
<1>4. \A m \in Modes : Hs(m) \in SentByA /\ Msg(m) \in SentByA
  BY TokenType DEF Hs, Msg, SentByA
<1> QED
  BY <1>2, <1>3, <1>4

LEMMA TokensOfB ==
    ASSUME setup \in Setups
    PROVE  /\ Key \in SentByB' /\ Pad \in SentByB'
           /\ \A m \in Modes : Select(m) \in SentByB' /\ Msg(m) \in SentByB'
           /\ \A m \in Modes : pcB' = "open" /\ modeB' = m => Hs(m) \in SentByB'
<1>1. Key \in SentByB' /\ Pad \in SentByB'
  BY TokenType DEF Key, Pad, SentByB
<1>2. \A m \in Modes : Select(m) \in SentByB' /\ Msg(m) \in SentByB'
  BY TokenType DEF Select, Msg, SentByB
<1>3. \A m \in Modes : pcB' = "open" /\ modeB' = m => Hs(m) \in SentByB'
  BY TokenType DEF Hs, SentByB
<1> QED
  BY <1>1, <1>2, <1>3

\* A step of A after the dial: it reads at most a token, writes something, and
\* may close its transport.
LEMMA StepOfA ==
    ASSUME MseInv, UNCHANGED <<setup, sessions, sideB>>,
           pcA # "dial", pcA' \in {"key", "vc", "hs", "open", "failed"}, modeA' \in Modes,
           closed' = closed \/ closed' = closed \cup {"A"}, faulted' \in BOOLEAN,
           toA' = toA \/ (toA # <<>> /\ toA' = Tail(toA)),
           NEW ts \in Seq(SentByA), toB' = toB \/ ToB(ts)
    PROVE  MseInv'
<1>1. Shape'
  BY DEF MseInv, Shape, sideB
<1>2. SentByB' = SentByB /\ SentByA' = SentByA
  BY SentByAKept DEF SentByB, sideB
<1>3. toA \in Seq(SentByB) /\ toB \in Seq(SentByA)
  BY DEF MseInv, Streams
<1>4. toA' \in Seq(SentByB)
  BY <1>3, Consumed
<1>5. toB' \in Seq(SentByA)
  BY <1>2, <1>3, WrittenToB
<1>6. Streams'
  BY <1>2, <1>4, <1>5 DEF Streams
<1>7. BeforeDial'
  BY DEF MseInv, BeforeDial, sideB
<1>8. FirstIsKey'
  <2>1. "B" \in closed' <=> "B" \in closed
    OBVIOUS
  <2>2. pcB' = pcB /\ UsesMse(setup') = UsesMse(setup)
    BY DEF sideB
  <2>3. pcB = "first" /\ UsesMse(setup) =>
           IF "B" \in closed THEN toB' = <<>> ELSE toB' # <<>> /\ Head(toB').what = "key"
    BY WrittenToB DEF MseInv, FirstIsKey
  <2> QED
    BY <2>1, <2>2, <2>3 DEF FirstIsKey
<1>9. ModeOfB'
  BY DEF MseInv, ModeOfB, Allowed, sideB
<1> QED
  BY <1>1, <1>6, <1>7, <1>8, <1>9 DEF MseInv

\* A step of B after the dial that leaves its first state or never was in it.
LEMMA StepOfB ==
    ASSUME MseInv, UNCHANGED <<setup, sideA>>,
           pcB # "idle", pcB' \in {"key", "offer", "hs", "open", "failed"},
           sessions' \in SUBSET Hashes, lookup' \in SUBSET Hashes, hashB' \in SUBSET Hashes,
           modeB' \in Modes, ModeOfB',
           closed' = closed \/ closed' = closed \cup {"B"}, faulted' \in BOOLEAN,
           toB' = toB \/ (toB # <<>> /\ toB' = Tail(toB)) \/ toB' = <<>>,
           SentByB \subseteq SentByB',
           NEW ts \in Seq(SentByB'), toA' = toA \/ ToA(ts)
    PROVE  MseInv'
<1>1. Shape'
  BY DEF MseInv, Shape, sideA
<1>2. toB \in Seq(SentByA)
  BY DEF MseInv, Streams
<1>3. toB' \in Seq(SentByA)
  <2>1. <<>> \in Seq(SentByA)
    OBVIOUS
  <2> QED
    BY <1>2, <2>1, Consumed
<1>4. Streams'
  BY <1>3, SentByAKept, WrittenToA DEF Streams
<1>5. BeforeDial'
  BY DEF MseInv, BeforeDial, sideA
<1> QED
  BY <1>1, <1>4, <1>5 DEF MseInv, FirstIsKey

\* A gives up on the MSE handshake: in both cases a step of A.
LEMMA DeclinedStep ==
    ASSUME MseInv, Declined, UNCHANGED <<setup, sessions, sideB>>,
           pcA # "dial", modeA' = modeA, faulted' \in BOOLEAN,
           toA' = toA \/ (toA # <<>> /\ toA' = Tail(toA))
    PROVE  MseInv'
<1>1. modeA' \in Modes /\ setup \in Setups
  BY DEF MseInv, Shape
<1>2. Hs("plain") \in SentByA
  BY <1>1, TokensOfA
<1> DEFINE ts == <<Hs("plain")>>
<1>3. ts \in Seq(SentByA)
  BY <1>2
<1>4. pcA' \in {"key", "vc", "hs", "open", "failed"}
  BY DEF Declined
<1>5. closed' = closed \/ closed' = closed \cup {"A"}
  BY DEF Declined
<1>6. toB' = toB \/ ToB(ts)
  BY DEF Declined
<1> QED
  BY <1>1, <1>3, <1>4, <1>5, <1>6, StepOfA

-----------------------------------------------------------------------------
(* Every step keeps the invariant: side A *)

LEMMA DialKeeps == ASSUME MseInv, Dial PROVE MseInv'
<1>1. setup \in Setups
  BY DEF MseInv, Shape
<1>2. pcA = "dial" /\ pcB = "idle" /\ toA = <<>> /\ toB = <<>> /\ closed = {}
  BY DEF Dial, MseInv, BeforeDial
<1>3. pcB' = "first" /\ pcA' \in {"key", "hs"} /\ UNCHANGED <<setup, closed, toA, modeB>>
  BY DEF Dial
<1>4. SentByA' = SentByA
  BY <1>3, SentByAKept
<1>5. toB' \in Seq(SentByA) /\ (UsesMse(setup) => toB' # <<>> /\ Head(toB').what = "key")
  <2>1. CASE UsesMse(setup)
    <3>1. PICK ts \in Padded(Key) : ToB(ts)
      BY <2>1 DEF Dial
    <3>2. toB' = ts
      BY <1>2, <3>1 DEF ToB, Padded
    <3>3. Key \in SentByA /\ Pad \in SentByA /\ Key.what = "key"
      BY <1>1, TokensOfA, TokenType DEF Key
    <3>4. ts = <<Key>> \/ ts = <<Key, Pad>>
      BY DEF Padded
    <3>5. /\ <<Key>> \in Seq(SentByA) /\ <<Key>> # <<>> /\ Head(<<Key>>) = Key
          /\ <<Key, Pad>> \in Seq(SentByA) /\ <<Key, Pad>> # <<>> /\ Head(<<Key, Pad>>) = Key
      BY <3>3, Short
    <3> QED
      BY <2>1, <3>2, <3>3, <3>4, <3>5
  <2>2. CASE ~UsesMse(setup)
    <3>1. ToB(<<Hs("plain")>>)
      BY <2>2 DEF Dial
    <3>2. toB' = <<Hs("plain")>>
      BY <1>2, <3>1 DEF ToB
    <3>3. Hs("plain") \in SentByA
      BY <1>1, TokensOfA
    <3> QED
      BY <2>2, <3>2, <3>3
  <2> QED
    BY <2>1, <2>2
<1>6. Shape'
  BY <1>3 DEF Dial, MseInv, Shape
<1>7. Streams'
  BY <1>2, <1>3, <1>4, <1>5 DEF Streams
<1>8. BeforeDial'
  BY <1>3 DEF BeforeDial
<1>9. FirstIsKey'
  BY <1>2, <1>3, <1>5 DEF FirstIsKey
<1>10. ModeOfB'
  BY <1>2, <1>3 DEF MseInv, ModeOfB
<1> QED
  BY <1>6, <1>7, <1>8, <1>9, <1>10 DEF MseInv

LEMMA ReadKeyAKeeps == ASSUME MseInv, ReadKeyA PROVE MseInv'
<1> DEFINE more == IF setup.early = "behind"
                   THEN <<Hs(CHOOSE m \in setup.offer : TRUE)>> ELSE <<>>
           ts   == <<Offer>> \o more
<1>1. setup \in Setups /\ modeA \in Modes /\ faulted \in BOOLEAN
  BY DEF MseInv, Shape
<1>2. (CHOOSE m \in setup.offer : TRUE) \in Modes
  BY <1>1, SetupType
<1>3. Offer \in SentByA /\ Hs(CHOOSE m \in setup.offer : TRUE) \in SentByA
  BY <1>1, <1>2, TokensOfA
<1>4. <<Offer>> \in Seq(SentByA) /\ more \in Seq(SentByA)
  BY <1>3
<1> HIDE DEF more
<1>5. ts \in Seq(SentByA)
  BY <1>4, Joined
<1>6. ToB(ts)
  BY DEF ReadKeyA, more
<1> HIDE DEF ts
<1> QED
  BY <1>1, <1>5, <1>6, StepOfA DEF ReadKeyA, NextA

LEMMA SkipPadAKeeps == ASSUME MseInv, SkipPadA PROVE MseInv'
<1>1. modeA \in Modes /\ faulted \in BOOLEAN /\ <<>> \in Seq(SentByA)
  BY DEF MseInv, Shape
<1>2. pcA' = pcA /\ modeA' = modeA /\ pcA = "vc"
  BY DEF SkipPadA, sideA
<1> QED
  BY <1>1, <1>2, StepOfA DEF SkipPadA, NextA

LEMMA ReadSelectKeeps == ASSUME MseInv, NEW m \in Modes, ReadSelect(m) PROVE MseInv'
<1>1. setup \in Setups /\ faulted \in BOOLEAN
  BY DEF MseInv, Shape
<1>2. CASE m \in setup.offer
  <2> DEFINE ts == IF setup.early = "no" THEN <<Hs(m)>> ELSE <<>>
  <2>1. Hs(m) \in SentByA
    BY <1>1, TokensOfA
  <2>2. ts \in Seq(SentByA)
    BY <2>1
  <2>3. ToB(ts)
    BY <1>2 DEF ReadSelect
  <2> HIDE DEF ts
  <2> QED
    BY <1>1, <1>2, <2>2, <2>3, StepOfA DEF ReadSelect, NextA
<1>3. CASE m \notin setup.offer
  BY <1>1, <1>3, DeclinedStep DEF ReadSelect, NextA
<1> QED
  BY <1>2, <1>3

LEMMA DeclinedKeeps == ASSUME MseInv, MseEndA \/ MseTimeoutA PROVE MseInv'
<1>1. faulted' \in BOOLEAN
  BY DEF MseInv, Shape, MseEndA, MseTimeoutA, Timer
<1> QED
  BY <1>1, DeclinedStep DEF MseEndA, MseTimeoutA

LEMMA HandshakeAKeeps == ASSUME MseInv, ReadHandshakeA \/ BadHandshakeA PROVE MseInv'
<1>1. setup \in Setups /\ modeA \in Modes /\ faulted \in BOOLEAN
  BY DEF MseInv, Shape
<1> DEFINE ts == <<Msg(modeA)>>
<1>2. Msg(modeA) \in SentByA
  BY <1>1, TokensOfA
<1>3. ts \in Seq(SentByA)
  BY <1>2
<1>4. toB' = toB \/ ToB(ts)
  BY DEF ReadHandshakeA, BadHandshakeA
<1> HIDE DEF ts
<1>5. CASE ReadHandshakeA
  BY <1>1, <1>3, <1>4, <1>5, StepOfA DEF ReadHandshakeA, NextA
<1>6. CASE BadHandshakeA
  BY <1>1, <1>3, <1>4, <1>6, StepOfA DEF BadHandshakeA
<1> QED
  BY <1>5, <1>6

-----------------------------------------------------------------------------
(* Every step keeps the invariant: side B *)

\* What both policies accept: a selection of B's is in it.
LEMMA SelectionAllowed ==
    ASSUME MseInv, NEW m \in Selections(setup.offer)
    PROVE  m \in Modes /\ m \in Allowed
<1>1. setup.who # "foreign" => setup.offer = Accepts(setup.policyA)
  BY SetupType DEF MseInv, Shape
<1>2. setup.offer \in SUBSET Modes
  BY SetupType DEF MseInv, Shape
<1>3. m \in setup.offer /\ m \in Accepts(setup.policyB)
  BY DEF Selections
<1> QED
  BY <1>1, <1>2, <1>3 DEF Allowed, AcceptsA

LEMMA FirstByteMseKeeps == ASSUME MseInv, FirstByteMse PROVE MseInv'
<1>1. modeB \in Modes /\ faulted \in BOOLEAN /\ <<>> \in Seq(SentByB')
      /\ sessions \in SUBSET Hashes /\ hashB \in SUBSET Hashes
  BY DEF MseInv, Shape
<1>2. SentByB \subseteq SentByB'
  BY SentByBGrows DEF FirstByteMse
<1>3. ModeOfB'
  BY DEF FirstByteMse, MseInv, ModeOfB
<1> QED
  BY <1>1, <1>2, <1>3, StepOfB DEF FirstByteMse

\* A plain handshake is believed only where both accept plaintext: a side that
\* uses MSE starts with its key.
LEMMA FirstBytePlainKeeps == ASSUME MseInv, FirstBytePlain PROVE MseInv'
<1>1. /\ setup \in Setups /\ modeB = "plain" /\ faulted \in BOOLEAN
      /\ sessions \in SUBSET Hashes /\ lookup \in SUBSET Hashes /\ hashB \in SUBSET Hashes
  BY DEF MseInv, Shape, ModeOfB, FirstBytePlain
<1>2. SentByB \subseteq SentByB'
  BY SentByBGrows DEF FirstBytePlain
<1>3. UNCHANGED <<setup, sideA, sessions, lookup, hashB, modeB, faulted>>
      /\ toB # <<>> /\ toB' = Tail(toB) /\ pcB = "first"
  BY DEF FirstBytePlain
<1>4. CASE pcB' = "open"
  <2>1. /\ Head(toB).what = "hs" /\ setup.policyB # "FORCED"
        /\ ToA(<<Hs("plain"), Msg("plain")>>) /\ UNCHANGED closed
    BY <1>4 DEF FirstBytePlain, Rejected
  <2>2. ~UsesMse(setup)
    BY <1>3, <2>1 DEF MseInv, FirstIsKey
  <2>3. "plain" \in Allowed
    BY <1>1, <2>1, <2>2, SetupType DEF Allowed, AcceptsA, Accepts, UsesMse
  <2>4. Allowed' = Allowed
    BY <1>3 DEF Allowed
  <2>5. ModeOfB'
    BY <1>1, <1>3, <1>4, <2>3, <2>4 DEF ModeOfB
  <2>6. Hs("plain") \in SentByB' /\ Msg("plain") \in SentByB'
    BY <1>1, <1>3, <1>4, TokensOfB
  <2> DEFINE ts == <<Hs("plain"), Msg("plain")>>
  <2>7. ts \in Seq(SentByB')
    BY <2>6
  <2>8. ToA(ts)
    BY <2>1
  <2> HIDE DEF ts
  <2> QED
    BY <1>1, <1>2, <1>3, <1>4, <2>1, <2>5, <2>7, <2>8, StepOfB
<1>5. CASE pcB' # "open"
  <2>1. Rejected /\ UNCHANGED toA
    BY <1>5 DEF FirstBytePlain
  <2>2. ModeOfB'
    BY <2>1 DEF ModeOfB, Rejected
  <2>3. <<>> \in Seq(SentByB')
    OBVIOUS
  <2> QED
    BY <1>1, <1>2, <1>3, <2>1, <2>2, <2>3, StepOfB DEF Rejected
<1> QED
  BY <1>4, <1>5

LEMMA ReadKeyBKeeps == ASSUME MseInv, ReadKeyB PROVE MseInv'
<1>1. /\ setup \in Setups /\ modeB \in Modes /\ faulted \in BOOLEAN
      /\ sessions \in SUBSET Hashes /\ lookup \in SUBSET Hashes /\ hashB \in SUBSET Hashes
  BY DEF MseInv, Shape
<1>2. SentByB \subseteq SentByB'
  BY SentByBGrows DEF ReadKeyB
<1>3. ModeOfB'
  BY DEF ReadKeyB, MseInv, ModeOfB
<1>4. PICK ts \in Padded(Key) : ToA(ts)
  BY DEF ReadKeyB
<1>5. Key \in SentByB' /\ Pad \in SentByB'
  BY <1>1, TokensOfB
<1>6. ts = <<Key>> \/ ts = <<Key, Pad>>
  BY DEF Padded
<1>7. <<Key>> \in Seq(SentByB') /\ <<Key, Pad>> \in Seq(SentByB')
  BY <1>5, Short
<1>8. ts \in Seq(SentByB')
  BY <1>6, <1>7
<1> QED
  BY <1>1, <1>2, <1>3, <1>4, <1>8, StepOfB DEF ReadKeyB, NextB

LEMMA SkipPadBKeeps == ASSUME MseInv, SkipPadB PROVE MseInv'
<1>1. modeB \in Modes /\ faulted \in BOOLEAN /\ <<>> \in Seq(SentByB')
      /\ sessions \in SUBSET Hashes /\ hashB \in SUBSET Hashes /\ lookup \in SUBSET Hashes
  BY DEF MseInv, Shape
<1>2. /\ UNCHANGED <<setup, sideA, sessions, lookup, pcB, modeB, hashB, toA, closed, faulted>>
      /\ pcB = "offer" /\ toB # <<>> /\ toB' = Tail(toB)
  BY DEF SkipPadB, sideB
<1>3. SentByB \subseteq SentByB'
  BY <1>2, SentByBGrows
<1>4. ModeOfB'
  BY <1>2 DEF MseInv, ModeOfB
<1> QED
  BY <1>1, <1>2, <1>3, <1>4, StepOfB

LEMMA ReadOfferKeeps == ASSUME MseInv, ReadOffer PROVE MseInv'
<1>1. /\ setup \in Setups /\ modeB = "plain" /\ faulted \in BOOLEAN
      /\ sessions \in SUBSET Hashes /\ lookup \in SUBSET Hashes /\ hashB \in SUBSET Hashes
  BY DEF MseInv, Shape, ModeOfB, ReadOffer
<1>2. /\ UNCHANGED <<setup, sideA, sessions, lookup, faulted>>
      /\ pcB = "offer" /\ toB # <<>> /\ (toB' = Tail(toB) \/ toB' = <<>>)
  BY DEF ReadOffer
<1>3. SentByB \subseteq SentByB'
  BY <1>2, SentByBGrows
<1>4. Head(toB).what = "offer" /\ Head(toB) \in SentByA
  BY <1>2, Consumed DEF ReadOffer, MseInv, Streams
<1>5. Head(toB).crypto = setup.offer
  BY <1>4 DEF SentByA
<1> DEFINE matched == {setup.hash} \cap lookup  selected == Selections(setup.offer)
<1>6. CASE matched = {} \/ selected = {}
  <2>1. Rejected /\ UNCHANGED <<hashB, toA, modeB>>
    BY <1>5, <1>6 DEF ReadOffer
  <2>2. ModeOfB'
    BY <2>1 DEF ModeOfB, Rejected
  <2>3. <<>> \in Seq(SentByB')
    OBVIOUS
  <2> QED
    BY <1>1, <1>2, <1>3, <2>1, <2>2, <2>3, StepOfB DEF Rejected
<1>7. CASE ~(matched = {} \/ selected = {})
  <2>1. /\ modeB' \in selected /\ hashB' = matched /\ ToA(<<Select(modeB')>>)
        /\ (pcB' = "hs" /\ UNCHANGED closed) \/ Rejected
    BY <1>5, <1>7 DEF ReadOffer
  <2>2. modeB' \in Modes /\ modeB' \in Allowed
    BY <2>1, SelectionAllowed
  <2>3. Allowed' = Allowed
    BY <1>2 DEF Allowed
  <2>4. ModeOfB'
    BY <2>1, <2>2, <2>3 DEF ModeOfB, Rejected
  <2> DEFINE ts == <<Select(modeB')>>
  <2>5. Select(modeB') \in SentByB'
    BY <1>1, <2>2, TokensOfB
  <2>6. ts \in Seq(SentByB')
    BY <2>5
  <2>7. ToA(ts)
    BY <2>1
  <2> HIDE DEF ts
  <2>8. hashB' \in SUBSET Hashes /\ pcB' \in {"key", "offer", "hs", "open", "failed"}
        /\ (closed' = closed \/ closed' = closed \cup {"B"})
    BY <1>1, <2>1 DEF Rejected
  <2> QED
    BY <1>1, <1>2, <1>3, <2>2, <2>4, <2>6, <2>7, <2>8, StepOfB
<1> QED
  BY <1>6, <1>7

LEMMA ReadHandshakeBKeeps == ASSUME MseInv, ReadHandshakeB PROVE MseInv'
<1>1. /\ setup \in Setups /\ modeB \in Modes /\ faulted \in BOOLEAN
      /\ sessions \in SUBSET Hashes /\ lookup \in SUBSET Hashes /\ hashB \in SUBSET Hashes
  BY DEF MseInv, Shape
<1>2. SentByB \subseteq SentByB'
  BY SentByBGrows DEF ReadHandshakeB
<1>3. ModeOfB'
  BY DEF ReadHandshakeB, Rejected, MseInv, ModeOfB, Allowed
<1>4. CASE pcB' = "open"
  <2>1. ToA(<<Hs(modeB), Msg(modeB)>>) /\ UNCHANGED closed
    BY <1>4 DEF ReadHandshakeB, Rejected
  <2>2. Hs(modeB) \in SentByB' /\ Msg(modeB) \in SentByB'
    BY <1>1, <1>4, TokensOfB DEF ReadHandshakeB
  <2> DEFINE ts == <<Hs(modeB), Msg(modeB)>>
  <2>3. ts \in Seq(SentByB')
    BY <2>2
  <2>4. ToA(ts)
    BY <2>1
  <2> HIDE DEF ts
  <2> QED
    BY <1>1, <1>2, <1>3, <1>4, <2>1, <2>3, <2>4, StepOfB DEF ReadHandshakeB, NextB
<1>5. CASE pcB' # "open"
  <2>1. Rejected /\ UNCHANGED toA
    BY <1>5 DEF ReadHandshakeB
  <2>2. <<>> \in Seq(SentByB')
    OBVIOUS
  <2> QED
    BY <1>1, <1>2, <1>3, <2>1, <2>2, StepOfB DEF ReadHandshakeB, NextB, Rejected
<1> QED
  BY <1>4, <1>5

LEMMA RejectedKeeps == ASSUME MseInv, BadHandshakeB \/ TimeoutB PROVE MseInv'
<1>1. /\ modeB \in Modes /\ <<>> \in Seq(SentByB')
      /\ sessions \in SUBSET Hashes /\ lookup \in SUBSET Hashes /\ hashB \in SUBSET Hashes
  BY DEF MseInv, Shape
<1>2. /\ UNCHANGED <<setup, sessions, sideA, lookup, modeB, hashB, toA, toB>>
      /\ Rejected /\ pcB \in {"first", "key", "offer", "hs"}
  BY DEF BadHandshakeB, TimeoutB
<1>3. faulted' \in BOOLEAN
  BY DEF BadHandshakeB, TimeoutB, Timer, MseInv, Shape
<1>4. SentByB \subseteq SentByB'
  BY <1>2, SentByBGrows
<1>5. ModeOfB'
  BY <1>2 DEF ModeOfB, Rejected
<1> QED
  BY <1>1, <1>2, <1>3, <1>4, <1>5, StepOfB DEF Rejected

-----------------------------------------------------------------------------
(* Every step keeps the invariant: messages and faults *)

LEMMA ReadMessageKeeps == ASSUME MseInv, ReadMessage PROVE MseInv'
<1>1. UNCHANGED <<setup, sessions, lookup, pcA, pcB, modeA, modeB, hashB, closed, faulted>>
  BY DEF ReadMessage, sideA, sideB
<1>2. SentByA' = SentByA /\ SentByB' = SentByB
  BY <1>1, SentByAKept DEF SentByB
<1>3. toA' \in Seq(SentByB) /\ toB' \in Seq(SentByA)
  BY Consumed DEF ReadMessage, NextA, NextB, MseInv, Streams
<1>4. Shape'
  BY <1>1 DEF MseInv, Shape
<1>5. BeforeDial' /\ ModeOfB'
  BY <1>1 DEF ReadMessage, NextA, NextB, MseInv, BeforeDial, ModeOfB, Allowed
<1>6. FirstIsKey'
  <2>1. CASE pcB = "open"
    BY <1>1, <2>1 DEF FirstIsKey
  <2>2. CASE pcB # "open"
    BY <1>1, <2>2 DEF ReadMessage, MseInv, FirstIsKey
  <2> QED
    BY <2>1, <2>2
<1> QED
  BY <1>2, <1>3, <1>4, <1>5, <1>6 DEF MseInv, Streams

LEMMA FaultKeeps == ASSUME MseInv, Reset \/ RemoveTorrent PROVE MseInv'
<1>1. UNCHANGED <<setup, lookup, pcA, pcB, modeA, modeB, hashB>>
  BY DEF Reset, RemoveTorrent, sideA, sideB
<1>2. SentByA' = SentByA /\ SentByB' = SentByB
  BY <1>1, SentByAKept DEF SentByB
<1>3. CASE Reset
  <2>1. toA' = <<>> /\ toB' = <<>> /\ closed' = {"A", "B"} /\ faulted' = TRUE
        /\ sessions' = sessions /\ pcB # "idle"
    BY <1>3 DEF Reset
  <2>2. Shape'
    BY <1>1, <2>1 DEF MseInv, Shape
  <2>3. Streams'
    BY <2>1 DEF Streams
  <2> QED
    BY <1>1, <2>1, <2>2, <2>3 DEF MseInv, BeforeDial, FirstIsKey, ModeOfB, Allowed
<1>4. CASE RemoveTorrent
  <2>1. UNCHANGED <<toA, toB, closed>> /\ faulted' = TRUE /\ sessions' \subseteq sessions
    BY <1>4 DEF RemoveTorrent
  <2>2. Shape'
    BY <1>1, <2>1 DEF MseInv, Shape
  <2>3. Streams'
    BY <1>2, <2>1 DEF MseInv, Streams
  <2> QED
    BY <1>1, <2>1, <2>2, <2>3 DEF MseInv, BeforeDial, FirstIsKey, ModeOfB, Allowed
<1> QED
  BY <1>3, <1>4

LEMMA MseInvStep == MseInv /\ [Next]_vars => MseInv'
<1> SUFFICES ASSUME MseInv, [Next]_vars PROVE MseInv'
  OBVIOUS
<1>1. CASE StepA
  BY <1>1, DialKeeps, ReadKeyAKeeps, SkipPadAKeeps, DeclinedKeeps, HandshakeAKeeps,
     ReadSelectKeeps DEF StepA
<1>2. CASE StepB
  BY <1>2, FirstByteMseKeeps, FirstBytePlainKeeps, ReadKeyBKeeps, SkipPadBKeeps,
     ReadOfferKeeps, ReadHandshakeBKeeps, RejectedKeeps DEF StepB
<1>3. CASE MseTimeoutA \/ TimeoutB
  BY <1>3, DeclinedKeeps, RejectedKeeps
<1>4. CASE ReadMessage \/ Reset \/ RemoveTorrent
  BY <1>4, ReadMessageKeeps, FaultKeeps
<1>5. CASE UNCHANGED vars
  <2>1. UNCHANGED <<setup, sessions, lookup, pcA, pcB, modeA, modeB, hashB, toA, toB, closed, faulted>>
    BY <1>5 DEF vars, sideA, sideB
  <2>2. SentByA' = SentByA /\ SentByB' = SentByB
    BY <2>1, SentByAKept DEF SentByB
  <2>3. Shape' /\ Streams'
    BY <2>1, <2>2 DEF MseInv, Shape, Streams
  <2>4. BeforeDial' /\ FirstIsKey' /\ ModeOfB'
    BY <2>1 DEF MseInv, BeforeDial, FirstIsKey, ModeOfB, Allowed
  <2> QED
    BY <2>3, <2>4 DEF MseInv
<1> QED
  BY <1>1, <1>2, <1>3, <1>4, <1>5 DEF Next

LEMMA MseInvAlways == Spec => []MseInv
BY MseInvInit, MseInvStep, PTL DEF Spec

-----------------------------------------------------------------------------
(* Theorems *)

\* Every reachable state of the connection setup (peer.py, client.py, mse.py)
\* is one the types allow.
THEOREM TypeCorrect == Spec => []TypeOK
<1>1. MseInv => TypeOK
  <2> SUFFICES ASSUME MseInv PROVE TypeOK
    OBVIOUS
  <2> DEFINE S == SentByB  T == SentByA
  <2>1. S \subseteq Tokens /\ T \subseteq Tokens
    BY DEF SentByA, SentByB
  <2>2. toA \in Seq(S) /\ toB \in Seq(T)
    BY DEF MseInv, Streams
  <2> HIDE DEF S, T
  <2>3. toA \in Seq(Tokens) /\ toB \in Seq(Tokens)
    BY <2>1, <2>2, Widened
  <2> QED
    BY <2>3 DEF MseInv, Shape, TypeOK
<1> QED
  BY <1>1, MseInvAlways, PTL

\* A step of A that does not bring it up is a failure or nothing to Channel.
LEMMA DiallerStep ==
    ASSUME UNCHANGED <<setup, sideB>>, pcA \notin {"open", "failed"}, pcA' # "open"
    PROVE  [Agreement!Next]_(Agreement!vars)
<1>1. UNCHANGED <<AcceptsA(setup) \cap Accepts(setup.policyB), Outcome(pcB, modeB)>>
  BY DEF sideB
<1>2. Outcome(pcA, modeA) = "pending" /\ Outcome(pcA, modeA)' \in {"pending", "failed"}
  BY DEF Outcome
<1> QED
  BY <1>1, <1>2 DEF Agreement!Next, Agreement!Fail, Agreement!vars

LEMMA AnswererStep ==
    ASSUME UNCHANGED <<setup, sideA>>, pcB \notin {"open", "failed"}, pcB' # "open"
    PROVE  [Agreement!Next]_(Agreement!vars)
<1>1. UNCHANGED <<AcceptsA(setup) \cap Accepts(setup.policyB), Outcome(pcA, modeA)>>
  BY DEF sideA
<1>2. Outcome(pcB, modeB) = "pending" /\ Outcome(pcB, modeB)' \in {"pending", "failed"}
  BY DEF Outcome
<1> QED
  BY <1>1, <1>2 DEF Agreement!Next, Agreement!Fail, Agreement!vars

LEMMA NoStep ==
    ASSUME UNCHANGED <<setup, sideA, sideB>>
    PROVE  [Agreement!Next]_(Agreement!vars)
BY DEF Agreement!vars, sideA, sideB

\* B comes up in a mode both accept.
LEMMA AnswererUp ==
    ASSUME MseInv', UNCHANGED <<setup, sideA>>, pcB \notin {"open", "failed"}, pcB' = "open"
    PROVE  [Agreement!Next]_(Agreement!vars)
<1>1. modeB' \in Modes /\ modeB' \in AcceptsA(setup) \cap Accepts(setup.policyB)
  BY DEF MseInv, ModeOfB, Shape, Allowed
<1>2. Outcome(pcB, modeB) = "pending" /\ Outcome(pcB, modeB)' = modeB'
  BY DEF Outcome
<1>3. UNCHANGED <<AcceptsA(setup) \cap Accepts(setup.policyB), Outcome(pcA, modeA)>>
  BY DEF sideA
<1>4. Agreement!Answer(modeB')
  BY <1>1, <1>2, <1>3 DEF Agreement!Answer
<1> QED
  BY <1>1, <1>4 DEF Agreement!Next

\* A comes up on a handshake that only a B in the same mode has sent.
LEMMA DiallerUp ==
    ASSUME MseInv, ReadHandshakeA, pcA' = "open"
    PROVE  [Agreement!Next]_(Agreement!vars)
<1>1. toA # <<>> /\ Head(toA).what = "hs" /\ Head(toA).mode = modeA /\ pcA = "hs"
      /\ UNCHANGED <<setup, modeA, sideB>>
  BY DEF ReadHandshakeA, NextA
<1>2. Head(toA) \in SentByB
  BY <1>1, Consumed DEF MseInv, Streams
<1>3. pcB = "open" /\ modeB = modeA /\ modeA \in Modes
  BY <1>1, <1>2 DEF SentByB, MseInv, Shape
<1>4. Outcome(pcB, modeB) = modeA /\ Outcome(pcA, modeA) = "pending" /\ Outcome(pcA, modeA)' = modeA
  BY <1>1, <1>3 DEF Outcome
<1>5. UNCHANGED <<AcceptsA(setup) \cap Accepts(setup.policyB), Outcome(pcB, modeB)>>
  BY <1>1 DEF sideB
<1>6. Agreement!Agree(modeA)
  BY <1>4, <1>5 DEF Agreement!Agree
<1> QED
  BY <1>3, <1>6 DEF Agreement!Next

LEMMA StepImplements == ASSUME MseInv, MseInv', [Next]_vars PROVE [Agreement!Next]_(Agreement!vars)
<1>1. CASE Dial
  <2>1. UNCHANGED setup /\ pcA = "dial" /\ pcA' \in {"key", "hs"} /\ pcB = "idle" /\ pcB' = "first"
    BY <1>1 DEF Dial, MseInv, BeforeDial
  <2>2. /\ Outcome(pcA, modeA) = "pending" /\ Outcome(pcA, modeA)' = "pending"
        /\ Outcome(pcB, modeB) = "pending" /\ Outcome(pcB, modeB)' = "pending"
    BY <2>1 DEF Outcome
  <2> QED
    BY <2>1, <2>2 DEF Agreement!vars
<1>2. CASE ReadKeyA \/ SkipPadA \/ MseEndA \/ MseTimeoutA \/ BadHandshakeA
  <2>1. UNCHANGED <<setup, sideB>> /\ pcA \notin {"open", "failed"} /\ pcA' # "open"
    BY <1>2 DEF ReadKeyA, SkipPadA, MseEndA, MseTimeoutA, BadHandshakeA, Declined, sideA
  <2> QED
    BY <2>1, DiallerStep
<1>3. CASE \E m \in Modes : ReadSelect(m)
  <2>1. UNCHANGED <<setup, sideB>> /\ pcA \notin {"open", "failed"} /\ pcA' # "open"
    BY <1>3 DEF ReadSelect, Declined
  <2> QED
    BY <2>1, DiallerStep
<1>4. CASE ReadHandshakeA
  <2>1. UNCHANGED <<setup, sideB>> /\ pcA \notin {"open", "failed"}
    BY <1>4 DEF ReadHandshakeA
  <2> QED
    BY <1>4, <2>1, DiallerStep, DiallerUp
<1>5. CASE StepB \/ TimeoutB
  <2>1. UNCHANGED <<setup, sideA>> /\ pcB \notin {"open", "failed"}
    BY <1>5 DEF StepB, TimeoutB, FirstByteMse, FirstBytePlain, ReadKeyB, SkipPadB, ReadOffer,
       ReadHandshakeB, BadHandshakeB
  <2> QED
    BY <2>1, AnswererStep, AnswererUp
<1>6. CASE ReadMessage \/ Reset \/ RemoveTorrent \/ UNCHANGED vars
  <2>1. UNCHANGED <<setup, sideA, sideB>>
    BY <1>6 DEF ReadMessage, Reset, RemoveTorrent, vars
  <2> QED
    BY <2>1, NoStep
<1> QED
  BY <1>1, <1>2, <1>3, <1>4, <1>5, <1>6 DEF Next, StepA

\* The connection setup implements Channel: whatever timers, faults, padding
\* and removals do, a side that is up is up in a mode both policies allow, the
\* dialling side only after the answering side and in its mode, and nothing
\* decided changes (peer.py:109-146, client.py:1040-1197, mse.py:337-683).
THEOREM MseImplementsChannel == Spec => Implements
<1>1. Init => Agreement!Init
  <2> SUFFICES ASSUME Init PROVE Agreement!Init
    OBVIOUS
  <2>1. Outcome(pcA, modeA) = "pending" /\ Outcome(pcB, modeB) = "pending"
    BY DEF Init, Outcome
  <2>2. AcceptsA(setup) \cap Accepts(setup.policyB) \in SUBSET Modes
    BY DEF Init, Accepts, Setups
  <2> QED
    BY <2>1, <2>2 DEF Agreement!Init
<1>2. MseInv /\ MseInv' /\ [Next]_vars => [Agreement!Next]_(Agreement!vars)
  BY StepImplements
<1> QED
  BY <1>1, <1>2, MseInvAlways, PTL DEF Spec, Implements, Agreement!Spec
=============================================================================
