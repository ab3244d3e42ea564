---------------------------- MODULE EngineProofs ----------------------------
(***************************************************************************)
(* Proofs about Engine, for any peers, traits and number of pieces: the    *)
(* type invariant, the consistency of the endgame's bookkeeping, and that  *)
(* the engine implements Download.                                         *)
(***************************************************************************)
EXTENDS Engine, FiniteSetTheorems, TLAPS

(***************************************************************************)
(* The inductive invariant.  The four parts of Consistent depend on each   *)
(* other: a piece is given back while another connection still fetches it  *)
(* only when the endgame shares it, which needs that the endgame set keeps *)
(* every missing piece.  They are stated of explicit arguments because     *)
(* NextPiece and StartPiece start from values the same step has changed.   *)
(***************************************************************************)
OneFetcher(h, eg, c) ==
    \A p, q \in Peers : p # q /\ c[p] = c[q] /\ c[p] \in Pieces \ h => c[p] \in eg.pieces

MarkedOrShared(h, pd, eg, c) ==
    \A p \in Peers : c[p] \in Pieces \ (h \cup pd) => c[p] \in eg.pieces

Covers(h, eg) == eg.active => Pieces \ h \subseteq eg.pieces

\* A fetcher is recorded until its piece is done and the record is emptied.
Recorded(h, eg, c) ==
    \A p \in Peers :
       c[p] \in Pieces => \/ p \in eg.requests[c[p]]
                          \/ eg.requests[c[p]] = {} /\ c[p] \in h

Consistent(h, pd, eg, c) ==
    /\ OneFetcher(h, eg, c)
    /\ MarkedOrShared(h, pd, eg, c)
    /\ Covers(h, eg)
    /\ Recorded(h, eg, c)

BusyHasPiece ==
    \A p \in Peers : pc[p] \in {"write", "announce", "cancel"} => cur[p] \in Pieces

ChokedHasNone == \A p \in Peers : peerChoking[p] => cur[p] = None

HeldIsStored == have \subseteq disk /\ (done => Complete)

IInv ==
    /\ TypeOK
    /\ Consistent(have, pending, endgame, cur)
    /\ BusyHasPiece
    /\ ChokedHasNone
    /\ HeldIsStored
    /\ AdvertisedIsHeld
    /\ CancelReachesEveryDuplicate

-----------------------------------------------------------------------------
(* What the operations on an EndgameState return *)

LEMMA EnterFacts ==
    ASSUME NEW eg \in EndgameStates, NEW S \in SUBSET Pieces
    PROVE  /\ Enter(eg, S) \in EndgameStates
           /\ Enter(eg, S).active = TRUE
           /\ Enter(eg, S).pieces = S
           /\ Enter(eg, S).requests = eg.requests
  BY DEF Enter, EndgameStates

LEMMA RecordRequestFacts ==
    ASSUME NEW eg \in EndgameStates, NEW i \in Pieces, NEW p \in Peers
    PROVE  /\ RecordRequest(eg, i, p) \in EndgameStates
           /\ RecordRequest(eg, i, p).active = eg.active
           /\ RecordRequest(eg, i, p).pieces = eg.pieces
           /\ \A j \in Pieces : RecordRequest(eg, i, p).requests[j] =
                 IF j = i THEN eg.requests[i] \cup {p} ELSE eg.requests[j]
  BY DEF RecordRequest, EndgameStates

LEMMA PieceDoneFacts ==
    ASSUME NEW eg \in EndgameStates, NEW i \in Pieces
    PROVE  /\ PieceDone(eg, i) \in EndgameStates
           /\ PieceDone(eg, i).active => eg.active
           /\ PieceDone(eg, i).pieces = eg.pieces \ {i}
           /\ \A j \in Pieces : PieceDone(eg, i).requests[j] =
                 IF j = i THEN {} ELSE eg.requests[j]
  BY DEF PieceDone, EndgameStates

LEMMA ForgetFacts ==
    ASSUME NEW eg \in EndgameStates, NEW p \in Peers
    PROVE  /\ Forget(eg, p) \in EndgameStates
           /\ Forget(eg, p).active = eg.active
           /\ Forget(eg, p).pieces = eg.pieces
           /\ \A j \in Pieces : Forget(eg, p).requests[j] = eg.requests[j] \ {p}
  BY DEF Forget, EndgameStates

-----------------------------------------------------------------------------
(* Giving a piece back, done with or not, leaves the bookkeeping consistent. *)

LEMMA ReleaseKeeps ==
    ASSUME TypeOK, NEW p \in Peers,
           Consistent(have, pending, endgame, cur)
    PROVE  Consistent(have, pending \ {cur[p]}, endgame, [cur EXCEPT ![p] = None])
  <1> DEFINE c == [cur EXCEPT ![p] = None]
  <1>1. \A q \in Peers : c[q] = IF q = p THEN None ELSE cur[q]
    BY DEF TypeOK
  <1>2. None \notin Pieces
    BY EngineAssumption
  <1> HIDE DEF c
  <1>3. OneFetcher(have, endgame, c)
    BY <1>1, <1>2 DEF Consistent, OneFetcher
  <1>4. MarkedOrShared(have, pending \ {cur[p]}, endgame, c)
    BY <1>1, <1>2 DEF Consistent, OneFetcher, MarkedOrShared
  <1>5. Covers(have, endgame)
    BY DEF Consistent
  <1>6. Recorded(have, endgame, c)
    BY <1>1, <1>2 DEF Consistent, Recorded
  <1> QED
    BY <1>3, <1>4, <1>5, <1>6 DEF Consistent, c

\* The same when pending stays: a piece that is held needs no mark.
LEMMA DropKeeps ==
    ASSUME TypeOK, NEW p \in Peers, NEW eg \in EndgameStates,
           Consistent(have, pending, eg, cur)
    PROVE  Consistent(have, pending, eg, [cur EXCEPT ![p] = None])
  <1> DEFINE c == [cur EXCEPT ![p] = None]
  <1>1. \A q \in Peers : c[q] = IF q = p THEN None ELSE cur[q]
    BY DEF TypeOK
  <1>2. None \notin Pieces
    BY EngineAssumption
  <1> HIDE DEF c
  <1>3. OneFetcher(have, eg, c) /\ MarkedOrShared(have, pending, eg, c)
    BY <1>1, <1>2 DEF Consistent, OneFetcher, MarkedOrShared
  <1>4. Covers(have, eg) /\ Recorded(have, eg, c)
    BY <1>1, <1>2 DEF Consistent, Recorded
  <1> QED
    BY <1>3, <1>4 DEF Consistent, c

\* Taking piece i, missing, keeps it when i is a candidate or is shared.
LEMMA TakeKeeps ==
    ASSUME TypeOK, NEW p \in Peers, NEW pend \in SUBSET Pieces,
           NEW more \in SUBSET Pieces, NEW eg \in EndgameStates,
           Consistent(have, pend, eg, [cur EXCEPT ![p] = None]),
           NEW i \in Pieces \ have,
           i \in eg.pieces \/ (i \notin pend /\ i \in more)
    PROVE  Consistent(have, pend \cup more, RecordRequest(eg, i, p),
                      [cur EXCEPT ![p] = i])
  <1> DEFINE c0 == [cur EXCEPT ![p] = None]
             c  == [cur EXCEPT ![p] = i]
             eg1 == RecordRequest(eg, i, p)
  <1>1. \A q \in Peers : /\ c0[q] = IF q = p THEN None ELSE cur[q]
                         /\ c[q] = IF q = p THEN i ELSE cur[q]
    BY DEF TypeOK
  <1>2. None \notin Pieces
    BY EngineAssumption
  <1>3. /\ eg1.active = eg.active /\ eg1.pieces = eg.pieces
        /\ \A j \in Pieces : eg1.requests[j] =
              IF j = i THEN eg.requests[i] \cup {p} ELSE eg.requests[j]
    BY RecordRequestFacts
  <1>4. Consistent(have, pend, eg, c0)
    OBVIOUS
  <1> HIDE DEF c0, c, eg1
  <1>5. OneFetcher(have, eg1, c)
    <2> SUFFICES ASSUME NEW q \in Peers, NEW r \in Peers, q # r, c[q] = c[r],
                        c[q] \in Pieces \ have
                 PROVE  c[q] \in eg.pieces
      BY <1>3 DEF OneFetcher
    <2>1. CASE q # p /\ r # p
      BY <2>1, <1>1, <1>4 DEF Consistent, OneFetcher
    <2>2. CASE q = p \/ r = p
      <3>1. PICK s \in Peers : s # p /\ c0[s] = i /\ c[q] = i
        BY <2>2, <1>1
      <3>2. i \notin pend => i \in eg.pieces
        BY <3>1, <1>4 DEF Consistent, MarkedOrShared
      <3> QED
        BY <3>1, <3>2
    <2> QED
      BY <2>1, <2>2
  <1>6. MarkedOrShared(have, pend \cup more, eg1, c)
    BY <1>1, <1>3, <1>4 DEF Consistent, MarkedOrShared
  <1>7. Covers(have, eg1)
    BY <1>3, <1>4 DEF Consistent, Covers
  <1>8. Recorded(have, eg1, c)
    <2> SUFFICES ASSUME NEW q \in Peers, c[q] \in Pieces
                 PROVE  \/ q \in eg1.requests[c[q]]
                        \/ eg1.requests[c[q]] = {} /\ c[q] \in have
      BY DEF Recorded
    <2>1. CASE q = p
      BY <2>1, <1>1, <1>3
    <2>2. CASE q # p
      <3>1. c0[q] = c[q]
        BY <2>2, <1>1
      <3>2. q \in eg.requests[c[q]] \/ (eg.requests[c[q]] = {} /\ c[q] \in have)
        BY <3>1, <1>4 DEF Consistent, Recorded
      <3> QED
        BY <3>2, <1>3
    <2> QED
      BY <2>1, <2>2
  <1> QED
    BY <1>5, <1>6, <1>7, <1>8 DEF Consistent, c, eg1

-----------------------------------------------------------------------------
(* Choosing the next piece *)

\* What a coroutine's choice of a piece leaves behind.
Chosen(p) ==
    /\ pending' \in SUBSET Pieces
    /\ endgame' \in EndgameStates
    /\ cur' \in [Peers -> Pieces \cup {None}]
    /\ \A q \in Peers \ {p} : cur'[q] = cur[q]
    /\ cur'[p] \in (Pieces \ have) \cup {None}
    /\ Consistent(have, pending', endgame', cur')

LEMMA CandidateKeeps ==
    ASSUME TypeOK, NEW p \in Peers, NEW pend \in SUBSET Pieces, NEW eg \in EndgameStates,
           Consistent(have, pend, eg, [cur EXCEPT ![p] = None]),
           TakeCandidate(p, pend, eg)
    PROVE  Chosen(p)
  <1>1. PICK i \in Candidates(pend) \cap peerPieces[p] :
          /\ cur' = [cur EXCEPT ![p] = i]
          /\ pending' = pend \cup {i} \cup {j \in Candidates(pend) : Rarer(j, i)}
          /\ endgame' = RecordRequest(eg, i, p)
    BY DEF TakeCandidate
  <1> DEFINE more == {i} \cup {j \in Candidates(pend) : Rarer(j, i)}
  <1>2. i \in Pieces \ have /\ i \notin pend /\ i \in more /\ more \in SUBSET Pieces
    BY DEF Candidates
  <1>3. pending' = pend \cup more
    BY <1>1
  <1> HIDE DEF more
  <1>4. Consistent(have, pend \cup more, RecordRequest(eg, i, p), [cur EXCEPT ![p] = i])
    BY <1>2, TakeKeeps
  <1>5. endgame' \in EndgameStates
    BY <1>1, <1>2, RecordRequestFacts
  <1> QED
    BY <1>1, <1>2, <1>3, <1>4, <1>5 DEF Chosen, TypeOK

LEMMA DuplicateKeeps ==
    ASSUME TypeOK, NEW p \in Peers, NEW pend \in SUBSET Pieces, NEW eg \in EndgameStates,
           Consistent(have, pend, eg, [cur EXCEPT ![p] = None]),
           TakeDuplicate(p, pend, eg)
    PROVE  Chosen(p)
  <1> DEFINE c0  == [cur EXCEPT ![p] = None]
             eg1 == IF eg.active THEN eg ELSE Enter(eg, Pieces \ have)
             more == Candidates(pend)
             open == (eg1.pieces \cap peerPieces[p]) \ have
  <1>1. more \in SUBSET Pieces /\ pending' = pend \cup more
    BY DEF TakeDuplicate, Candidates
  <1>2. /\ eg1 \in EndgameStates
        /\ eg1.requests = eg.requests
        /\ Pieces \ have \subseteq eg1.pieces
    <2>1. CASE eg.active
      BY <2>1 DEF Consistent, Covers
    <2>2. CASE ~eg.active
      BY <2>2, EnterFacts
    <2> QED
      BY <2>1, <2>2
  <1>3. \/ \E i \in open : cur' = [cur EXCEPT ![p] = i] /\ endgame' = RecordRequest(eg1, i, p)
        \/ cur' = c0 /\ endgame' = eg1
    BY DEF TakeDuplicate
  <1>4. Consistent(have, pend, eg, c0)
    OBVIOUS
  <1>5. \A q \in Peers : c0[q] = IF q = p THEN None ELSE cur[q]
    BY DEF TypeOK
  <1>6. open \subseteq Pieces \ have /\ open \subseteq eg1.pieces
    BY <1>2 DEF EndgameStates
  <1>7. c0 \in [Peers -> Pieces \cup {None}]
    BY DEF TypeOK
  <1> HIDE DEF c0, eg1, more, open
  <1>8. Consistent(have, pend, eg1, c0)
    <2>1. \A q \in Peers : c0[q] \in Pieces \ have => c0[q] \in eg1.pieces
      BY <1>2
    <2>2. OneFetcher(have, eg1, c0) /\ MarkedOrShared(have, pend, eg1, c0)
      BY <2>1 DEF OneFetcher, MarkedOrShared
    <2>3. Covers(have, eg1) /\ Recorded(have, eg1, c0)
      BY <1>2, <1>4 DEF Consistent, Covers, Recorded
    <2> QED
      BY <2>2, <2>3 DEF Consistent
  <1>9. CASE cur' = c0 /\ endgame' = eg1
    <2>1. MarkedOrShared(have, pend \cup more, eg1, c0)
      BY <1>8 DEF Consistent, MarkedOrShared
    <2>2. Consistent(have, pending', endgame', cur')
      BY <1>8, <1>9, <1>1, <2>1 DEF Consistent
    <2>3. p \in Peers
      OBVIOUS
    <2> QED
      BY <1>9, <1>1, <1>2, <1>5, <1>7, <2>2 DEF Chosen
  <1>10. CASE \E i \in open : cur' = [cur EXCEPT ![p] = i] /\ endgame' = RecordRequest(eg1, i, p)
    <2>1. PICK i \in open : cur' = [cur EXCEPT ![p] = i] /\ endgame' = RecordRequest(eg1, i, p)
      BY <1>10
    <2>2. i \in Pieces \ have /\ i \in eg1.pieces
      BY <1>6
    <2>3. Consistent(have, pend \cup more, RecordRequest(eg1, i, p), [cur EXCEPT ![p] = i])
      BY <1>1, <1>2, <1>8, <2>2, TakeKeeps DEF c0
    <2>4. endgame' \in EndgameStates
      BY <1>2, <2>1, <2>2, RecordRequestFacts
    <2> QED
      BY <1>1, <2>1, <2>2, <2>3, <2>4 DEF Chosen, TypeOK
  <1> QED
    BY <1>3, <1>9, <1>10

\* The end of a piece, once the piece itself has been given back.
LEMMA NextPieceKeeps ==
    ASSUME TypeOK, NEW p \in Peers, NEW pend \in SUBSET Pieces, NEW eg \in EndgameStates,
           Consistent(have, pend, eg, [cur EXCEPT ![p] = None]),
           NextPiece(p, pend, eg)
    PROVE  /\ Chosen(p)
           /\ done' \in BOOLEAN
           /\ amInterested' \in [Peers -> BOOLEAN]
           /\ pc' = [pc EXCEPT ![p] = "listen"]
           /\ got' = [got EXCEPT ![p] = {}]
           /\ peerChoking[p] => cur'[p] = None
           /\ done' # done => done' /\ Complete
  <1> DEFINE c0 == [cur EXCEPT ![p] = None]
  <1>1. /\ c0 \in [Peers -> Pieces \cup {None}]
        /\ \A q \in Peers : c0[q] = IF q = p THEN None ELSE cur[q]
    BY DEF TypeOK
  <1>2. cur' = c0 /\ pending' = pend /\ endgame' = eg => Chosen(p)
    BY <1>1 DEF Chosen
  <1>3. StartPiece(p, pend, eg) => Chosen(p)
    BY CandidateKeeps, DuplicateKeeps DEF StartPiece
  <1>4. \/ cur' = c0 /\ pending' = pend /\ endgame' = eg
        \/ ~peerChoking[p] /\ StartPiece(p, pend, eg)
    BY DEF NextPiece
  <1>5. /\ pc' = [pc EXCEPT ![p] = "listen"] /\ got' = [got EXCEPT ![p] = {}]
        /\ done' \in BOOLEAN /\ amInterested' \in [Peers -> BOOLEAN]
        /\ done' # done => done' /\ Complete
    BY DEF NextPiece, TypeOK
  <1> QED
    BY <1>1, <1>2, <1>3, <1>4, <1>5

-----------------------------------------------------------------------------
(* Initiality *)

LEMMA InitEstablishes == Init => IInv
  <1> SUFFICES ASSUME Init PROVE IInv
    OBVIOUS
  <1>1. None \notin Pieces
    BY EngineAssumption
  <1>2. TypeOK
    BY DEF Init, TypeOK, EndgameStates, Places
  <1>3. Consistent(have, pending, endgame, cur)
    BY <1>1 DEF Init, Consistent, OneFetcher, MarkedOrShared, Covers, Recorded
  <1> QED
    BY <1>2, <1>3 DEF IInv, Init, BusyHasPiece, ChokedHasNone, HeldIsStored,
                      AdvertisedIsHeld, CancelReachesEveryDuplicate

-----------------------------------------------------------------------------
(* One lemma per kind of step.  Unmoved: no piece changes hands. *)

Rest == BusyHasPiece /\ ChokedHasNone /\ HeldIsStored /\ AdvertisedIsHeld
        /\ CancelReachesEveryDuplicate

LEMMA UnmovedKeeps ==
    ASSUME IInv, UNCHANGED <<have, pending, endgame, cur>>
    PROVE  Consistent(have, pending, endgame, cur)'
  BY DEF IInv, Consistent, OneFetcher, MarkedOrShared, Covers, Recorded

LEMMA AddedType ==
    ASSUME TypeOK, NEW S
    PROVE  Added(S) \in [Pieces -> Nat]
  BY DEF TypeOK, Added

LEMMA RemovedType ==
    ASSUME TypeOK, NEW S
    PROVE  Removed(S) \in [Pieces -> Nat]
  <1>1. \A i \in Pieces : avail[i] \in Nat
    BY DEF TypeOK
  <1>2. \A i \in Pieces : avail[i] > 0 => avail[i] - 1 \in Nat
    BY <1>1
  <1> QED
    BY <1>1, <1>2 DEF Removed

LEMMA ConnectKeeps ==
    ASSUME IInv, NEW p \in Peers, Connect(p) PROVE IInv'
  <1> USE DEF IInv
  <1>1. Consistent(have, pending, endgame, cur)'
    BY UnmovedKeeps DEF Connect, shared
  <1>2. TypeOK'
    BY DEF TypeOK, Connect, shared, Places
  <1>3. Rest'
    BY DEF TypeOK, Connect, shared, Rest, BusyHasPiece, ChokedHasNone, HeldIsStored,
           Complete, AdvertisedIsHeld, CancelReachesEveryDuplicate
  <1> QED
    BY <1>1, <1>2, <1>3 DEF Rest

\* Bitfield and Have change only what is known of the peer.
LEMMA AnnouncementKeeps ==
    ASSUME IInv, NEW p \in Peers, NEW S \in SUBSET Pieces, NEW T \in SUBSET Pieces,
           peerPieces' = [peerPieces EXCEPT ![p] = T],
           avail' = Added(S),
           ExpressInterest(p),
           UNCHANGED <<have, pending, endgame, disk, done, pc, cur, got, peerChoking,
                       cancelTo, told, dropped>>
    PROVE  IInv'
  <1> USE DEF IInv
  <1>1. Consistent(have, pending, endgame, cur)'
    BY UnmovedKeeps
  <1>2. TypeOK'
    BY AddedType DEF TypeOK, ExpressInterest
  <1>3. Rest'
    BY DEF Rest, BusyHasPiece, ChokedHasNone, HeldIsStored, Complete,
           AdvertisedIsHeld, CancelReachesEveryDuplicate
  <1> QED
    BY <1>1, <1>2, <1>3 DEF Rest

LEMMA RecvBitfieldKeeps ==
    ASSUME IInv, NEW p \in Peers, NEW S \in SUBSET Pieces, RecvBitfield(p, S)
    PROVE  IInv'
  BY AnnouncementKeeps DEF RecvBitfield

LEMMA RecvHaveKeeps ==
    ASSUME IInv, NEW p \in Peers, NEW i \in Pieces, RecvHave(p, i)
    PROVE  IInv'
  <1>1. {i} \in SUBSET Pieces /\ peerPieces[p] \cup {i} \in SUBSET Pieces
    BY DEF IInv, TypeOK
  <1>2. peerPieces' = [peerPieces EXCEPT ![p] = peerPieces[p] \cup {i}]
    BY DEF RecvHave
  <1> QED
    BY <1>1, <1>2, AnnouncementKeeps DEF RecvHave

LEMMA RecvChokeKeeps ==
    ASSUME IInv, NEW p \in Peers, RecvChoke(p) PROVE IInv'
  <1> USE DEF IInv
  <1>1. Consistent(have, pending, endgame, cur)'
    BY ReleaseKeeps DEF RecvChoke
  <1>2. TypeOK'
    BY DEF TypeOK, RecvChoke
  <1>3. Rest'
    BY EngineAssumption DEF TypeOK, RecvChoke, Rest, BusyHasPiece, ChokedHasNone,
       HeldIsStored, Complete, AdvertisedIsHeld, CancelReachesEveryDuplicate
  <1> QED
    BY <1>1, <1>2, <1>3 DEF Rest

LEMMA RecvBlockKeeps ==
    ASSUME IInv, NEW p \in Peers, NEW b \in Blocks, RecvBlock(p, b) PROVE IInv'
  <1> USE DEF IInv
  <1>1. Consistent(have, pending, endgame, cur)'
    BY UnmovedKeeps DEF RecvBlock, shared
  <1>2. TypeOK'
    BY DEF TypeOK, RecvBlock, shared
  <1>3. Rest'
    BY DEF TypeOK, RecvBlock, shared, Rest, BusyHasPiece, ChokedHasNone,
       HeldIsStored, Complete, AdvertisedIsHeld, CancelReachesEveryDuplicate
  <1> QED
    BY <1>1, <1>2, <1>3 DEF Rest

LEMMA RecvLastBlockKeeps ==
    ASSUME IInv, NEW p \in Peers, NEW b \in Blocks, RecvLastBlock(p, b) PROVE IInv'
  <1> USE DEF IInv
  <1>1. Consistent(have, pending, endgame, cur)'
    BY UnmovedKeeps DEF RecvLastBlock, shared
  <1>2. TypeOK'
    BY DEF TypeOK, RecvLastBlock, shared, Places
  <1>3. Rest'
    BY DEF TypeOK, RecvLastBlock, Awaiting, shared, Rest, BusyHasPiece, ChokedHasNone,
       HeldIsStored, Complete, AdvertisedIsHeld, CancelReachesEveryDuplicate
  <1> QED
    BY <1>1, <1>2, <1>3 DEF Rest

LEMMA DiskWriteKeeps ==
    ASSUME IInv, NEW p \in Peers, DiskWrite(p) PROVE IInv'
  <1> USE DEF IInv
  <1>1. Consistent(have, pending, endgame, cur)'
    BY UnmovedKeeps DEF DiskWrite, local
  <1>2. TypeOK'
    BY DEF TypeOK, DiskWrite, local, BusyHasPiece
  <1>3. Rest'
    BY DEF DiskWrite, local, Rest, BusyHasPiece, ChokedHasNone,
       HeldIsStored, Complete, AdvertisedIsHeld, CancelReachesEveryDuplicate
  <1> QED
    BY <1>1, <1>2, <1>3 DEF Rest

LEMMA MarkHaveKeeps ==
    ASSUME IInv, NEW p \in Peers, MarkHave(p) PROVE IInv'
  <1> USE DEF IInv
  <1>1. cur[p] \in Pieces /\ cur[p] \in disk
    BY DEF MarkHave, BusyHasPiece
  <1>2. OneFetcher(have, endgame, cur)' /\ Covers(have, endgame)'
    BY DEF MarkHave, Consistent, OneFetcher, Covers
  <1>3. MarkedOrShared(have, pending, endgame, cur)'
    BY DEF MarkHave, Consistent, MarkedOrShared
  <1>4. Recorded(have, endgame, cur)'
    BY DEF MarkHave, Consistent, Recorded
  <1>5. TypeOK'
    BY <1>1 DEF TypeOK, MarkHave, Places
  <1>6. BusyHasPiece' /\ ChokedHasNone' /\ AdvertisedIsHeld'
    BY <1>1 DEF MarkHave, TypeOK, BusyHasPiece, ChokedHasNone, AdvertisedIsHeld
  <1>7. HeldIsStored'
    BY <1>1 DEF MarkHave, TypeOK, HeldIsStored, Complete
  <1>8. CancelReachesEveryDuplicate'
    BY DEF MarkHave, TypeOK, CancelReachesEveryDuplicate
  <1>9. Consistent(have, pending, endgame, cur)'
    BY <1>2, <1>3, <1>4 DEF Consistent
  <1> QED
    BY <1>5, <1>6, <1>7, <1>8, <1>9

(* Steps that end with a choice of piece *)

\* The rest of the invariant after one, whoever else is sending Cancels.
LEMMA ChoiceKeepsRest ==
    ASSUME IInv, NEW p \in Peers, Chosen(p),
           pc' = [pc EXCEPT ![p] = "listen"],
           UNCHANGED <<have, disk>>,
           \A q \in Peers : told'[q] \subseteq have,
           \A q \in Peers \ {p} : cancelTo'[q] = cancelTo[q] /\ peerChoking'[q] = peerChoking[q],
           peerChoking'[p] => cur'[p] = None,
           done' # done => done' /\ Complete
    PROVE  Rest'
  <1> USE DEF IInv
  <1>1. None \notin Pieces
    BY EngineAssumption
  <1>2. \A q \in Peers : pc'[q] = IF q = p THEN "listen" ELSE pc[q]
    BY DEF TypeOK
  <1>3. /\ \A q \in Peers \ {p} : cur'[q] = cur[q]
        /\ cur'[p] \in (Pieces \ have) \cup {None}
    BY DEF Chosen
  <1>4. BusyHasPiece' /\ AdvertisedIsHeld'
    BY <1>2, <1>3 DEF BusyHasPiece, AdvertisedIsHeld
  <1>5. ChokedHasNone'
    BY <1>3 DEF ChokedHasNone
  <1>6. HeldIsStored'
    BY DEF HeldIsStored, Complete
  <1>7. CancelReachesEveryDuplicate'
    <2> SUFFICES ASSUME NEW r \in Peers, NEW q \in Peers, pc'[r] = "cancel", q # r,
                        cur'[q] = cur'[r]
                 PROVE  q \in cancelTo'[r]
      BY DEF CancelReachesEveryDuplicate
    <2>1. r # p /\ pc[r] = "cancel" /\ cur'[r] = cur[r] /\ cancelTo'[r] = cancelTo[r]
      BY <1>2, <1>3
    <2>2. cur[r] \in have /\ cur[r] \in Pieces
      BY <2>1 DEF AdvertisedIsHeld, BusyHasPiece
    <2>3. q # p /\ cur'[q] = cur[q]
      BY <1>1, <1>3, <2>1, <2>2
    <2> QED
      BY <2>1, <2>3 DEF CancelReachesEveryDuplicate
  <1> QED
    BY <1>4, <1>5, <1>6, <1>7 DEF Rest

\* A piece that is held can leave the endgame and its record be emptied.
LEMMA PieceDoneKeeps ==
    ASSUME TypeOK, Consistent(have, pending, endgame, cur), NEW i \in Pieces, i \in have
    PROVE  Consistent(have, pending, PieceDone(endgame, i), cur)
  <1> DEFINE eg == PieceDone(endgame, i)
  <1>1. /\ eg.active => endgame.active
        /\ eg.pieces = endgame.pieces \ {i}
        /\ \A j \in Pieces : eg.requests[j] = IF j = i THEN {} ELSE endgame.requests[j]
    BY PieceDoneFacts DEF TypeOK
  <1> HIDE DEF eg
  <1>2. OneFetcher(have, eg, cur) /\ MarkedOrShared(have, pending, eg, cur)
    BY <1>1 DEF Consistent, OneFetcher, MarkedOrShared
  <1>3. Covers(have, eg) /\ Recorded(have, eg, cur)
    BY <1>1 DEF Consistent, Covers, Recorded
  <1> QED
    BY <1>2, <1>3 DEF Consistent, eg

LEMMA RecvUnchokeKeeps ==
    ASSUME IInv, NEW p \in Peers, RecvUnchoke(p) PROVE IInv'
  <1> USE DEF IInv
  <1>1. peerChoking' = [peerChoking EXCEPT ![p] = FALSE] /\ pc[p] = "listen"
    BY DEF RecvUnchoke
  <1>2. CASE cur[p] = None /\ StartPiece(p, pending, endgame)
    <2>1. [cur EXCEPT ![p] = None] = cur
      BY <1>2 DEF TypeOK
    <2>2. pending \in SUBSET Pieces /\ endgame \in EndgameStates
      BY DEF TypeOK
    <2>3. Chosen(p)
      BY <1>2, <2>1, <2>2, CandidateKeeps, DuplicateKeeps DEF StartPiece
    <2>4. pc' = [pc EXCEPT ![p] = "listen"]
      BY <1>1 DEF RecvUnchoke, TypeOK
    <2>5. Rest'
      BY <1>1, <2>3, <2>4, ChoiceKeepsRest DEF RecvUnchoke, TypeOK, AdvertisedIsHeld
    <2>6. TypeOK'
      BY <1>1, <2>3 DEF Chosen, RecvUnchoke, TypeOK
    <2> QED
      BY <2>3, <2>5, <2>6 DEF Chosen, Rest, RecvUnchoke
  <1>3. CASE UNCHANGED <<cur, pending, endgame>>
    <2>1. Consistent(have, pending, endgame, cur)'
      BY <1>3, UnmovedKeeps DEF RecvUnchoke
    <2>2. TypeOK'
      BY <1>1, <1>3 DEF RecvUnchoke, TypeOK
    <2>3. Rest'
      BY <1>1, <1>3 DEF RecvUnchoke, TypeOK, Rest, BusyHasPiece, ChokedHasNone,
         HeldIsStored, Complete, AdvertisedIsHeld, CancelReachesEveryDuplicate
    <2> QED
      BY <2>1, <2>2, <2>3 DEF Rest
  <1> QED
    BY <1>2, <1>3 DEF RecvUnchoke

LEMMA RecvBadPieceKeeps ==
    ASSUME IInv, NEW p \in Peers, NEW b \in Blocks, RecvBadPiece(p, b) PROVE IInv'
  <1> USE DEF IInv
  <1> DEFINE pend == pending \ {cur[p]}
  <1>1. Consistent(have, pend, endgame, [cur EXCEPT ![p] = None])
    BY ReleaseKeeps
  <1>2. pend \in SUBSET Pieces /\ endgame \in EndgameStates
    BY DEF TypeOK
  <1>3. NextPiece(p, pend, endgame)
    BY DEF RecvBadPiece
  <1> HIDE DEF pend
  <1>4. /\ Chosen(p)
        /\ done' \in BOOLEAN /\ amInterested' \in [Peers -> BOOLEAN]
        /\ pc' = [pc EXCEPT ![p] = "listen"] /\ got' = [got EXCEPT ![p] = {}]
        /\ peerChoking[p] => cur'[p] = None
        /\ done' # done => done' /\ Complete
    BY <1>1, <1>2, <1>3, NextPieceKeeps
  <1>5. UNCHANGED <<have, avail, disk, peerPieces, peerChoking, cancelTo, told, dropped>>
    BY DEF RecvBadPiece
  <1>6. Rest'
    BY <1>4, <1>5, ChoiceKeepsRest DEF AdvertisedIsHeld
  <1>7. TypeOK'
    BY <1>4, <1>5 DEF Chosen, TypeOK, Places
  <1> QED
    BY <1>4, <1>5, <1>6, <1>7 DEF Chosen, Rest

LEMMA AnnouncedKeeps ==
    ASSUME IInv, NEW p \in Peers, Announced(p) PROVE IInv'
  <1> USE DEF IInv
  <1> DEFINE i       == cur[p]
             inEnd   == endgame.active /\ endgame.requests[i] # {}
             eg      == IF inEnd THEN PieceDone(endgame, i) ELSE endgame
             targets == IF inEnd THEN endgame.requests[i] \ {p} ELSE {}
  <1>1. i \in Pieces /\ i \in have
    BY DEF Announced, BusyHasPiece, AdvertisedIsHeld
  <1>2. endgame \in EndgameStates /\ pending \in SUBSET Pieces
    BY DEF TypeOK
  <1>3. eg \in EndgameStates /\ Consistent(have, pending, eg, cur)
    BY <1>1, <1>2, PieceDoneFacts, PieceDoneKeeps
  <1>4. targets \in SUBSET Peers
    BY <1>1, <1>2 DEF EndgameStates
  <1>5. /\ told' = [told EXCEPT ![p] = @ \cup {i}]
        /\ UNCHANGED <<have, avail, disk, peerPieces, peerChoking, dropped>>
    BY DEF Announced
  <1>6. \A q \in Peers : told'[q] \subseteq have
    BY <1>1, <1>5 DEF TypeOK, AdvertisedIsHeld
  <1>7. told' \in [Peers -> SUBSET Pieces]
    BY <1>1, <1>5 DEF TypeOK
  <1>8. CASE /\ targets # {}
             /\ cancelTo' = [cancelTo EXCEPT ![p] = targets]
             /\ pc' = [pc EXCEPT ![p] = "cancel"]
             /\ endgame' = eg
             /\ UNCHANGED <<pending, done, cur, got, amInterested>>
    <2>1. TypeOK'
      BY <1>3, <1>4, <1>5, <1>7, <1>8 DEF TypeOK, Places
    <2>2. \A q \in Peers : q # p /\ cur[q] = i => q \in targets
      <3> SUFFICES ASSUME NEW q \in Peers, q # p, cur[q] = i PROVE q \in targets
        OBVIOUS
      <3>1. q \in endgame.requests[i] \/ endgame.requests[i] = {}
        BY <1>1 DEF Consistent, Recorded
      <3> QED
        BY <1>8, <3>1
    <2> HIDE DEF i, targets, eg, inEnd
    <2>3. \A q \in Peers : /\ pc'[q] = IF q = p THEN "cancel" ELSE pc[q]
                           /\ cancelTo'[q] = IF q = p THEN targets ELSE cancelTo[q]
      BY <1>8 DEF TypeOK
    <2>4. CancelReachesEveryDuplicate'
      BY <1>8, <2>2, <2>3 DEF CancelReachesEveryDuplicate, i
    <2>5. BusyHasPiece' /\ AdvertisedIsHeld'
      BY <1>1, <1>5, <1>6, <1>8, <2>3 DEF BusyHasPiece, AdvertisedIsHeld, i
    <2>6. ChokedHasNone' /\ HeldIsStored'
      BY <1>5, <1>8 DEF ChokedHasNone, HeldIsStored, Complete
    <2>7. Consistent(have, pending, endgame, cur)'
      BY <1>3, <1>5, <1>8 DEF Consistent, OneFetcher, MarkedOrShared, Covers, Recorded
    <2> QED
      BY <2>1, <2>4, <2>5, <2>6, <2>7
  <1>9. CASE NextPiece(p, pending, eg) /\ UNCHANGED cancelTo
    <2>1. Consistent(have, pending, eg, [cur EXCEPT ![p] = None])
      BY <1>3, DropKeeps
    <2> HIDE DEF i, targets, eg, inEnd
    <2>2. /\ Chosen(p)
          /\ done' \in BOOLEAN /\ amInterested' \in [Peers -> BOOLEAN]
          /\ pc' = [pc EXCEPT ![p] = "listen"] /\ got' = [got EXCEPT ![p] = {}]
          /\ peerChoking[p] => cur'[p] = None
          /\ done' # done => done' /\ Complete
      BY <1>2, <1>3, <1>9, <2>1, NextPieceKeeps
    <2>3. Rest'
      BY <1>5, <1>6, <1>9, <2>2, ChoiceKeepsRest
    <2>4. TypeOK'
      BY <1>5, <1>7, <1>9, <2>2 DEF Chosen, TypeOK, Places
    <2> QED
      BY <1>5, <2>2, <2>3, <2>4 DEF Chosen, Rest
  <1> QED
    BY <1>8, <1>9 DEF Announced

LEMMA CancelsSentKeeps ==
    ASSUME IInv, NEW p \in Peers, CancelsSent(p) PROVE IInv'
  <1> USE DEF IInv
  <1>1. endgame \in EndgameStates /\ pending \in SUBSET Pieces
    BY DEF TypeOK
  <1>2. Consistent(have, pending, endgame, [cur EXCEPT ![p] = None])
    BY <1>1, DropKeeps
  <1>3. /\ NextPiece(p, pending, endgame)
        /\ cancelTo' = [cancelTo EXCEPT ![p] = {}]
        /\ UNCHANGED <<have, avail, disk, peerPieces, peerChoking, told>>
    BY DEF CancelsSent
  <1>4. /\ Chosen(p)
        /\ done' \in BOOLEAN /\ amInterested' \in [Peers -> BOOLEAN]
        /\ pc' = [pc EXCEPT ![p] = "listen"] /\ got' = [got EXCEPT ![p] = {}]
        /\ peerChoking[p] => cur'[p] = None
        /\ done' # done => done' /\ Complete
    BY <1>1, <1>2, <1>3, NextPieceKeeps
  <1>5. dropped' \in [Peers -> BOOLEAN]
    BY DEF CancelsSent, TypeOK
  <1>6. Rest'
    BY <1>3, <1>4, ChoiceKeepsRest DEF AdvertisedIsHeld, TypeOK
  <1>7. TypeOK'
    BY <1>3, <1>4, <1>5 DEF Chosen, TypeOK, Places
  <1> QED
    BY <1>3, <1>4, <1>6, <1>7 DEF Chosen, Rest

LEMMA LostKeeps ==
    ASSUME IInv, NEW p \in Peers, Lost(p) PROVE IInv'
  <1> USE DEF IInv
  <1> DEFINE c  == [cur EXCEPT ![p] = None]
             pd == pending \ {cur[p]}
             eg == Forget(endgame, p)
  <1>1. /\ pending' = pd /\ endgame' = eg /\ cur' = c
        /\ UNCHANGED <<have, disk, done>>
    BY DEF Lost, LostWith
  <1>2. Consistent(have, pd, endgame, c)
    BY ReleaseKeeps
  <1>3. /\ eg \in EndgameStates
        /\ eg.active = endgame.active /\ eg.pieces = endgame.pieces
        /\ \A j \in Pieces : eg.requests[j] = endgame.requests[j] \ {p}
    BY ForgetFacts DEF TypeOK
  <1>4. /\ c[p] = None /\ None \notin Pieces
        /\ \A q \in Peers \ {p} : c[q] = cur[q]
        /\ c \in [Peers -> Pieces \cup {None}] /\ pd \in SUBSET Pieces
    BY EngineAssumption DEF TypeOK
  <1>5. TypeOK'
    BY <1>1, <1>3, <1>4, RemovedType DEF Lost, LostWith, TypeOK, Places
  <1>6. BusyHasPiece' /\ ChokedHasNone' /\ AdvertisedIsHeld'
    BY DEF Lost, LostWith, TypeOK, BusyHasPiece, ChokedHasNone, AdvertisedIsHeld
  <1>7. HeldIsStored'
    BY <1>1 DEF HeldIsStored, Complete
  <1>8. CancelReachesEveryDuplicate'
    <2>1. \A q \in Peers : /\ pc'[q] = IF q = p THEN "off" ELSE pc[q]
                           /\ cancelTo'[q] = IF q = p THEN {} ELSE cancelTo[q]
      BY DEF Lost, LostWith, TypeOK
    <2> HIDE DEF c, pd, eg
    <2> QED
      BY <1>1, <1>4, <2>1 DEF CancelReachesEveryDuplicate, BusyHasPiece
  <1> HIDE DEF c, pd, eg
  <1>9. OneFetcher(have, eg, c) /\ MarkedOrShared(have, pd, eg, c) /\ Covers(have, eg)
    BY <1>2, <1>3 DEF Consistent, OneFetcher, MarkedOrShared, Covers
  <1>10. Recorded(have, eg, c)
    BY <1>2, <1>3, <1>4 DEF Consistent, Recorded
  <1>11. Consistent(have, pending, endgame, cur)'
    BY <1>1, <1>9, <1>10 DEF Consistent, OneFetcher, MarkedOrShared, Covers, Recorded
  <1> QED
    BY <1>5, <1>6, <1>7, <1>8, <1>11

-----------------------------------------------------------------------------
(* The invariant *)

LEMMA StutterKeeps == IInv /\ UNCHANGED vars => IInv'
  BY DEF vars, shared, local, IInv, TypeOK, Consistent, OneFetcher, MarkedOrShared,
         Covers, Recorded, BusyHasPiece, ChokedHasNone, HeldIsStored, Complete,
         AdvertisedIsHeld, CancelReachesEveryDuplicate

LEMMA StepKeeps == IInv /\ [Next]_vars => IInv'
  <1> SUFFICES ASSUME IInv, [Next]_vars PROVE IInv'
    OBVIOUS
  <1>1. CASE UNCHANGED vars
    BY <1>1, StutterKeeps
  <1>2. CASE Next
    <2>1. PICK p \in Peers :
            Connect(p) \/ Message(p) \/ Answer(p) \/ Resume(p) \/ Lost(p)
      BY <1>2 DEF Next
    <2>2. CASE Connect(p)
      BY <2>2, ConnectKeeps
    <2>3. CASE Message(p)
      BY <2>3, RecvBitfieldKeeps, RecvHaveKeeps, RecvChokeKeeps, RecvUnchokeKeeps
         DEF Message
    <2>4. CASE Answer(p)
      BY <2>4, RecvBlockKeeps, RecvLastBlockKeeps, RecvBadPieceKeeps DEF Answer
    <2>5. CASE Resume(p)
      BY <2>5, DiskWriteKeeps, MarkHaveKeeps, AnnouncedKeeps, CancelsSentKeeps DEF Resume
    <2>6. CASE Lost(p)
      BY <2>6, LostKeeps
    <2> QED
      BY <2>1, <2>2, <2>3, <2>4, <2>5, <2>6
  <1> QED
    BY <1>1, <1>2

THEOREM Invariance == Spec => []IInv
  BY InitEstablishes, StepKeeps, PTL DEF Spec

\* Every variable keeps its type: what run_peer, PieceTracker and EndgameState
\* hold stays within the pieces of the torrent and the peers of the session.
THEOREM TypeCorrect == Spec => []TypeOK
  <1>1. IInv => TypeOK
    BY DEF IInv
  <1> QED
    BY <1>1, Invariance, PTL

\* Two connections fetch the same missing piece only when the endgame shares it
\* (_start_piece, mark_failed).
THEOREM NoStrayDuplicate == Spec => []DuplicateOnlyInEndgame
  <1>1. IInv => DuplicateOnlyInEndgame
    BY DEF IInv, Consistent, OneFetcher, DuplicateOnlyInEndgame
  <1> QED
    BY <1>1, Invariance, PTL

\* A piece in progress that lost its pending mark is one the endgame shares.
THEOREM NoStrayUnpending == Spec => []UnpendingIsShared
  <1>1. IInv => UnpendingIsShared
    BY DEF IInv, Consistent, MarkedOrShared, UnpendingIsShared
  <1> QED
    BY <1>1, Invariance, PTL

\* The active endgame leaves out no missing piece (EndgameState.enter, piece_done).
THEOREM EndgameIsTotal == Spec => []EndgameCovers
  <1>1. IInv => EndgameCovers
    BY DEF IInv, Consistent, Covers, EndgameCovers
  <1> QED
    BY <1>1, Invariance, PTL

\* Whoever fetches a missing piece is recorded for its Cancel (record_request,
\* remove_peer, piece_done).
THEOREM FetchersAreRecorded == Spec => []RequestsRecorded
  <1>1. IInv => RequestsRecorded
    BY DEF IInv, Consistent, Recorded, RequestsRecorded
  <1> QED
    BY <1>1, Invariance, PTL

\* The Cancels of a piece go to everyone else still fetching it
\* (_broadcast_endgame_cancel).
THEOREM EveryDuplicateIsCancelled == Spec => []CancelReachesEveryDuplicate
  <1>1. IInv => CancelReachesEveryDuplicate
    BY DEF IInv
  <1> QED
    BY <1>1, Invariance, PTL

\* Only held pieces are announced, in the bitfield or with Have.
THEOREM AdvertisingIsHonest == Spec => []AdvertisedIsHeld
  <1>1. IInv => AdvertisedIsHeld
    BY DEF IInv
  <1> QED
    BY <1>1, Invariance, PTL

\* No piece is left with a peer that is choking us.
THEOREM NothingAskedWhileChoked == Spec => []ChokedIsIdle
  <1>1. IInv => ChokedIsIdle
    BY DEF IInv, ChokedHasNone, ChokedIsIdle
  <1> QED
    BY <1>1, Invariance, PTL

-----------------------------------------------------------------------------
(* The engine implements Download *)

\* The end of a piece releases the waiters only when every piece is held.
LEMMA NextPiecePromise ==
    ASSUME IInv, NEW p \in Peers, NEW pend, NEW eg, NextPiece(p, pend, eg),
           UNCHANGED <<have, disk>>
    PROVE  Promise!Finish \/ UNCHANGED <<disk, have, done>>
  <1>1. done' = done \/ (Complete /\ done' = TRUE)
    BY DEF NextPiece
  <1>2. done \in BOOLEAN
    BY DEF IInv, TypeOK
  <1>3. CASE Complete /\ done' = TRUE /\ done = FALSE
    BY <1>3 DEF Complete, Promise!Finish, Promise!Pieces, Pieces
  <1> QED
    BY <1>1, <1>2, <1>3

LEMMA StepPromise == IInv /\ [Next]_vars => [Promise!Next]_(Promise!vars)
  <1> SUFFICES ASSUME IInv, [Next]_vars
               PROVE  Promise!Next \/ UNCHANGED <<disk, have, done>>
    BY DEF Promise!vars
  <1> USE DEF Promise!Next, Promise!Pieces, Pieces
  <1>1. CASE UNCHANGED vars
    BY <1>1 DEF vars, shared
  <1>2. ASSUME NEW p \in Peers, Connect(p) \/ Message(p) \/ Lost(p)
        PROVE  UNCHANGED <<disk, have, done>>
    BY <1>2 DEF Connect, Message, RecvBitfield, RecvHave, RecvChoke, RecvUnchoke,
                Lost, LostWith, shared
  <1>3. ASSUME NEW p \in Peers, Answer(p)
        PROVE  Promise!Finish \/ UNCHANGED <<disk, have, done>>
    <2>1. PICK b \in Blocks : RecvBlock(p, b) \/ RecvLastBlock(p, b) \/ RecvBadPiece(p, b)
      BY <1>3 DEF Answer
    <2>2. CASE RecvBlock(p, b) \/ RecvLastBlock(p, b)
      BY <2>2 DEF RecvBlock, RecvLastBlock, shared
    <2>3. CASE RecvBadPiece(p, b)
      BY <2>3, NextPiecePromise DEF RecvBadPiece
    <2> QED
      BY <2>1, <2>2, <2>3
  <1>4. ASSUME NEW p \in Peers, DiskWrite(p)
        PROVE  Promise!Store(cur[p]) /\ cur[p] \in Pieces
    BY <1>4 DEF DiskWrite, Promise!Store, IInv, BusyHasPiece
  <1>5. ASSUME NEW p \in Peers, MarkHave(p)
        PROVE  (Promise!Claim(cur[p]) /\ cur[p] \in Pieces) \/ UNCHANGED <<disk, have, done>>
    BY <1>5 DEF MarkHave, Promise!Claim, IInv, BusyHasPiece
  <1>6. ASSUME NEW p \in Peers, Announced(p) \/ CancelsSent(p)
        PROVE  Promise!Finish \/ UNCHANGED <<disk, have, done>>
    BY <1>6, NextPiecePromise DEF Announced, CancelsSent
  <1>7. CASE Next
    BY <1>2, <1>3, <1>4, <1>5, <1>6, <1>7 DEF Next, Resume
  <1> QED
    BY <1>1, <1>7

\* Bytes first, then held, then waiters released, and nothing held is given up:
\* for any number of peers, whatever each of them does (run_peer).
THEOREM EngineImplementsDownload == Spec => Implements
  <1>1. Init => Promise!Init
    BY DEF Init, Promise!Init
  <1> QED
    BY <1>1, Invariance, StepPromise, PTL DEF Spec, Implements, Promise!Spec

-----------------------------------------------------------------------------
(* Counting: availability against the number of holders *)

\* When what peer p has becomes T, the holders of piece i gain p, lose p or stay.
Moved(p, T, i) ==
    /\ Cardinality(Holders(i)) \in Nat
    /\ i \in peerPieces[p] => Cardinality(Holders(i)) > 0
    /\ (i \in T <=> i \in peerPieces[p])
          => Cardinality(Holders(i)') = Cardinality(Holders(i))
    /\ i \in T /\ i \notin peerPieces[p]
          => Cardinality(Holders(i)') = Cardinality(Holders(i)) + 1
    /\ i \notin T /\ i \in peerPieces[p]
          => Cardinality(Holders(i)') = Cardinality(Holders(i)) - 1

LEMMA MovedStep ==
    ASSUME TypeOK, NEW p \in Peers, NEW T \in SUBSET Pieces, NEW i \in Pieces,
           peerPieces' = [peerPieces EXCEPT ![p] = T]
    PROVE  Moved(p, T, i)
  <1> DEFINE H == Holders(i)
  <1>1. IsFiniteSet(H) /\ Cardinality(H) \in Nat
    BY EngineAssumption, FS_Subset, FS_CardinalityType DEF Holders
  <1>2. p \in H <=> i \in peerPieces[p]
    BY DEF Holders
  <1>3. Holders(i)' = IF i \in T THEN H \cup {p} ELSE H \ {p}
    BY DEF Holders, TypeOK
  <1>4. p \in H => Cardinality(H) > 0
    BY <1>1, FS_EmptySet
  <1> HIDE DEF H
  <1>5. /\ Cardinality(H \cup {p}) = IF p \in H THEN Cardinality(H) ELSE Cardinality(H) + 1
        /\ Cardinality(H \ {p}) = IF p \in H THEN Cardinality(H) - 1 ELSE Cardinality(H)
    BY <1>1, FS_AddElement, FS_RemoveElement
  <1> QED
    BY <1>1, <1>2, <1>3, <1>4, <1>5 DEF Moved, H

\* The steps that count: a bitfield, a Have, a lost connection.  No other step
\* changes the counters or what is known of a peer.
LEMMA CountingSteps ==
    ASSUME [Next]_vars
    PROVE  \/ UNCHANGED <<avail, peerPieces>>
           \/ \E p \in Peers : \/ \E S \in SUBSET Pieces : RecvBitfield(p, S)
                               \/ \E j \in Pieces : RecvHave(p, j)
                               \/ Lost(p)
  <1>1. CASE UNCHANGED vars
    BY <1>1 DEF vars, shared, local
  <1>2. CASE Next
    <2>1. PICK p \in Peers :
            Connect(p) \/ Message(p) \/ Answer(p) \/ Resume(p) \/ Lost(p)
      BY <1>2 DEF Next
    <2>2. CASE Connect(p)
      BY <2>2 DEF Connect, shared
    <2>3. CASE Message(p)
      BY <2>3 DEF Message, RecvChoke, RecvUnchoke
    <2>4. CASE Answer(p)
      BY <2>4 DEF Answer, RecvBlock, RecvLastBlock, RecvBadPiece, shared
    <2>5. CASE Resume(p)
      BY <2>5 DEF Resume, DiskWrite, MarkHave, Announced, CancelsSent, local
    <2>6. CASE Lost(p)
      BY <2>6
    <2> QED
      BY <2>1, <2>2, <2>3, <2>4, <2>5, <2>6
  <1> QED
    BY <1>1, <1>2

LEMMA NeverUnderStep ==
    ASSUME TypeOK, AvailabilityNeverUnder, [Next]_vars
    PROVE  AvailabilityNeverUnder'
  <1> SUFFICES ASSUME NEW i \in Pieces PROVE avail'[i] >= Cardinality(Holders(i)')
    BY DEF AvailabilityNeverUnder
  <1>1. avail[i] \in Nat /\ avail[i] >= Cardinality(Holders(i))
    BY DEF TypeOK, AvailabilityNeverUnder
  <1>2. CASE UNCHANGED <<avail, peerPieces>>
    BY <1>1, <1>2 DEF Holders
  <1>3. ASSUME NEW p \in Peers, NEW S \in SUBSET Pieces, RecvBitfield(p, S)
        PROVE  avail'[i] >= Cardinality(Holders(i)')
    <2>1. avail'[i] = IF i \in S THEN avail[i] + 1 ELSE avail[i]
      BY <1>3 DEF RecvBitfield, Added
    <2>2. peerPieces' = [peerPieces EXCEPT ![p] = S]
      BY <1>3 DEF RecvBitfield
    <2>3. Moved(p, S, i)
      BY <2>2, MovedStep
    <2> QED
      BY <1>1, <2>1, <2>3 DEF Moved
  <1>4. ASSUME NEW p \in Peers, NEW j \in Pieces, RecvHave(p, j)
        PROVE  avail'[i] >= Cardinality(Holders(i)')
    <2> DEFINE T == peerPieces[p] \cup {j}
    <2>1. avail'[i] = IF i = j THEN avail[i] + 1 ELSE avail[i]
      BY <1>4 DEF RecvHave, Added
    <2>2. peerPieces' = [peerPieces EXCEPT ![p] = T] /\ T \in SUBSET Pieces
      BY <1>4 DEF RecvHave, TypeOK
    <2>3. Moved(p, T, i)
      BY <2>2, MovedStep
    <2> QED
      BY <1>1, <2>1, <2>3 DEF Moved
  <1>5. ASSUME NEW p \in Peers, Lost(p)
        PROVE  avail'[i] >= Cardinality(Holders(i)')
    <2>1. avail'[i] = IF i \in peerPieces[p] /\ avail[i] > 0 THEN avail[i] - 1 ELSE avail[i]
      BY <1>5 DEF Lost, LostWith, Removed
    <2>2. peerPieces' = [peerPieces EXCEPT ![p] = {}]
      BY <1>5 DEF Lost, LostWith
    <2>3. Moved(p, {}, i)
      BY <2>2, MovedStep
    <2> QED
      BY <1>1, <2>1, <2>3 DEF Moved
  <1> QED
    BY <1>2, <1>3, <1>4, <1>5, CountingSteps

LEMMA NobodyHolds == Init => \A i \in Pieces : avail[i] = 0 /\ Cardinality(Holders(i)) = 0
  <1> SUFFICES ASSUME Init, NEW i \in Pieces PROVE avail[i] = 0 /\ Cardinality(Holders(i)) = 0
    OBVIOUS
  <1>1. Holders(i) = {}
    BY DEF Init, Holders
  <1> QED
    BY <1>1, FS_EmptySet DEF Init

\* However peers repeat themselves and leave, a piece that a connected peer has
\* is never counted as rarer than it is (peer_bitfield, peer_have, peer_gone).
THEOREM AvailabilityIsEnough == Spec => []AvailabilityNeverUnder
  <1>1. Init => AvailabilityNeverUnder
    BY NobodyHolds DEF AvailabilityNeverUnder
  <1>2. TypeOK /\ AvailabilityNeverUnder /\ [Next]_vars => AvailabilityNeverUnder'
    BY NeverUnderStep
  <1> QED
    BY <1>1, <1>2, TypeCorrect, PTL DEF Spec

\* Peers that repeat nothing are counted exactly.
NobodyRude == \A p \in Peers : "rude" \notin Traits[p]

LEMMA ExactStep ==
    ASSUME NobodyRude, TypeOK, AvailabilityExact, [Next]_vars
    PROVE  AvailabilityExact'
  <1> SUFFICES ASSUME NEW i \in Pieces PROVE avail'[i] = Cardinality(Holders(i)')
    BY DEF AvailabilityExact
  <1>1. avail[i] \in Nat /\ avail[i] = Cardinality(Holders(i))
    BY DEF TypeOK, AvailabilityExact
  <1>2. CASE UNCHANGED <<avail, peerPieces>>
    BY <1>1, <1>2 DEF Holders
  <1>3. ASSUME NEW p \in Peers, NEW S \in SUBSET Pieces, RecvBitfield(p, S)
        PROVE  avail'[i] = Cardinality(Holders(i)')
    <2>1. avail'[i] = IF i \in S THEN avail[i] + 1 ELSE avail[i]
      BY <1>3 DEF RecvBitfield, Added
    <2>2. peerPieces' = [peerPieces EXCEPT ![p] = S] /\ i \notin peerPieces[p]
      BY <1>3 DEF RecvBitfield, NobodyRude
    <2>3. Moved(p, S, i)
      BY <2>2, MovedStep
    <2> QED
      BY <1>1, <2>1, <2>3, <2>2 DEF Moved
  <1>4. ASSUME NEW p \in Peers, NEW j \in Pieces, RecvHave(p, j)
        PROVE  avail'[i] = Cardinality(Holders(i)')
    <2> DEFINE T == peerPieces[p] \cup {j}
    <2>1. avail'[i] = (IF i = j THEN avail[i] + 1 ELSE avail[i]) /\ j \notin peerPieces[p]
      BY <1>4 DEF RecvHave, Added, NobodyRude
    <2>2. peerPieces' = [peerPieces EXCEPT ![p] = T] /\ T \in SUBSET Pieces
      BY <1>4 DEF RecvHave, TypeOK
    <2>3. Moved(p, T, i)
      BY <2>2, MovedStep
    <2> QED
      BY <1>1, <2>1, <2>3 DEF Moved
  <1>5. ASSUME NEW p \in Peers, Lost(p)
        PROVE  avail'[i] = Cardinality(Holders(i)')
    <2>1. avail'[i] = IF i \in peerPieces[p] /\ avail[i] > 0 THEN avail[i] - 1 ELSE avail[i]
      BY <1>5 DEF Lost, LostWith, Removed
    <2>2. peerPieces' = [peerPieces EXCEPT ![p] = {}]
      BY <1>5 DEF Lost, LostWith
    <2>3. Moved(p, {}, i)
      BY <2>2, MovedStep
    <2> QED
      BY <1>1, <2>1, <2>3 DEF Moved
  <1> QED
    BY <1>2, <1>3, <1>4, <1>5, CountingSteps

\* With peers that repeat nothing, availability is the number of peers that have
\* a piece, as piece.py:68 says: a disconnect takes off just what was added.
THEOREM AvailabilityIsExact == ASSUME NobodyRude PROVE Spec => []AvailabilityExact
  <1>1. Init => AvailabilityExact
    BY NobodyHolds DEF AvailabilityExact
  <1>2. TypeOK /\ AvailabilityExact /\ [Next]_vars => AvailabilityExact'
    BY ExactStep
  <1> QED
    BY <1>1, <1>2, TypeCorrect, PTL DEF Spec

-----------------------------------------------------------------------------
(* A connection that asks for nothing has nothing to offer *)

\* Peers that keep to one bitfield: what one has is known before it unchokes us.
Settled == \A p \in Peers : Traits[p] \cap {"rude", "grows"} = {}

OffKnowsNothing == \A p \in Peers : pc[p] = "off" => peerPieces[p] = {}

\* _start_piece leaves a connection without a piece only when its peer offers none.
LEMMA NoChoiceNoOffer ==
    ASSUME TypeOK, NEW p \in Peers, NEW pend, NEW eg \in EndgameStates,
           Covers(have, eg), StartPiece(p, pend, eg), cur'[p] = None
    PROVE  peerPieces[p] \subseteq have
  <1>1. None \notin Pieces
    BY EngineAssumption
  <1>2. ASSUME TakeCandidate(p, pend, eg) PROVE FALSE
    BY <1>1, <1>2 DEF TakeCandidate, Candidates, TypeOK
  <1>3. TakeDuplicate(p, pend, eg)
    BY <1>2 DEF StartPiece
  <1> DEFINE eg1  == IF eg.active THEN eg ELSE Enter(eg, Pieces \ have)
             open == (eg1.pieces \cap peerPieces[p]) \ have
  <1>4. Pieces \ have \subseteq eg1.pieces
    BY EnterFacts DEF Covers
  <1>5. open \subseteq Pieces
    BY DEF TypeOK
  <1>6. (\E i \in open : cur' = [cur EXCEPT ![p] = i]) \/ open = {}
    BY <1>3 DEF TakeDuplicate
  <1> HIDE DEF open, eg1
  <1>7. open = {}
    BY <1>1, <1>5, <1>6 DEF TypeOK
  <1> QED
    BY <1>4, <1>7 DEF open, TypeOK

\* The same at the end of a piece.
LEMMA NextPieceNoOffer ==
    ASSUME TypeOK, NEW p \in Peers, NEW pend, NEW eg \in EndgameStates,
           Covers(have, eg), NextPiece(p, pend, eg), ~peerChoking[p], cur'[p] = None
    PROVE  peerPieces[p] \subseteq have
  BY NoChoiceNoOffer DEF NextPiece, Complete, TypeOK

\* A step of peer p leaves the other connections, and gives no piece up.
Others(p) ==
    /\ have \subseteq have'
    /\ \A q \in Peers \ {p} : /\ pc'[q] = pc[q] /\ cur'[q] = cur[q]
                              /\ peerChoking'[q] = peerChoking[q]
                              /\ peerPieces'[q] = peerPieces[q]

\* What a step of peer p owes: p stays idle only with nothing to offer.
Settles(p) ==
    /\ Others(p)
    /\ pc'[p] = "off" => peerPieces'[p] = {}
    /\ pc'[p] = "listen" /\ ~peerChoking'[p] /\ cur'[p] = None => peerPieces'[p] \subseteq have'

IdleInv == IInv /\ IdleHasNothingToOffer /\ OffKnowsNothing

LEMMA StartOthers ==
    ASSUME TypeOK, NEW p \in Peers, NEW pend, NEW eg, StartPiece(p, pend, eg)
    PROVE  \A q \in Peers \ {p} : cur'[q] = cur[q]
  BY DEF StartPiece, TakeCandidate, TakeDuplicate, TypeOK

LEMMA NextPieceOthers ==
    ASSUME TypeOK, NEW p \in Peers, NEW pend, NEW eg, NextPiece(p, pend, eg)
    PROVE  /\ \A q \in Peers \ {p} : cur'[q] = cur[q] /\ pc'[q] = pc[q]
           /\ pc'[p] = "listen"
  BY StartOthers DEF NextPiece, TypeOK

\* Steps that end with a choice.
LEMMA NextPieceSettles ==
    ASSUME IdleInv, NEW p \in Peers, NEW pend, NEW eg \in EndgameStates,
           Covers(have, eg), NextPiece(p, pend, eg),
           UNCHANGED <<have, peerPieces, peerChoking>>
    PROVE  Settles(p)
  <1>1. TypeOK
    BY DEF IdleInv, IInv
  <1> QED
    BY <1>1, NextPieceOthers, NextPieceNoOffer DEF Settles, Others

LEMMA BadPieceSettles ==
    ASSUME IdleInv, NEW p \in Peers, NEW b \in Blocks, RecvBadPiece(p, b)
    PROVE  Settles(p)
  <1>1. endgame \in EndgameStates /\ Covers(have, endgame)
    BY DEF IdleInv, IInv, TypeOK, Consistent
  <1> QED
    BY <1>1, NextPieceSettles DEF RecvBadPiece

LEMMA AnnouncedSettles ==
    ASSUME IdleInv, NEW p \in Peers, Announced(p) PROVE Settles(p)
  <1> DEFINE i       == cur[p]
             inEnd   == endgame.active /\ endgame.requests[i] # {}
             eg      == IF inEnd THEN PieceDone(endgame, i) ELSE endgame
  <1>1. /\ i \in Pieces /\ i \in have /\ endgame \in EndgameStates
        /\ TypeOK /\ Consistent(have, pending, endgame, cur)
    BY DEF IdleInv, IInv, TypeOK, Announced, BusyHasPiece, AdvertisedIsHeld
  <1>2. eg \in EndgameStates /\ Covers(have, eg)
    BY <1>1, PieceDoneFacts, PieceDoneKeeps DEF Consistent
  <1>3. UNCHANGED <<have, peerPieces, peerChoking>>
    BY DEF Announced
  <1>4. \/ pc' = [pc EXCEPT ![p] = "cancel"] /\ UNCHANGED cur
        \/ NextPiece(p, pending, eg)
    BY DEF Announced
  <1> HIDE DEF i, inEnd, eg
  <1>5. CASE pc' = [pc EXCEPT ![p] = "cancel"] /\ UNCHANGED cur
    BY <1>1, <1>3, <1>5 DEF Settles, Others, TypeOK
  <1>6. CASE NextPiece(p, pending, eg)
    BY <1>2, <1>3, <1>6, NextPieceSettles
  <1> QED
    BY <1>4, <1>5, <1>6

LEMMA CancelsSentSettles ==
    ASSUME IdleInv, NEW p \in Peers, CancelsSent(p) PROVE Settles(p)
  <1>1. endgame \in EndgameStates /\ Covers(have, endgame)
    BY DEF IdleInv, IInv, TypeOK, Consistent
  <1> QED
    BY <1>1, NextPieceSettles DEF CancelsSent

LEMMA UnchokeSettles ==
    ASSUME IdleInv, NEW p \in Peers, RecvUnchoke(p) PROVE Settles(p)
  <1>1. TypeOK /\ endgame \in EndgameStates /\ Covers(have, endgame)
    BY DEF IdleInv, IInv, TypeOK, Consistent
  <1>2. /\ UNCHANGED <<have, pc, peerPieces>> /\ pc[p] = "listen"
        /\ peerChoking' = [peerChoking EXCEPT ![p] = FALSE]
    BY DEF RecvUnchoke
  <1>3. CASE StartPiece(p, pending, endgame)
    BY <1>1, <1>2, <1>3, StartOthers, NoChoiceNoOffer DEF Settles, Others, TypeOK
  <1>4. CASE UNCHANGED cur /\ (Complete \/ cur[p] # None)
    BY <1>1, <1>2, <1>4 DEF Settles, Others, TypeOK, Complete
  <1> QED
    BY <1>3, <1>4 DEF RecvUnchoke

\* The other messages, the blocks, the disk, and coming and going.
LEMMA MessageSettles ==
    ASSUME Settled, IdleInv, NEW p \in Peers, Message(p) PROVE Settles(p)
  <1>1. TypeOK
    BY DEF IdleInv, IInv
  <1>2. "rude" \notin Traits[p] /\ "grows" \notin Traits[p]
    BY DEF Settled
  <1>3. ASSUME NEW S \in SUBSET Pieces, RecvBitfield(p, S) PROVE Settles(p)
    BY <1>1, <1>2, <1>3 DEF RecvBitfield, Settles, Others, TypeOK
  <1>4. ASSUME NEW i \in Pieces, RecvHave(p, i) PROVE FALSE
    BY <1>2, <1>4 DEF RecvHave
  <1>5. CASE RecvChoke(p)
    BY <1>1, <1>5 DEF RecvChoke, Settles, Others, TypeOK
  <1> QED
    BY <1>3, <1>4, <1>5, UnchokeSettles DEF Message

LEMMA ConnectLostSettle ==
    ASSUME IdleInv, NEW p \in Peers, Connect(p) \/ Lost(p) PROVE Settles(p)
  <1>1. TypeOK
    BY DEF IdleInv, IInv
  <1>2. CASE Connect(p)
    <2>1. peerPieces[p] = {}
      BY <1>2 DEF Connect, IdleInv, OffKnowsNothing
    <2> QED
      BY <1>1, <1>2, <2>1 DEF Connect, shared, Settles, Others, TypeOK
  <1>3. CASE Lost(p)
    BY <1>1, <1>3 DEF Lost, LostWith, Settles, Others, TypeOK
  <1> QED
    BY <1>2, <1>3

LEMMA AnswerSettles ==
    ASSUME IdleInv, NEW p \in Peers, Answer(p) PROVE Settles(p)
  <1>1. TypeOK /\ None \notin Pieces
    BY EngineAssumption DEF IdleInv, IInv
  <1>2. ASSUME NEW b \in Blocks, RecvBlock(p, b) PROVE Settles(p)
    BY <1>1, <1>2 DEF RecvBlock, Awaiting, shared, Settles, Others, TypeOK
  <1>3. ASSUME NEW b \in Blocks, RecvLastBlock(p, b) PROVE Settles(p)
    BY <1>1, <1>3 DEF RecvLastBlock, shared, Settles, Others, TypeOK
  <1> QED
    BY <1>2, <1>3, BadPieceSettles DEF Answer

LEMMA ResumeSettles ==
    ASSUME IdleInv, NEW p \in Peers, Resume(p) PROVE Settles(p)
  <1>1. TypeOK
    BY DEF IdleInv, IInv
  <1>2. CASE DiskWrite(p)
    BY <1>1, <1>2 DEF DiskWrite, local, Settles, Others, TypeOK
  <1>3. CASE MarkHave(p)
    BY <1>1, <1>3 DEF MarkHave, Settles, Others, TypeOK
  <1> QED
    BY <1>2, <1>3, AnnouncedSettles, CancelsSentSettles DEF Resume

LEMMA IdleStep == ASSUME Settled, IdleInv, [Next]_vars PROVE IdleInv'
  <1>1. IInv'
    BY StepKeeps DEF IdleInv
  <1>2. CASE UNCHANGED vars
    BY <1>1, <1>2 DEF IdleInv, IdleHasNothingToOffer, OffKnowsNothing, vars, shared, local
  <1>3. CASE Next
    <2>1. PICK p \in Peers :
            Connect(p) \/ Message(p) \/ Answer(p) \/ Resume(p) \/ Lost(p)
      BY <1>3 DEF Next
    <2>2. Settles(p)
      BY <2>1, ConnectLostSettle, MessageSettles, AnswerSettles, ResumeSettles
    <2>3. OffKnowsNothing'
      BY <2>2 DEF Settles, Others, OffKnowsNothing, IdleInv
    <2>4. IdleHasNothingToOffer'
      BY <2>2 DEF Settles, Others, IdleHasNothingToOffer, IdleInv
    <2> QED
      BY <1>1, <2>3, <2>4 DEF IdleInv
  <1> QED
    BY <1>2, <1>3

\* With peers that say what they have in one bitfield, a connection that is
\* unchoked and asks for nothing has nothing we miss: the pieces _start_piece
\* marks pending without fetching them are never lost (engine.py:358-391).
THEOREM IdleIsExhausted == ASSUME Settled PROVE Spec => []IdleHasNothingToOffer
  <1>1. Init => IdleInv
    BY InitEstablishes DEF Init, IdleInv, IdleHasNothingToOffer, OffKnowsNothing
  <1>2. IdleInv /\ [Next]_vars => IdleInv'
    BY IdleStep
  <1>3. IdleInv => IdleHasNothingToOffer
    BY DEF IdleInv
  <1> QED
    BY <1>1, <1>2, <1>3, PTL DEF Spec
=============================================================================
