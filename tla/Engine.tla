------------------------------- MODULE Engine -------------------------------
(***************************************************************************)
(* The download side of one torrent session: the run_peer coroutines of    *)
(* engine.py, one per connected peer, which share one PieceTracker         *)
(* (piece.py) and one EndgameState.                                        *)
(*                                                                         *)
(* The coroutines run on one event loop, so an action is the code between  *)
(* two awaits at which another coroutine can run and change the shared     *)
(* state.  Sending our Interested, NotInterested and Request messages      *)
(* changes no shared state and is merged with the step that decides it; a  *)
(* send that fails is the step Lost right after.                           *)
(*                                                                         *)
(* Abstractions.  A piece is its index, a block its offset in Blocks; every*)
(* piece has the same blocks (the last one may be shorter in the code).    *)
(* A piece assembled from received blocks either matches its hash or not:  *)
(* that is the remote peer's choice.  PieceTracker._failed is written and  *)
(* never read, and has no variable.  Requests from the peer, Interested    *)
(* and NotInterested drive uploading and choking, not this state; KeepAlive*)
(* and Cancel are ignored by the code.                                     *)
(***************************************************************************)
EXTENDS Naturals, FiniteSets

CONSTANTS Peers,       \* addresses, one connection at a time each
          PieceCount,  \* tracker.piece_count
          Blocks,      \* the blocks of a piece
          Traits,      \* what each remote peer may do, see TraitNames
          MaxAvail,    \* bound on an availability counter
          None         \* no current piece

Pieces == 0 .. PieceCount - 1

(***************************************************************************)
(* What a remote peer may do beyond sending one bitfield first, unchoking  *)
(* us when we are interested and answering our requests:                   *)
(*   seed     it holds every piece and says so in its bitfield             *)
(*   grows    it gets pieces while connected and announces them with Have  *)
(*   flaky    it chokes us, its connection breaks, or a step of serving it *)
(*            fails (a parse error, a storage error, a cancelled task)     *)
(*   corrupt  the data it sends may fail the hash check                    *)
(*   rude     it repeats bitfields and Haves and unchokes out of turn      *)
(*   cancels  it honours our Cancel: blocks not sent yet are never sent    *)
(***************************************************************************)
TraitNames == {"seed", "grows", "flaky", "corrupt", "rude", "cancels"}

ASSUME EngineAssumption ==
    /\ IsFiniteSet(Peers)
    /\ PieceCount \in Nat
    /\ Blocks # {}
    /\ None \notin Pieces
    /\ MaxAvail \in Nat
    /\ Traits \in [Peers -> SUBSET TraitNames]

VARIABLES
    have,          \* tracker._have
    pending,       \* tracker._pending
    avail,         \* tracker._availability, 0 where there is no entry
    endgame,       \* the session's EndgameState
    disk,          \* pieces whose verified bytes the storage holds
    done,          \* done_event is set
    pc,            \* where the coroutine of a peer is suspended
    cur,           \* current_piece
    got,           \* keys of piece_blocks
    peerPieces,    \* peer_pieces
    peerChoking,   \* peer_choking
    amInterested,  \* am_interested
    cancelTo,      \* cancel_addrs, while the Cancels are being sent
    told,          \* pieces we have announced on this connection
    dropped        \* the remote peer has dropped our outstanding requests

shared == <<have, pending, avail, endgame, disk, done>>
local  == <<pc, cur, got, peerPieces, peerChoking, amInterested, cancelTo,
            told, dropped>>
vars   == <<shared, local>>

(***************************************************************************)
(* pc: "off" no connection; "listen" in receive_message; "write" in        *)
(* storage.write; "announce" after mark_have, emitting PIECE_VERIFIED and  *)
(* sending Have; "cancel" in _broadcast_endgame_cancel.                    *)
(***************************************************************************)
Places == {"off", "listen", "write", "announce", "cancel"}

EndgameStates == [active   : BOOLEAN,
                  pieces   : SUBSET Pieces,
                  requests : [Pieces -> SUBSET Peers]]

TypeOK ==
    /\ have \subseteq Pieces
    /\ pending \subseteq Pieces
    /\ avail \in [Pieces -> Nat]
    /\ endgame \in EndgameStates
    /\ disk \subseteq Pieces
    /\ done \in BOOLEAN
    /\ pc \in [Peers -> Places]
    /\ cur \in [Peers -> Pieces \cup {None}]
    /\ got \in [Peers -> SUBSET Blocks]
    /\ peerPieces \in [Peers -> SUBSET Pieces]
    /\ peerChoking \in [Peers -> BOOLEAN]
    /\ amInterested \in [Peers -> BOOLEAN]
    /\ cancelTo \in [Peers -> SUBSET Peers]
    /\ told \in [Peers -> SUBSET Pieces]
    /\ dropped \in [Peers -> BOOLEAN]

Init ==
    /\ have = {} /\ pending = {} /\ disk = {} /\ done = FALSE
    /\ avail = [i \in Pieces |-> 0]
    /\ endgame = [active |-> FALSE, pieces |-> {},
                  requests |-> [i \in Pieces |-> {}]]
    /\ pc = [p \in Peers |-> "off"]
    /\ cur = [p \in Peers |-> None]
    /\ got = [p \in Peers |-> {}]
    /\ peerPieces = [p \in Peers |-> {}]
    /\ peerChoking = [p \in Peers |-> TRUE]
    /\ amInterested = [p \in Peers |-> FALSE]
    /\ cancelTo = [p \in Peers |-> {}]
    /\ told = [p \in Peers |-> {}]
    /\ dropped = [p \in Peers |-> FALSE]

-----------------------------------------------------------------------------
(* EndgameState.  A key absent from peer_requests is an empty set: the code *)
(* distinguishes the two only for a current piece, whose key, when present, *)
(* holds at least the peer itself.                                          *)

Enter(eg, S) == [eg EXCEPT !.active = TRUE, !.pieces = S]

RecordRequest(eg, i, p) == [eg EXCEPT !.requests[i] = @ \cup {p}]

PieceDone(eg, i) ==
    [active   |-> eg.active /\ eg.pieces \ {i} # {},
     pieces   |-> eg.pieces \ {i},
     requests |-> [eg.requests EXCEPT ![i] = {}]]

\* Variant: the whole entry goes, not the one address.
ForgetAll(eg, p) ==
    [eg EXCEPT !.requests = [i \in Pieces |-> IF p \in @[i] THEN {} ELSE @[i]]]

Forget(eg, p) == [eg EXCEPT !.requests = [i \in Pieces |-> @[i] \ {p}]]

(* PieceTracker *)

Complete == have = Pieces

\* Variant: a range one too long.
LongCandidates(pend) == (0 .. PieceCount) \ (have \cup pend)

Candidates(pend) == Pieces \ (have \cup pend)

\* Rarest first; the sort is stable, so equal counts keep index order.
Rarer(i, j) == avail[i] < avail[j] \/ (avail[i] = avail[j] /\ i < j)

Added(S) == [i \in Pieces |-> IF i \in S THEN avail[i] + 1 ELSE avail[i]]

\* Variant: the entry is popped rather than decremented.
PoppedFor(S) == [i \in Pieces |-> IF i \in S THEN 0 ELSE avail[i]]

Removed(S) ==
    [i \in Pieces |-> IF i \in S /\ avail[i] > 0 THEN avail[i] - 1 ELSE avail[i]]

(***************************************************************************)
(* _start_piece, given pending and the endgame state at the call.  The     *)
(* search loop marks pending every candidate that sorts before the first   *)
(* one this peer has, or every candidate when it has none, and never takes *)
(* those marks back: mark_failed in the loop is applied to a piece that is *)
(* not pending.                                                            *)
(***************************************************************************)
\* Variant: the chosen piece is not marked pending.
TakeUnmarked(p, pend, eg) ==
    LET offered == Candidates(pend) \cap peerPieces[p]
    IN  \E i \in offered :
          /\ \A j \in offered \ {i} : Rarer(i, j)
          /\ cur' = [cur EXCEPT ![p] = i]
          /\ pending' = pend \cup {j \in Candidates(pend) : Rarer(j, i)}
          /\ endgame' = RecordRequest(eg, i, p)

TakeCandidate(p, pend, eg) ==
    LET offered == Candidates(pend) \cap peerPieces[p]
    IN  \E i \in offered :
          /\ \A j \in offered \ {i} : Rarer(i, j)
          /\ cur' = [cur EXCEPT ![p] = i]
          /\ pending' = pend \cup {i} \cup {j \in Candidates(pend) : Rarer(j, i)}
          /\ endgame' = RecordRequest(eg, i, p)

\* Variants: no endgame; an endgame request that is not recorded.
TakeNone(p, pend, eg) ==
    /\ Candidates(pend) \cap peerPieces[p] = {}
    /\ pending' = pend \cup Candidates(pend)
    /\ cur' = [cur EXCEPT ![p] = None]
    /\ endgame' = eg

TakeUnrecorded(p, pend, eg) ==
    LET eg1  == IF eg.active THEN eg ELSE Enter(eg, Pieces \ have)
        open == (eg1.pieces \cap peerPieces[p]) \ have
    IN  /\ Candidates(pend) \cap peerPieces[p] = {}
        /\ pending' = pend \cup Candidates(pend)
        /\ cur' \in {[cur EXCEPT ![p] = i] : i \in IF open = {} THEN {None} ELSE open}
        /\ endgame' = eg1

TakeDuplicate(p, pend, eg) ==
    LET eg1  == IF eg.active THEN eg ELSE Enter(eg, Pieces \ have)
        open == (eg1.pieces \cap peerPieces[p]) \ have
    IN  /\ Candidates(pend) \cap peerPieces[p] = {}
        /\ pending' = pend \cup Candidates(pend)
        /\ \/ \E i \in open : /\ cur' = [cur EXCEPT ![p] = i]
                              /\ endgame' = RecordRequest(eg1, i, p)
           \/ /\ open = {}
              /\ cur' = [cur EXCEPT ![p] = None]
              /\ endgame' = eg1

StartPiece(p, pend, eg) == TakeCandidate(p, pend, eg) \/ TakeDuplicate(p, pend, eg)

\* Variants of the end of a piece: no next piece; the waiters forgotten.
StopAfterPiece(p, pend, eg) ==
    /\ pc' = [pc EXCEPT ![p] = "listen"]
    /\ got' = [got EXCEPT ![p] = {}]
    /\ cur' = [cur EXCEPT ![p] = None]
    /\ done' = (done \/ Complete)
    /\ pending' = pend /\ endgame' = eg
    /\ UNCHANGED amInterested

ForgetWaiters(p, pend, eg) ==
    /\ pc' = [pc EXCEPT ![p] = "listen"]
    /\ got' = [got EXCEPT ![p] = {}]
    /\ StartPiece(p, pend, eg)
    /\ UNCHANGED <<done, amInterested>>

(***************************************************************************)
(* The end of a piece, verified or not: forget it, then release the        *)
(* waiters, ask for the next piece, or wait to be unchoked.                *)
(***************************************************************************)
NextPiece(p, pend, eg) ==
    /\ pc' = [pc EXCEPT ![p] = "listen"]
    /\ got' = [got EXCEPT ![p] = {}]
    /\ \/ /\ Complete
          /\ done' = TRUE
          /\ amInterested' = [amInterested EXCEPT ![p] = FALSE]
          /\ cur' = [cur EXCEPT ![p] = None]
          /\ pending' = pend /\ endgame' = eg
       \/ /\ ~Complete
          /\ IF peerChoking[p]
                THEN /\ cur' = [cur EXCEPT ![p] = None]
                     /\ pending' = pend /\ endgame' = eg
                ELSE StartPiece(p, pend, eg)
          /\ UNCHANGED <<done, amInterested>>

-----------------------------------------------------------------------------
(* Connecting, and the messages that do not carry data *)

\* A block of the current piece that the remote peer still owes us.
Awaiting(p, b) ==
    pc[p] = "listen" /\ cur[p] # None /\ ~dropped[p] /\ b \notin got[p]

\* The finally clause of run_peer: the current piece is given back, the peer's
\* pieces leave the counts, its locals go.
LostWith(p, freed, counts) ==
    /\ pc[p] # "off"
    /\ "flaky" \in Traits[p]
    /\ pending' = pending \ freed
    /\ avail' = counts
    /\ endgame' = Forget(endgame, p)
    /\ pc' = [pc EXCEPT ![p] = "off"]
    /\ cur' = [cur EXCEPT ![p] = None]
    /\ got' = [got EXCEPT ![p] = {}]
    /\ peerPieces' = [peerPieces EXCEPT ![p] = {}]
    /\ peerChoking' = [peerChoking EXCEPT ![p] = TRUE]
    /\ amInterested' = [amInterested EXCEPT ![p] = FALSE]
    /\ cancelTo' = [cancelTo EXCEPT ![p] = {}]
    /\ told' = [told EXCEPT ![p] = {}]
    /\ dropped' = [dropped EXCEPT ![p] = FALSE]
    /\ UNCHANGED <<have, disk, done>>

(* Variants of actions: the bitfield advertises pending pieces; a choke     *)
(* keeps the current piece; a bad piece leaves the endgame; a piece counts as *)
(* held before its write ends; cleanup frees every piece of the peer, or      *)
(* leaves its pieces in the availability counts.                              *)
EagerConnect(p) ==
    /\ pc[p] = "off"
    /\ pc' = [pc EXCEPT ![p] = "listen"]
    /\ told' = [told EXCEPT ![p] = have \cup pending]
    /\ UNCHANGED <<shared, cur, got, peerPieces, peerChoking, amInterested,
                   cancelTo, dropped>>

ChokeKeeping(p) ==
    /\ pc[p] = "listen" /\ "flaky" \in Traits[p] /\ ~peerChoking[p]
    /\ peerChoking' = [peerChoking EXCEPT ![p] = TRUE]
    /\ UNCHANGED <<shared, pc, cur, got, peerPieces, amInterested, cancelTo,
                   told, dropped>>

BadPieceDone(p, b) ==
    /\ Awaiting(p, b)
    /\ got[p] \cup {b} = Blocks
    /\ "corrupt" \in Traits[p]
    /\ NextPiece(p, pending \ {cur[p]}, PieceDone(endgame, cur[p]))
    /\ UNCHANGED <<have, avail, disk, peerPieces, peerChoking, cancelTo, told,
                   dropped>>

MarkHaveEarly(p) ==
    /\ pc[p] = "write"
    /\ have' = have \cup {cur[p]}
    /\ pending' = pending \ {cur[p]}
    /\ pc' = [pc EXCEPT ![p] = "announce"]
    /\ UNCHANGED <<avail, endgame, disk, done, cur, got, peerPieces,
                   peerChoking, amInterested, cancelTo, told, dropped>>

LostFreeingAll(p) == LostWith(p, peerPieces[p], Removed(peerPieces[p]))

LostStillCounted(p) == LostWith(p, {cur[p]}, avail)

Connect(p) ==
    /\ pc[p] = "off"
    /\ pc' = [pc EXCEPT ![p] = "listen"]
    /\ told' = [told EXCEPT ![p] = have]
    /\ UNCHANGED <<shared, cur, got, peerPieces, peerChoking, amInterested,
                   cancelTo, dropped>>

\* The handlers of Bitfield and Have express interest unless all is held.
ExpressInterest(p) ==
    amInterested' = [amInterested EXCEPT ![p] = @ \/ ~Complete]

RecvBitfield(p, S) ==
    /\ pc[p] = "listen"
    /\ \/ "rude" \in Traits[p]
       \/ peerPieces[p] = {} /\ ~amInterested[p] /\ peerChoking[p]
    /\ "seed" \in Traits[p] => S = Pieces
    /\ \A i \in S : avail[i] < MaxAvail
    /\ peerPieces' = [peerPieces EXCEPT ![p] = S]
    /\ avail' = Added(S)
    /\ ExpressInterest(p)
    /\ UNCHANGED <<have, pending, endgame, disk, done, pc, cur, got, peerChoking,
                   cancelTo, told, dropped>>

RecvHave(p, i) ==
    /\ pc[p] = "listen"
    /\ "rude" \in Traits[p] \/ ("grows" \in Traits[p] /\ i \notin peerPieces[p])
    /\ avail[i] < MaxAvail
    /\ peerPieces' = [peerPieces EXCEPT ![p] = @ \cup {i}]
    /\ avail' = Added({i})
    /\ ExpressInterest(p)
    /\ UNCHANGED <<have, pending, endgame, disk, done, pc, cur, got, peerChoking,
                   cancelTo, told, dropped>>

\* A choke gives the current piece back.
RecvChoke(p) ==
    /\ pc[p] = "listen"
    /\ "flaky" \in Traits[p]
    /\ ~peerChoking[p]
    /\ peerChoking' = [peerChoking EXCEPT ![p] = TRUE]
    /\ pending' = pending \ {cur[p]}
    /\ cur' = [cur EXCEPT ![p] = None]
    /\ got' = [got EXCEPT ![p] = {}]
    /\ dropped' = [dropped EXCEPT ![p] = FALSE]
    /\ UNCHANGED <<have, avail, endgame, disk, done, pc, peerPieces,
                   amInterested, cancelTo, told>>

RecvUnchoke(p) ==
    /\ pc[p] = "listen"
    /\ "rude" \in Traits[p] \/ (peerChoking[p] /\ amInterested[p])
    /\ peerChoking' = [peerChoking EXCEPT ![p] = FALSE]
    /\ \/ /\ ~Complete /\ cur[p] = None
          /\ StartPiece(p, pending, endgame)
          /\ got' = [got EXCEPT ![p] = {}]
       \/ /\ Complete \/ cur[p] # None
          /\ UNCHANGED <<cur, pending, endgame, got>>
    /\ UNCHANGED <<have, avail, disk, done, pc, peerPieces, amInterested,
                   cancelTo, told, dropped>>

-----------------------------------------------------------------------------
(* Data: the blocks of the current piece *)

RecvBlock(p, b) ==
    /\ Awaiting(p, b)
    /\ got[p] \cup {b} # Blocks
    /\ got' = [got EXCEPT ![p] = @ \cup {b}]
    /\ UNCHANGED <<shared, pc, cur, peerPieces, peerChoking, amInterested,
                   cancelTo, told, dropped>>

\* The last block, and the piece matches its hash: write it.
RecvLastBlock(p, b) ==
    /\ Awaiting(p, b)
    /\ got[p] \cup {b} = Blocks
    /\ got' = [got EXCEPT ![p] = Blocks]
    /\ pc' = [pc EXCEPT ![p] = "write"]
    /\ UNCHANGED <<shared, cur, peerPieces, peerChoking, amInterested,
                   cancelTo, told, dropped>>

\* The last block, and the hash does not match.
RecvBadPiece(p, b) ==
    /\ Awaiting(p, b)
    /\ got[p] \cup {b} = Blocks
    /\ "corrupt" \in Traits[p]
    /\ NextPiece(p, pending \ {cur[p]}, endgame)
    /\ UNCHANGED <<have, avail, disk, peerPieces, peerChoking, cancelTo, told,
                   dropped>>

\* The storage writes the bytes in a worker thread ...
DiskWrite(p) ==
    /\ pc[p] = "write" /\ cur[p] \notin disk
    /\ disk' = disk \cup {cur[p]}
    /\ UNCHANGED <<have, pending, avail, endgame, done, local>>

\* ... and storage.write returns: mark_have, then emit and send Have.
MarkHave(p) ==
    /\ pc[p] = "write" /\ cur[p] \in disk
    /\ have' = have \cup {cur[p]}
    /\ pending' = pending \ {cur[p]}
    /\ pc' = [pc EXCEPT ![p] = "announce"]
    /\ UNCHANGED <<avail, endgame, disk, done, cur, got, peerPieces,
                   peerChoking, amInterested, cancelTo, told, dropped>>

\* Have is sent.  In the endgame the other peers asked for the piece get a
\* Cancel; with nobody to cancel, or outside the endgame, go on at once.
Announced(p) ==
    LET i       == cur[p]
        inEnd   == endgame.active /\ endgame.requests[i] # {}
        eg      == IF inEnd THEN PieceDone(endgame, i) ELSE endgame
        targets == IF inEnd THEN endgame.requests[i] \ {p} ELSE {}
    IN  /\ pc[p] = "announce"
        /\ told' = [told EXCEPT ![p] = @ \cup {i}]
        /\ \/ /\ targets # {}
              /\ cancelTo' = [cancelTo EXCEPT ![p] = targets]
              /\ pc' = [pc EXCEPT ![p] = "cancel"]
              /\ endgame' = eg
              /\ UNCHANGED <<pending, done, cur, got, amInterested>>
           \/ /\ targets = {}
              /\ NextPiece(p, pending, eg)
              /\ UNCHANGED cancelTo
        /\ UNCHANGED <<have, avail, disk, peerPieces, peerChoking, dropped>>

\* The Cancels are sent.  A remote peer that honours one drops the blocks it
\* has not sent yet; its coroutine here keeps its current piece.
CancelsSent(p) ==
    /\ pc[p] = "cancel"
    /\ \E D \in SUBSET {q \in cancelTo[p] : /\ cur[q] = cur[p]
                                            /\ pc[q] = "listen"
                                            /\ "cancels" \in Traits[q]} :
         dropped' = [q \in Peers |-> dropped[q] \/ q \in D]
    /\ cancelTo' = [cancelTo EXCEPT ![p] = {}]
    /\ NextPiece(p, pending, endgame)
    /\ UNCHANGED <<have, avail, disk, peerPieces, peerChoking, told>>

\* Anything that ends the coroutine, at whichever await.
Lost(p) == LostWith(p, {cur[p]}, Removed(peerPieces[p]))

-----------------------------------------------------------------------------
\* What the coroutine does by itself once a piece is assembled.
Resume(p) == DiskWrite(p) \/ MarkHave(p) \/ Announced(p) \/ CancelsSent(p)

\* A block the remote peer owes us arrives.
Answer(p) ==
    \E b \in Blocks : RecvBlock(p, b) \/ RecvLastBlock(p, b) \/ RecvBadPiece(p, b)

Message(p) ==
    \/ \E S \in SUBSET Pieces : RecvBitfield(p, S)
    \/ \E i \in Pieces : RecvHave(p, i)
    \/ RecvChoke(p)
    \/ RecvUnchoke(p)

Next ==
    \E p \in Peers : Connect(p) \/ Message(p) \/ Answer(p) \/ Resume(p) \/ Lost(p)

Spec == Init /\ [][Next]_vars

\* Every coroutine gets its turns, every request not dropped is answered, and
\* a seed connects, sends its bitfield and unchokes us once we are interested.
Fairness ==
    /\ \A p \in Peers : WF_vars(Resume(p)) /\ WF_vars(Answer(p))
    /\ \A p \in {q \in Peers : "seed" \in Traits[q]} :
          /\ WF_vars(Connect(p))
          /\ WF_vars(RecvBitfield(p, Pieces))
          /\ WF_vars(RecvUnchoke(p))

FairSpec == Spec /\ Fairness

-----------------------------------------------------------------------------
(* Safety *)

\* Two connections fetch the same missing piece only when the endgame shares
\* it: outside the endgame pending keeps a piece with one connection
\* (engine.py:358-391, piece.py:106-113).
DuplicateOnlyInEndgame ==
    \A p, q \in Peers :
       p # q /\ cur[p] = cur[q] /\ cur[p] \in Pieces \ have => cur[p] \in endgame.pieces

\* A piece being fetched that pending no longer protects, because another
\* connection gave it back (engine.py:224, 299, 333), is one the endgame
\* shares, so losing the mark cannot start an unplanned duplicate.
UnpendingIsShared ==
    \A p \in Peers :
       cur[p] \in Pieces \ (have \cup pending) => cur[p] \in endgame.pieces

\* While the endgame is active no missing piece is left out of it
\* (engine.py:376-389, 100-106): an endgame that forgot one could end the
\* duplicate requests with the download incomplete.
EndgameCovers ==
    endgame.active => Pieces \ have \subseteq endgame.pieces

\* Every connection fetching a missing piece is recorded for its Cancel
\* (engine.py:96-98, 372, 388), whatever disconnected, reconnected or failed.
RequestsRecorded ==
    \A q \in Peers : cur[q] \in Pieces \ have => q \in endgame.requests[cur[q]]

\* When one connection is sending the Cancels for a piece, every other
\* connection still fetching that piece is among those it cancels
\* (engine.py:281-297, 419-440).
CancelReachesEveryDuplicate ==
    \A p, q \in Peers :
       pc[p] = "cancel" /\ q # p /\ cur[q] = cur[p] => q \in cancelTo[p]

\* We announce only pieces we hold (engine.py:176, 278), and a connection
\* that says it is past mark_have really is.
AdvertisedIsHeld ==
    \A p \in Peers :
       /\ told[p] \subseteq have
       /\ pc[p] \in {"announce", "cancel"} => cur[p] \in have

\* A piece is never left with a peer that is choking us: nobody would answer,
\* and nothing times out (engine.py:220-227, 315).
ChokedIsIdle ==
    \A p \in Peers : pc[p] = "listen" /\ peerChoking[p] => cur[p] = None

\* The peers now known to have piece i.
Holders(i) == {p \in Peers : i \in peerPieces[p]}

\* Whatever peers repeat and however they leave, a piece some connected peer
\* has is never counted as unavailable or as rarer than it is
\* (piece.py:115-127, engine.py:191, 199, 334).
AvailabilityNeverUnder ==
    \A i \in Pieces : avail[i] >= Cardinality(Holders(i))

\* piece.py:68: "piece_index -> number of peers that have it".
AvailabilityExact ==
    \A i \in Pieces : avail[i] = Cardinality(Holders(i))

\* A connection that is unchoked and asks for nothing has nothing we miss
\* (engine.py:232-235, 315-319, 383-389): the endgame makes up for pieces
\* that _start_piece marked pending without fetching them.
IdleHasNothingToOffer ==
    \A p \in Peers :
       pc[p] = "listen" /\ ~peerChoking[p] /\ cur[p] = None => peerPieces[p] \subseteq have

\* The download as its users see it.
Promise == INSTANCE Download WITH PieceCount <- PieceCount,
                                  disk <- disk, have <- have, done <- done
Implements == Promise!Spec

-----------------------------------------------------------------------------
(* Liveness *)

\* With a seed that stays, every piece is eventually held, whatever the
\* flaky and corrupting peers do to the pieces they take.
TransferCompletes == <>Complete

\* The connection that brings the last piece releases the waiters, unless it
\* is cut off while it announces the piece (engine.py:270-305).
WaitersEventuallyReleased ==
    \A p \in Peers :
       (Complete /\ pc[p] \in {"announce", "cancel"}) ~> (done \/ pc[p] = "off")
=============================================================================
