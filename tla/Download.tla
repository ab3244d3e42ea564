------------------------------ MODULE Download ------------------------------
(***************************************************************************)
(* What a download promises, whatever the peers do: a piece's bytes reach  *)
(* the storage before the piece is counted as held, a piece once held is   *)
(* never given up, and waiters are released only when every piece is held. *)
(* Engine.tla is shown to implement this specification.                    *)
(***************************************************************************)
EXTENDS Naturals

CONSTANT PieceCount

Pieces == 0 .. PieceCount - 1

VARIABLES disk,   \* pieces whose verified bytes are in the storage
          have,   \* pieces counted as downloaded and verified
          done    \* the event client.wait() blocks on has been set

vars == <<disk, have, done>>

Init == disk = {} /\ have = {} /\ done = FALSE

\* The bytes of piece i are in place.
Store(i) == i \notin disk /\ disk' = disk \cup {i} /\ UNCHANGED <<have, done>>

\* Piece i, already stored, is counted as held.
Claim(i) == i \in disk \ have /\ have' = have \cup {i} /\ UNCHANGED <<disk, done>>

\* Every piece is held: the waiters are released, once.
Finish == ~done /\ have = Pieces /\ done' = TRUE /\ UNCHANGED <<disk, have>>

Next == Finish \/ \E i \in Pieces : Store(i) \/ Claim(i)

Spec == Init /\ [][Next]_vars
=============================================================================
