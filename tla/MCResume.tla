-------------------------------- MODULE MCResume --------------------------------
(* The instance of Resume for TLC: pieces of two cells over three files, of   *)
(* which one is empty; the last piece is shorter.                             *)
EXTENDS Resume, TLC

CONSTANTS t1, t2

MCLayouts == {<<1, 0, 2>>}

TaskSymmetry == Permutations(Tasks)
=============================================================================
