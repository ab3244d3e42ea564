----------------------------- MODULE MCChoking -----------------------------
(* Instances of Choking for TLC: the remote peers of each run. *)
EXTENDS Choking

CONSTANTS a, b, c \* connections

Symmetric == Permutations(Conns)

\* Every connection has an address of its own.
OwnAddress == [x \in Conns |-> x]

Busy  == [x \in Conns |-> {"leaves", "fickle", "sends", "asks"}]
Mixed == [x \in Conns |-> IF x = a THEN {"fickle"} ELSE IF x = b THEN {"leaves"} ELSE {}]
=============================================================================
