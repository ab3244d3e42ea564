------------------------------ MODULE MCEngine ------------------------------
(* Instances of Engine for TLC: the remote peers of each run. *)
EXTENDS Engine, TLC

CONSTANTS a, b, c \* peers

Symmetric == Permutations(Peers)

\* Every peer may do everything.
AnyPeer == [p \in Peers |-> {"grows", "flaky", "corrupt", "rude", "cancels"}]

\* Peers that fail in every way the endgame has to survive.
Failing == [p \in Peers |-> {"flaky", "corrupt"}]

\* One seed that stays, one peer that holds anything and fails in every way.
SeedAndFlaky == [p \in Peers |-> IF p = a THEN {"seed"} ELSE {"flaky", "corrupt"}]
=============================================================================
