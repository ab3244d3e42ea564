------------------------------ MODULE MCDiscovery ------------------------------
(* The instance of Discovery for TLC: one node is followed, one announces. *)
EXTENDS Discovery

CONSTANTS n1, n2

\* The node that is followed has one of the two torrents.
Library1 == [n \in Nodes |-> IF n = n1 THEN {1} ELSE {1, 2}]
=============================================================================
