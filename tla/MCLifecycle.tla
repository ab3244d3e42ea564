------------------------------- MODULE MCLifecycle -------------------------------
(* The instances of Lifecycle for TLC. *)
EXTENDS Lifecycle

CONSTANTS app, dial, found, incoming
=============================================================================
