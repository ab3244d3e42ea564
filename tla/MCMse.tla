-------------------------------- MODULE MCMse --------------------------------
(* The instance of Mse for TLC: every pair of policies, every initiator. *)
EXTENDS Mse
=============================================================================
