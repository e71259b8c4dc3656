---------------------------- MODULE MCCoordinator ----------------------------
(* Coordinator for TLC: it has no parameters but None. *)
EXTENDS Coordinator
=============================================================================
