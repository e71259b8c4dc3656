--------------------------- MODULE MCSecurityMonitor ---------------------------
(* SecurityMonitor for TLC. *)
EXTENDS SecurityMonitor
=============================================================================
