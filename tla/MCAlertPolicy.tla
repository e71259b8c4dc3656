---------------------------- MODULE MCAlertPolicy ----------------------------
(* Values for the constants of AlertPolicy that a cfg cannot write, and the   *)
(* symmetry of the event ids, which the specification only compares.          *)
EXTENDS AlertPolicy, TLC

CONSTANTS p1, p2

\* Two top processes of different programs.
TwoPrograms == (p1 :> "java") @@ (p2 :> "mysqld")
OneProgram == p1 :> "java"
NoProgram == <<>>

EventSymmetry == Permutations(EventId)
=============================================================================
