------------------------- MODULE MCAlertStateStorage -------------------------
(* AlertStateStorage for TLC.                                              *)
EXTENDS AlertStateStorage, TLC
EventSymmetry == Permutations(Event)
=============================================================================
