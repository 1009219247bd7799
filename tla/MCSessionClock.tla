---------------------------- MODULE MCSessionClock --------------------------
(* SessionClock for TLC.                                                   *)
EXTENDS SessionClock, TLC

Symmetry == Permutations(Workers)
=============================================================================
