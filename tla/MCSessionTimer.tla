--------------------------- MODULE MCSessionTimer ---------------------------
(* Symmetry for the runs of SessionTimer that check no liveness.           *)
EXTENDS SessionTimer, TLC

Symmetry == Permutations(Request)
=============================================================================
