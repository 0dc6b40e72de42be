--------------------------- MODULE MCDataSession ---------------------------
(* Model values and symmetry for the runs of DataSession.                  *)
EXTENDS DataSession, TLC

Symmetry == Permutations(Sess)
=============================================================================
