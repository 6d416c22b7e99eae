--------------------------- MODULE MCClientSession ---------------------------
(* Model-checking instance of ClientSession. *)
EXTENDS ClientSession, TLC

\* Server workers are interchangeable; used only where no liveness is checked.
Symmetry == Permutations(Servers)
=============================================================================
