-------------------------- MODULE MCCappedBinsQueue --------------------------
(* Model-checking instance of CappedBinsQueue. *)
EXTENDS CappedBinsQueue, TLC

\* Clients are interchangeable, and so are threads; used only where no
\* liveness is checked.
Symmetry == Permutations(Clients) \cup Permutations(Threads)
=============================================================================
