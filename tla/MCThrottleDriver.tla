--------------------------- MODULE MCThrottleDriver ---------------------------
(* Model-checking instance of ThrottleDriver. *)
EXTENDS ThrottleDriver, TLC

\* Clients are interchangeable, and so are workers; used only where no
\* liveness is checked.
Symmetry == Permutations(Clients) \cup Permutations(Workers)
=============================================================================
