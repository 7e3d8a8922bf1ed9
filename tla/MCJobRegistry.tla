--------------------------- MODULE MCJobRegistry ---------------------------
(* Model checking of JobRegistry on small instances. *)
EXTENDS JobRegistry, TLC

\* Workers are interchangeable.
Symmetry == Permutations(Worker)
=============================================================================
