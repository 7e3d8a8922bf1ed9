------------------------- MODULE MCSplitReassembly -------------------------
(* Model checking of SplitReassembly on small instances. *)
EXTENDS SplitReassembly, TLC

\* Workers are interchangeable.
Symmetry == Permutations(Worker)
=============================================================================
