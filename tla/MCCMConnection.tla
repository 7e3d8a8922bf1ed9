--------------------------- MODULE MCCMConnection ---------------------------
(* Model checking of CMConnection on small instances. *)
EXTENDS CMConnection, TLC

\* The workers of the pool are interchangeable.
WorkerSymmetry == Permutations(Worker)
=============================================================================
