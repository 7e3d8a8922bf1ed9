----------------------------- MODULE MCChatroom -----------------------------
(* Model checking of Chatroom on small instances. *)
EXTENDS Chatroom, TLC

\* Workers differ only in their names, and so do users.
Symmetry == Permutations(Worker) \union Permutations(User)
=============================================================================
