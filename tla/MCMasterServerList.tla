------------------------- MODULE MCMasterServerList -------------------------
(* Model checking of MasterServerList on small instances. *)
EXTENDS MasterServerList

CONSTANTS lan, wan      \* a game server behind the router, and its public address

MCPublicAs == [h \in Host |-> IF h = lan THEN wan ELSE h]
=============================================================================
