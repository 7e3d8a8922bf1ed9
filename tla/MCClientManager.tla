-------------------------- MODULE MCClientManager --------------------------
(* Model checking of ClientManager on small instances. *)
EXTENDS ClientManager

CONSTANTS u1, u2, t1    \* addresses: two of UDP clients, one of a TCP client
=============================================================================
