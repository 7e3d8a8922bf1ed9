------------------------------ MODULE MCCMSend ------------------------------
(* Model checking of CMSend on small instances. *)
EXTENDS CMSend

\* Single, split and empty replies, and a list of all three.
MCReplyList == {<<1>>, <<2>>, <<0>>, <<1, 0, 2>>}
=============================================================================
