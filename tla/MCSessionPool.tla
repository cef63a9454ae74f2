---------------------------- MODULE MCSessionPool ----------------------------
(* An instance of SessionPool for TLC. *)
EXTENDS SessionPool
=============================================================================
