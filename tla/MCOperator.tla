------------------------------ MODULE MCOperator ------------------------------
(* Instances of OperatorSessions, with the pools beneath it, for TLC. *)
EXTENDS OperatorSessions
=============================================================================
