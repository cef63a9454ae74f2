--------------------------- MODULE MCExecutorApi ---------------------------
(* An instance of ExecutorApi for TLC. *)
EXTENDS ExecutorApi
=============================================================================
