------------------------ MODULE MCSessionPersistence ------------------------
(* Instances of SessionPersistence for TLC. *)
EXTENDS SessionPersistence
=============================================================================
