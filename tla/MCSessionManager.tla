-------------------------- MODULE MCSessionManager --------------------------
(* Instances of SessionManager for TLC. *)
EXTENDS SessionManager, TLC

(* Callers are interchangeable, and so are sandboxes. *)
Symmetry == Permutations(Caller) \cup Permutations(Sid)
=============================================================================
