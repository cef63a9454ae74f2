--------------------------- MODULE MCPolicyRegistry ---------------------------
(* Instances of PolicyRegistry for TLC. *)
EXTENDS PolicyRegistry

(* What operators post to /registry/publish: a revision and its workflows. *)
Bodies == {[rev |-> CHOOSE v \in Rev : TRUE, workflows |-> Rule]}
=============================================================================
