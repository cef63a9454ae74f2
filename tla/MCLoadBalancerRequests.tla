----------------------- MODULE MCLoadBalancerRequests -----------------------
(* An instance of LoadBalancer for TLC: requests, administration and the   *)
(* other replica at once, without the properties that need fairness.       *)
EXTENDS LoadBalancer, TLC

(* Requests are interchangeable, and so are the operator's. *)
Symmetry == Permutations(Caller) \cup Permutations(Admin)
=============================================================================
