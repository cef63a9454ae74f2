--------------------------- MODULE CircuitBreaker ---------------------------
(***************************************************************************)
(* k8s/controllers/load_balancer.py: class CircuitBreaker, as functions    *)
(* from the breaker before a call to the breaker after it.                 *)
(***************************************************************************)
EXTENDS Integers

CONSTANTS
  FailureThreshold,   \* failure_threshold
  RecoveryTimeout,    \* recovery_timeout, in ticks
  HalfOpenMaxCalls    \* half_open_max_calls

ASSUME BreakerAssumption ==
  /\ FailureThreshold \in Nat \ {0}
  /\ RecoveryTimeout \in Nat \ {0}
  /\ HalfOpenMaxCalls \in Nat \ {0}

(***************************************************************************)
(* since is the time since last_failure_time, up to RecoveryTimeout.       *)
(* failures stops at FailureThreshold, which bounds it: failure_count is   *)
(* read while the breaker is closed only, and closing it resets the count. *)
(***************************************************************************)
Breaker == [state     : {"closed", "open", "half_open"},
            failures  : 0 .. FailureThreshold,
            successes : 0 .. HalfOpenMaxCalls,
            since     : 0 .. RecoveryTimeout]

NewBreaker == [state |-> "closed", failures |-> 0, successes |-> 0,
               since |-> RecoveryTimeout]

(* Seeded fault: a half-open period never ends well. *)
record_successUncounted(b) ==
  IF b.state # "half_open"
  THEN [b EXCEPT !.failures = IF @ > 0 THEN @ - 1 ELSE 0] ELSE b

record_success(b) ==
  IF b.state # "half_open"
  THEN [b EXCEPT !.failures = IF @ > 0 THEN @ - 1 ELSE 0]
  ELSE IF b.successes + 1 >= HalfOpenMaxCalls
       THEN [b EXCEPT !.state = "closed", !.failures = 0, !.successes = 0]
       ELSE [b EXCEPT !.successes = @ + 1]

(* Seeded fault: the breaker opens one failure late. *)
record_failureLate(b) ==
  [b EXCEPT !.state = IF @ # "half_open" /\ b.failures < FailureThreshold
                      THEN @ ELSE "open",
            !.failures = IF @ < FailureThreshold THEN @ + 1 ELSE @,
            !.since = 0]

record_failure(b) ==
  [b EXCEPT !.state = IF @ # "half_open" /\ b.failures + 1 < FailureThreshold
                      THEN @ ELSE "open",
            !.failures = IF @ < FailureThreshold THEN @ + 1 ELSE @,
            !.since = 0]

(* Seeded fault: the successes of an earlier half-open period are kept. *)
can_executeKeepsCount(b) ==
  IF b.state = "open" /\ b.since >= RecoveryTimeout
  THEN [b EXCEPT !.state = "half_open"] ELSE b

(* can_execute may move the breaker to half-open; it says yes unless the   *)
(* breaker is open afterwards.                                             *)
can_execute(b) ==
  IF b.state = "open" /\ b.since >= RecoveryTimeout
  THEN [b EXCEPT !.state = "half_open", !.successes = 0] ELSE b
=============================================================================
