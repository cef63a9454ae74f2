------------------------- MODULE LoadBalancerProofs -------------------------
(***************************************************************************)
(* Proofs about LoadBalancer, for any number of requests, sessions, pools  *)
(* and endpoints, any thresholds, and with failing Redis calls, restarts   *)
(* and other replicas.  The inductive invariant is                         *)
(*                                                                         *)
(*   LBTypeOK /\ LBWork /\ BreakerInv /\ CountInv /\ DurableRegistration   *)
(*                                                                         *)
(* proved one conjunct at a time, each from the ones before it.            *)
(***************************************************************************)
EXTENDS LoadBalancer, FiniteSetTheorems, TLAPS

(* What a waiting request of a client or the operator and a waiting check  *)
(* have at hand.                                                           *)
CallerWork(t) ==
  /\ pc[t] \notin {"register", "unregister"}
  /\ pc[t] # "idle" => arg[t] \in Session
  /\ pc[t] \in {"affinity", "metrics", "release"} => ep[t] \in Endpoint
  /\ pc[t] \in {"metrics", "release"} => note[t] \in Nat

AdminWork(t) ==
  /\ pc[t] \in {"idle", "register", "unregister"}
  /\ pc[t] = "register" => ep[t] \in Endpoint /\ note[t] \in Nat
  /\ pc[t] = "unregister" => arg[t] \in Name \ acked

LBWork ==
  /\ \A t \in Caller : CallerWork(t)
  /\ \A t \in Admin : AdminWork(t)
  /\ \A e \in Endpoint : check[e] = "save" => found[e] \in Nat

(* A closed breaker has counted the failures in a row and has not reached  *)
(* the threshold; a half-open one was entered after the recovery time, and *)
(* its successes were in a row.                                            *)
BreakerInv ==
  \A n \in Name :
    /\ breaker[n].state = "closed" => /\ lost[n] <= breaker[n].failures
                                      /\ breaker[n].failures < FailureThreshold
    /\ breaker[n].state = "half_open" => /\ breaker[n].since = RecoveryTimeout
                                         /\ breaker[n].successes <= won[n]
                                         /\ breaker[n].successes < HalfOpenMaxCalls

(* Every count, in memory, on its way to Redis and in it, is bounded. *)
CountInv ==
  /\ OvershootBounded
  /\ \A n \in Name : saved[n] # None => saved[n] <= MaxCount
  /\ \A t \in Task : note[t] # None => note[t] <= MaxCount
  /\ \A e \in Endpoint : found[e] # None => found[e] <= MaxCount

-----------------------------------------------------------------------------
(* The steps of the load balancer. *)
LEMMA LBStepCases ==
  ASSUME [LBNext]_lbvars
  PROVE  \/ \E t \in Caller, s \in Session :
              \/ AssignCached(t, s) \/ AssignUncached(t, s)
              \/ \E n \in Name : Release(t, s, n)
         \/ \E t \in Caller : \/ Lookup(t) \/ CountSession(t) \/ SaveMetrics(t)
                              \/ SaveRelease(t) \/ Forget(t)
         \/ \E t \in Admin, n \in Name : RegisterPool(t, n) \/ UnregisterPool(t, n)
         \/ \E t \in Admin : SavePool(t) \/ ErasePool(t)
         \/ \E s \in Session : AffinityExpires(s)
         \/ RunHealthChecks
         \/ \E e \in Endpoint : \/ CheckPasses(e) \/ CheckFails(e)
                                \/ CheckOrphan(e) \/ CheckSaves(e)
         \/ Tick \/ Restart \/ OtherReplica
         \/ UNCHANGED lbvars
  BY Zenon DEF LBNext, ClientCalls, OperatorCalls, Assign, Continue,
               AdminContinues, HealthCheck

-----------------------------------------------------------------------------
(* The breaker. *)

LEMMA BreakerTypes ==
  ASSUME NEW b \in Breaker
  PROVE  /\ record_success(b) \in Breaker
         /\ record_failure(b) \in Breaker
         /\ can_execute(b) \in Breaker
         /\ NewBreaker \in Breaker
         /\ b.since < RecoveryTimeout
              => [b EXCEPT !.since = @ + 1] \in Breaker
<1> USE BreakerAssumption DEF Breaker
<1>0. /\ 0 \in 0 .. FailureThreshold
      /\ 0 \in 0 .. HalfOpenMaxCalls
      /\ 0 \in 0 .. RecoveryTimeout
  OBVIOUS
<1>1. record_success(b) \in Breaker
  <2>1. CASE b.state # "half_open"
    <3>1. (IF b.failures > 0 THEN b.failures - 1 ELSE 0) \in 0 .. FailureThreshold
      OBVIOUS
    <3>2. QED
      BY <2>1, <3>1 DEF record_success
  <2>2. CASE b.state = "half_open" /\ b.successes + 1 >= HalfOpenMaxCalls
    BY <1>0, <2>2 DEF record_success
  <2>3. CASE b.state = "half_open" /\ ~(b.successes + 1 >= HalfOpenMaxCalls)
    <3>1. b.successes + 1 \in 0 .. HalfOpenMaxCalls
      BY <2>3
    <3>2. QED
      BY <2>3, <3>1 DEF record_success
  <2>4. QED
    BY <2>1, <2>2, <2>3
<1>2. record_failure(b) \in Breaker
  <2>1. (IF b.failures < FailureThreshold THEN b.failures + 1 ELSE b.failures)
          \in 0 .. FailureThreshold
    OBVIOUS
  <2>2. (IF b.state # "half_open" /\ b.failures + 1 < FailureThreshold
         THEN b.state ELSE "open") \in {"closed", "open", "half_open"}
    OBVIOUS
  <2>3. QED
    BY <1>0, <2>1, <2>2 DEF record_failure
<1>3. can_execute(b) \in Breaker
  BY <1>0 DEF can_execute
<1>4. NewBreaker \in Breaker
  BY DEF NewBreaker
<1>5. ASSUME b.since < RecoveryTimeout
      PROVE  [b EXCEPT !.since = @ + 1] \in Breaker
  <2>1. b.since + 1 \in 0 .. RecoveryTimeout
    BY <1>5
  <2>2. QED
    BY <2>1
<1>6. QED
  BY <1>1, <1>2, <1>3, <1>4, <1>5

(* BreakerInv for one breaker b, with l failures and w successes in a row. *)
Sound(b, l, w) ==
  /\ b.state = "closed" => l <= b.failures /\ b.failures < FailureThreshold
  /\ b.state = "half_open" => /\ b.since = RecoveryTimeout
                              /\ b.successes <= w
                              /\ b.successes < HalfOpenMaxCalls

(* The operations keep a breaker sound, next to the count of checks that   *)
(* failed or passed in a row.                                              *)
LEMMA BreakerSound ==
  ASSUME NEW b \in Breaker, NEW l \in 0 .. FailureThreshold,
         NEW w \in 0 .. HalfOpenMaxCalls, Sound(b, l, w)
  PROVE  /\ Sound(NewBreaker, 0, 0)
         /\ Sound(record_success(b), 0,
                  IF w < HalfOpenMaxCalls THEN w + 1 ELSE w)
         /\ Sound(record_failure(b),
                  IF l < FailureThreshold THEN l + 1 ELSE l, 0)
         /\ Sound(can_execute(b), l, w)
         /\ b.since < RecoveryTimeout
              => Sound([b EXCEPT !.since = @ + 1], l, w)
<1> USE BreakerAssumption DEF Breaker, Sound
<1>1. Sound(NewBreaker, 0, 0)
  BY DEF NewBreaker
<1>2. Sound(record_success(b), 0, IF w < HalfOpenMaxCalls THEN w + 1 ELSE w)
  BY DEF record_success
<1>3. Sound(record_failure(b), IF l < FailureThreshold THEN l + 1 ELSE l, 0)
  BY DEF record_failure
<1>4. Sound(can_execute(b), l, w)
  BY DEF can_execute
<1>5. b.since < RecoveryTimeout => Sound([b EXCEPT !.since = @ + 1], l, w)
  OBVIOUS
<1>6. QED
  BY <1>1, <1>2, <1>3, <1>4, <1>5

-----------------------------------------------------------------------------
(* Types, and what waiting requests have at hand.                          *)

(* Await puts a request where it is told to and keeps the types. *)
LEMMA AwaitEffect ==
  ASSUME LBTypeOK, NEW t \in Task, NEW l \in PcState,
         NEW a \in Session \cup Name \cup {None}, NEW e \in Endpoint \cup {None},
         NEW d \in Nat \cup {None}, Await(t, l, a, e, d)
  PROVE  /\ pc' \in [Task -> PcState] /\ pc' = [pc EXCEPT ![t] = l]
         /\ arg' \in [Task -> Session \cup Name \cup {None}]
         /\ arg' = [arg EXCEPT ![t] = a]
         /\ ep' \in [Task -> Endpoint \cup {None}] /\ ep' = [ep EXCEPT ![t] = e]
         /\ note' \in [Task -> Nat \cup {None}] /\ note' = [note EXCEPT ![t] = d]
         /\ pc'[t] = l /\ arg'[t] = a /\ ep'[t] = e /\ note'[t] = d
         /\ \A u \in Task \ {t} : /\ pc'[u] = pc[u] /\ arg'[u] = arg[u]
                                  /\ ep'[u] = ep[u] /\ note'[u] = note[u]
<1>1. /\ pc \in [Task -> PcState]
      /\ arg \in [Task -> Session \cup Name \cup {None}]
      /\ ep \in [Task -> Endpoint \cup {None}]
      /\ note \in [Task -> Nat \cup {None}]
  BY DEF LBTypeOK
<1>2. /\ pc' = [pc EXCEPT ![t] = l]
      /\ arg' = [arg EXCEPT ![t] = a]
      /\ ep' = [ep EXCEPT ![t] = e]
      /\ note' = [note EXCEPT ![t] = d]
  BY DEF Await
<1>3. QED
  BY <1>1, <1>2

(* The types of what a request waits for. *)
TaskTypes ==
  /\ pc \in [Task -> PcState]
  /\ arg \in [Task -> Session \cup Name \cup {None}]
  /\ ep \in [Task -> Endpoint \cup {None}]
  /\ note \in [Task -> Nat \cup {None}]

LEMMA ReturnEffect ==
  ASSUME LBTypeOK, NEW t \in Task, Return(t)
  PROVE  /\ TaskTypes'
         /\ pc'[t] = "idle" /\ note'[t] = None
         /\ \A u \in Task \ {t} : /\ pc'[u] = pc[u] /\ arg'[u] = arg[u]
                                  /\ ep'[u] = ep[u] /\ note'[u] = note[u]
<1>1. /\ pc \in [Task -> PcState] /\ "idle" \in PcState
      /\ arg \in [Task -> Session \cup Name \cup {None}]
      /\ ep \in [Task -> Endpoint \cup {None}]
      /\ note \in [Task -> Nat \cup {None}]
  BY DEF LBTypeOK, PcState
<1>2. /\ pc' = [pc EXCEPT ![t] = "idle"]
      /\ arg' = [arg EXCEPT ![t] = None]
      /\ ep' = [ep EXCEPT ![t] = None]
      /\ note' = [note EXCEPT ![t] = None]
  BY DEF Return, Await
<1>3. /\ pc' \in [Task -> PcState]
      /\ arg' \in [Task -> Session \cup Name \cup {None}]
      /\ ep' \in [Task -> Endpoint \cup {None}]
      /\ note' \in [Task -> Nat \cup {None}]
      /\ pc'[t] = "idle" /\ note'[t] = None
      /\ \A u \in Task \ {t} : /\ pc'[u] = pc[u] /\ arg'[u] = arg[u]
                               /\ ep'[u] = ep[u] /\ note'[u] = note[u]
  BY <1>1, <1>2
<1>4. QED
  BY <1>3 DEF TaskTypes

(* What a request does once it has an affinity or none: it returns, or     *)
(* waits with the current endpoint of an available pool.                   *)
LEMMA ProceedEffect ==
  ASSUME LBTypeOK, NEW t \in Caller, NEW s \in Session, NEW n \in Name \cup {None},
         NEW known \in [Session -> Name \cup {None}], Proceed(t, s, n, known)
  PROVE  /\ \/ Return(t) /\ local' = known
            \/ \E m \in Available : /\ Await(t, "affinity", s, Current(m), None)
                                  /\ Current(m) \in Endpoint
                                  /\ local' = [known EXCEPT ![s] = m]
         /\ local' \in [Session -> Name \cup {None}]
         /\ breaker' \in [Name -> Breaker]
         /\ \A m \in Name : breaker'[m] \in {breaker[m], can_execute(breaker[m])}
         /\ UNCHANGED <<current, count, status, affinities, saved, check, found,
                        lost, won, acked>>
<1> USE DEF LBTypeOK
<1>1. UNCHANGED <<current, count, status, affinities, saved, check, found,
                  lost, won, acked>>
  BY DEF Proceed, redis, health
<1>2. CASE Sticky(n) /\ local' = known /\ Return(t) /\ UNCHANGED breaker
  BY <1>1, <1>2
<1>3. CASE Select(t, s, known)
  <2>1. \A m \in Name : breaker'[m] \in {breaker[m], can_execute(breaker[m])}
    BY <1>3 DEF Select
  <2>2. breaker' \in [Name -> Breaker]
    <3>1. \A m \in Name : can_execute(breaker[m]) \in Breaker
      BY BreakerTypes
    <3>2. QED
      BY <1>3, <3>1 DEF Select
  <2>3. \A m \in Available : m \in Name /\ Current(m) \in Endpoint
    BY DEF Available, Registered, Current, Endpoint
  <2>4. CASE local' = known /\ Return(t)
    BY <1>1, <2>1, <2>2, <2>4
  <2>5. CASE \E m \in Available : /\ local' = [known EXCEPT ![s] = m]
                                 /\ Await(t, "affinity", s, Current(m), None)
    BY <1>1, <2>1, <2>2, <2>3, <2>5
  <2>6. QED
    BY <1>3, <2>4, <2>5 DEF Select
<1>4. QED
  BY <1>2, <1>3 DEF Proceed

LEMMA LBTypeInit == LBInit => LBTypeOK /\ LBWork
<1>1. NewBreaker \in Breaker
  BY BreakerAssumption DEF Breaker, NewBreaker
<1>2. 0 \in 0 .. FailureThreshold /\ 0 \in 0 .. HalfOpenMaxCalls
  BY BreakerAssumption
<1>3. QED
  BY <1>1, <1>2, LBAssumption
  DEF LBInit, LBTypeOK, LBWork, CallerWork, AdminWork, Status, PcState, CheckState, Task

LEMMA LBTypeStep == LBTypeOK /\ LBWork /\ [LBNext]_lbvars => LBTypeOK'
<1> SUFFICES ASSUME LBTypeOK, LBWork, [LBNext]_lbvars PROVE LBTypeOK'
  OBVIOUS
<1> USE LBAssumption DEF PcState, CheckState, Status, Task, redis, health
<1>1. ASSUME NEW t \in Caller, NEW s \in Session, NEW n \in Name \cup {None},
             NEW known \in [Session -> Name \cup {None}], Proceed(t, s, n, known)
      PROVE  LBTypeOK'
  <2>1. \/ \E m \in Available : /\ Await(t, "affinity", s, Current(m), None)
                              /\ Current(m) \in Endpoint
        \/ Await(t, "idle", None, None, None)
    BY <1>1, ProceedEffect DEF Return
  <2>2. /\ pc' \in [Task -> PcState]
        /\ arg' \in [Task -> Session \cup Name \cup {None}]
        /\ ep' \in [Task -> Endpoint \cup {None}]
        /\ note' \in [Task -> Nat \cup {None}]
    BY <2>1, AwaitEffect
  <2>3. QED
    BY <1>1, <2>2, ProceedEffect DEF LBTypeOK
<1>2. ASSUME NEW t \in Caller, NEW s \in Session,
             AssignCached(t, s) \/ AssignUncached(t, s)
      PROVE  LBTypeOK'
  <2>1. CASE AssignCached(t, s)
    BY <1>1, <2>1 DEF AssignCached, LBTypeOK
  <2>2. CASE AssignUncached(t, s)
    <3>1. Await(t, "lookup", s, None, None)
      BY <2>2 DEF AssignUncached
    <3>2. TaskTypes'
      BY <3>1, AwaitEffect DEF TaskTypes
    <3>3. QED
      BY <2>2, <3>2 DEF AssignUncached, LBTypeOK, TaskTypes
  <2>3. QED
    BY <1>2, <2>1, <2>2
<1>3. ASSUME NEW t \in Caller, Lookup(t) PROVE LBTypeOK'
  <2>1. arg[t] \in Session
    BY <1>3 DEF Lookup, LBWork, CallerWork
  <2>2. PICK n \in {affinities[arg[t]]}
                     \cup (IF RedisMayFail THEN {None} ELSE {}) :
          Proceed(t, arg[t], n,
                  IF n = None THEN local ELSE [local EXCEPT ![arg[t]] = n])
    BY <1>3 DEF Lookup
  <2>3. n \in Name \cup {None}
    BY <2>1, <2>2 DEF LBTypeOK
  <2>4. (IF n = None THEN local ELSE [local EXCEPT ![arg[t]] = n])
          \in [Session -> Name \cup {None}]
    BY <2>3 DEF LBTypeOK
  <2>5. QED
    BY <1>1, <2>1, <2>2, <2>3, <2>4
<1>4. ASSUME NEW t \in Caller, CountSession(t) PROVE LBTypeOK'
  <2>1. ep[t] \in Endpoint /\ arg[t] \in Session /\ ep[t][1] \in Name
    BY <1>4 DEF CountSession, LBWork, CallerWork, AdminWork, Endpoint
  <2>2. count[ep[t]] + 1 \in Nat
    BY <2>1 DEF LBTypeOK
  <2>3. /\ count' \in [Endpoint -> Nat]
        /\ affinities' \in [Session -> Name \cup {None}]
    BY <1>4, <2>1, <2>2 DEF CountSession, LBTypeOK
  <2>4. Await(t, "metrics", arg[t], ep[t], count[ep[t]] + 1)
    BY <1>4 DEF CountSession
  <2>5. TaskTypes'
    BY <2>1, <2>2, <2>4, AwaitEffect DEF TaskTypes
  <2>6. QED
    BY <1>4, <2>3, <2>5 DEF CountSession, LBTypeOK, TaskTypes
<1>5. ASSUME NEW t \in Caller, SaveMetrics(t) \/ SaveRelease(t) \/ Forget(t)
      PROVE  LBTypeOK'
  <2>1. note[t] \in Nat \cup {None} /\ arg[t] \in Session \cup Name \cup {None}
    BY DEF LBTypeOK
  <2>2. CASE SaveMetrics(t)
    <3>1. TaskTypes'
      BY <2>2, ReturnEffect DEF SaveMetrics
    <3>2. saved' \in [Name -> Nat \cup {None}]
      BY <2>1, <2>2 DEF SaveMetrics, Write, LBTypeOK
    <3>3. QED
      BY <2>2, <3>1, <3>2 DEF SaveMetrics, LBTypeOK, TaskTypes
  <2>3. CASE SaveRelease(t)
    <3>1. Await(t, "forget", arg[t], None, None)
      BY <2>3 DEF SaveRelease
    <3>2. TaskTypes'
      BY <2>1, <3>1, AwaitEffect DEF TaskTypes
    <3>3. /\ saved' \in [Name -> Nat \cup {None}]
          /\ local' \in [Session -> Name \cup {None}]
      BY <2>1, <2>3 DEF SaveRelease, Write, LBTypeOK
    <3>4. QED
      BY <2>3, <3>2, <3>3 DEF SaveRelease, LBTypeOK, TaskTypes
  <2>4. CASE Forget(t)
    <3>1. TaskTypes'
      BY <2>4, ReturnEffect DEF Forget
    <3>2. affinities' \in [Session -> Name \cup {None}]
      BY <2>4 DEF Forget, LBTypeOK
    <3>3. QED
      BY <2>4, <3>1, <3>2 DEF Forget, LBTypeOK, TaskTypes
  <2>5. QED
    BY <1>5, <2>2, <2>3, <2>4
<1>6. ASSUME NEW t \in Caller, NEW s \in Session, NEW n \in Name, Release(t, s, n)
      PROVE  LBTypeOK'
  <2>1. CASE n \in Registered
    <3>1. Current(n) \in Endpoint
      BY <2>1 DEF Registered, Current, Endpoint, LBTypeOK
    <3>2. PICK c \in Nat : /\ count' = [count EXCEPT ![Current(n)] = c]
                           /\ Await(t, "release", s, Current(n), c)
                           /\ UNCHANGED local
      BY <1>6, <2>1, <3>1 DEF Release, LBTypeOK
    <3>3. TaskTypes'
      BY <3>1, <3>2, AwaitEffect DEF TaskTypes
    <3>4. QED
      BY <1>6, <3>1, <3>2, <3>3 DEF Release, LBTypeOK, TaskTypes
  <2>2. CASE n \notin Registered
    <3>1. /\ local' = [local EXCEPT ![s] = None]
          /\ Await(t, "forget", s, None, None)
          /\ UNCHANGED count
      BY <1>6, <2>2 DEF Release
    <3>2. TaskTypes'
      BY <3>1, AwaitEffect DEF TaskTypes
    <3>3. QED
      BY <1>6, <3>1, <3>2 DEF Release, LBTypeOK, TaskTypes
  <2>3. QED
    BY <2>1, <2>2
<1>7. ASSUME NEW t \in Admin, NEW n \in Name,
             RegisterPool(t, n) \/ UnregisterPool(t, n)
      PROVE  LBTypeOK'
  <2>1. NewBreaker \in Breaker
    BY BreakerAssumption DEF Breaker, NewBreaker
  <2>2. 0 \in 0 .. FailureThreshold /\ 0 \in 0 .. HalfOpenMaxCalls
    BY BreakerAssumption
  <2>3. CASE RegisterPool(t, n)
    <3>1. PICK g \in Unused(n) :
            /\ current' = [current EXCEPT ![n] = g]
            /\ count' = [count EXCEPT ![<<n, g>>] = 0]
            /\ status' = [status EXCEPT ![n] = "healthy"]
            /\ Await(t, "register", None, <<n, g>>, 0)
      BY <2>3 DEF RegisterPool
    <3>2. g \in Copy /\ <<n, g>> \in Endpoint
      BY DEF Unused, Endpoint
    <3>3. TaskTypes'
      BY <3>1, <3>2, AwaitEffect DEF TaskTypes
    <3>4. QED
      BY <2>1, <2>2, <2>3, <3>1, <3>2, <3>3
      DEF RegisterPool, LBTypeOK, TaskTypes
  <2>4. CASE UnregisterPool(t, n)
    <3>1. Await(t, "unregister", n, None, None)
      BY <2>4 DEF UnregisterPool
    <3>2. TaskTypes'
      BY <3>1, AwaitEffect DEF TaskTypes
    <3>3. QED
      BY <2>1, <2>2, <2>4, <3>2 DEF UnregisterPool, LBTypeOK, TaskTypes
  <2>5. QED
    BY <1>7, <2>3, <2>4
<1>8. ASSUME NEW t \in Admin, SavePool(t) \/ ErasePool(t) PROVE LBTypeOK'
  <2>1. CASE SavePool(t)
    <3>1. ep[t] \in Endpoint /\ note[t] \in Nat /\ ep[t][1] \in Name
      BY <2>1 DEF SavePool, LBWork, CallerWork, AdminWork, Endpoint
    <3>2. TaskTypes'
      BY <2>1, ReturnEffect DEF SavePool
    <3>3. QED
      BY <2>1, <3>1, <3>2 DEF SavePool, Confirm, LBTypeOK, TaskTypes
  <2>2. CASE ErasePool(t)
    <3>1. TaskTypes'
      BY <2>2, ReturnEffect DEF ErasePool
    <3>2. saved' \in [Name -> Nat \cup {None}]
      BY <2>2 DEF ErasePool, Write, LBTypeOK
    <3>3. QED
      BY <2>2, <3>1, <3>2 DEF ErasePool, LBTypeOK, TaskTypes
  <2>3. QED
    BY <1>8, <2>1, <2>2
<1>9. ASSUME NEW s \in Session, AffinityExpires(s) PROVE LBTypeOK'
  BY <1>9 DEF AffinityExpires, LBTypeOK
<1>10. CASE RunHealthChecks
  BY <1>10 DEF RunHealthChecks, LBTypeOK
<1>11. ASSUME NEW e \in Endpoint,
              CheckPasses(e) \/ CheckFails(e) \/ CheckOrphan(e) \/ CheckSaves(e)
       PROVE  LBTypeOK'
  <2>1. e[1] \in Name /\ count[e] \in Nat /\ found[e] \in Nat \cup {None}
    BY DEF Endpoint, LBTypeOK
  <2>2. /\ record_success(breaker[e[1]]) \in Breaker
        /\ record_failure(breaker[e[1]]) \in Breaker
    BY <2>1, BreakerTypes DEF LBTypeOK
  <2>3. /\ 0 \in 0 .. FailureThreshold
        /\ 0 \in 0 .. HalfOpenMaxCalls
        /\ \A x \in 0 .. FailureThreshold :
             (IF x < FailureThreshold THEN x + 1 ELSE x) \in 0 .. FailureThreshold
        /\ \A x \in 0 .. HalfOpenMaxCalls :
             (IF x < HalfOpenMaxCalls THEN x + 1 ELSE x) \in 0 .. HalfOpenMaxCalls
    BY BreakerAssumption
  <2>4. CASE CheckPasses(e)
    BY <2>1, <2>2, <2>3, <2>4 DEF CheckPasses, CheckMoves, SetStatus, LBTypeOK
  <2>5. CASE CheckFails(e)
    BY <2>1, <2>2, <2>3, <2>5 DEF CheckFails, CheckMoves, SetStatus, LBTypeOK
  <2>6. CASE CheckOrphan(e)
    BY <2>6 DEF CheckOrphan, CheckMoves, LBTypeOK
  <2>7. CASE CheckSaves(e)
    BY <2>1, <2>7 DEF CheckSaves, CheckMoves, Write, LBTypeOK
  <2>8. QED
    BY <1>11, <2>4, <2>5, <2>6, <2>7
<1>12. CASE Tick
  <2>1. \A n \in Name : breaker[n].since < RecoveryTimeout
                          => [breaker[n] EXCEPT !.since = @ + 1] \in Breaker
    BY BreakerTypes DEF LBTypeOK
  <2>2. breaker' \in [Name -> Breaker]
    BY <1>12, <2>1 DEF Tick, LBTypeOK
  <2>3. QED
    BY <1>12, <2>2 DEF Tick, LBTypeOK
<1>13. CASE Restart
  <2>1. NewBreaker \in Breaker
    BY BreakerAssumption DEF Breaker, NewBreaker
  <2>2. 0 \in 0 .. FailureThreshold /\ 0 \in 0 .. HalfOpenMaxCalls
    BY BreakerAssumption
  <2>3. PICK known \in SUBSET Name, g \in Copy :
          (\A n \in known : saved[n] # None) /\ StartWith(known, g)
    <3>1. CASE \E g \in Copy : StartWith({n \in Name : saved[n] # None}, g)
      BY <3>1
    <3>2. CASE \E g \in Copy : StartWith({}, g)
      BY <3>2
    <3>3. QED
      BY <1>13, <3>1, <3>2 DEF Restart
  <2>4. count' \in [Endpoint -> Nat]
    BY <2>3 DEF StartWith, LBTypeOK, Endpoint
  <2>5. status' \in [Name -> Status] /\ current' \in [Name -> Copy \cup {None}]
    BY <2>3 DEF StartWith
  <2>6. QED
    BY <2>1, <2>2, <2>3, <2>4, <2>5 DEF StartWith, LBTypeOK
<1>14. CASE OtherReplica
  <2>1. 0 .. MaxCount \subseteq Nat
    OBVIOUS
  <2>2. QED
    BY <1>14, <2>1 DEF OtherReplica, LBTypeOK
<1>15. CASE UNCHANGED lbvars
  BY <1>15 DEF lbvars, LBTypeOK
<1>16. QED
  BY <1>2, <1>3, <1>4, <1>5, <1>6, <1>7, <1>8, <1>9, <1>10, <1>11, <1>12,
     <1>13, <1>14, <1>15, LBStepCases

-----------------------------------------------------------------------------
(* A request of a client that moves keeps what the others have at hand. *)
LEMMA CallerMoves ==
  ASSUME LBTypeOK, LBWork, NEW t \in Caller,
         TaskTypes', CallerWork(t)',
         \A u \in Task \ {t} : /\ pc'[u] = pc[u] /\ arg'[u] = arg[u]
                               /\ ep'[u] = ep[u] /\ note'[u] = note[u],
         UNCHANGED <<check, found, acked>>
  PROVE  LBWork'
<1>1. ASSUME NEW u \in Caller PROVE CallerWork(u)'
  <2>1. CASE u = t
    BY <2>1
  <2>2. CASE u # t
    BY <2>2 DEF LBWork, CallerWork, Task
  <2>3. QED
    BY <2>1, <2>2
<1>2. \A u \in Admin : u \in Task \ {t}
  BY LBAssumption DEF Task
<1>3. \A u \in Admin : AdminWork(u)'
  BY <1>2 DEF LBWork, AdminWork
<1>4. QED
  BY <1>1, <1>3 DEF LBWork

(* A move of a request of the operator likewise, unless it confirms a pool *)
(* that another one is about to erase.                                     *)
LEMMA AdminMoves ==
  ASSUME LBTypeOK, LBWork, NEW t \in Admin, AdminWork(t)',
         \A u \in Task \ {t} : /\ pc'[u] = pc[u] /\ arg'[u] = arg[u]
                               /\ ep'[u] = ep[u] /\ note'[u] = note[u],
         \A u \in Admin : pc[u] = "unregister" => arg[u] \notin acked',
         UNCHANGED <<check, found>>
  PROVE  LBWork'
<1>1. ASSUME NEW u \in Admin PROVE AdminWork(u)'
  <2>1. CASE u = t
    BY <2>1
  <2>2. CASE u # t
    BY <2>2 DEF LBWork, AdminWork, Task
  <2>3. QED
    BY <2>1, <2>2
<1>2. \A u \in Caller : u \in Task \ {t}
  BY LBAssumption DEF Task
<1>3. \A u \in Caller : CallerWork(u)'
  BY <1>2 DEF LBWork, CallerWork
<1>4. QED
  BY <1>1, <1>3 DEF LBWork

LEMMA LBWorkStep == LBTypeOK /\ LBWork /\ [LBNext]_lbvars => LBWork'
<1> SUFFICES ASSUME LBTypeOK, LBWork, [LBNext]_lbvars PROVE LBWork'
  OBVIOUS
<1> USE LBAssumption DEF Task
<1>0. \A l \in {"idle", "lookup", "affinity", "metrics", "release", "forget",
                "register", "unregister"} : l \in PcState
  BY DEF PcState
<1>1. ASSUME NEW t \in Caller, Return(t), UNCHANGED <<check, found, acked>>
      PROVE  LBWork'
  <2>1. TaskTypes' /\ pc'[t] = "idle"
    BY <1>1, ReturnEffect
  <2>2. CallerWork(t)'
    BY <2>1 DEF CallerWork
  <2>3. \A u \in Task \ {t} : /\ pc'[u] = pc[u] /\ arg'[u] = arg[u]
                              /\ ep'[u] = ep[u] /\ note'[u] = note[u]
    BY <1>1, ReturnEffect
  <2>4. QED
    BY <1>1, <2>1, <2>2, <2>3, CallerMoves
<1>2. ASSUME NEW t \in Caller, NEW s \in Session,
             NEW l \in {"lookup", "affinity", "metrics", "release", "forget"},
             NEW e \in Endpoint \cup {None}, NEW d \in Nat \cup {None},
             Await(t, l, s, e, d),
             l \in {"affinity", "metrics", "release"} => e \in Endpoint,
             l \in {"metrics", "release"} => d \in Nat,
             UNCHANGED <<check, found, acked>>
      PROVE  LBWork'
  <2>1. /\ TaskTypes'
        /\ pc'[t] = l /\ arg'[t] = s /\ ep'[t] = e /\ note'[t] = d
        /\ \A u \in Task \ {t} : /\ pc'[u] = pc[u] /\ arg'[u] = arg[u]
                                 /\ ep'[u] = ep[u] /\ note'[u] = note[u]
    <3>1. t \in Task /\ l \in PcState /\ s \in Session \cup Name \cup {None}
      BY <1>0
    <3> HIDE DEF Task
    <3>2. QED
      BY <1>2, <3>1, AwaitEffect DEF TaskTypes
  <2>2. CallerWork(t)'
    BY <1>2, <2>1 DEF CallerWork
  <2>3. QED
    BY <1>2, <2>1, <2>2, CallerMoves
<1>3. ASSUME NEW t \in Caller, NEW s \in Session, NEW n \in Name \cup {None},
             NEW known \in [Session -> Name \cup {None}], Proceed(t, s, n, known)
      PROVE  LBWork'
  <2>1. UNCHANGED <<check, found, acked>>
    BY <1>3, ProceedEffect
  <2>2. CASE Return(t)
    BY <1>1, <2>1, <2>2
  <2>3. CASE \E m \in Available : /\ Await(t, "affinity", s, Current(m), None)
                                 /\ Current(m) \in Endpoint
    BY <1>2, <2>1, <2>3
  <2>4. QED
    BY <1>3, <2>2, <2>3, ProceedEffect
<1>4. ASSUME NEW t \in Caller, NEW s \in Session,
             AssignCached(t, s) \/ AssignUncached(t, s)
      PROVE  LBWork'
  <2>1. CASE AssignCached(t, s)
    BY <1>3, <2>1 DEF AssignCached, LBTypeOK
  <2>2. CASE AssignUncached(t, s)
    <3>1. Await(t, "lookup", s, None, None) /\ UNCHANGED <<check, found, acked>>
      BY <2>2 DEF AssignUncached, health
    <3>2. QED
      BY <1>2, <3>1
  <2>3. QED
    BY <1>4, <2>1, <2>2
<1>5. ASSUME NEW t \in Caller, Lookup(t) PROVE LBWork'
  <2>1. arg[t] \in Session
    BY <1>5 DEF Lookup, LBWork, CallerWork
  <2>2. PICK n \in {affinities[arg[t]]}
                     \cup (IF RedisMayFail THEN {None} ELSE {}) :
          Proceed(t, arg[t], n,
                  IF n = None THEN local ELSE [local EXCEPT ![arg[t]] = n])
    BY <1>5 DEF Lookup
  <2>3. n \in Name \cup {None}
    BY <2>1, <2>2 DEF LBTypeOK
  <2>4. (IF n = None THEN local ELSE [local EXCEPT ![arg[t]] = n])
          \in [Session -> Name \cup {None}]
    BY <2>3 DEF LBTypeOK
  <2>5. QED
    BY <1>3, <2>1, <2>2, <2>3, <2>4
<1>6. ASSUME NEW t \in Caller, CountSession(t) PROVE LBWork'
  <2>1. ep[t] \in Endpoint /\ arg[t] \in Session
    BY <1>6 DEF CountSession, LBWork, CallerWork
  <2>2. count[ep[t]] + 1 \in Nat
    BY <2>1 DEF LBTypeOK
  <2>3. /\ Await(t, "metrics", arg[t], ep[t], count[ep[t]] + 1)
        /\ UNCHANGED <<check, found, acked>>
    BY <1>6 DEF CountSession, health
  <2>4. QED
    BY <1>2, <2>1, <2>2, <2>3
<1>7. ASSUME NEW t \in Caller, SaveMetrics(t) \/ Forget(t) PROVE LBWork'
  BY <1>1, <1>7 DEF SaveMetrics, Forget, health
<1>8. ASSUME NEW t \in Caller, SaveRelease(t) PROVE LBWork'
  <2>1. arg[t] \in Session
    BY <1>8 DEF SaveRelease, LBWork, CallerWork
  <2>2. /\ Await(t, "forget", arg[t], None, None)
        /\ UNCHANGED <<check, found, acked>>
    BY <1>8 DEF SaveRelease, health
  <2>3. QED
    BY <1>2, <2>1, <2>2
<1>9. ASSUME NEW t \in Caller, NEW s \in Session, NEW n \in Name, Release(t, s, n)
      PROVE  LBWork'
  <2>1. UNCHANGED <<check, found, acked>>
    BY <1>9 DEF Release, health
  <2>2. CASE n \in Registered
    <3>1. Current(n) \in Endpoint
      BY <2>2 DEF Registered, Current, Endpoint, LBTypeOK
    <3>2. PICK c \in Nat : Await(t, "release", s, Current(n), c)
      BY <1>9, <2>2, <3>1 DEF Release, LBTypeOK
    <3>3. QED
      BY <1>2, <2>1, <3>1, <3>2
  <2>3. CASE n \notin Registered
    <3>1. Await(t, "forget", s, None, None)
      BY <1>9, <2>3 DEF Release
    <3>2. QED
      BY <1>2, <2>1, <3>1
  <2>4. QED
    BY <2>2, <2>3
<1>10. ASSUME NEW t \in Admin, NEW n \in Name, RegisterPool(t, n) PROVE LBWork'
  <2>1. PICK g \in Copy : Await(t, "register", None, <<n, g>>, 0)
    BY <1>10 DEF RegisterPool, Unused
  <2>2. <<n, g>> \in Endpoint
    BY DEF Endpoint
  <2>3. /\ pc'[t] = "register" /\ ep'[t] = <<n, g>> /\ note'[t] = 0
        /\ \A u \in Task \ {t} : /\ pc'[u] = pc[u] /\ arg'[u] = arg[u]
                                 /\ ep'[u] = ep[u] /\ note'[u] = note[u]
    BY <1>0, <2>1, <2>2, AwaitEffect
  <2>4. AdminWork(t)' /\ UNCHANGED <<check, found, acked>>
    BY <1>10, <2>2, <2>3 DEF AdminWork, RegisterPool
  <2>5. QED
    BY <2>3, <2>4, AdminMoves DEF LBWork, AdminWork
<1>11. ASSUME NEW t \in Admin, NEW n \in Name, UnregisterPool(t, n) PROVE LBWork'
  <2>1. Await(t, "unregister", n, None, None)
    BY <1>11 DEF UnregisterPool
  <2>2. /\ pc'[t] = "unregister" /\ arg'[t] = n
        /\ \A u \in Task \ {t} : /\ pc'[u] = pc[u] /\ arg'[u] = arg[u]
                                 /\ ep'[u] = ep[u] /\ note'[u] = note[u]
    BY <2>1 DEF Await, LBTypeOK
  <2>3. acked' = acked \ {n} /\ UNCHANGED <<check, found>>
    BY <1>11 DEF UnregisterPool
  <2>4. AdminWork(t)'
    BY <2>2, <2>3 DEF AdminWork
  <2>5. QED
    BY <2>2, <2>3, <2>4, AdminMoves DEF LBWork, AdminWork
<1>12. ASSUME NEW t \in Admin, SavePool(t) \/ ErasePool(t) PROVE LBWork'
  <2>1. Return(t) /\ UNCHANGED <<check, found>>
    BY <1>12 DEF SavePool, ErasePool, health
  <2>2. /\ pc'[t] = "idle"
        /\ \A u \in Task \ {t} : /\ pc'[u] = pc[u] /\ arg'[u] = arg[u]
                                 /\ ep'[u] = ep[u] /\ note'[u] = note[u]
    BY <2>1, ReturnEffect
  <2>3. AdminWork(t)'
    BY <2>2 DEF AdminWork
  <2>4. \/ UNCHANGED acked
        \/ ~Unregistering(ep[t][1]) /\ acked' = acked \cup {ep[t][1]}
    BY <1>12 DEF SavePool, ErasePool, Confirm
  <2>5. \A u \in Admin : pc[u] = "unregister" => arg[u] \notin acked'
    BY <2>4 DEF LBWork, AdminWork, Unregistering
  <2>6. QED
    BY <2>1, <2>2, <2>3, <2>5, AdminMoves
<1>13. ASSUME UNCHANGED <<pc, arg, ep, note, acked>>,
              \A e \in Endpoint : check'[e] = "save" => found'[e] \in Nat
       PROVE  LBWork'
  BY <1>13 DEF LBWork, CallerWork, AdminWork
<1>14. ASSUME NEW s \in Session, AffinityExpires(s) PROVE LBWork'
  BY <1>13, <1>14 DEF AffinityExpires, health, LBWork
<1>15. CASE RunHealthChecks
  BY <1>13, <1>15 DEF RunHealthChecks
<1>16. ASSUME NEW e \in Endpoint,
              CheckPasses(e) \/ CheckFails(e) \/ CheckOrphan(e) \/ CheckSaves(e)
       PROVE  LBWork'
  <2>1. UNCHANGED <<pc, arg, ep, note, acked>>
    BY <1>16 DEF CheckPasses, CheckFails, CheckOrphan, CheckSaves
  <2>2. CheckMoves(e, "save", count[e]) \/ CheckMoves(e, "none", None)
    BY <1>16 DEF CheckPasses, CheckFails, CheckOrphan, CheckSaves
  <2>3. \A f \in Endpoint : check'[f] = "save" => found'[f] \in Nat
    BY <2>2 DEF CheckMoves, LBTypeOK, LBWork
  <2>4. QED
    BY <1>13, <2>1, <2>3
<1>17. CASE Tick
  BY <1>13, <1>17 DEF Tick, health, LBWork
<1>18. CASE Restart
  BY <1>18 DEF Restart, StartWith, LBWork, CallerWork, AdminWork
<1>19. CASE OtherReplica
  <2>1. /\ UNCHANGED <<pc, arg, ep, note, check, found>>
        /\ acked' \subseteq acked
    BY <1>19 DEF OtherReplica, health
  <2>2. QED
    BY <2>1 DEF LBWork, CallerWork, AdminWork
<1>20. CASE UNCHANGED lbvars
  BY <1>13, <1>20 DEF lbvars, LBWork
<1>21. QED
  BY <1>4, <1>5, <1>6, <1>7, <1>8, <1>9, <1>10, <1>11, <1>12, <1>14, <1>15,
     <1>16, <1>17, <1>18, <1>19, <1>20, LBStepCases

-----------------------------------------------------------------------------
(* The breakers in every reachable state.                                  *)

(* What a step may do to the breaker of pool n and to the count of checks  *)
(* that failed or passed.                                                  *)
LEMMA BreakerCases ==
  ASSUME LBTypeOK, LBWork, [LBNext]_lbvars, NEW n \in Name
  PROVE  \/ breaker'[n] = NewBreaker /\ lost'[n] = 0 /\ won'[n] = 0
         \/ /\ breaker'[n] = record_success(breaker[n]) /\ lost'[n] = 0
            /\ won'[n] = IF won[n] < HalfOpenMaxCalls THEN won[n] + 1 ELSE won[n]
         \/ /\ breaker'[n] = record_failure(breaker[n]) /\ won'[n] = 0
            /\ lost'[n] = IF lost[n] < FailureThreshold THEN lost[n] + 1 ELSE lost[n]
         \/ /\ breaker[n].since < RecoveryTimeout
            /\ breaker'[n] = [breaker[n] EXCEPT !.since = @ + 1]
            /\ lost'[n] = lost[n] /\ won'[n] = won[n]
         \/ /\ breaker'[n] \in {breaker[n], can_execute(breaker[n])}
            /\ lost'[n] = lost[n] /\ won'[n] = won[n]
<1> DEFINE Same == /\ breaker'[n] \in {breaker[n], can_execute(breaker[n])}
                   /\ lost'[n] = lost[n] /\ won'[n] = won[n]
           New  == breaker'[n] = NewBreaker /\ lost'[n] = 0 /\ won'[n] = 0
<1>0. /\ breaker \in [Name -> Breaker]
      /\ lost \in [Name -> 0 .. FailureThreshold]
      /\ won \in [Name -> 0 .. HalfOpenMaxCalls]
  BY DEF LBTypeOK
<1>1. ASSUME NEW t \in Caller, NEW s \in Session, NEW m \in Name \cup {None},
             NEW known \in [Session -> Name \cup {None}], Proceed(t, s, m, known)
      PROVE  Same
  BY <1>1, ProceedEffect
<1>2. ASSUME UNCHANGED <<breaker, lost, won>> PROVE Same
  BY <1>2
<1>3. ASSUME NEW t \in Caller, NEW s \in Session,
             AssignCached(t, s) \/ AssignUncached(t, s)
      PROVE  Same
  <2>1. CASE AssignCached(t, s)
    BY <1>1, <2>1 DEF AssignCached, LBTypeOK
  <2>2. CASE AssignUncached(t, s)
    BY <1>2, <2>2 DEF AssignUncached, health
  <2>3. QED
    BY <1>3, <2>1, <2>2
<1>4. ASSUME NEW t \in Caller, Lookup(t) PROVE Same
  <2>1. arg[t] \in Session
    BY <1>4 DEF Lookup, LBWork, CallerWork
  <2>2. PICK m \in {affinities[arg[t]]}
                     \cup (IF RedisMayFail THEN {None} ELSE {}) :
          Proceed(t, arg[t], m,
                  IF m = None THEN local ELSE [local EXCEPT ![arg[t]] = m])
    BY <1>4 DEF Lookup
  <2>3. m \in Name \cup {None}
    BY <2>1, <2>2 DEF LBTypeOK
  <2>4. (IF m = None THEN local ELSE [local EXCEPT ![arg[t]] = m])
          \in [Session -> Name \cup {None}]
    BY <2>3 DEF LBTypeOK
  <2>5. QED
    BY <1>1, <2>1, <2>2, <2>3, <2>4
<1>5. ASSUME NEW t \in Caller, \/ CountSession(t) \/ SaveMetrics(t)
                               \/ SaveRelease(t) \/ Forget(t)
      PROVE  Same
  BY <1>2, <1>5 DEF CountSession, SaveMetrics, SaveRelease, Forget, health
<1>6. ASSUME NEW t \in Caller, NEW s \in Session, NEW m \in Name, Release(t, s, m)
      PROVE  Same
  BY <1>2, <1>6 DEF Release, health
<1>7. ASSUME NEW t \in Admin, NEW m \in Name,
             RegisterPool(t, m) \/ UnregisterPool(t, m)
      PROVE  Same \/ New
  <2>1. /\ breaker' = [breaker EXCEPT ![m] = NewBreaker]
        /\ lost' = [lost EXCEPT ![m] = 0]
        /\ won' = [won EXCEPT ![m] = 0]
    BY <1>7 DEF RegisterPool, UnregisterPool
  <2>2. QED
    BY <1>0, <2>1
<1>8. ASSUME NEW t \in Admin, SavePool(t) \/ ErasePool(t) PROVE Same
  BY <1>2, <1>8 DEF SavePool, ErasePool, health
<1>9. ASSUME NEW s \in Session, AffinityExpires(s) PROVE Same
  BY <1>2, <1>9 DEF AffinityExpires, health
<1>10. CASE RunHealthChecks
  BY <1>2, <1>10 DEF RunHealthChecks
<1>11. ASSUME NEW e \in Endpoint,
              CheckPasses(e) \/ CheckFails(e) \/ CheckOrphan(e) \/ CheckSaves(e)
       PROVE  \/ Same
              \/ /\ breaker'[n] = record_success(breaker[n]) /\ lost'[n] = 0
                 /\ won'[n] = IF won[n] < HalfOpenMaxCalls THEN won[n] + 1 ELSE won[n]
              \/ /\ breaker'[n] = record_failure(breaker[n]) /\ won'[n] = 0
                 /\ lost'[n] = IF lost[n] < FailureThreshold
                               THEN lost[n] + 1 ELSE lost[n]
  <2>1. e[1] \in Name
    BY DEF Endpoint
  <2>2. CASE CheckPasses(e)
    BY <1>0, <2>1, <2>2 DEF CheckPasses
  <2>3. CASE CheckFails(e)
    BY <1>0, <2>1, <2>3 DEF CheckFails
  <2>4. CASE CheckOrphan(e) \/ CheckSaves(e)
    BY <1>2, <2>4 DEF CheckOrphan, CheckSaves
  <2>5. QED
    BY <1>11, <2>2, <2>3, <2>4
<1>12. CASE Tick
  BY <1>0, <1>12 DEF Tick, health
<1>13. CASE Restart
  BY <1>13 DEF Restart, StartWith
<1>14. CASE OtherReplica
  BY <1>2, <1>14 DEF OtherReplica, health
<1>15. CASE UNCHANGED lbvars
  BY <1>2, <1>15 DEF lbvars
<1>16. QED
  BY <1>3, <1>4, <1>5, <1>6, <1>7, <1>8, <1>9, <1>10, <1>11, <1>12, <1>13,
     <1>14, <1>15, LBStepCases

LEMMA BreakerInvInit == LBInit => BreakerInv
  BY BreakerAssumption DEF LBInit, BreakerInv, NewBreaker

LEMMA BreakerInvStep ==
  LBTypeOK /\ LBWork /\ BreakerInv /\ [LBNext]_lbvars => BreakerInv'
<1> SUFFICES ASSUME LBTypeOK, LBWork, BreakerInv, [LBNext]_lbvars, NEW n \in Name
             PROVE  Sound(breaker'[n], lost'[n], won'[n])
  BY DEF BreakerInv, Sound
<1>1. /\ breaker[n] \in Breaker
      /\ lost[n] \in 0 .. FailureThreshold
      /\ won[n] \in 0 .. HalfOpenMaxCalls
  BY DEF LBTypeOK
<1>2. Sound(breaker[n], lost[n], won[n])
  BY DEF BreakerInv, Sound
<1>3. QED
  BY <1>1, <1>2, BreakerSound, BreakerCases

-----------------------------------------------------------------------------
(* Confirmed registrations stay in Redis. *)
LEMMA DurableStep ==
  LBTypeOK /\ LBWork /\ DurableRegistration /\ [LBNext]_lbvars
    => DurableRegistration'
<1> SUFFICES ASSUME LBTypeOK, LBWork, DurableRegistration, [LBNext]_lbvars
             PROVE  DurableRegistration'
  OBVIOUS
<1> USE LBAssumption DEF DurableRegistration, redis
<1>0. /\ saved \in [Name -> Nat \cup {None}] /\ None \notin Nat
      /\ acked \subseteq Name
  BY DEF LBTypeOK
<1>1. ASSUME saved' = saved, acked' \subseteq acked PROVE DurableRegistration'
  BY <1>1
<1>2. ASSUME NEW m \in Name, NEW d \in Nat, Write(m, d), acked' = acked
      PROVE  DurableRegistration'
  BY <1>0, <1>2 DEF Write
<1>3. ASSUME NEW t \in Caller, NEW s \in Session,
             AssignCached(t, s) \/ AssignUncached(t, s)
      PROVE  DurableRegistration'
  BY <1>1, <1>3 DEF AssignCached, AssignUncached, Proceed
<1>4. ASSUME NEW t \in Caller, Lookup(t) \/ CountSession(t) \/ Forget(t)
      PROVE  DurableRegistration'
  BY <1>1, <1>4 DEF Lookup, CountSession, Forget, Proceed
<1>5. ASSUME NEW t \in Caller, SaveMetrics(t) \/ SaveRelease(t)
      PROVE  DurableRegistration'
  <2>1. ep[t][1] \in Name /\ note[t] \in Nat
    BY <1>5 DEF SaveMetrics, SaveRelease, LBWork, CallerWork, Endpoint
  <2>2. Write(ep[t][1], note[t]) /\ acked' = acked
    BY <1>5 DEF SaveMetrics, SaveRelease
  <2>3. QED
    BY <1>2, <2>1, <2>2
<1>6. ASSUME NEW t \in Caller, NEW s \in Session, NEW n \in Name, Release(t, s, n)
      PROVE  DurableRegistration'
  BY <1>1, <1>6 DEF Release
<1>7. ASSUME NEW t \in Admin, NEW n \in Name,
             RegisterPool(t, n) \/ UnregisterPool(t, n)
      PROVE  DurableRegistration'
  BY <1>1, <1>7 DEF RegisterPool, UnregisterPool
<1>8. ASSUME NEW t \in Admin, SavePool(t) PROVE DurableRegistration'
  <2>1. ep[t][1] \in Name /\ note[t] \in Nat
    BY <1>8 DEF SavePool, LBWork, AdminWork, Endpoint
  <2>2. QED
    BY <1>0, <1>8, <2>1 DEF SavePool, Confirm
<1>9. ASSUME NEW t \in Admin, ErasePool(t) PROVE DurableRegistration'
  <2>1. arg[t] \notin acked
    BY <1>9 DEF ErasePool, LBWork, AdminWork
  <2>2. \A n \in acked : saved'[n] = saved[n]
    BY <1>0, <1>9, <2>1 DEF ErasePool, Write
  <2>3. QED
    BY <1>9, <2>2 DEF ErasePool
<1>10. CASE (\E s \in Session : AffinityExpires(s)) \/ RunHealthChecks \/ Tick
  BY <1>1, <1>10 DEF AffinityExpires, RunHealthChecks, Tick
<1>11. ASSUME NEW e \in Endpoint, CheckPasses(e) \/ CheckFails(e) \/ CheckOrphan(e)
       PROVE  DurableRegistration'
  BY <1>1, <1>11 DEF CheckPasses, CheckFails, CheckOrphan
<1>12. ASSUME NEW e \in Endpoint, CheckSaves(e) PROVE DurableRegistration'
  <2>1. e[1] \in Name /\ found[e] \in Nat
    BY <1>12 DEF CheckSaves, LBWork, Endpoint
  <2>2. QED
    BY <1>2, <1>12, <2>1 DEF CheckSaves
<1>13. CASE Restart
  BY <1>1, <1>13 DEF Restart, StartWith
<1>14. CASE OtherReplica
  BY <1>0, <1>14 DEF OtherReplica
<1>15. CASE UNCHANGED lbvars
  BY <1>1, <1>15 DEF lbvars
<1>16. QED
  BY <1>3, <1>4, <1>5, <1>6, <1>7, <1>8, <1>9, <1>10, <1>11, <1>12, <1>13,
     <1>14, <1>15, LBStepCases

-----------------------------------------------------------------------------
(* Picks and counts.                                                       *)

(* Only a request that finds a pool available starts to wait with it.      *)
LEMMA PickCases ==
  ASSUME LBTypeOK, LBWork, [LBNext]_lbvars, NEW u \in Caller
  PROVE  \/ pc'[u] = pc[u] /\ ep'[u] = ep[u]
         \/ pc'[u] # "affinity"
         \/ /\ pc[u] \in {"idle", "lookup"} /\ pc'[u] = "affinity"
            /\ \E m \in Available : ep'[u] = Current(m)
            /\ count' = count
<1> DEFINE Stays == pc'[u] = pc[u] /\ ep'[u] = ep[u]
           Picks == /\ pc[u] \in {"idle", "lookup"} /\ pc'[u] = "affinity"
                    /\ \E m \in Available : ep'[u] = Current(m)
                    /\ count' = count
           Goal  == Stays \/ pc'[u] # "affinity" \/ Picks
<1> SUFFICES Goal
  OBVIOUS
<1>0. /\ pc \in [Task -> PcState] /\ ep \in [Task -> Endpoint \cup {None}]
      /\ u \in Task /\ Caller \subseteq Task /\ Admin \subseteq Task
  BY LBAssumption DEF LBTypeOK, Task
<1>1. ASSUME NEW t \in Task, NEW l \in PcState \ {"affinity"}, NEW a, NEW e, NEW d,
             Await(t, l, a, e, d)
      PROVE  Goal
  <2>1. pc' = [pc EXCEPT ![t] = l] /\ ep' = [ep EXCEPT ![t] = e]
    BY <1>1 DEF Await
  <2>2. QED
    BY <1>0, <2>1
<1>2. ASSUME NEW t \in Task, Return(t) PROVE Goal
  <2>1. "idle" \in PcState \ {"affinity"}
    BY DEF PcState
  <2>2. QED
    BY <1>1, <1>2, <2>1 DEF Return
<1>3. ASSUME UNCHANGED <<pc, ep>> PROVE Goal
  BY <1>3
<1>4. ASSUME NEW t \in Caller, NEW s \in Session, NEW n \in Name \cup {None},
             NEW known \in [Session -> Name \cup {None}], Proceed(t, s, n, known),
             pc[t] \in {"idle", "lookup"}
      PROVE  Goal
  <2>1. count' = count
    BY <1>4, ProceedEffect
  <2>2. CASE Return(t)
    BY <1>0, <1>2, <2>2
  <2>3. ASSUME NEW m \in Available, Await(t, "affinity", s, Current(m), None)
        PROVE  Goal
    <3>1. pc' = [pc EXCEPT ![t] = "affinity"] /\ ep' = [ep EXCEPT ![t] = Current(m)]
      BY <2>3 DEF Await
    <3>2. CASE u = t
      BY <1>0, <1>4, <2>1, <2>3, <3>1, <3>2
    <3>3. CASE u # t
      BY <1>0, <3>1, <3>3
    <3>4. QED
      BY <3>2, <3>3
  <2>4. QED
    BY <1>4, <2>2, <2>3, ProceedEffect
<1>5. ASSUME NEW t \in Caller, NEW s \in Session,
             AssignCached(t, s) \/ AssignUncached(t, s)
      PROVE  Goal
  <2>1. CASE AssignCached(t, s)
    BY <1>4, <2>1 DEF AssignCached, LBTypeOK
  <2>2. CASE AssignUncached(t, s)
    <3>1. Await(t, "lookup", s, None, None) /\ "lookup" \in PcState \ {"affinity"}
      BY <2>2 DEF AssignUncached, PcState
    <3>2. QED
      BY <1>0, <1>1, <3>1
  <2>3. QED
    BY <1>5, <2>1, <2>2
<1>6. ASSUME NEW t \in Caller, Lookup(t) PROVE Goal
  <2>1. arg[t] \in Session /\ pc[t] = "lookup"
    BY <1>6 DEF Lookup, LBWork, CallerWork
  <2>2. PICK n \in {affinities[arg[t]]}
                     \cup (IF RedisMayFail THEN {None} ELSE {}) :
          Proceed(t, arg[t], n,
                  IF n = None THEN local ELSE [local EXCEPT ![arg[t]] = n])
    BY <1>6 DEF Lookup
  <2>3. n \in Name \cup {None}
    BY <2>1, <2>2 DEF LBTypeOK
  <2>4. (IF n = None THEN local ELSE [local EXCEPT ![arg[t]] = n])
          \in [Session -> Name \cup {None}]
    BY <2>3 DEF LBTypeOK
  <2>5. QED
    BY <1>4, <2>1, <2>2, <2>3, <2>4
<1>7. ASSUME NEW t \in Caller, CountSession(t) \/ SaveRelease(t) PROVE Goal
  <2>1. "metrics" \in PcState \ {"affinity"} /\ "forget" \in PcState \ {"affinity"}
    BY DEF PcState
  <2>2. \/ Await(t, "metrics", arg[t], ep[t], count[ep[t]] + 1)
        \/ Await(t, "forget", arg[t], None, None)
    BY <1>7 DEF CountSession, SaveRelease
  <2>3. QED
    BY <1>0, <1>1, <2>1, <2>2
<1>8. ASSUME NEW t \in Caller, SaveMetrics(t) \/ Forget(t) PROVE Goal
  BY <1>0, <1>2, <1>8 DEF SaveMetrics, Forget
<1>9. ASSUME NEW t \in Caller, NEW s \in Session, NEW n \in Name, Release(t, s, n)
      PROVE  Goal
  <2>1. "release" \in PcState \ {"affinity"} /\ "forget" \in PcState \ {"affinity"}
    BY DEF PcState
  <2>2. \/ \E c : Await(t, "release", s, Current(n), c)
        \/ Await(t, "forget", s, None, None)
    BY <1>9 DEF Release
  <2>3. QED
    BY <1>0, <1>1, <2>1, <2>2
<1>10. ASSUME NEW t \in Admin, NEW n \in Name,
              RegisterPool(t, n) \/ UnregisterPool(t, n)
       PROVE  Goal
  <2>1. /\ "register" \in PcState \ {"affinity"}
        /\ "unregister" \in PcState \ {"affinity"}
    BY DEF PcState
  <2>2. \/ \E g : Await(t, "register", None, <<n, g>>, 0)
        \/ Await(t, "unregister", n, None, None)
    BY <1>10 DEF RegisterPool, UnregisterPool
  <2>3. QED
    BY <1>0, <1>1, <2>1, <2>2
<1>11. ASSUME NEW t \in Admin, SavePool(t) \/ ErasePool(t) PROVE Goal
  BY <1>0, <1>2, <1>11 DEF SavePool, ErasePool
<1>12. CASE (\E s \in Session : AffinityExpires(s)) \/ RunHealthChecks \/ Tick
  BY <1>3, <1>12 DEF AffinityExpires, RunHealthChecks, Tick
<1>13. ASSUME NEW e \in Endpoint,
              CheckPasses(e) \/ CheckFails(e) \/ CheckOrphan(e) \/ CheckSaves(e)
       PROVE  Goal
  BY <1>3, <1>13 DEF CheckPasses, CheckFails, CheckOrphan, CheckSaves
<1>14. CASE Restart
  BY <1>0, <1>14 DEF Restart, StartWith
<1>15. CASE OtherReplica
  BY <1>3, <1>15 DEF OtherReplica
<1>16. CASE UNCHANGED lbvars
  BY <1>3, <1>16 DEF lbvars
<1>17. QED
  BY <1>5, <1>6, <1>7, <1>8, <1>9, <1>10, <1>11, <1>12, <1>13, <1>14, <1>15,
     <1>16, LBStepCases


(* A count goes up by a request that had picked its endpoint, or is loaded *)
(* from Redis when nobody has picked anything.                             *)
LEMMA CountCases ==
  ASSUME LBTypeOK, LBWork, [LBNext]_lbvars, NEW e \in Endpoint
  PROVE  \/ count'[e] <= count[e]
         \/ \E t \in Caller : /\ t \in Pickers(e) /\ pc'[t] = "metrics"
                              /\ count'[e] = count[e] + 1
         \/ /\ \A u \in Caller : pc'[u] = "idle"
            /\ count'[e] = 0 \/ (saved[e[1]] # None /\ count'[e] = saved[e[1]])
<1> DEFINE Falls  == count'[e] <= count[e]
           Rises  == \E t \in Caller : /\ t \in Pickers(e) /\ pc'[t] = "metrics"
                                       /\ count'[e] = count[e] + 1
           Loaded == /\ \A u \in Caller : pc'[u] = "idle"
                     /\ \/ count'[e] = 0
                        \/ saved[e[1]] # None /\ count'[e] = saved[e[1]]
<1> SUFFICES Falls \/ Rises \/ Loaded
  OBVIOUS
<1>0. count \in [Endpoint -> Nat] /\ count[e] \in Nat
  BY DEF LBTypeOK
<1>1. ASSUME UNCHANGED count PROVE Falls
  BY <1>0, <1>1
<1>2. ASSUME NEW t \in Caller, NEW s \in Session,
             AssignCached(t, s) \/ AssignUncached(t, s)
      PROVE  Falls
  BY <1>1, <1>2 DEF AssignCached, AssignUncached, Proceed
<1>3. ASSUME NEW t \in Caller, \/ Lookup(t) \/ SaveMetrics(t)
                               \/ SaveRelease(t) \/ Forget(t)
      PROVE  Falls
  BY <1>1, <1>3 DEF Lookup, Proceed, SaveMetrics, SaveRelease, Forget
<1>4. ASSUME NEW t \in Caller, CountSession(t) PROVE Falls \/ Rises
  <2>1. /\ pc[t] = "affinity"
        /\ count' = [count EXCEPT ![ep[t]] = @ + 1]
        /\ pc' = [pc EXCEPT ![t] = "metrics"]
    BY <1>4 DEF CountSession, Await
  <2>2. pc'[t] = "metrics"
    BY <2>1 DEF LBTypeOK, Task
  <2>3. CASE ep[t] = e
    BY <1>0, <2>1, <2>2, <2>3 DEF Pickers
  <2>4. CASE ep[t] # e
    BY <1>0, <2>1, <2>4
  <2>5. QED
    BY <2>3, <2>4
<1>5. ASSUME NEW t \in Caller, NEW s \in Session, NEW n \in Name, Release(t, s, n)
      PROVE  Falls
  <2>1. CASE UNCHANGED count
    BY <1>1, <2>1
  <2>2. CASE /\ n \in Registered
             /\ count' = [count EXCEPT ![Current(n)] =
                            IF count[Current(n)] > 0
                            THEN count[Current(n)] - 1 ELSE 0]
    <3>1. Current(n) \in Endpoint /\ count[Current(n)] \in Nat
      BY <2>2 DEF Registered, Current, Endpoint, LBTypeOK
    <3>2. QED
      BY <1>0, <2>2, <3>1
  <2>3. QED
    BY <1>5, <2>1, <2>2 DEF Release
<1>6. ASSUME NEW t \in Admin, NEW n \in Name,
             RegisterPool(t, n) \/ UnregisterPool(t, n)
      PROVE  Falls
  <2>1. CASE RegisterPool(t, n)
    <3>1. PICK g : count' = [count EXCEPT ![<<n, g>>] = 0]
      BY <2>1 DEF RegisterPool
    <3>2. count'[e] = count[e] \/ count'[e] = 0
      BY <1>0, <3>1
    <3>3. QED
      BY <1>0, <3>2
  <2>2. CASE UnregisterPool(t, n)
    BY <1>1, <2>2 DEF UnregisterPool
  <2>3. QED
    BY <1>6, <2>1, <2>2
<1>7. ASSUME NEW t \in Admin, SavePool(t) \/ ErasePool(t) PROVE Falls
  BY <1>1, <1>7 DEF SavePool, ErasePool
<1>8. CASE (\E s \in Session : AffinityExpires(s)) \/ RunHealthChecks \/ Tick
  BY <1>1, <1>8 DEF AffinityExpires, RunHealthChecks, Tick
<1>9. ASSUME NEW f \in Endpoint,
             CheckPasses(f) \/ CheckFails(f) \/ CheckOrphan(f) \/ CheckSaves(f)
      PROVE  Falls
  BY <1>1, <1>9 DEF CheckPasses, CheckFails, CheckOrphan, CheckSaves
<1>10. CASE Restart
  <2>1. PICK known \in SUBSET Name, g \in Copy :
          (\A n \in known : saved[n] # None) /\ StartWith(known, g)
    <3>1. CASE \E g \in Copy : StartWith({n \in Name : saved[n] # None}, g)
      BY <3>1
    <3>2. CASE \E g \in Copy : StartWith({}, g)
      BY <3>2
    <3>3. QED
      BY <1>10, <3>1, <3>2 DEF Restart
  <2>2. \A u \in Caller : pc'[u] = "idle"
    BY <2>1 DEF StartWith, Task
  <2>3. count'[e] = 0 \/ (saved[e[1]] # None /\ count'[e] = saved[e[1]])
    BY <2>1 DEF StartWith
  <2>4. QED
    BY <2>2, <2>3
<1>11. CASE OtherReplica
  BY <1>1, <1>11 DEF OtherReplica
<1>12. CASE UNCHANGED lbvars
  BY <1>1, <1>12 DEF lbvars
<1>13. QED
  BY <1>2, <1>3, <1>4, <1>5, <1>6, <1>7, <1>8, <1>9, <1>10, <1>11, <1>12,
     LBStepCases

(* There are at most as many pickers as callers. *)
LEMMA PickersFinite ==
  ASSUME NEW e \in Endpoint
  PROVE  /\ IsFiniteSet(Pickers(e))
         /\ Cardinality(Pickers(e)) \in Nat /\ Cardinality(Caller) \in Nat \ {0}
         /\ Cardinality(Pickers(e)) <= Cardinality(Caller)
<1>1. Pickers(e) \subseteq Caller
  BY DEF Pickers
<1>2. /\ IsFiniteSet(Pickers(e))
      /\ Cardinality(Pickers(e)) <= Cardinality(Caller)
  BY <1>1, LBAssumption, FS_Subset
<1>3. Cardinality(Pickers(e)) \in Nat /\ Cardinality(Caller) \in Nat
  BY <1>2, LBAssumption, FS_CardinalityType
<1>4. Cardinality(Caller) # 0
  BY LBAssumption, FS_EmptySet
<1>5. QED
  BY <1>2, <1>3, <1>4

LEMMA OvershootStep ==
  LBTypeOK /\ LBWork /\ CountInv /\ [LBNext]_lbvars => OvershootBounded'
<1> SUFFICES ASSUME LBTypeOK, LBWork, CountInv, [LBNext]_lbvars, NEW e \in Endpoint
             PROVE  count'[e] + Cardinality(Pickers(e)')
                      <= MaxSessions + Cardinality(Caller) - 1
  BY DEF OvershootBounded, MaxCount
<1> DEFINE N == Cardinality(Caller)
           P == Pickers(e)
           Q == Pickers(e)'
<1>0. /\ MaxSessions \in Nat /\ N \in Nat \ {0}
      /\ count[e] \in Nat /\ count'[e] \in Nat
      /\ IsFiniteSet(P) /\ Cardinality(P) \in Nat
      /\ Q \subseteq Caller /\ IsFiniteSet(Q)
      /\ Cardinality(Q) \in Nat /\ Cardinality(Q) <= N
  <2>1. LBTypeOK'
    BY LBTypeStep
  <2>2. Q \subseteq Caller
    BY DEF Pickers
  <2>3. /\ IsFiniteSet(Q) /\ Cardinality(Q) <= N /\ Cardinality(Q) \in Nat
    BY <2>2, LBAssumption, FS_Subset, FS_CardinalityType
  <2>4. MaxSessions \in Nat /\ count[e] \in Nat /\ count'[e] \in Nat
    BY <2>1, LBAssumption DEF LBTypeOK
  <2>5. QED
    BY <2>2, <2>3, <2>4, PickersFinite
<1>1. count[e] + Cardinality(P) <= MaxSessions + N - 1
  BY DEF CountInv, OvershootBounded, MaxCount
<1>2. CASE \E u \in Q : u \notin P
  <2>1. PICK u \in Q : u \notin P
    BY <1>2
  <2>2. u \in Caller /\ pc'[u] = "affinity" /\ ep'[u] = e
        /\ ~(pc[u] = "affinity" /\ ep[u] = e)
    BY <2>1 DEF Pickers
  <2>3. PICK m \in Available : ep'[u] = Current(m) /\ count' = count
    BY <2>2, PickCases
  <2>4. count[e] < MaxSessions
    BY <2>2, <2>3 DEF Available
  <2>5. count'[e] = count[e]
    BY <2>3
  <2>6. QED
    BY <1>0, <2>4, <2>5
<1>3. CASE Q \subseteq P
  <2>1. Cardinality(Q) <= Cardinality(P)
    BY <1>0, <1>3, FS_Subset
  <2>2. CASE count'[e] <= count[e]
    BY <1>0, <1>1, <2>1, <2>2
  <2>3. CASE \E t \in Caller : /\ t \in P /\ pc'[t] = "metrics"
                              /\ count'[e] = count[e] + 1
    <3>1. PICK t \in Caller : /\ t \in P /\ pc'[t] = "metrics"
                              /\ count'[e] = count[e] + 1
      BY <2>3
    <3>2. t \notin Q
      BY <3>1 DEF Pickers
    <3>3. Q \subseteq P \ {t}
      BY <1>3, <3>2
    <3>4. IsFiniteSet(P \ {t}) /\ Cardinality(P \ {t}) = Cardinality(P) - 1
      BY <1>0, <3>1, FS_RemoveElement
    <3>5. Cardinality(Q) <= Cardinality(P) - 1
      BY <3>3, <3>4, FS_Subset
    <3>6. QED
      BY <1>0, <1>1, <3>1, <3>5
  <2>4. CASE /\ \A u \in Caller : pc'[u] = "idle"
             /\ count'[e] = 0 \/ (saved[e[1]] # None /\ count'[e] = saved[e[1]])
    <3>1. Q = {}
      BY <2>4 DEF Pickers
    <3>2. Cardinality(Q) = 0
      BY <3>1, FS_EmptySet
    <3>3. count'[e] <= MaxSessions + N - 1
      <4>1. e[1] \in Name
        BY DEF Endpoint
      <4>2. CASE count'[e] = 0
        BY <1>0, <4>2
      <4>3. CASE saved[e[1]] # None /\ count'[e] = saved[e[1]]
        BY <4>1, <4>3 DEF CountInv, MaxCount
      <4>4. QED
        BY <2>4, <4>2, <4>3
    <3>4. QED
      BY <1>0, <3>2, <3>3
  <2>5. QED
    BY <2>2, <2>3, <2>4, CountCases
<1>4. QED
  BY <1>2, <1>3


LEMMA CountAtMost ==
  ASSUME LBTypeOK, CountInv
  PROVE  /\ MaxCount \in Nat
         /\ \A e \in Endpoint : /\ count[e] \in Nat /\ count[e] <= MaxCount
                                /\ Pickers(e) # {} => count[e] + 1 <= MaxCount
<1>1. MaxCount \in Nat
  <2>1. MaxSessions \in Nat /\ Cardinality(Caller) \in Nat
    BY LBAssumption, FS_CardinalityType
  <2>2. Cardinality(Caller) # 0
    BY LBAssumption, FS_EmptySet
  <2>3. QED
    BY <2>1, <2>2 DEF MaxCount
<1>2. ASSUME NEW e \in Endpoint
      PROVE  /\ count[e] \in Nat /\ count[e] <= MaxCount
             /\ Pickers(e) # {} => count[e] + 1 <= MaxCount
  <2>1. /\ IsFiniteSet(Pickers(e)) /\ Cardinality(Pickers(e)) \in Nat
    BY PickersFinite
  <2>2. count[e] \in Nat /\ count[e] + Cardinality(Pickers(e)) <= MaxCount
    BY DEF LBTypeOK, CountInv, OvershootBounded, MaxCount
  <2>3. Pickers(e) # {} => Cardinality(Pickers(e)) # 0
    BY <2>1, FS_EmptySet
  <2>4. QED
    BY <1>1, <2>1, <2>2, <2>3
<1>3. QED
  BY <1>1, <1>2

LEMMA CountInvInit == LBInit => CountInv
<1> SUFFICES ASSUME LBInit PROVE CountInv
  OBVIOUS
<1>1. \A e \in Endpoint : Pickers(e) = {}
  BY DEF LBInit, Pickers, Task
<1>2. MaxSessions \in Nat /\ Cardinality(Caller) \in Nat \ {0}
  BY LBAssumption, FS_CardinalityType, FS_EmptySet
<1>3. OvershootBounded
  BY <1>1, <1>2, FS_EmptySet DEF LBInit, OvershootBounded, MaxCount
<1>4. QED
  BY <1>3 DEF LBInit, CountInv

LEMMA CountInvStep ==
  LBTypeOK /\ LBWork /\ CountInv /\ [LBNext]_lbvars => CountInv'
<1> SUFFICES ASSUME LBTypeOK, LBWork, CountInv, [LBNext]_lbvars PROVE CountInv'
  OBVIOUS
<1> DEFINE SavedOK == \A n \in Name : saved[n] # None => saved[n] <= MaxCount
           NotesOK == \A t \in Task : note[t] # None => note[t] <= MaxCount
           FoundOK == \A e \in Endpoint : found[e] # None => found[e] <= MaxCount
<1> SUFFICES SavedOK' /\ NotesOK' /\ FoundOK'
  BY OvershootStep DEF CountInv, MaxCount
<1> USE DEF redis, health
<1>0. /\ saved \in [Name -> Nat \cup {None}]
      /\ note \in [Task -> Nat \cup {None}]
      /\ found \in [Endpoint -> Nat \cup {None}]
      /\ Caller \subseteq Task /\ Admin \subseteq Task
  BY DEF LBTypeOK, Task
<1>1. SavedOK /\ NotesOK /\ FoundOK
  BY DEF CountInv
<1>2. /\ MaxCount \in Nat
      /\ \A e \in Endpoint : /\ count[e] \in Nat
                             /\ count[e] <= MaxCount
                             /\ Pickers(e) # {} => count[e] + 1 <= MaxCount
  BY CountAtMost
<1> HIDE DEF SavedOK, NotesOK, FoundOK
<1>3. ASSUME NEW t \in Task, NEW l, NEW a, NEW e, NEW d, Await(t, l, a, e, d),
             d # None => d <= MaxCount
      PROVE  NotesOK'
  <2>1. note' = [note EXCEPT ![t] = d]
    BY <1>3 DEF Await
  <2>2. QED
    BY <1>0, <1>1, <1>3, <2>1 DEF NotesOK, MaxCount
<1>4. ASSUME NEW t \in Task, Return(t) PROVE NotesOK'
  BY <1>3, <1>4 DEF Return
<1>5. ASSUME NEW n, NEW d, Write(n, d), d # None => d <= MaxCount PROVE SavedOK'
  BY <1>0, <1>1, <1>5 DEF SavedOK, Write, MaxCount
<1>6. /\ UNCHANGED saved => SavedOK'
      /\ UNCHANGED note => NotesOK'
      /\ UNCHANGED found => FoundOK'
  BY <1>1 DEF SavedOK, NotesOK, FoundOK, MaxCount
<1>7. ASSUME NEW t \in Caller, NEW s \in Session, NEW n \in Name \cup {None},
             NEW known \in [Session -> Name \cup {None}], Proceed(t, s, n, known)
      PROVE  SavedOK' /\ NotesOK' /\ FoundOK'
  <2>1. \/ Return(t)
        \/ \E m \in Available : Await(t, "affinity", s, Current(m), None)
    BY <1>7, ProceedEffect
  <2>2. NotesOK'
    BY <1>0, <1>3, <1>4, <2>1
  <2>3. QED
    BY <1>6, <1>7, <2>2, ProceedEffect
<1>8. ASSUME NEW t \in Caller, NEW s \in Session,
             AssignCached(t, s) \/ AssignUncached(t, s)
      PROVE  SavedOK' /\ NotesOK' /\ FoundOK'
  <2>1. CASE AssignCached(t, s)
    BY <1>7, <2>1 DEF AssignCached, LBTypeOK
  <2>2. CASE AssignUncached(t, s)
    BY <1>0, <1>3, <1>6, <2>2 DEF AssignUncached
  <2>3. QED
    BY <1>8, <2>1, <2>2
<1>9. ASSUME NEW t \in Caller, Lookup(t) PROVE SavedOK' /\ NotesOK' /\ FoundOK'
  <2>1. arg[t] \in Session
    BY <1>9 DEF Lookup, LBWork, CallerWork
  <2>2. PICK n \in {affinities[arg[t]]}
                     \cup (IF RedisMayFail THEN {None} ELSE {}) :
          Proceed(t, arg[t], n,
                  IF n = None THEN local ELSE [local EXCEPT ![arg[t]] = n])
    BY <1>9 DEF Lookup
  <2>3. n \in Name \cup {None}
    BY <2>1, <2>2 DEF LBTypeOK
  <2>4. (IF n = None THEN local ELSE [local EXCEPT ![arg[t]] = n])
          \in [Session -> Name \cup {None}]
    BY <2>3 DEF LBTypeOK
  <2>5. QED
    BY <1>7, <2>1, <2>2, <2>3, <2>4
<1>10. ASSUME NEW t \in Caller, CountSession(t)
       PROVE  SavedOK' /\ NotesOK' /\ FoundOK'
  <2>1. ep[t] \in Endpoint /\ t \in Pickers(ep[t])
    BY <1>10 DEF CountSession, LBWork, CallerWork, Pickers
  <2>2. count[ep[t]] + 1 <= MaxCount
    BY <1>2, <2>1
  <2>3. Await(t, "metrics", arg[t], ep[t], count[ep[t]] + 1)
    BY <1>10 DEF CountSession
  <2>4. NotesOK'
    BY <1>0, <1>3, <2>2, <2>3
  <2>5. QED
    BY <1>6, <1>10, <2>4 DEF CountSession
<1>11. ASSUME NEW t \in Caller, SaveMetrics(t) \/ SaveRelease(t)
       PROVE  SavedOK' /\ NotesOK' /\ FoundOK'
  <2>1. Write(ep[t][1], note[t]) /\ UNCHANGED found
    BY <1>11 DEF SaveMetrics, SaveRelease
  <2>2. SavedOK'
    BY <1>0, <1>1, <1>5, <2>1 DEF NotesOK
  <2>3. Return(t) \/ Await(t, "forget", arg[t], None, None)
    BY <1>11 DEF SaveMetrics, SaveRelease
  <2>4. QED
    BY <1>0, <1>3, <1>4, <1>6, <2>1, <2>2, <2>3
<1>12. ASSUME NEW t \in Caller, Forget(t) PROVE SavedOK' /\ NotesOK' /\ FoundOK'
  BY <1>0, <1>4, <1>6, <1>12 DEF Forget
<1>13. ASSUME NEW t \in Caller, NEW s \in Session, NEW n \in Name, Release(t, s, n)
       PROVE  SavedOK' /\ NotesOK' /\ FoundOK'
  <2>1. NotesOK'
    <3>1. CASE n \in Registered
      <4>1. Current(n) \in Endpoint
        BY <3>1 DEF Registered, Current, Endpoint, LBTypeOK
      <4>2. PICK c \in Nat : /\ c <= count[Current(n)]
                             /\ Await(t, "release", s, Current(n), c)
        BY <1>2, <1>13, <3>1, <4>1 DEF Release
      <4>3. c <= MaxCount
        BY <1>2, <4>1, <4>2
      <4>4. QED
        BY <1>0, <1>3, <4>2, <4>3
    <3>2. CASE n \notin Registered
      BY <1>0, <1>3, <1>13, <3>2 DEF Release
    <3>3. QED
      BY <3>1, <3>2
  <2>2. QED
    BY <1>6, <1>13, <2>1 DEF Release
<1>14. ASSUME NEW t \in Admin, NEW n \in Name,
              RegisterPool(t, n) \/ UnregisterPool(t, n)
       PROVE  SavedOK' /\ NotesOK' /\ FoundOK'
  <2>1. 0 <= MaxCount
    BY <1>2
  <2>2. \/ \E g : Await(t, "register", None, <<n, g>>, 0)
        \/ Await(t, "unregister", n, None, None)
    BY <1>14 DEF RegisterPool, UnregisterPool
  <2>3. NotesOK'
    BY <1>0, <1>3, <2>1, <2>2
  <2>4. QED
    BY <1>6, <1>14, <2>3 DEF RegisterPool, UnregisterPool
<1>15. ASSUME NEW t \in Admin, SavePool(t) \/ ErasePool(t)
       PROVE  SavedOK' /\ NotesOK' /\ FoundOK'
  <2>1. NotesOK' /\ UNCHANGED found
    BY <1>0, <1>4, <1>15 DEF SavePool, ErasePool
  <2>2. \/ Write(ep[t][1], note[t])
        \/ Write(arg[t], None)
    BY <1>15 DEF SavePool, ErasePool, Write
  <2>3. SavedOK'
    BY <1>0, <1>1, <1>5, <2>2 DEF NotesOK
  <2>4. QED
    BY <1>6, <2>1, <2>3
<1>16. CASE (\E s \in Session : AffinityExpires(s)) \/ RunHealthChecks \/ Tick
  BY <1>6, <1>16 DEF AffinityExpires, RunHealthChecks, Tick
<1>17. ASSUME NEW e \in Endpoint,
              CheckPasses(e) \/ CheckFails(e) \/ CheckOrphan(e) \/ CheckSaves(e)
       PROVE  SavedOK' /\ NotesOK' /\ FoundOK'
  <2>1. UNCHANGED note
    BY <1>17 DEF CheckPasses, CheckFails, CheckOrphan, CheckSaves
  <2>2. UNCHANGED saved \/ Write(e[1], found[e])
    BY <1>17 DEF CheckPasses, CheckFails, CheckOrphan, CheckSaves
  <2>3. SavedOK'
    BY <1>1, <1>5, <1>6, <2>2 DEF FoundOK
  <2>4. CheckMoves(e, "save", count[e]) \/ CheckMoves(e, "none", None)
    BY <1>17 DEF CheckPasses, CheckFails, CheckOrphan, CheckSaves
  <2>5. FoundOK'
    BY <1>0, <1>1, <1>2, <2>4 DEF CheckMoves, FoundOK, MaxCount
  <2>6. QED
    BY <1>6, <2>1, <2>3, <2>5
<1>18. CASE Restart
  <2>1. /\ note' = [t \in Task |-> None] /\ found' = [e \in Endpoint |-> None]
        /\ UNCHANGED saved
    BY <1>18 DEF Restart, StartWith
  <2>2. QED
    BY <1>6, <2>1 DEF NotesOK, FoundOK
<1>19. CASE OtherReplica
  <2>1. \/ UNCHANGED saved
        \/ \E n \in Name, c \in 0 .. MaxCount : saved' = [saved EXCEPT ![n] = c]
        \/ \E n \in Name : saved' = [saved EXCEPT ![n] = None]
    BY <1>19 DEF OtherReplica
  <2>2. \A c \in 0 .. MaxCount : c <= MaxCount
    BY <1>2
  <2>3. SavedOK'
    BY <1>5, <1>6, <2>1, <2>2 DEF Write
  <2>4. QED
    BY <1>6, <1>19, <2>3 DEF OtherReplica
<1>20. CASE UNCHANGED lbvars
  BY <1>6, <1>20 DEF lbvars
<1>21. QED
  BY <1>8, <1>9, <1>10, <1>11, <1>12, <1>13, <1>14, <1>15, <1>16, <1>17, <1>18,
     <1>19, <1>20, LBStepCases

-----------------------------------------------------------------------------
(* What holds in every behaviour.                                          *)

LBInv == LBTypeOK /\ LBWork /\ BreakerInv /\ CountInv /\ DurableRegistration

LEMMA LBInductive == LBSpec => []LBInv
<1>1. LBInit => LBInv
  BY LBTypeInit, BreakerInvInit, CountInvInit
  DEF LBInv, LBInit, DurableRegistration
<1>2. LBInv /\ [LBNext]_lbvars => LBInv'
  BY LBTypeStep, LBWorkStep, BreakerInvStep, CountInvStep, DurableStep DEF LBInv
<1>3. QED
  BY <1>1, <1>2, PTL DEF LBSpec

(* Type correctness: the variables of GlobalLoadBalancer, its requests and *)
(* its checks keep their types; counts never become negative.              *)
THEOREM LBTypeCorrect == LBSpec => []LBTypeOK
<1>1. LBInv => LBTypeOK
  BY DEF LBInv
<1>2. QED
  BY <1>1, LBInductive, PTL

(* However many requests assign sessions at once, and through lost writes, *)
(* replaced pools and restarts, a pool's current_sessions passes           *)
(* max_sessions by less than the number of requests.                       *)
THEOREM Overshoot == LBSpec => []OvershootBounded
<1>1. LBInv => OvershootBounded
  BY DEF LBInv, CountInv
<1>2. QED
  BY <1>1, LBInductive, PTL

(* A pool whose registration was confirmed is in Redis until it is         *)
(* unregistered, here or at another replica, or an unregistration that was *)
(* under way already is over; whatever requests, checks, restarts and      *)
(* other registrations do meanwhile.                                       *)
THEOREM Durable == LBSpec => []DurableRegistration
<1>1. LBInv => DurableRegistration
  BY DEF LBInv
<1>2. QED
  BY <1>1, LBInductive, PTL

(* No request picks a pool that failed failure_threshold checks in a row   *)
(* before recovery_timeout has passed.                                     *)
THEOREM TrippedRest == LBSpec => TrippedPoolsRest
<1> DEFINE P == \A n \in Name :
                  lost[n] >= FailureThreshold /\ breaker[n].since < RecoveryTimeout
                    => ~\E t \in Caller : PicksName(t, n)
<1>1. LBInv /\ [LBNext]_lbvars => [P]_lbvars
  <2> SUFFICES ASSUME LBInv, [LBNext]_lbvars, NEW n \in Name, NEW t \in Caller,
                      lost[n] >= FailureThreshold,
                      breaker[n].since < RecoveryTimeout,
                      PicksName(t, n)
               PROVE  FALSE
    OBVIOUS
  <2>1. LBTypeOK /\ LBWork /\ BreakerInv
    BY DEF LBInv
  <2>2. PICK m \in Available : ep'[t] = Current(m)
    BY <2>1, PickCases DEF PicksName
  <2>3. m = n
    BY <2>2 DEF PicksName, Current
  <2>4. can_execute(breaker[n]).state # "open"
    BY <2>2, <2>3 DEF Available
  <2>5. /\ breaker[n] \in Breaker /\ lost[n] \in 0 .. FailureThreshold
        /\ Sound(breaker[n], lost[n], won[n])
    BY <2>1 DEF LBTypeOK, BreakerInv, Sound
  <2>6. breaker[n].state = "open"
    BY <2>5, BreakerAssumption DEF Breaker, Sound
  <2>7. can_execute(breaker[n]) = breaker[n]
    BY <2>5, <2>6, BreakerAssumption DEF Breaker, can_execute
  <2>8. QED
    BY <2>4, <2>6, <2>7
<1>2. QED
  BY <1>1, LBInductive, PTL DEF LBSpec, TrippedPoolsRest

(* A breaker closes only when half_open_max_calls checks in a row passed.  *)
THEOREM ClosesTested == LBSpec => ClosesAfterTests
<1> DEFINE P == \A n \in Name :
                  breaker[n].state # "closed" /\ breaker'[n].state = "closed"
                    => \/ won'[n] >= HalfOpenMaxCalls
                       \/ won'[n] = 0 /\ breaker'[n] = NewBreaker
<1>1. LBInv /\ [LBNext]_lbvars => [P]_lbvars
  <2> SUFFICES ASSUME LBInv, [LBNext]_lbvars, NEW n \in Name,
                      breaker[n].state # "closed", breaker'[n].state = "closed"
               PROVE  \/ won'[n] >= HalfOpenMaxCalls
                      \/ won'[n] = 0 /\ breaker'[n] = NewBreaker
    OBVIOUS
  <2>1. LBTypeOK /\ LBWork /\ BreakerInv
    BY DEF LBInv
  <2>2. /\ breaker[n] \in Breaker /\ won[n] \in 0 .. HalfOpenMaxCalls
        /\ Sound(breaker[n], lost[n], won[n])
    BY <2>1 DEF LBTypeOK, BreakerInv, Sound
  <2>3. CASE /\ breaker'[n] = record_success(breaker[n])
             /\ won'[n] = IF won[n] < HalfOpenMaxCalls
                          THEN won[n] + 1 ELSE won[n]
    <3>1. breaker[n].state = "half_open"
      BY <2>2, <2>3 DEF Breaker, record_success
    <3>2. breaker[n].successes + 1 >= HalfOpenMaxCalls
      BY <2>2, <2>3, <3>1 DEF Breaker, record_success
    <3>3. QED
      BY <2>2, <2>3, <3>1, <3>2, BreakerAssumption DEF Breaker, Sound
  <2>4. CASE breaker'[n] = record_failure(breaker[n])
    BY <2>2, <2>4 DEF Breaker, record_failure
  <2>5. CASE \/ breaker'[n] = [breaker[n] EXCEPT !.since = @ + 1]
             \/ breaker'[n] \in {breaker[n], can_execute(breaker[n])}
    BY <2>2, <2>5 DEF Breaker, can_execute
  <2>6. QED
    BY <2>1, <2>3, <2>4, <2>5, BreakerCases
<1>2. QED
  BY <1>1, LBInductive, PTL DEF LBSpec, ClosesAfterTests
=============================================================================
