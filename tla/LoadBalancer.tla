---------------------------- MODULE LoadBalancer ----------------------------
(***************************************************************************)
(* k8s/controllers/load_balancer.py: GlobalLoadBalancer, as the server of  *)
(* load_balancer_server.py uses it.  Requests and health checks are        *)
(* coroutines of one event loop: an action is what one of them does from   *)
(* one await to the next, with the Redis or HTTP call it was waiting for.  *)
(* This is one of the replicas the deployment runs; what the others do to  *)
(* the Redis hashes all of them use is OtherReplica.                       *)
(***************************************************************************)
EXTENDS CircuitBreaker, FiniteSets

CONSTANTS
  Caller,        \* requests to /sessions/assign and /sessions/.../release
  Admin,         \* requests to register and unregister pools
  Session, Name, \* session ids and pool names
  Copy,          \* PoolEndpoint objects of one name that are in use at once
  None,
  MaxSessions,   \* max_sessions of every pool
  RedisMayFail,  \* may a Redis call raise?
  Shared         \* does another replica use the same Redis?

ASSUME LBAssumption ==
  /\ IsFiniteSet(Caller) /\ Caller # {}
  /\ Admin \cap Caller = {}
  /\ Copy # {}
  /\ MaxSessions \in Nat
  /\ None \notin Name \cup Copy \cup Nat
  /\ RedisMayFail \in BOOLEAN
  /\ Shared \in BOOLEAN

VARIABLES
  current,     \* self.pools: the copy that is the name's endpoint, or None
  count,       \* count[e]: current_sessions of endpoint e
  status,      \* status[n]: the status of the endpoint current for n
  breaker,     \* self.circuit_breakers, whose keys are those of self.pools
  local,       \* self.session_affinities
  affinities,  \* Redis: executor:loadbalancer:affinities
  saved,       \* Redis: executor:loadbalancer:pools, the counts in it
  pc,          \* pc[t]: what request t waits for
  arg,         \* arg[t]: its session, or the pool it unregisters
  ep,          \* ep[t]: the endpoint it works on
  note,        \* note[t]: the count t is about to write to saved
  check,       \* check[e]: what the health check of endpoint e waits for
  found,       \* found[e]: the count that check is about to write
  lost, won,   \* history: checks failed, passed in a row since registration
  acked        \* history: pools confirmed since they were last unregistered

lbvars == <<current, count, status, breaker, local, affinities, saved,
            pc, arg, ep, note, check, found, lost, won, acked>>

Endpoint == Name \X Copy
Task     == Caller \cup Admin
Status   == {"healthy", "degraded", "unhealthy"}

PcState    == {"idle", "lookup", "affinity", "metrics", "release", "forget",
               "register", "unregister"}
CheckState == {"none", "get", "save"}

LBTypeOK ==
  /\ current \in [Name -> Copy \cup {None}]
  /\ count \in [Endpoint -> Nat]
  /\ status \in [Name -> Status]
  /\ breaker \in [Name -> Breaker]
  /\ local \in [Session -> Name \cup {None}]
  /\ affinities \in [Session -> Name \cup {None}]
  /\ saved \in [Name -> Nat \cup {None}]
  /\ pc \in [Task -> PcState]
  /\ arg \in [Task -> Session \cup Name \cup {None}]
  /\ ep \in [Task -> Endpoint \cup {None}]
  /\ note \in [Task -> Nat \cup {None}]
  /\ check \in [Endpoint -> CheckState]
  /\ found \in [Endpoint -> Nat \cup {None}]
  /\ lost \in [Name -> 0 .. FailureThreshold]
  /\ won \in [Name -> 0 .. HalfOpenMaxCalls]
  /\ acked \in SUBSET Name

LBInit ==
  /\ current = [n \in Name |-> None]
  /\ count = [e \in Endpoint |-> 0]
  /\ status = [n \in Name |-> "healthy"]
  /\ breaker = [n \in Name |-> NewBreaker]
  /\ local = [s \in Session |-> None]
  /\ affinities = [s \in Session |-> None]
  /\ saved = [n \in Name |-> None]
  /\ pc = [t \in Task |-> "idle"]
  /\ arg = [t \in Task |-> None]
  /\ ep = [t \in Task |-> None]
  /\ note = [t \in Task |-> None]
  /\ check = [e \in Endpoint |-> "none"]
  /\ found = [e \in Endpoint |-> None]
  /\ lost = [n \in Name |-> 0]
  /\ won = [n \in Name |-> 0]
  /\ acked = {}

-----------------------------------------------------------------------------
(* Helpers.                                                                *)

Registered == {n \in Name : current[n] # None}

Current(n) == <<n, current[n]>>

(* A write to the hash of pools: it lands, or raises and is logged. *)
Write(n, data) ==
  \/ saved' = [saved EXCEPT ![n] = data]
  \/ RedisMayFail /\ UNCHANGED saved

(* Request t waits at label, on behalf of session or pool a, with endpoint *)
(* e and data to save.                                                     *)
Await(t, label, a, e, data) ==
  /\ pc' = [pc EXCEPT ![t] = label]
  /\ arg' = [arg EXCEPT ![t] = a]
  /\ ep' = [ep EXCEPT ![t] = e]
  /\ note' = [note EXCEPT ![t] = data]

Return(t) == Await(t, "idle", None, None, None)

health  == <<check, found, lost, won>>
redis   == <<affinities, saved>>

-----------------------------------------------------------------------------
(* get_pool_for_session                                                    *)

(* Is the session's affinity honoured? *)
Sticky(n) == n \in Registered /\ status[n] = "healthy"

(* Seeded fault: the capacity of a pool is not looked at. *)
AvailableUnlimited ==
  {n \in Registered : /\ can_execute(breaker[n]).state # "open"
                      /\ status[n] # "unhealthy"}

(* _get_available_pools.  The queue depth a pool reported last may hide it *)
(* as well: see Select.                                                    *)
Available ==
  {n \in Registered : /\ can_execute(breaker[n]).state # "open"
                      /\ status[n] # "unhealthy"
                      /\ count[Current(n)] < MaxSessions}

(* The pools are filtered, which moves breakers to half-open, and one is   *)
(* drawn at random; known is the affinity table read before.  The draw and *)
(* the entry in session_affinities are made without an await in between.   *)
Select(t, s, known) ==
  /\ breaker' = [n \in Name |-> IF n \in Registered
                                THEN can_execute(breaker[n]) ELSE breaker[n]]
  /\ \/ \E n \in Available :
          /\ local' = [known EXCEPT ![s] = n]
          /\ Await(t, "affinity", s, Current(n), None)
     \/ local' = known /\ Return(t)       \* full queues, or none available

(* With the affinity n, or None: return its pool, or go on to select. *)
Proceed(t, s, n, known) ==
  /\ \/ /\ Sticky(n)
        /\ local' = known
        /\ Return(t)
        /\ UNCHANGED breaker
     \/ ~Sticky(n) /\ Select(t, s, known)
  /\ UNCHANGED <<current, count, status, redis, health, acked>>

AssignCached(t, s) ==
  /\ pc[t] = "idle"
  /\ local[s] # None
  /\ Proceed(t, s, local[s], local)

AssignUncached(t, s) ==
  /\ pc[t] = "idle"
  /\ local[s] = None
  /\ Await(t, "lookup", s, None, None)
  /\ UNCHANGED <<current, count, status, breaker, local, redis, health, acked>>

Assign(t, s) == AssignCached(t, s) \/ AssignUncached(t, s)

(* Redis answers HGET, or raises, which counts as no affinity. *)
Lookup(t) ==
  /\ pc[t] = "lookup"
  /\ \E n \in {affinities[arg[t]]} \cup (IF RedisMayFail THEN {None} ELSE {}) :
       Proceed(t, arg[t], n,
               IF n = None THEN local ELSE [local EXCEPT ![arg[t]] = n])

(* _set_session_affinity writes the affinity (HSET, EXPIRE); then the      *)
(* object picked before is counted up, be it registered still or not.      *)
CountSession(t) ==
  /\ pc[t] = "affinity"
  /\ \/ affinities' = [affinities EXCEPT ![arg[t]] = ep[t][1]]
     \/ RedisMayFail /\ UNCHANGED affinities
  /\ count' = [count EXCEPT ![ep[t]] = @ + 1]
  /\ Await(t, "metrics", arg[t], ep[t], count[ep[t]] + 1)
  /\ UNCHANGED <<current, status, breaker, local, saved, health, acked>>

(* _update_pool_metrics, and the answer to the client. *)
SaveMetrics(t) ==
  /\ pc[t] = "metrics"
  /\ Write(ep[t][1], note[t])
  /\ Return(t)
  /\ UNCHANGED <<current, count, status, breaker, local, affinities, health,
                 acked>>

-----------------------------------------------------------------------------
(* release_session                                                         *)

(* Seeded fault: the count is not kept from going below 0. *)
ReleaseUnclamped(t, s, n) ==
  LET c == count[Current(n)] - 1 IN
  /\ pc[t] = "idle"
  /\ n \in Registered
  /\ count' = [count EXCEPT ![Current(n)] = c]
  /\ Await(t, "release", s, Current(n), c)
  /\ UNCHANGED <<current, status, breaker, local, redis, health, acked>>

(* The pool the client names is counted down, whatever its affinity says.  *)
Release(t, s, n) ==
  /\ pc[t] = "idle"
  /\ IF n \in Registered
     THEN LET c == IF count[Current(n)] > 0 THEN count[Current(n)] - 1 ELSE 0 IN
          /\ count' = [count EXCEPT ![Current(n)] = c]
          /\ Await(t, "release", s, Current(n), c)
          /\ UNCHANGED local
     ELSE /\ local' = [local EXCEPT ![s] = None]
          /\ Await(t, "forget", s, None, None)
          /\ UNCHANGED count
  /\ UNCHANGED <<current, status, breaker, redis, health, acked>>

SaveRelease(t) ==
  /\ pc[t] = "release"
  /\ Write(ep[t][1], note[t])
  /\ local' = [local EXCEPT ![arg[t]] = None]
  /\ Await(t, "forget", arg[t], None, None)
  /\ UNCHANGED <<current, count, status, breaker, affinities, health, acked>>

Forget(t) ==
  /\ pc[t] = "forget"
  /\ \/ affinities' = [affinities EXCEPT ![arg[t]] = None]
     \/ RedisMayFail /\ UNCHANGED affinities
  /\ Return(t)
  /\ UNCHANGED <<current, count, status, breaker, local, saved, health, acked>>

(* An hour has passed since the affinity was made; both copies are dropped *)
(* when they are read next.                                                *)
AffinityExpires(s) ==
  /\ \/ local[s] # None
        /\ local' = [local EXCEPT ![s] = None]
        /\ UNCHANGED affinities
     \/ affinities[s] # None
        /\ affinities' = [affinities EXCEPT ![s] = None]
        /\ UNCHANGED local
  /\ UNCHANGED <<current, count, status, breaker, saved, pc, arg, ep, note,
                 health, acked>>

-----------------------------------------------------------------------------
(* register_pool and unregister_pool                                       *)

(* Endpoints of n nothing refers to any more. *)
Unused(n) ==
  {g \in Copy : /\ g # current[n]
                /\ \A t \in Task : ep[t] # <<n, g>>
                /\ check[<<n, g>>] = "none"}

(* The new endpoint replaces the one of that name, with a new breaker.     *)
RegisterPool(t, n) ==
  /\ pc[t] = "idle"
  /\ \E g \in Unused(n) :
       /\ current' = [current EXCEPT ![n] = g]
       /\ count' = [count EXCEPT ![<<n, g>>] = 0]
       /\ status' = [status EXCEPT ![n] = "healthy"]
       /\ Await(t, "register", None, <<n, g>>, 0)
  /\ breaker' = [breaker EXCEPT ![n] = NewBreaker]
  /\ lost' = [lost EXCEPT ![n] = 0]
  /\ won' = [won EXCEPT ![n] = 0]
  /\ UNCHANGED <<local, redis, check, found, acked>>

(* Is n to be erased from Redis?  Nothing orders the HDEL against the HSET *)
(* of a registration that began later: a registration confirmed before the *)
(* HDEL lands does not count as confirmed since.                           *)
Unregistering(n) == \E t \in Admin : pc[t] = "unregister" /\ arg[t] = n

Confirm(n) == acked' = IF Unregistering(n) THEN acked ELSE acked \cup {n}

(* Seeded fault: the except branch confirms the registration as well. *)
SavePoolConfirms(t) ==
  /\ pc[t] = "register"
  /\ Write(ep[t][1], note[t])
  /\ Confirm(ep[t][1])
  /\ Return(t)
  /\ UNCHANGED <<current, count, status, breaker, local, affinities, health>>

(* True is returned if the write succeeds; the pool stays registered in    *)
(* memory either way.                                                      *)
SavePool(t) ==
  /\ pc[t] = "register"
  /\ \/ /\ saved' = [saved EXCEPT ![ep[t][1]] = note[t]]
        /\ Confirm(ep[t][1])
     \/ RedisMayFail /\ UNCHANGED <<saved, acked>>
  /\ Return(t)
  /\ UNCHANGED <<current, count, status, breaker, local, affinities, health>>

UnregisterPool(t, n) ==
  /\ pc[t] = "idle"
  /\ current' = [current EXCEPT ![n] = None]
  /\ breaker' = [breaker EXCEPT ![n] = NewBreaker]
  /\ lost' = [lost EXCEPT ![n] = 0]
  /\ won' = [won EXCEPT ![n] = 0]
  /\ acked' = acked \ {n}
  /\ status' = [status EXCEPT ![n] = "healthy"]
  /\ Await(t, "unregister", n, None, None)
  /\ UNCHANGED <<count, local, redis, check, found>>

ErasePool(t) ==
  /\ pc[t] = "unregister"
  /\ Write(arg[t], None)
  /\ Return(t)
  /\ UNCHANGED <<current, count, status, breaker, local, affinities, health,
                 acked>>

-----------------------------------------------------------------------------
(* The health checks                                                       *)

(* _run_health_checks: the next round starts when gather has seen the end  *)
(* of every check of the last.                                             *)
RunHealthChecks ==
  /\ \A e \in Endpoint : check[e] = "none"
  /\ Registered # {}
  /\ check' = [e \in Endpoint |-> IF e[1] \in Registered /\ e = Current(e[1])
                                  THEN "get" ELSE "none"]
  /\ UNCHANGED <<current, count, status, breaker, local, redis, pc, arg, ep,
                 note, found, lost, won, acked>>

CheckMoves(e, label, data) ==
  /\ check' = [check EXCEPT ![e] = label]
  /\ found' = [found EXCEPT ![e] = data]

(* The status of an endpoint that was replaced is never read. *)
SetStatus(e, st) ==
  status' = IF e = Current(e[1]) THEN [status EXCEPT ![e[1]] = st] ELSE status

(* 200, and the body is read: the pool is healthy, or busy and so degraded. *)
CheckPasses(e) ==
  /\ check[e] = "get"
  /\ e[1] \in Registered
  /\ \E st \in {"healthy", "degraded"} : SetStatus(e, st)
  /\ CheckMoves(e, "save", count[e])
  /\ breaker' = [breaker EXCEPT ![e[1]] = record_success(@)]
  /\ lost' = [lost EXCEPT ![e[1]] = 0]
  /\ won' = [won EXCEPT ![e[1]] = IF @ < HalfOpenMaxCalls THEN @ + 1 ELSE @]
  /\ UNCHANGED <<current, count, local, redis, pc, arg, ep, note, acked>>

(* Seeded fault: a time-out, which leaves the pool degraded, does not      *)
(* count as a failure.                                                     *)
CheckFailsTimeoutsFree(e) ==
  /\ check[e] = "get"
  /\ e[1] \in Registered
  /\ \E st \in {"degraded", "unhealthy"} :
       /\ SetStatus(e, st)
       /\ breaker' = [breaker EXCEPT ![e[1]] =
                        IF st = "degraded" THEN @ ELSE record_failure(@)]
  /\ CheckMoves(e, "save", count[e])
  /\ lost' = [lost EXCEPT ![e[1]] = IF @ < FailureThreshold THEN @ + 1 ELSE @]
  /\ won' = [won EXCEPT ![e[1]] = 0]
  /\ UNCHANGED <<current, count, local, redis, pc, arg, ep, note, acked>>

(* A time-out makes the pool degraded; another status or error, unhealthy. *)
CheckFails(e) ==
  /\ check[e] = "get"
  /\ e[1] \in Registered
  /\ \E st \in {"degraded", "unhealthy"} : SetStatus(e, st)
  /\ CheckMoves(e, "save", count[e])
  /\ breaker' = [breaker EXCEPT ![e[1]] = record_failure(@)]
  /\ lost' = [lost EXCEPT ![e[1]] = IF @ < FailureThreshold THEN @ + 1 ELSE @]
  /\ won' = [won EXCEPT ![e[1]] = 0]
  /\ UNCHANGED <<current, count, local, redis, pc, arg, ep, note, acked>>

(* The pool was unregistered meanwhile: there is no breaker, and the       *)
(* KeyError, raised from within the except branch, ends the check.         *)
CheckOrphan(e) ==
  /\ check[e] = "get"
  /\ e[1] \notin Registered
  /\ CheckMoves(e, "none", None)
  /\ UNCHANGED <<current, count, status, breaker, local, redis, pc, arg, ep, note,
                 lost, won, acked>>

(* _update_pool_metrics at the end of a check. *)
CheckSaves(e) ==
  /\ check[e] = "save"
  /\ Write(e[1], found[e])
  /\ CheckMoves(e, "none", None)
  /\ UNCHANGED <<current, count, status, breaker, local, affinities, pc, arg,
                 ep, note, lost, won, acked>>

-----------------------------------------------------------------------------
(* Time, restarts and the other replicas                                   *)

Tick ==
  /\ \E n \in Registered : breaker[n].since < RecoveryTimeout
  /\ breaker' = [n \in Name |->
       IF breaker[n].since < RecoveryTimeout
       THEN [breaker[n] EXCEPT !.since = @ + 1] ELSE breaker[n]]
  /\ UNCHANGED <<current, count, status, local, redis, pc, arg, ep, note,
                 health, acked>>

(* What start() leaves when it has loaded the pools of known, as objects   *)
(* g.  Their counts are those of the last write.  A status is saved and    *)
(* loaded like a count; here the one found may be any.                     *)
StartWith(known, g) ==
  /\ current' = [n \in Name |-> IF n \in known THEN g ELSE None]
  /\ count' = [e \in Endpoint |-> IF e[1] \in known /\ e[2] = g
                                  THEN saved[e[1]] ELSE 0]
  /\ \E st \in [known -> Status] :
       status' = [n \in Name |-> IF n \in known THEN st[n] ELSE "healthy"]
  /\ breaker' = [n \in Name |-> NewBreaker]
  /\ local' = [s \in Session |-> None]
  /\ pc' = [t \in Task |-> "idle"]
  /\ arg' = [t \in Task |-> None]
  /\ ep' = [t \in Task |-> None]
  /\ note' = [t \in Task |-> None]
  /\ check' = [e \in Endpoint |-> "none"]
  /\ found' = [e \in Endpoint |-> None]
  /\ lost' = [n \in Name |-> 0]
  /\ won' = [n \in Name |-> 0]
  /\ UNCHANGED <<redis, acked>>

(* The process dies and starts again; if HGETALL raises, it has no pools.  *)
Restart ==
  \E g \in Copy :
    \/ StartWith({n \in Name : saved[n] # None}, g)
    \/ RedisMayFail /\ StartWith({}, g)

(* No count is higher than this, here or in another replica. *)
MaxCount == MaxSessions + Cardinality(Caller) - 1

(* Another replica assigns or releases a session, writes the metrics of a  *)
(* pool or registers it, or unregisters it.                                *)
OtherReplica ==
  /\ Shared
  /\ \/ /\ \E s \in Session, n \in Name \cup {None} :
               affinities' = [affinities EXCEPT ![s] = n]
        /\ UNCHANGED <<saved, acked>>
     \/ /\ \E n \in Name, c \in 0 .. MaxCount : saved' = [saved EXCEPT ![n] = c]
        /\ UNCHANGED <<affinities, acked>>
     \/ \E n \in Name : /\ saved' = [saved EXCEPT ![n] = None]
                        /\ acked' = acked \ {n}
                        /\ UNCHANGED affinities
  /\ UNCHANGED <<current, count, status, breaker, local, pc, arg, ep, note,
                 health>>

-----------------------------------------------------------------------------
Continue(t) ==
  \/ Lookup(t) \/ CountSession(t) \/ SaveMetrics(t)
  \/ SaveRelease(t) \/ Forget(t)

AdminContinues(t) == SavePool(t) \/ ErasePool(t)

HealthCheck(e) ==
  CheckPasses(e) \/ CheckFails(e) \/ CheckOrphan(e) \/ CheckSaves(e)

ClientCalls(t) ==
  \E s \in Session : Assign(t, s) \/ \E n \in Name : Release(t, s, n)

OperatorCalls(t) == \E n \in Name : RegisterPool(t, n) \/ UnregisterPool(t, n)

LBNext ==
  \/ \E t \in Caller : ClientCalls(t) \/ Continue(t)
  \/ \E t \in Admin : OperatorCalls(t) \/ AdminContinues(t)
  \/ \E s \in Session : AffinityExpires(s)
  \/ RunHealthChecks
  \/ \E e \in Endpoint : HealthCheck(e)
  \/ Tick
  \/ Restart
  \/ OtherReplica

LBSpec == LBInit /\ [][LBNext]_lbvars

(***************************************************************************)
(* The event loop runs every coroutine whose await is over.  Redis and the *)
(* pools answer or raise; an HTTP request takes 5 seconds at most.  Nobody *)
(* has to call the server.                                                 *)
(***************************************************************************)
LBFairness ==
  /\ \A t \in Caller : WF_lbvars(Continue(t))
  /\ \A t \in Admin : WF_lbvars(AdminContinues(t))
  /\ WF_lbvars(RunHealthChecks)
  /\ \A e \in Endpoint : WF_lbvars(HealthCheck(e))
  /\ WF_lbvars(Tick)

LBFairSpec == LBSpec /\ LBFairness

-----------------------------------------------------------------------------
(* Properties.                                                             *)

(* Requests that picked endpoint e and have not counted their session. *)
Pickers(e) == {t \in Caller : pc[t] = "affinity" /\ ep[t] = e}

(* A pool's count is checked before an await and increased after it, so    *)
(* what one process counts can pass max_sessions, but never by more than   *)
(* the number of requests it serves at once less one, through restarts     *)
(* with the counts another replica saved, lost writes, replaced endpoints  *)
(* and releases.                                                           *)
OvershootBounded ==
  \A e \in Endpoint : count[e] + Cardinality(Pickers(e)) <= MaxCount

(* A pool that failed failure_threshold checks in a row is not picked for  *)
(* a session before recovery_timeout has passed since the last of them,    *)
(* however checks of the old and the new endpoint of that name, picks and  *)
(* the clock interleave.                                                   *)
PicksName(t, n) ==
  pc[t] \in {"idle", "lookup"} /\ pc'[t] = "affinity" /\ ep'[t][1] = n

TrippedPoolsRest ==
  [][\A n \in Name :
       lost[n] >= FailureThreshold /\ breaker[n].since < RecoveryTimeout
         => ~\E t \in Caller : PicksName(t, n)]_lbvars

(* A breaker closes only after half_open_max_calls checks in a row passed; *)
(* a failed half-open period leaves no credit to the next one.             *)
ClosesAfterTests ==
  [][\A n \in Name :
       breaker[n].state # "closed" /\ breaker'[n].state = "closed"
         => \/ won'[n] >= HalfOpenMaxCalls
            \/ won'[n] = 0 /\ breaker'[n] = NewBreaker]_lbvars   \* replaced

(* A registration that was confirmed survives a restart unless it is       *)
(* undone, or was still being undone by an earlier call: metrics written   *)
(* late by requests and checks, overlapping registrations and failing      *)
(* Redis calls never remove it.                                            *)
DurableRegistration == \A n \in acked : saved[n] # None

Registers(n) == current'[n] # current[n]

(* A pool whose checks all fail from some time on ends up behind a breaker *)
(* that does not close again (it may be half-open, for one check), unless  *)
(* the process keeps being restarted, which forgets breakers: checks that  *)
(* fail, or find their pool gone, do not stop the loop that makes them.    *)
DeadPoolAvoided ==
  \A n \in Name :
    (<>[][/\ ~Restart /\ ~Registers(n)
          /\ \A e \in Endpoint : e[1] = n => ~CheckPasses(e)]_lbvars)
      => <>[](n \in Registered => breaker[n].state # "closed")

(* A request looks for a pool, and finds one or not. *)
Looks ==
  \E t \in Caller, s \in Session :
    pc[t] \in {"idle", "lookup"} /\ Select(t, s, local)

(* A pool whose checks all pass from some time on is in service again,     *)
(* provided there are requests that look for a pool: only they move a      *)
(* breaker from open to half-open.                                         *)
RecoveredPoolReturns ==
  \A n \in Name :
    /\ <>[][/\ ~Restart /\ ~Registers(n)
            /\ \A e \in Endpoint : e[1] = n => ~CheckFails(e)]_lbvars
    /\ []<><<Looks>>_lbvars
    => <>[](breaker[n].state = "closed")
=============================================================================
