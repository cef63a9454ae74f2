--------------------------- MODULE OperatorSessions ---------------------------
(***************************************************************************)
(* k8s/controllers/operator.py: the handlers of ExecutorSession resources, *)
(* beside those of the pool the sessions refer to.  All run on one event   *)
(* loop, which only waits where a handler waits for Redis.                 *)
(*                                                                         *)
(* The handlers read status.phase, status.podName and status.redisKey, but *)
(* nothing writes them (see OperatorPools: no result has an effect).  So   *)
(* reconcile_sessions, which acts on an Active or a Pending session, never *)
(* does anything; get_sessions_on_pod never finds a session; and the       *)
(* delete handler never finds a key to delete.                             *)
(***************************************************************************)
EXTENDS OperatorPools

CONSTANTS
  Session,      \* names of ExecutorSession resources, and their sessionId
  PoolRef,      \* spec.poolRef of the sessions
  Pod,          \* names of pods of that pool
  NoPod,        \* no pod, no key
  Persist,      \* sessions with spec.persist
  RedisMayFail  \* may a call of Redis raise?

ASSUME SessionsAssumption ==
  /\ PoolRef \in Pool
  /\ Persist \subseteq Session
  /\ NoPod \notin Pod
  /\ RedisMayFail \in BOOLEAN

VARIABLES
  sr,       \* sr[s]: the ExecutorSession
  step,     \* step[s]: where the create handler of s is
  target,   \* target[s]: the pod the create handler has chosen
  handled,  \* sessions whose create handler is done, as kopf has noted
  running,  \* pods in phase Running
  stored,   \* stored[s]: pod_name in the hash executor:session:s in Redis
  expires   \* expires[s]: that key has a time to live

creating == <<step, target, handled>>
redis == <<stored, expires>>
ssvars == <<sr, creating, running, redis>>
osvars == <<opvars, ssvars>>

(* "new": to be called; "hset", "expire": waits for Redis; "active",       *)
(* "pending", "failed": what it returned.                                  *)
Returned == {"active", "pending", "failed"}
SessionSteps == {"new", "hset", "expire"} \cup Returned

OSTypeOK ==
  /\ sr \in [Session -> {"absent", "present", "deleting"}]
  /\ step \in [Session -> SessionSteps]
  /\ target \in [Session -> Pod \cup {NoPod}]
  /\ handled \in SUBSET Session
  /\ running \in SUBSET Pod
  /\ stored \in [Session -> Pod \cup {NoPod}]
  /\ expires \in [Session -> BOOLEAN]
  /\ \A s \in Session :
       /\ target[s] # NoPod <=> step[s] \in {"hset", "expire", "active"}
       /\ s \in handled => step[s] \in Returned /\ sr[s] # "absent"

OSInit ==
  /\ OPInit
  /\ sr = [s \in Session |-> "absent"]
  /\ step = [s \in Session |-> "new"]
  /\ target = [s \in Session |-> NoPod]
  /\ handled = {}
  /\ running = {}
  /\ stored = [s \in Session |-> NoPod]
  /\ expires = [s \in Session |-> FALSE]

-----------------------------------------------------------------------------
(* Users.                                                                  *)

CreateSession(s) ==
  /\ sr[s] = "absent"
  /\ sr' = [sr EXCEPT ![s] = "present"]
  /\ UNCHANGED <<creating, running, redis>>

(* The resource stays until the delete handler has returned. *)
DeleteSession(s) ==
  /\ sr[s] = "present"
  /\ sr' = [sr EXCEPT ![s] = "deleting"]
  /\ UNCHANGED <<creating, running, redis>>

-----------------------------------------------------------------------------
(* create_executor_session                                                 *)

(* The create handler of s goes on to there, p being its pod. *)
Goes(s, there, p) ==
  /\ step' = [step EXCEPT ![s] = there]
  /\ target' = [target EXCEPT ![s] = p]
  /\ UNCHANGED handled

(* kopf calls the create handler. *)
Called(s) == LoopFree /\ sr[s] = "present" /\ step[s] = "new"

(* The first running pod of the list: get_sessions_on_pod finds no session *)
(* on it, so no pod is ever full.                                          *)
PlaceOn(s, p) ==
  /\ Called(s)
  /\ p \in running
  /\ Goes(s, IF s \in Persist THEN "hset" ELSE "active", p)
  /\ UNCHANGED <<sr, running, redis>>

(* No pod runs: the session is queued.  Or the pods cannot be listed: it   *)
(* has failed, and is not tried again.                                     *)
PlaceNowhere(s) ==
  /\ Called(s)
  /\ \/ running = {} /\ Goes(s, "pending", NoPod)
     \/ ApiMayFail /\ Goes(s, "failed", NoPod)
  /\ UNCHANGED <<sr, running, redis>>

(* Seeded fault: HSETNX, a key that is there is kept. *)
HsetOnce(s) ==
  /\ step[s] = "hset"
  /\ stored' = [stored EXCEPT ![s] = IF @ = NoPod THEN target[s] ELSE @]
  /\ Goes(s, "expire", target[s])
  /\ UNCHANGED <<sr, running, expires>>

(* Seeded fault: the time to live is left to a later call. *)
HsetAlone(s) ==
  /\ step[s] = "hset"
  /\ stored' = [stored EXCEPT ![s] = target[s]]
  /\ Goes(s, "active", target[s])
  /\ UNCHANGED <<sr, running, expires>>

(* HSET leaves the time to live of a key that exists as it is. *)
Hset(s) ==
  /\ step[s] = "hset"
  /\ stored' = [stored EXCEPT ![s] = target[s]]
  /\ Goes(s, "expire", target[s])
  /\ UNCHANGED <<sr, running, expires>>

Expire(s) ==
  /\ step[s] = "expire"
  /\ expires' = [expires EXCEPT ![s] = stored[s] # NoPod]
  /\ Goes(s, "active", target[s])
  /\ UNCHANGED <<sr, running, stored>>

(* Seeded fault: the exception leaves the handler, which kopf calls again. *)
RedisRaises(s, call) ==
  /\ RedisMayFail
  /\ step[s] = call
  /\ Goes(s, "new", NoPod)
  /\ UNCHANGED <<sr, running, redis>>

(* Seeded fault: the result still names the pod. *)
RedisFailsOn(s, call) ==
  /\ RedisMayFail
  /\ step[s] = call
  /\ Goes(s, "failed", target[s])
  /\ UNCHANGED <<sr, running, redis>>

(* Any exception makes the session Failed; what is in Redis stays. *)
RedisFails(s, call) ==
  /\ RedisMayFail
  /\ step[s] = call
  /\ Goes(s, "failed", NoPod)
  /\ UNCHANGED <<sr, running, redis>>

(* kopf writes that the handler is done, on the resource. *)
Noted(s) ==
  /\ step[s] \in Returned
  /\ s \notin handled
  /\ handled' = handled \cup {s}
  /\ UNCHANGED <<sr, step, target, running, redis>>

-----------------------------------------------------------------------------
(* delete_executor_session, once no create handler is under way: there is  *)
(* no key in the status, so nothing is deleted, and kopf lets the resource *)
(* go.                                                                     *)
DeleteHandled(s) ==
  /\ LoopFree
  /\ sr[s] = "deleting"
  /\ step[s] = "new" \/ s \in handled
  /\ sr' = [sr EXCEPT ![s] = "absent"]
  /\ step' = [step EXCEPT ![s] = "new"]
  /\ target' = [target EXCEPT ![s] = NoPod]
  /\ handled' = handled \ {s}
  /\ UNCHANGED <<running, redis>>

(* With the process end the handlers that kopf has not noted as done: they *)
(* will be called again.                                                   *)
CutOff ==
  /\ step' = [s \in Session |-> IF s \in handled THEN step[s] ELSE "new"]
  /\ target' = [s \in Session |-> IF s \in handled THEN target[s] ELSE NoPod]
  /\ UNCHANGED <<sr, handled, running, redis>>

-----------------------------------------------------------------------------
(* What is not the operator: pods of the pool's Deployment come and go,    *)
(* and keys expire.                                                        *)

PodStarts(p) ==
  /\ replicas[PoolRef] > 0
  /\ running' = running \cup {p}
  /\ UNCHANGED <<sr, creating, redis>>

PodStops(p) ==
  /\ running' = running \ {p}
  /\ UNCHANGED <<sr, creating, redis>>

KeyExpires(s) ==
  /\ expires[s]
  /\ stored' = [stored EXCEPT ![s] = NoPod]
  /\ expires' = [expires EXCEPT ![s] = FALSE]
  /\ UNCHANGED <<sr, creating, running>>

-----------------------------------------------------------------------------
Place(s) == PlaceNowhere(s) \/ \E p \in Pod : PlaceOn(s, p)

AwaitsRedis(s) ==
  \/ Hset(s) \/ RedisFails(s, "hset")
  \/ Expire(s) \/ RedisFails(s, "expire")

SessionStep ==
  \/ \E s \in Session :
       \/ CreateSession(s) \/ DeleteSession(s)
       \/ Place(s) \/ AwaitsRedis(s) \/ Noted(s) \/ DeleteHandled(s)
       \/ KeyExpires(s)
  \/ \E p \in Pod : PodStarts(p) \/ PodStops(p)

OSNext ==
  \/ PoolStep /\ UNCHANGED ssvars
  \/ SessionStep /\ UNCHANGED opvars
  \/ Crash /\ CutOff

OSSpec == OSInit /\ [][OSNext]_osvars

(***************************************************************************)
(* kopf calls the handlers it owes, in turn on the one event loop; a call  *)
(* of Kubernetes or Redis ends.  (Nobody is obliged to call anything, the  *)
(* API may fail at every try, and the operator may restart at any time.)   *)
(***************************************************************************)
OSFairness ==
  /\ \A q \in Pool :
       /\ SF_osvars((BeginCreate(q) \/ BeginDelete(q)) /\ UNCHANGED ssvars)
       /\ WF_osvars(Continues(q) /\ UNCHANGED ssvars)
  /\ \A s \in Session :
       /\ SF_osvars(Place(s) /\ UNCHANGED opvars)
       /\ WF_osvars((AwaitsRedis(s) \/ Noted(s)) /\ UNCHANGED opvars)

OSFairSpec == OSSpec /\ OSFairness

-----------------------------------------------------------------------------
(* Properties.                                                             *)

(* The key of a session that was placed is about the pod it was placed on, *)
(* as long as the key lives: also if the operator stopped between the      *)
(* write to Redis and kopf's note and placed the session anew, and if an   *)
(* earlier session of that name left its key behind, as all of them do.    *)
StoredPodAgrees ==
  \A s \in Session \cap Persist :
    step[s] = "active" /\ stored[s] # NoPod => stored[s] = target[s]

(* The key of a session that was placed has a time to live: nothing else   *)
(* ever removes it.  (A handler that fails or is cut off between HSET and  *)
(* EXPIRE, and then fails or queues the session, leaves one without.)      *)
PlacedKeysExpire ==
  \A s \in Session \cap Persist :
    step[s] = "active" /\ stored[s] # NoPod => expires[s]

(* Unless the API fails or the operator restarts for ever: the Deployment  *)
(* of a pool that stays as it is has its minimum of replicas again and     *)
(* again, whatever the autoscaler does, although the create handler never  *)
(* succeeds and edits may not be handed on; and a deletion comes to its    *)
(* end.                                                                    *)
PoolsSettle ==
  <>[]up =>
    \A q \in Pool :
      /\ \A m \in Size :
           <>[][~Fails(q)]_osvars /\ <>[](cr[q] = "present" /\ min[q] = m) =>
             []<>("Deployment" \in has[q] /\ replicas[q] >= m)
      /\ (cr[q] = "deleting") ~> (cr[q] = "absent")

(* A session's creation is answered, unless restarts go on for ever:       *)
(* placed, queued or failed.  A Redis that fails at every try does not     *)
(* have kopf call the handler for ever.                                    *)
SessionsAnswered ==
  <>[]up =>
    \A s \in Session : (sr[s] = "present") ~> (s \in handled \/ sr[s] # "present")

(* "Waiting for available capacity" is what a queued session's condition   *)
(* says, and that the timer is there to "assign pending session": it is    *)
(* placed if the pool keeps a pod running.                                 *)
QueuedSessionsPlaced ==
  <>[]up =>
    \A s \in Session :
      step[s] = "pending" /\ s \in handled
        ~> step[s] # "pending" \/ running = {} \/ replicas[PoolRef] = 0
=============================================================================
