---------------------------- MODULE OperatorPools ----------------------------
(***************************************************************************)
(* k8s/controllers/operator.py: the handlers of ExecutorPool resources.    *)
(* kopf (external) runs one handler of a pool at a time and calls one that *)
(* raised or was cut off again from its beginning, for ever.  What a       *)
(* handler returns it puts under status.<handler's id>, where nobody       *)
(* reads, and which is no field of the resource's schema: no result has an *)
(* effect.  The Kubernetes client blocks: while a handler runs, so does    *)
(* the event loop, and only users, an autoscaler and the end of the        *)
(* process come between two of its calls.                                  *)
(***************************************************************************)
EXTENDS Naturals

CONSTANTS
  Pool,       \* names of pools
  Size,       \* numbers of replicas
  ApiMayFail  \* may a call of the Kubernetes API raise?

ASSUME PoolsAssumption ==
  /\ Size \subseteq Nat /\ 0 \in Size
  /\ ApiMayFail \in BOOLEAN

VARIABLES
  up,        \* the operator's process runs
  cr,        \* cr[q]: the ExecutorPool
  min,       \* min[q]: its spec.minReplicas, which may be 0
  owes,      \* owes[q]: handlers kopf has still to call for q
  has,       \* has[q]: the objects executor-pool-q that exist
  replicas,  \* replicas[q]: spec.replicas of the Deployment, 0 without one
  at,        \* at[q]: the next call of the handler that runs for q
  given,     \* given[q]: the minReplicas that handler was given
  refused    \* history: objects the API refused to delete at the last deletion

objects == <<has, replicas>>
handlers == <<at, given>>
opvars == <<up, cr, min, owes, objects, handlers, refused>>

Kind == {"ConfigMap", "Deployment", "Service", "HPA"}

(* create_executor_pool makes one object after the other, each at a call   *)
(* named for it; delete_executor_pool goes the other way.                  *)
AfterPut == [ConfigMap |-> "Deployment", Deployment |-> "Service",
             Service |-> "HPA"]

AfterDrop == [HPA |-> "Service", Service |-> "Deployment",
              Deployment |-> "ConfigMap", ConfigMap |-> "return"]

Idle == <<"none", "none">>
Step == {Idle, <<"delete", "return">>} \cup ({"create", "delete"} \X Kind)

OPTypeOK ==
  /\ up \in BOOLEAN
  /\ cr \in [Pool -> {"absent", "present", "deleting"}]
  /\ min \in [Pool -> Size]
  /\ owes \in [Pool -> SUBSET {"create", "update", "delete"}]
  /\ has \in [Pool -> SUBSET Kind]
  /\ replicas \in [Pool -> Size]
  /\ at \in [Pool -> Step]
  /\ given \in [Pool -> Size]
  /\ refused \in [Pool -> SUBSET Kind]
  /\ \A q \in Pool : "Deployment" \notin has[q] => replicas[q] = 0

OPInit ==
  /\ up = TRUE
  /\ cr = [q \in Pool |-> "absent"]
  /\ min = [q \in Pool |-> 0]
  /\ owes = [q \in Pool |-> {}]
  /\ has = [q \in Pool |-> {}]
  /\ replicas = [q \in Pool |-> 0]
  /\ at = [q \in Pool |-> Idle]
  /\ given = [q \in Pool |-> 0]
  /\ refused = [q \in Pool |-> {}]

-----------------------------------------------------------------------------
(* Users.                                                                  *)

(* kopf calls the handler of the spec field for a new resource, too. *)
CreatePool(q, m) ==
  /\ cr[q] = "absent"
  /\ cr' = [cr EXCEPT ![q] = "present"]
  /\ min' = [min EXCEPT ![q] = m]
  /\ owes' = [owes EXCEPT ![q] = {"create", "update"}]
  /\ refused' = [refused EXCEPT ![q] = {}]
  /\ UNCHANGED <<up, objects, handlers>>

(* While the creation is not handled kopf takes an edit for a part of it,  *)
(* so the handler of the spec field may have been called for good.         *)
EditPool(q, m) ==
  /\ cr[q] = "present"
  /\ m # min[q]
  /\ min' = [min EXCEPT ![q] = m]
  /\ \/ owes' = [owes EXCEPT ![q] = @ \cup {"update"}]
     \/ UNCHANGED owes
  /\ UNCHANGED <<up, cr, objects, handlers, refused>>

(* The resource stays until the delete handler has returned. *)
DeletePool(q) ==
  /\ cr[q] = "present"
  /\ cr' = [cr EXCEPT ![q] = "deleting"]
  /\ owes' = [owes EXCEPT ![q] = {"delete"}]
  /\ UNCHANGED <<up, min, objects, handlers, refused>>

-----------------------------------------------------------------------------
(* The event loop                                                          *)

(* No handler is in the middle of its calls. *)
LoopFree == up /\ \A q \in Pool : at[q] = Idle

Goto(q, there) == at' = [at EXCEPT ![q] = there]

(* The handler of q is over: it has returned, raised or was cut off. *)
Leave(q) == Goto(q, Idle) /\ given' = [given EXCEPT ![q] = 0]

BeginCreate(q) ==
  /\ LoopFree
  /\ "create" \in owes[q]
  /\ Goto(q, <<"create", "ConfigMap">>)
  /\ given' = [given EXCEPT ![q] = min[q]]
  /\ UNCHANGED <<up, cr, min, owes, objects, refused>>

BeginDelete(q) ==
  /\ LoopFree
  /\ "delete" \in owes[q]
  /\ Goto(q, <<"delete", "HPA">>)
  /\ refused' = [refused EXCEPT ![q] = {}]
  /\ UNCHANGED <<up, cr, min, owes, objects, given>>

(* What the Deployment of q says when an object of that kind was written,  *)
(* or deleted.                                                             *)
Describe(q, kind, size) ==
  replicas' = IF kind = "Deployment" THEN [replicas EXCEPT ![q] = size]
                                     ELSE replicas

-----------------------------------------------------------------------------
(* create_executor_pool                                                    *)

(* Seeded fault: an object that is there already (409) is left as it is. *)
PutNew(q, kind) ==
  /\ at[q] = <<"create", kind>>
  /\ has' = [has EXCEPT ![q] = @ \cup {kind}]
  /\ IF kind \in has[q] THEN UNCHANGED replicas ELSE Describe(q, kind, given[q])
  /\ Goto(q, <<"create", AfterPut[kind]>>)
  /\ UNCHANGED <<up, cr, min, owes, given, refused>>

(* create_namespaced_...; if the object is there already (409), it is      *)
(* patched to what it should be, which resets the size of a Deployment.    *)
Put(q, kind) ==
  /\ at[q] = <<"create", kind>>
  /\ has' = [has EXCEPT ![q] = @ \cup {kind}]
  /\ Describe(q, kind, given[q])
  /\ Goto(q, <<"create", AfterPut[kind]>>)
  /\ UNCHANGED <<up, cr, min, owes, given, refused>>

(* Any other error leaves the handler: kopf will call it again. *)
PutFails(q, kind) ==
  /\ ApiMayFail
  /\ at[q] = <<"create", kind>>
  /\ Leave(q)
  /\ UNCHANGED <<up, cr, min, owes, objects, refused>>

(* The body of the autoscaler cannot be built: V2HPAScalingPolicy of the   *)
(* pinned client has no stabilization_window_seconds and no policies, and  *)
(* the TypeError, outside of the try, leaves the handler.  It never comes  *)
(* to the call of the API, to its result, or to its end.                   *)
BuildHPA(q) ==
  /\ at[q] = <<"create", "HPA">>
  /\ Leave(q)
  /\ UNCHANGED <<up, cr, min, owes, objects, refused>>

-----------------------------------------------------------------------------
(* delete_executor_pool                                                    *)

(* Seeded fault: one try around the four deletes. *)
DropOrStop(q, kind) ==
  /\ at[q] = <<"delete", kind>>
  /\ \/ /\ has' = [has EXCEPT ![q] = @ \ {kind}]
        /\ Describe(q, kind, 0)
        /\ Goto(q, <<"delete", AfterDrop[kind]>>)
        /\ UNCHANGED refused
     \/ /\ ApiMayFail
        /\ refused' = [refused EXCEPT ![q] = @ \cup ({kind} \cap has[q])]
        /\ Goto(q, <<"delete", "return">>)
        /\ UNCHANGED objects
  /\ UNCHANGED <<up, cr, min, owes, given>>

(* The object is gone (or was: 404), or an error is logged and it stays.   *)
Drop(q, kind) ==
  /\ at[q] = <<"delete", kind>>
  /\ \/ /\ has' = [has EXCEPT ![q] = @ \ {kind}]
        /\ Describe(q, kind, 0)
        /\ UNCHANGED refused
     \/ /\ ApiMayFail
        /\ refused' = [refused EXCEPT ![q] = @ \cup ({kind} \cap has[q])]
        /\ UNCHANGED objects
  /\ Goto(q, <<"delete", AfterDrop[kind]>>)
  /\ UNCHANGED <<up, cr, min, owes, given>>

(* kopf lets the resource go, whatever was left behind. *)
DeleteReturns(q) ==
  /\ at[q] = <<"delete", "return">>
  /\ cr' = [cr EXCEPT ![q] = "absent"]
  /\ owes' = [owes EXCEPT ![q] = {}]
  /\ min' = [min EXCEPT ![q] = 0]
  /\ Leave(q)
  /\ UNCHANGED <<up, objects, refused>>

-----------------------------------------------------------------------------
(* update_executor_pool, and what is not the operator.  (The timer         *)
(* update_pool_metrics reads and returns figures: it changes nothing.)     *)

(* Seeded fault: a missing Deployment is taken for one with no replicas.   *)
UpdatePoolUnread(q) ==
  /\ LoopFree
  /\ "update" \in owes[q]
  /\ \/ replicas[q] < min[q] /\ replicas' = [replicas EXCEPT ![q] = min[q]]
     \/ (replicas[q] >= min[q] \/ ApiMayFail) /\ UNCHANGED replicas
  /\ owes' = [owes EXCEPT ![q] = @ \ {"update"}]
  /\ UNCHANGED <<up, cr, min, has, handlers, refused>>

(* The Deployment is read and, if it is too small, patched: one step, as   *)
(* the API refuses a patch made from an object that changed meanwhile.     *)
(* Errors (there may be no Deployment) are logged.                         *)
UpdatePool(q) ==
  /\ LoopFree
  /\ "update" \in owes[q]
  /\ \/ /\ "Deployment" \in has[q]
        /\ replicas[q] < min[q]
        /\ replicas' = [replicas EXCEPT ![q] = min[q]]
     \/ /\ "Deployment" \notin has[q] \/ replicas[q] >= min[q] \/ ApiMayFail
        /\ UNCHANGED replicas
  /\ owes' = [owes EXCEPT ![q] = @ \ {"update"}]
  /\ UNCHANGED <<up, cr, min, has, handlers, refused>>

(* A user, or an autoscaler made by hand (external), sets the size. *)
Rescale(q, n) ==
  /\ "Deployment" \in has[q]
  /\ replicas' = [replicas EXCEPT ![q] = n]
  /\ UNCHANGED <<up, cr, min, owes, has, handlers, refused>>

(* The operator's process ends, and is started again. *)
Crash ==
  /\ up
  /\ up' = FALSE
  /\ at' = [q \in Pool |-> Idle]
  /\ given' = [q \in Pool |-> 0]
  /\ UNCHANGED <<cr, min, owes, objects, refused>>

Start ==
  /\ ~up
  /\ up' = TRUE
  /\ UNCHANGED <<cr, min, owes, objects, handlers, refused>>

-----------------------------------------------------------------------------
User(q) ==
  \/ \E m \in Size : CreatePool(q, m) \/ EditPool(q, m) \/ Rescale(q, m)
  \/ DeletePool(q)

Makes(q) == \E kind \in Kind \ {"HPA"} : Put(q, kind)

Fails(q) == \E kind \in Kind \ {"HPA"} : PutFails(q, kind)

(* The handler that runs for q comes to its next call. *)
Continues(q) ==
  \/ Makes(q) \/ Fails(q) \/ BuildHPA(q)
  \/ (\E kind \in Kind : Drop(q, kind)) \/ DeleteReturns(q)

PoolStep ==
  \/ \E q \in Pool :
       \/ User(q)
       \/ BeginCreate(q) \/ BeginDelete(q) \/ Continues(q)
       \/ UpdatePool(q)
  \/ Start

OPNext == PoolStep \/ Crash

OPSpec == OPInit /\ [][OPNext]_opvars

-----------------------------------------------------------------------------
(* Properties.                                                             *)

(* A delete handler that was cut off, or met a failing API, or objects a   *)
(* create handler had half made, or those of an earlier pool of that name, *)
(* leaves nothing behind but what the API refused to delete (and its log   *)
(* names).                                                                 *)
OnlyRefusedRemains ==
  \A q \in Pool : cr[q] = "absent" => has[q] \subseteq refused[q]
=============================================================================
