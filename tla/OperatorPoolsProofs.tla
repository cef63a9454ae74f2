-------------------------- MODULE OperatorPoolsProofs --------------------------
(***************************************************************************)
(* Proofs about OperatorPools, for any number of pools and any sizes, with *)
(* and without failing calls.  The inductive invariant is                  *)
(*                                                                         *)
(*   OPTypeOK /\ HandlerInv /\ DropInv /\ OnlyRefusedRemains               *)
(*            /\ OneHandlerAtATime                                         *)
(***************************************************************************)
EXTENDS OperatorPools, TLAPS

(* What kopf owes, and what the handlers know: a resource that is gone has *)
(* none; a delete handler is only owed and called for a resource that is   *)
(* being deleted, for which no other handler is called any more.           *)
HandlerInv ==
  \A q \in Pool :
    /\ cr[q] = "absent" => owes[q] = {} /\ at[q] = Idle
    /\ cr[q] = "present" => "delete" \notin owes[q] /\ "create" \in owes[q]
    /\ cr[q] = "deleting" => owes[q] = {"delete"}
    /\ at[q][1] = "delete" => cr[q] = "deleting"

(* The objects a delete handler has still to delete. *)
Remaining == [HPA |-> Kind, Service |-> Kind \ {"HPA"},
              Deployment |-> {"Deployment", "ConfigMap"},
              ConfigMap |-> {"ConfigMap"}, return |-> {}]

(* What it has passed is gone, or was refused. *)
DropInv ==
  \A q \in Pool :
    at[q][1] = "delete" => has[q] \subseteq Remaining[at[q][2]] \cup refused[q]

(* A handler in the middle of its calls has the event loop to itself. *)
OneHandlerAtATime ==
  /\ \A q, r \in Pool : at[q] # Idle /\ at[r] # Idle => q = r
  /\ ~up => \A q \in Pool : at[q] = Idle

OPInv == OPTypeOK /\ HandlerInv /\ DropInv /\ OnlyRefusedRemains /\ OneHandlerAtATime

LEMMA OPInitInv == OPInit => OPInv
  BY PoolsAssumption, SMT
  DEF OPInit, OPInv, OPTypeOK, HandlerInv, DropInv, OnlyRefusedRemains,
      OneHandlerAtATime, Step, Idle, Kind

LEMMA OPStepInv == OPInv /\ [OPNext]_opvars => OPInv'
<1> SUFFICES ASSUME OPInv, [OPNext]_opvars PROVE OPInv'
  OBVIOUS
<1> USE PoolsAssumption DEF OPInv, OPTypeOK, HandlerInv, DropInv, OnlyRefusedRemains,
        OneHandlerAtATime
<1>1. CASE UNCHANGED opvars
  BY <1>1, SMT DEF opvars, objects, handlers
<1>2. ASSUME NEW q \in Pool, NEW m \in Size, CreatePool(q, m)
      PROVE  OPInv'
  BY <1>2, SMT DEF CreatePool, objects, handlers, Idle
<1>3. ASSUME NEW q \in Pool, NEW m \in Size, EditPool(q, m)
      PROVE  OPInv'
  BY <1>3, SMT DEF EditPool, objects, handlers
<1>4. ASSUME NEW q \in Pool, DeletePool(q)
      PROVE  OPInv'
  BY <1>4, SMT DEF DeletePool, objects, handlers
<1>5. ASSUME NEW q \in Pool, BeginCreate(q)
      PROVE  OPInv'
  BY <1>5, SMT DEF BeginCreate, LoopFree, Goto, objects, Step, Idle, Kind
<1>6. ASSUME NEW q \in Pool, BeginDelete(q)
      PROVE  OPInv'
  BY <1>6, SMT DEF BeginDelete, LoopFree, Goto, Remaining, objects, Step, Idle, Kind
<1>7. ASSUME NEW q \in Pool, NEW kind \in Kind \ {"HPA"}, Put(q, kind)
      PROVE  OPInv'
  BY <1>7, SMT DEF Put, Describe, Goto, AfterPut, Step, Idle, Kind
<1>8. ASSUME NEW q \in Pool, Fails(q) \/ BuildHPA(q)
      PROVE  OPInv'
  BY <1>8, SMT DEF Fails, PutFails, BuildHPA, Leave, Goto, objects, Step, Idle
<1>9. ASSUME NEW q \in Pool, NEW kind \in Kind, Drop(q, kind)
      PROVE  OPInv'
  <2>1. /\ at[q] = <<"delete", kind>> /\ cr[q] = "deleting"
        /\ at' = [at EXCEPT ![q] = <<"delete", AfterDrop[kind]>>]
        /\ UNCHANGED <<up, cr, min, owes, given>>
    BY <1>9 DEF Drop, Goto
  <2>2. \/ /\ has' = [has EXCEPT ![q] = @ \ {kind}]
           /\ Describe(q, kind, 0)
           /\ UNCHANGED refused
        \/ /\ refused' = [refused EXCEPT ![q] = @ \cup ({kind} \cap has[q])]
           /\ UNCHANGED <<has, replicas>>
    BY <1>9 DEF Drop, objects
  <2>3. OPTypeOK'
    <3>1. at' \in [Pool -> Step]
      BY <2>1, SMT DEF AfterDrop, Step, Kind
    <3>2. /\ has' \in [Pool -> SUBSET Kind] /\ replicas' \in [Pool -> Size]
          /\ \A p \in Pool : "Deployment" \notin has'[p] => replicas'[p] = 0
      BY <2>2, SMT DEF Describe, Kind
    <3>3. refused' \in [Pool -> SUBSET Kind]
      BY <2>2
    <3> QED
      BY <2>1, <3>1, <3>2, <3>3
  <2>4. HandlerInv' /\ OneHandlerAtATime'
    BY <2>1, SMT DEF Idle
  <2>5. DropInv'
    BY <2>1, <2>2, SMT DEF AfterDrop, Remaining, Kind
  <2>6. OnlyRefusedRemains'
    BY <2>1, <2>2, SMT
  <2> QED
    BY <2>3, <2>4, <2>5, <2>6
<1>10. ASSUME NEW q \in Pool, DeleteReturns(q)
       PROVE  OPInv'
  BY <1>10, SMT DEF DeleteReturns, Leave, Goto, objects, Remaining, Step, Idle
<1>11. ASSUME NEW q \in Pool, UpdatePool(q)
       PROVE  OPInv'
  BY <1>11, SMT DEF UpdatePool, handlers
<1>12. ASSUME NEW q \in Pool, NEW n \in Size, Rescale(q, n)
       PROVE  OPInv'
  BY <1>12, SMT DEF Rescale, handlers
<1>13. CASE Crash
  <2>1. /\ up' = FALSE /\ at' = [p \in Pool |-> Idle] /\ given' = [p \in Pool |-> 0]
        /\ UNCHANGED <<cr, min, owes, has, replicas, refused>>
    BY <1>13 DEF Crash, objects
  <2>2. up' \in BOOLEAN
    BY <2>1
  <2>3. OPTypeOK' /\ HandlerInv' /\ DropInv' /\ OnlyRefusedRemains'
    BY <2>1, <2>2, SMT DEF Step, Idle
  <2>4. OneHandlerAtATime'
    BY <2>1
  <2> QED
    BY <2>3, <2>4
<1>14. CASE Start
  <2>1. /\ up' = TRUE /\ ~up
        /\ UNCHANGED <<cr, min, owes, has, replicas, at, given, refused>>
    BY <1>14 DEF Start, objects, handlers
  <2>2. up' \in BOOLEAN
    BY <2>1
  <2>3. OPTypeOK' /\ HandlerInv' /\ DropInv' /\ OnlyRefusedRemains'
    BY <2>1, <2>2, SMT
  <2>4. OneHandlerAtATime'
    BY <2>1
  <2> QED
    BY <2>3, <2>4
<1> QED
  BY <1>1, <1>2, <1>3, <1>4, <1>5, <1>6, <1>7, <1>8, <1>9, <1>10, <1>11,
     <1>12, <1>13, <1>14
  DEF OPNext, PoolStep, User, Continues, Makes

LEMMA OPInvHolds == OPSpec => []OPInv
  BY OPInitInv, OPStepInv, PTL DEF OPSpec

(* Type correctness, for any sizes, 0 among them: without a Deployment     *)
(* there are no replicas.                                                  *)
THEOREM OPTypeCorrect == OPSpec => []OPTypeOK
  BY OPInvHolds, PTL DEF OPInv

(* What is left of a deleted pool is what the API refused to delete.       *)
THEOREM DeletedPoolsGone == OPSpec => []OnlyRefusedRemains
  BY OPInvHolds, PTL DEF OPInv

(* The event loop, blocked by every call of the Kubernetes client, never   *)
(* has two handlers between two of their calls.                            *)
THEOREM HandlersAlone == OPSpec => []OneHandlerAtATime
  BY OPInvHolds, PTL DEF OPInv

-----------------------------------------------------------------------------
(* What becomes of a deletion.                                             *)

(* The calls of the delete handler that are left, with those before it of  *)
(* a create handler that was under way when the pool was deleted.          *)
CreateLeft == [ConfigMap |-> 10, Deployment |-> 9, Service |-> 8, HPA |-> 7]

DeleteLeft == [HPA |-> 5, Service |-> 4, Deployment |-> 3, ConfigMap |-> 2,
               return |-> 1]

CallsLeft(q) ==
  IF at[q] = Idle THEN 6
  ELSE IF at[q][1] = "create" THEN CreateLeft[at[q][2]] ELSE DeleteLeft[at[q][2]]

(* The safety half of PoolsSettle, as to a deletion: while the operator is *)
(* up every step of a handler brings the deletion nearer to its end,       *)
(* whatever fails, and nobody else sets it back.                           *)
DeletionAdvances ==
  [][\A q \in Pool :
       cr[q] = "deleting" /\ cr'[q] = "deleting" /\ up' =>
         at'[q] = at[q] \/ CallsLeft(q)' < CallsLeft(q)]_opvars

LEMMA DeletionStep ==
  ASSUME OPInv, OPNext, NEW q \in Pool, cr[q] = "deleting", cr'[q] = "deleting", up'
  PROVE  at'[q] = at[q] \/ CallsLeft(q)' < CallsLeft(q)
<1> DEFINE Nearer == at'[q] = at[q] \/ CallsLeft(q)' < CallsLeft(q)
<1> USE DEF OPInv, OPTypeOK, HandlerInv
<1>1. ASSUME UNCHANGED at
      PROVE  Nearer
  BY <1>1
<1>2. ASSUME NEW p \in Pool, BeginCreate(p)
      PROVE  Nearer
  BY <1>2, SMT DEF BeginCreate, Goto
<1>3. ASSUME NEW p \in Pool, BeginDelete(p)
      PROVE  Nearer
  BY <1>3, SMT DEF BeginDelete, LoopFree, Goto, CallsLeft, DeleteLeft, Idle
<1>4. ASSUME NEW p \in Pool, NEW kind \in Kind \ {"HPA"}, Put(p, kind)
      PROVE  Nearer
  BY <1>4, SMT DEF Put, Goto, AfterPut, CallsLeft, CreateLeft, Idle, Kind
<1>5. ASSUME NEW p \in Pool, NEW kind \in Kind, PutFails(p, kind)
      PROVE  Nearer
  BY <1>5, SMT DEF PutFails, Leave, Goto, CallsLeft, CreateLeft, Idle, Kind
<1>6. ASSUME NEW p \in Pool, BuildHPA(p)
      PROVE  Nearer
  BY <1>6, SMT DEF BuildHPA, Leave, Goto, CallsLeft, CreateLeft, Idle
<1>7. ASSUME NEW p \in Pool, NEW kind \in Kind, Drop(p, kind)
      PROVE  Nearer
  BY <1>7, SMT DEF Drop, Goto, AfterDrop, CallsLeft, DeleteLeft, Idle, Kind
<1>8. ASSUME NEW p \in Pool, DeleteReturns(p)
      PROVE  Nearer
  BY <1>8, SMT DEF DeleteReturns, Leave, Goto
<1>9. ~Crash
  BY DEF Crash
<1> QED
  BY <1>1, <1>2, <1>3, <1>4, <1>5, <1>6, <1>7, <1>8, <1>9
  DEF OPNext, PoolStep, User, Continues, Makes, Fails, CreatePool, EditPool,
      DeletePool, Rescale, UpdatePool, Start, handlers

(* However often its handler fails or a create handler was in its way, a   *)
(* deletion only advances.                                                 *)
THEOREM DeletionsOnlyAdvance == OPSpec => DeletionAdvances
<1> DEFINE Nearer ==
       \A q \in Pool :
         cr[q] = "deleting" /\ cr'[q] = "deleting" /\ up' =>
           at'[q] = at[q] \/ CallsLeft(q)' < CallsLeft(q)
<1>1. OPInv /\ [OPNext]_opvars => [Nearer]_opvars
  BY DeletionStep
<1> QED
  BY <1>1, OPInvHolds, PTL DEF OPSpec, DeletionAdvances
=============================================================================
