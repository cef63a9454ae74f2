------------------------- MODULE ExecutorApiProofs -------------------------
(***************************************************************************)
(* Proofs about ExecutorApi, for any number of tenants, sandboxes and      *)
(* slots and for every policy configuration.  ApiSpec implies the          *)
(* manager's Spec, so the manager's theorems are at hand; the properties   *)
(* of the handlers follow from ApiTypeOK /\ HandlerInv /\ RunsForOwner,    *)
(* which is inductive together with the manager's invariant.               *)
(***************************************************************************)
EXTENDS ExecutorApi, SessionManagerProofs

LEMMA Threads == Thread = {Server, Janitor} /\ Server # Janitor
  BY ApiAssumption, ManagerAssumption DEF Thread

(***************************************************************************)
(* A step of the server program as the manager sees it.                    *)
(***************************************************************************)
LEMMA ApiStepIsManagerStep == TypeCore /\ [ApiNext]_allVars => [Next]_vars
<1> SUFFICES ASSUME TypeCore, [ApiNext]_allVars PROVE [Next]_vars
  OBVIOUS
<1> USE Threads
<1>0. Server \in Caller /\ sessions \subseteq Sid
  BY ApiAssumption DEF TypeCore
<1>1. ASSUME NEW s, NEW l \in {"save", "saveExec"}, CallGet(s, l)
      PROVE  [Next]_vars
  <2>1. CASE Alive(s) /\ Touch(Server, s, l)
    <3>1. s \in Sid
      BY <1>0, <2>1 DEF Alive
    <3>2. QED
      BY <1>0, <1>1, <2>1, <3>1 DEF Next, Call, GetSession, ExecuteInSession
  <2>2. CASE s \in Expired /\ DestroySession(Server, s)
    BY <1>0, <2>2 DEF Next, Call, Expired
  <2>3. QED
    BY <1>1, <2>1, <2>2 DEF CallGet
<1>2. CASE \E r \in Request : ReceiveForPolicy(r) \/ ReceiveForSession(r)
  BY <1>2 DEF ReceiveForPolicy, ReceiveForSession, Receive
<1>3. CASE \/ PeekToRun \/ PeekToDestroy \/ Evaluate \/ EvaluateRaises
           \/ EnterSandbox \/ LeaveSandbox
  BY <1>3 DEF PeekToRun, PeekToDestroy, Evaluate, EvaluateRaises,
              EnterSandbox, LeaveSandbox
<1>4. CASE GetToRun \/ ActRun
  BY <1>4, <1>1 DEF GetToRun, ActRun
<1>5. CASE ActCreate
  BY <1>0, <1>5 DEF ActCreate, Next, Call
<1>6. CASE ActDestroy
  <2>1. CASE DestroySession(Server, req.id)
    <3>1. req.id \in Sid
      BY <1>0, <2>1 DEF DestroySession
    <3>2. QED
      BY <1>0, <2>1, <3>1 DEF Next, Call
  <2>2. QED
    BY <1>6, <2>1 DEF ActDestroy
<1>7. CASE CallGoesOn \/ Background
  BY <1>7 DEF CallGoesOn, Background, Next
<1>8. CASE Shutdown
  BY <1>0, <1>8 DEF Shutdown, Next, Call
<1>9. CASE UNCHANGED allVars
  BY <1>9 DEF allVars
<1>10. QED
  BY <1>2, <1>3, <1>4, <1>5, <1>6, <1>7, <1>8, <1>9 DEF ApiNext, Handle

(* The manager's inductive invariant holds under the server. *)
LEMMA ManagerInvariant == ApiSpec => []IInv
<1>1. ApiInit => IInv
  BY IInvInit DEF ApiInit
<1>2. IInv /\ [ApiNext]_allVars => IInv'
  BY ApiStepIsManagerStep, IInvStep DEF IInv
<1>3. QED
  BY <1>1, <1>2, PTL DEF ApiSpec

(* The handlers use the manager by its methods only. *)
THEOREM ApiUsesManager == ApiSpec => UsesManager
<1>1. ApiInit => Init
  BY DEF ApiInit
<1>2. IInv /\ [ApiNext]_allVars => [Next]_vars
  BY ApiStepIsManagerStep DEF IInv
<1>3. QED
  BY <1>1, <1>2, ManagerInvariant, PTL DEF ApiSpec, UsesManager, Spec

(* So the server never has more than max_sessions containers registered or *)
(* about to be.                                                            *)
THEOREM ApiContainersLimited == ApiSpec => []ContainersWithinLimit
  BY ApiUsesManager, ContainersLimited DEF UsesManager

(* What is proved of the manager for any callers holds of the server's:    *)
(* it keeps its promise about the limit, no container is left behind       *)
(* unregistered, and a live session's state does not expire before it.     *)
THEOREM ApiInheritsManager ==
  ApiSpec => /\ ImplementsSessionLimit
             /\ []NoAbandonedContainer
             /\ []StoreCoversSessions
  BY ApiUsesManager, Refinement, ContainersOwned, StoreCovers DEF UsesManager

-----------------------------------------------------------------------------
(***************************************************************************)
(* What the manager does between the handlers' steps.                      *)
(***************************************************************************)

(* It goes on with the server's call. *)
LEMMA ContinueEffect ==
  ASSUME IInv, Continue(Server)
  PROVE  /\ pc[Server] # "idle"
         /\ pc'[Janitor] = pc[Janitor]
         /\ pc'[Server] \in Creating => pc[Server] \in Creating
         /\ pc'[Server] = "save" => pc[Server] = "made"
         /\ pc[Server] = "save" => pc'[Server] = "idle"
         /\ pc'[Server] \notin {"saveExec", "stopping"}
         /\ pc'[Server] = "run" =>
              pc[Server] = "saveExec" /\ sid'[Server] = sid[Server]
         /\ stopping' = stopping
         /\ issued' # issued => pc[Server] = "reserve"
         /\ sessions' \subseteq sessions
              \/ (/\ pc[Server] = "made"
                  /\ sessions' = sessions \cup {sid[Server]}
                  /\ sid[Server] \notin sessions)
<1> USE Threads DEF Goto, WorkOn, Creating, Holding, Saving, Deleting
<1>0. /\ pc \in [Thread -> PcState] /\ sid \in [Thread -> Sid \cup {NoSid}]
      /\ dels \in [Thread -> SUBSET Sid]
  BY DEF IInv, TypeCore
<1>1. CASE MakeRoom(Server)
  BY <1>0, <1>1 DEF MakeRoom, DestroyUnlocked
<1>2. CASE RetryAcquire(Server) \/ GiveUp(Server) \/ CreateFails(Server)
  BY <1>0, <1>2 DEF RetryAcquire, TakePermit, GiveUp, CreateFails
<1>3. CASE Register(Server)
  <2>1. sid[Server] \notin sessions
    BY <1>3 DEF Register, IInv, WorkInv
  <2>2. QED
    BY <1>0, <1>3, <2>1 DEF Register
<1>4. CASE RunReturns(Server) \/ RunTimesOut(Server)
  BY <1>0, <1>4 DEF RunReturns, RunTimesOut
<1>5. CASE SaveState(Server)
  BY <1>0, <1>5 DEF SaveState
<1>6. CASE StopDestroyAll(Server)
  BY <1>0, <1>6 DEF StopDestroyAll, DestroyUnlocked
<1>7. CASE \E s \in Sid : CreateSandbox(Server, s)
  BY <1>0, <1>7 DEF CreateSandbox
<1>8. CASE \E s \in Sid : DeleteState(Server, s)
  BY <1>0, <1>8 DEF DeleteState
<1>9. QED
  BY <1>1, <1>2, <1>3, <1>4, <1>5, <1>6, <1>7, <1>8 DEF Continue

(* The cleanup thread or the clock takes a step. *)
LEMMA BackgroundEffect ==
  ASSUME IInv, pc[Janitor] \in {"idle", "del"},
         Continue(Janitor) \/ CleanupPass \/ Tick
  PROVE  /\ pc'[Janitor] \in {"idle", "del"}
         /\ pc'[Server] = pc[Server]
         /\ sid'[Server] = sid[Server]
         /\ stopping' = stopping
         /\ issued' = issued
         /\ sessions' = sessions \/ sessions' = sessions \ Expired
         /\ \A s \in sessions' : idleTime'[s] >= idleTime[s]
<1> USE Threads DEF Goto, WorkOn, Holding, Saving, Deleting
<1>0. /\ pc \in [Thread -> PcState] /\ sid \in [Thread -> Sid \cup {NoSid}]
      /\ dels \in [Thread -> SUBSET Sid]
      /\ idleTime \in [Sid -> 0 .. TTL + 1]
      /\ sessions \subseteq Sid
  BY DEF IInv, TypeCore
<1>1. CASE Continue(Janitor)
  <2>1. PICK s \in Sid : DeleteState(Janitor, s)
    BY <1>0, <1>1 DEF Continue, MakeRoom, RetryAcquire, GiveUp, CreateFails,
         Register, RunReturns, RunTimesOut, SaveState, StopDestroyAll,
         CreateSandbox
  <2>2. /\ pc'[Janitor] \in {"idle", "del"}
        /\ pc'[Server] = pc[Server]
        /\ UNCHANGED <<sid, stopping, issued, sessions, idleTime>>
    BY <1>0, <2>1 DEF DeleteState
  <2>3. QED
    BY <1>0, <2>2, ManagerAssumption
<1>2. CASE CleanupPass
  <2>1. /\ pc'[Janitor] = "del"
        /\ pc'[Server] = pc[Server]
        /\ UNCHANGED <<sid, stopping, issued>>
        /\ sessions' = sessions \ Expired
    BY <1>0, <1>2 DEF CleanupPass, DestroyUnlocked
  <2>2. \A s \in sessions' : idleTime'[s] >= idleTime[s]
    BY <1>0, <1>2, <2>1, ManagerAssumption DEF CleanupPass, DestroyUnlocked
  <2>3. QED
    BY <2>1, <2>2
<1>3. CASE Tick
  BY <1>0, <1>3, ManagerAssumption DEF Tick
<1>4. QED
  BY <1>1, <1>2, <1>3

-----------------------------------------------------------------------------
(* The inductive invariant of the handlers.                                *)

ApiIInv == ApiTypeOK /\ HandlerInv /\ RunsForOwner

LEMMA ApiIInvInit == ApiInit => ApiIInv
<1> SUFFICES ASSUME ApiInit PROVE ApiIInv
  OBVIOUS
<1> USE Threads DEF ApiInit, Init
<1>1. ApiTypeOK
  BY DEF ApiTypeOK, Stage, Bound, NoRequest, Verdict
<1>2. pc[Server] = "idle" /\ pc[Janitor] = "idle"
  OBVIOUS
<1>3. HandlerInv /\ RunsForOwner
  BY <1>2 DEF HandlerInv, RunsForOwner, Creating, Holding, Returned
<1>4. QED
  BY <1>1, <1>3 DEF ApiIInv

(* Only a registration gives a session an owner, and the server registers  *)
(* none while a handler is at a stage.                                     *)
LEMMA OwnerStays ==
  ASSUME IInv, ApiIInv, CallGoesOn \/ Background,
         stage # "idle" \/ pc[Server] # "made"
  PROVE  owner' = owner /\ sessions' \subseteq sessions
<1>1. sessions' \subseteq sessions
  <2>1. CASE Background
    BY <2>1, BackgroundEffect DEF Background, ApiIInv, HandlerInv
  <2>2. CASE CallGoesOn
    <3>1. pc[Server] # "made"
      BY DEF ApiIInv, ApiTypeOK, Stage, HandlerInv, Returned
    <3>2. QED
      BY <2>2, <3>1, ContinueEffect DEF CallGoesOn
  <2>3. QED
    BY <2>1, <2>2
<1>2. owner' = [s \in Sid |-> owner[s]]
  BY <1>1 DEF CallGoesOn, Background, Metadata
<1>3. owner' = owner
  BY <1>2 DEF ApiIInv, ApiTypeOK
<1>4. QED
  BY <1>1, <1>3

LEMMA ApiTypeStep ==
  IInv /\ ApiIInv /\ [ApiNext]_allVars => ApiTypeOK'
<1> SUFFICES ASSUME IInv, ApiIInv, [ApiNext]_allVars PROVE ApiTypeOK'
  OBVIOUS
<1> USE DEF ApiTypeOK, Stage, Verdict
<1>0. ApiTypeOK /\ sessions \subseteq Sid
  BY DEF ApiIInv, IInv, TypeCore
<1>1. ASSUME NEW r \in Request, ReceiveForPolicy(r) \/ ReceiveForSession(r)
      PROVE  ApiTypeOK'
  <2>1. [op |-> r.op, tenant |-> r.header, id |-> r.id] \in Bound
    BY DEF Request, Bound
  <2>2. QED
    BY <1>0, <1>1, <2>1 DEF ReceiveForPolicy, ReceiveForSession, Receive, vars
<1>2. CASE \/ PeekToRun \/ PeekToDestroy \/ Evaluate \/ EvaluateRaises
           \/ EnterSandbox \/ LeaveSandbox
  BY <1>0, <1>2 DEF PeekToRun, PeekToDestroy, Evaluate, EvaluateRaises,
       EnterSandbox, LeaveSandbox, FallbackResult, vars
<1>3. CASE GetToRun \/ ActRun \/ ActCreate \/ ActDestroy \/ Shutdown
  <2>1. sessions' \subseteq sessions
    BY <1>3 DEF GetToRun, ActRun, CallGet, Touch, DestroySession,
         DestroyUnlocked, ActCreate, AcquireSlot, TakePermit, FindFull,
         ActDestroy, Shutdown, StopSignal, vars
  <2>2. QED
    BY <1>0, <1>3, <2>1 DEF GetToRun, ActRun, ActCreate, ActDestroy, Shutdown,
         apiVars
<1>4. CASE CallGoesOn \/ Background
  <2>1. CASE stage # "idle" \/ pc[Server] # "made"
    BY <1>0, <1>4, <2>1, OwnerStays DEF CallGoesOn, Background, Metadata
  <2>2. CASE pc[Server] = "made"
    <3>1. req.tenant \in Tenant
      BY <2>2 DEF ApiIInv, HandlerInv, Creating, Holding
    <3>2. sessions' \subseteq Sid
      BY IInvStep, ApiStepIsManagerStep DEF IInv, TypeCore
    <3>3. QED
      BY <1>0, <1>4, <3>1, <3>2 DEF CallGoesOn, Background, Metadata
  <2>3. QED
    BY <2>1, <2>2
<1>5. CASE UNCHANGED allVars
  BY <1>0, <1>5 DEF allVars, apiVars, vars
<1>6. QED
  BY <1>1, <1>2, <1>3, <1>4, <1>5 DEF ApiNext, Handle

LEMMA RunsStep ==
  IInv /\ ApiIInv /\ [ApiNext]_allVars => RunsForOwner'
<1> SUFFICES ASSUME IInv, ApiIInv, [ApiNext]_allVars,
                    pc'[Server] \in {"saveExec", "run"}
             PROVE  /\ req'.tenant = owner'[sid'[Server]]
                    /\ enforce(verdict)'
  BY DEF RunsForOwner
<1> USE Threads DEF ApiIInv, RunsForOwner, enforce
<1>0. /\ pc \in [Thread -> PcState] /\ sid \in [Thread -> Sid \cup {NoSid}]
  BY DEF IInv, TypeCore
<1>1. CASE \E r \in Request : ReceiveForPolicy(r) \/ ReceiveForSession(r)
  BY <1>1 DEF ReceiveForPolicy, ReceiveForSession, Receive, Returned, vars
<1>2. CASE \/ PeekToRun \/ PeekToDestroy \/ EvaluateRaises
           \/ EnterSandbox \/ LeaveSandbox
  BY <1>2 DEF PeekToRun, PeekToDestroy, EvaluateRaises, EnterSandbox,
              LeaveSandbox, vars
<1>3. CASE Evaluate
  BY <1>3 DEF Evaluate, Returned, vars
<1>4. CASE GetToRun \/ ActCreate \/ ActDestroy \/ Shutdown
  <2>1. \/ pc'[Server] = pc[Server] /\ pc[Server] = "idle"
        \/ pc'[Server] \in {"save", "del", "reserve", "full", "stopping"}
    BY <1>0, <1>4 DEF GetToRun, CallGet, Touch, DestroySession, ActCreate,
         AcquireSlot, TakePermit, FindFull, ActDestroy, Shutdown, StopSignal,
         Goto, HandlerInv, Returned, vars
  <2>2. QED
    BY <2>1
<1>5. CASE ActRun
  <2>1. Alive(req.id) /\ Touch(Server, req.id, "saveExec")
    BY <1>0, <1>5 DEF ActRun, CallGet, DestroySession, Goto, HandlerInv,
         Returned, vars
  <2>2. sid'[Server] = req.id
    BY <1>0, <2>1 DEF Touch, WorkOn
  <2>3. QED
    BY <1>5, <2>2 DEF ActRun, HandlerInv, OwnSession
<1>6. CASE CallGoesOn \/ Background
  <2>1. pc[Server] \in {"saveExec", "run"} /\ sid'[Server] = sid[Server]
    BY <1>6, ContinueEffect, BackgroundEffect
       DEF CallGoesOn, Background, HandlerInv
  <2>2. owner' = owner
    BY <1>6, <2>1, OwnerStays
  <2>3. QED
    BY <1>6, <2>1, <2>2 DEF CallGoesOn, Background, Metadata
<1>7. CASE UNCHANGED allVars
  BY <1>7 DEF allVars, apiVars, vars
<1>8. QED
  BY <1>1, <1>2, <1>3, <1>4, <1>5, <1>6, <1>7 DEF ApiNext, Handle

LEMMA HandlerStep ==
  IInv /\ ApiIInv /\ [ApiNext]_allVars => HandlerInv'
<1> SUFFICES ASSUME IInv, ApiIInv, [ApiNext]_allVars PROVE HandlerInv'
  OBVIOUS
<1> USE Threads DEF ApiIInv, HandlerInv, enforce, OwnSession, Returned
<1>0. /\ pc \in [Thread -> PcState] /\ sid \in [Thread -> Sid \cup {NoSid}]
      /\ idleTime \in [Sid -> 0 .. TTL + 1]
      /\ sessions \subseteq Sid
  BY DEF IInv, TypeCore
<1>1. ASSUME NEW r \in Request, ReceiveForPolicy(r) \/ ReceiveForSession(r)
      PROVE  HandlerInv'
  <2>1. r.header \in Tenant
    BY <1>1 DEF ReceiveForPolicy, ReceiveForSession, Receive, BoundTenant,
                Request
  <2>2. UNCHANGED <<pc, stopping, config>> /\ pc[Server] = "idle"
    BY <1>1 DEF ReceiveForPolicy, ReceiveForSession, Receive, vars
  <2>3. /\ req'.op = r.op /\ req'.tenant = r.header
        /\ verdict' = "none"
        /\ \/ r.op \in {"execute", "create"} /\ stage' = "policy"
           \/ r.op \in {"run", "destroy"} /\ stage' = "peek"
    BY <1>1 DEF ReceiveForPolicy, ReceiveForSession, Receive
  <2>4. QED
    BY <2>1, <2>2, <2>3 DEF Creating, Holding
<1>2. CASE PeekToRun \/ PeekToDestroy
  <2>1. UNCHANGED <<vars, config, req, verdict, owner>> /\ pc[Server] = "idle"
    BY <1>2 DEF PeekToRun, PeekToDestroy
  <2>2. \/ stage' = "idle"
        \/ req.op = "run" /\ stage' = "get" /\ OwnSession(req.id)
        \/ /\ req.op = "destroy" /\ stage' = "act"
           /\ Alive(req.id) => OwnSession(req.id)
    BY <1>2 DEF PeekToRun, PeekToDestroy
  <2>3. stage = "peek"
    BY <1>2 DEF PeekToRun, PeekToDestroy
  <2>4. QED
    BY <2>1, <2>2, <2>3 DEF vars, Creating, Holding, Alive, is_expired
<1>3. CASE Evaluate \/ EvaluateRaises
  <2>1. UNCHANGED <<vars, config, req, owner>> /\ pc[Server] = "idle"
    BY <1>3 DEF Evaluate, EvaluateRaises
  <2>2. /\ stage = "policy"
        /\ \/ stage' = "idle" /\ verdict' = verdict
           \/ /\ stage' = "act" /\ enforce(verdict')
              /\ verdict' = "open" => config.fail = "open"
    BY <1>3 DEF Evaluate, EvaluateRaises, FallbackResult
  <2>3. QED
    BY <2>1, <2>2 DEF vars, Creating, Holding
<1>4. CASE EnterSandbox \/ LeaveSandbox
  BY <1>4 DEF EnterSandbox, LeaveSandbox, vars, Creating, Holding
<1>5. CASE GetToRun
  <2>1. /\ UNCHANGED <<config, req, verdict, owner, stopping>>
        /\ stage = "get" /\ pc[Server] = "idle"
        /\ pc'[Janitor] = pc[Janitor]
    BY <1>0, <1>5 DEF GetToRun, CallGet, Touch, DestroySession, Goto, vars
  <2>2. \/ stage' = "idle" /\ pc'[Server] \in {"idle", "del"}
        \/ stage' = "policy" /\ pc'[Server] = "save"
    BY <1>0, <1>5 DEF GetToRun, CallGet, Touch, DestroySession, Goto, vars,
                      Alive, Expired
  <2>3. QED
    BY <2>1, <2>2 DEF Creating, Holding
<1>6. CASE ActCreate
  <2>1. /\ UNCHANGED <<config, req, verdict, owner, stopping>>
        /\ stage = "act" /\ req.op = "create" /\ stage' = "idle"
        /\ pc'[Janitor] = pc[Janitor]
        /\ pc'[Server] \in {"reserve", "full"}
    BY <1>0, <1>6 DEF ActCreate, AcquireSlot, TakePermit, FindFull, Goto
  <2>2. QED
    BY <2>1 DEF Creating, Holding
<1>7. CASE ActRun \/ ActDestroy
  <2>1. /\ UNCHANGED <<config, req, verdict, owner, stopping>>
        /\ stage' = "idle"
        /\ pc'[Janitor] = pc[Janitor]
        /\ pc'[Server] \in {"saveExec", "del", "idle"}
    BY <1>0, <1>7 DEF ActRun, ActDestroy, CallGet, Touch, DestroySession,
                      Goto, vars
  <2>2. QED
    BY <2>1 DEF Creating, Holding
<1>8. CASE Shutdown
  <2>1. /\ UNCHANGED <<config, req, verdict, owner, stage>>
        /\ stopping' = TRUE /\ stage = "idle"
        /\ pc'[Janitor] = pc[Janitor]
        /\ pc'[Server] = "stopping"
    BY <1>0, <1>8 DEF Shutdown, StopSignal, Goto, apiVars
  <2>2. QED
    BY <2>1 DEF Creating, Holding
<1>9. CASE CallGoesOn
  <2>1. UNCHANGED <<config, req, verdict, stage, stopping>>
    BY <1>9, ContinueEffect DEF CallGoesOn, Metadata
  <2>2. /\ pc'[Janitor] = pc[Janitor]
        /\ pc'[Server] \in Creating => pc[Server] \in Creating
        /\ pc'[Server] # "stopping"
    BY <1>9, ContinueEffect DEF CallGoesOn
  <2>3. CASE stage = "idle"
    BY <2>1, <2>2, <2>3
  <2>4. CASE stage # "idle"
    <3>1. stage = "policy" /\ pc[Server] = "save" /\ pc'[Server] = "idle"
      BY <1>9, <2>4, ContinueEffect DEF CallGoesOn, ApiTypeOK, Stage
    <3>2. owner' = owner
      BY <1>9, <2>4, OwnerStays
    <3>3. QED
      BY <2>1, <2>2, <3>1, <3>2 DEF Creating, Holding
  <2>5. QED
    BY <2>3, <2>4
<1>10. CASE Background
  <2>1. UNCHANGED <<config, req, verdict, stage, stopping>>
    BY <1>10, BackgroundEffect DEF Background, Metadata
  <2>2. pc'[Janitor] \in {"idle", "del"} /\ pc'[Server] = pc[Server]
    BY <1>10, BackgroundEffect DEF Background
  <2>3. CASE stage = "idle"
    BY <2>1, <2>2, <2>3
  <2>4. CASE stage # "idle"
    <3>1. owner' = owner /\ sessions' \subseteq sessions
      BY <1>10, <2>4, OwnerStays
    <3>2. \A s \in sessions' : idleTime'[s] >= idleTime[s]
      BY <1>10, BackgroundEffect DEF Background
    <3>3. idleTime' \in [Sid -> 0 .. TTL + 1]
      BY ApiStepIsManagerStep, IInvStep DEF IInv, TypeCore
    <3>4. ASSUME NEW s, Alive(s)' PROVE Alive(s)
      <4>1. s \in sessions' /\ ~(idleTime'[s] > TTL)
        BY <3>4 DEF Alive, is_expired
      <4>2. s \in sessions /\ s \in Sid
        BY <1>0, <3>1, <4>1
      <4>3. idleTime[s] \in Int /\ idleTime'[s] \in Int /\ TTL \in Int
        BY <1>0, <3>3, <4>2, ManagerAssumption
      <4>4. ~(idleTime[s] > TTL)
        BY <3>2, <4>1, <4>3
      <4>5. QED
        BY <4>2, <4>4 DEF Alive, is_expired
    <3>5. Alive(req.id)' => Alive(req.id)
      BY <2>1, <3>4
    <3>6. QED
      BY <2>1, <2>2, <3>1, <3>5
  <2>5. QED
    BY <2>3, <2>4
<1>11. CASE UNCHANGED allVars
  BY <1>11 DEF allVars, apiVars, vars, Creating, Holding, Alive, is_expired
<1>12. QED
  BY <1>1, <1>2, <1>3, <1>4, <1>5, <1>6, <1>7, <1>8, <1>9, <1>10, <1>11
     DEF ApiNext, Handle

LEMMA ApiInvariant == ApiSpec => [](IInv /\ ApiIInv)
<1>1. ApiInit => ApiIInv
  BY ApiIInvInit
<1>2. IInv /\ ApiIInv /\ [ApiNext]_allVars => ApiIInv'
  BY ApiTypeStep, HandlerStep, RunsStep DEF ApiIInv
<1>3. QED
  BY <1>1, <1>2, ManagerInvariant, PTL DEF ApiSpec

-----------------------------------------------------------------------------
(* Theorems of the specification.                                          *)

(* Every variable keeps its type, and every session has a tenant. *)
THEOREM ApiTypeCorrect == ApiSpec => []ApiTypeOK
<1>1. ApiIInv => ApiTypeOK
  BY DEF ApiIInv
<1>2. QED
  BY <1>1, ApiInvariant, PTL

(* Code is executed in a session only for its tenant, and only by a        *)
(* request the policy client let pass.                                     *)
THEOREM CodeRunsForOwner == ApiSpec => []RunsForOwner
<1>1. ApiIInv => RunsForOwner
  BY DEF ApiIInv
<1>2. QED
  BY <1>1, ApiInvariant, PTL

(* With enforcement on and closed on failure, a sandbox is started only by *)
(* a request OPA allowed.                                                  *)
THEOREM Approved == ApiSpec => NothingStartsUnapproved
<1>1. ASSUME IInv, ApiIInv, [ApiNext]_allVars, config = SafeConfig,
             issued' # issued \/ (direct' /\ ~direct)
      PROVE  verdict = "allow"
  <2> USE DEF ApiIInv, HandlerInv
  <2>1. enforce(verdict)
    <3>1. CASE EnterSandbox
      BY <1>1, <3>1 DEF EnterSandbox
    <3>2. CASE CallGoesOn
      <4>1. pc[Server] = "reserve"
        BY <1>1, <3>2, ContinueEffect DEF CallGoesOn, Metadata, ApiTypeOK
      <4>2. QED
        BY <1>1, <4>1 DEF Creating, Holding
    <3>3. CASE Background
      BY <1>1, <3>3, BackgroundEffect DEF Background, Metadata
    <3>4. CASE \E r \in Request : ReceiveForPolicy(r) \/ ReceiveForSession(r)
      BY <1>1, <3>4 DEF ReceiveForPolicy, ReceiveForSession, Receive, vars
    <3>5. CASE \/ PeekToRun \/ PeekToDestroy \/ Evaluate \/ EvaluateRaises
               \/ LeaveSandbox
      BY <1>1, <3>5 DEF PeekToRun, PeekToDestroy, Evaluate, EvaluateRaises,
           LeaveSandbox, vars
    <3>6. CASE GetToRun \/ ActRun
      BY <1>1, <3>6 DEF GetToRun, ActRun, CallGet, Touch, DestroySession, vars
    <3>7. CASE ActCreate \/ ActDestroy \/ Shutdown
      BY <1>1, <3>7 DEF ActCreate, AcquireSlot, TakePermit, FindFull,
           ActDestroy, DestroySession, Shutdown, StopSignal, vars, apiVars
    <3>8. CASE UNCHANGED allVars
      BY <1>1, <3>8 DEF allVars, apiVars, vars
    <3>9. QED
      BY <1>1, <3>1, <3>2, <3>3, <3>4, <3>5, <3>6, <3>7, <3>8
         DEF ApiNext, Handle
  <2>2. verdict # "open"
    BY <1>1 DEF SafeConfig
  <2>3. QED
    BY <1>1, <2>1, <2>2 DEF enforce, SafeConfig
<1>2. IInv /\ ApiIInv /\ [ApiNext]_allVars
        => [(config = SafeConfig /\ (issued' # issued \/ (direct' /\ ~direct)))
              => verdict = "allow"]_allVars
  BY <1>1
<1>3. QED
  BY <1>2, ApiInvariant, PTL DEF ApiSpec, NothingStartsUnapproved

(* The server refuses a session only when max_sessions of them exist. *)
THEOREM Refused == ApiSpec => RefusedOnlyWhenFull
<1>1. ASSUME IInv, ApiIInv, [ApiNext]_allVars,
             pc[Server] = "retry", pc'[Server] = "idle"
      PROVE  Cardinality(sessions) = MaxSessions
  <2> USE Threads DEF ApiIInv, HandlerInv
  <2>0. pc \in [Thread -> PcState]
    BY <1>1 DEF IInv, TypeCore
  <2>1. Creators = {}
    BY <1>1 DEF Creators, Holding
  <2>2. permits = 0
    <3>1. CASE CallGoesOn
      <4>1. GiveUp(Server)
        BY <1>1, <2>0, <3>1 DEF CallGoesOn, Continue, MakeRoom, RetryAcquire,
             TakePermit, CreateFails, Register, RunReturns, RunTimesOut,
             SaveState, StopDestroyAll, CreateSandbox, DeleteState, Goto,
             Saving, Deleting
      <4>2. QED
        BY <4>1 DEF GiveUp
    <3>2. CASE Background
      BY <1>1, <3>2, BackgroundEffect DEF Background
    <3>3. CASE \/ \E r \in Request : ReceiveForPolicy(r) \/ ReceiveForSession(r)
               \/ Handle \/ Shutdown
      <4>1. stage # "idle" \/ pc[Server] = "idle"
        BY <3>3 DEF ReceiveForPolicy, ReceiveForSession, Receive, Returned,
             Handle, PeekToRun, PeekToDestroy, GetToRun, Evaluate,
             EvaluateRaises, ActCreate, ActRun, ActDestroy, EnterSandbox,
             LeaveSandbox, Shutdown, StopSignal
      <4>2. QED
        BY <1>1, <4>1 DEF ApiTypeOK, Stage, Returned
    <3>4. CASE UNCHANGED allVars
      BY <1>1, <3>4 DEF allVars, vars
    <3>5. QED
      BY <1>1, <3>1, <3>2, <3>3, <3>4 DEF ApiNext
  <2>3. Cardinality(Creators) = 0 /\ Cardinality(sessions) \in Nat
    BY <1>1, <2>1, FS_EmptySet, FS_CardinalityType DEF IInv, TypeCore
  <2>4. QED
    BY <1>1, <2>2, <2>3, ManagerAssumption DEF IInv, SlotsConserved
<1>2. IInv /\ ApiIInv /\ [ApiNext]_allVars
        => [(pc[Server] = "retry" /\ pc'[Server] = "idle")
              => Cardinality(sessions) = MaxSessions]_allVars
  BY <1>1
<1>3. QED
  BY <1>2, ApiInvariant, PTL DEF ApiSpec, RefusedOnlyWhenFull

(* A request of one tenant neither destroys nor revives a live session of  *)
(* another.                                                                *)
THEOREM ForeignHarmless == ApiSpec => ForeignRequestHarmless
<1>1. ASSUME IInv, ApiIInv, [ApiNext]_allVars, NEW s \in sessions,
             ~is_expired(s), ~stopping, owner[s] # req.tenant
      PROVE  s \in sessions' /\ idleTime'[s] >= idleTime[s]
  <2> USE Threads DEF ApiIInv, HandlerInv, OwnSession
  <2>0. /\ pc \in [Thread -> PcState]
        /\ idleTime \in [Sid -> 0 .. TTL + 1] /\ sessions \subseteq Sid
        /\ s \in Sid /\ idleTime[s] \in Int
        /\ s \notin Expired
    BY <1>1, ManagerAssumption DEF IInv, TypeCore, Expired
  <2>1. ASSUME NEW S, s \notin S, DestroyUnlocked(S)
        PROVE  s \in sessions' /\ idleTime'[s] = idleTime[s]
    BY <2>0, <2>1 DEF DestroyUnlocked
  <2>2. ASSUME NEW u, NEW l, s # u, Touch(Server, u, l)
        PROVE  s \in sessions' /\ idleTime'[s] = idleTime[s]
    BY <2>0, <2>2 DEF Touch
  <2>3. CASE \/ \E r \in Request : ReceiveForPolicy(r) \/ ReceiveForSession(r)
             \/ PeekToRun \/ PeekToDestroy \/ Evaluate \/ EvaluateRaises
             \/ EnterSandbox \/ LeaveSandbox \/ UNCHANGED allVars
    <3>1. UNCHANGED <<sessions, idleTime>>
      BY <2>3 DEF ReceiveForPolicy, ReceiveForSession, Receive, PeekToRun,
           PeekToDestroy, Evaluate, EvaluateRaises, EnterSandbox,
           LeaveSandbox, allVars, vars
    <3>2. QED
      BY <2>0, <3>1
  <2>4. ASSUME NEW l, CallGet(req.id, l), req.op = "run", stage \in {"get", "act"}
        PROVE  s \in sessions' /\ idleTime'[s] >= idleTime[s]
    <3>1. s # req.id
      BY <1>1, <2>4
    <3>2. CASE Touch(Server, req.id, l)
      BY <2>0, <2>2, <3>1, <3>2
    <3>3. CASE DestroySession(Server, req.id)
      BY <2>0, <2>1, <3>1, <3>3 DEF DestroySession
    <3>4. CASE UNCHANGED vars
      BY <2>0, <3>4 DEF vars
    <3>5. QED
      BY <2>4, <3>2, <3>3, <3>4 DEF CallGet
  <2>5. CASE GetToRun \/ ActRun
    BY <1>1, <2>4, <2>5 DEF GetToRun, ActRun
  <2>6. CASE ActCreate \/ Shutdown
    <3>1. UNCHANGED <<sessions, idleTime>>
      BY <2>6 DEF ActCreate, AcquireSlot, TakePermit, FindFull, Shutdown,
           StopSignal
    <3>2. QED
      BY <2>0, <3>1
  <2>7. CASE ActDestroy
    <3>1. s # req.id
      BY <1>1, <2>7 DEF ActDestroy, Alive
    <3>2. CASE DestroySession(Server, req.id)
      BY <2>0, <2>1, <3>1, <3>2 DEF DestroySession
    <3>3. CASE UNCHANGED vars
      BY <2>0, <3>3 DEF vars
    <3>4. QED
      BY <2>7, <3>2, <3>3 DEF ActDestroy
  <2>8. CASE CallGoesOn
    <3>1. CASE MakeRoom(Server)
      BY <2>0, <2>1, <3>1 DEF MakeRoom
    <3>2. CASE Register(Server)
      <4>1. s # sid[Server]
        BY <1>1, <3>2 DEF Register, IInv, WorkInv
      <4>2. QED
        BY <2>0, <3>2, <4>1 DEF Register
    <3>3. CASE StopDestroyAll(Server)
      BY <1>1, <3>3 DEF StopDestroyAll
    <3>4. CASE \/ RetryAcquire(Server) \/ GiveUp(Server) \/ CreateFails(Server)
               \/ RunReturns(Server) \/ RunTimesOut(Server)
               \/ SaveState(Server)
               \/ \E u \in Sid : CreateSandbox(Server, u) \/ DeleteState(Server, u)
      <4>1. UNCHANGED <<sessions, idleTime>>
        BY <3>4 DEF RetryAcquire, TakePermit, GiveUp, CreateFails, RunReturns,
             RunTimesOut, SaveState, CreateSandbox, DeleteState
      <4>2. QED
        BY <2>0, <4>1
    <3>5. QED
      BY <2>8, <3>1, <3>2, <3>3, <3>4 DEF CallGoesOn, Continue
  <2>9. CASE Background
    <3>1. s \in sessions'
      BY <1>1, <2>0, <2>9, BackgroundEffect DEF Background
    <3>2. QED
      BY <1>1, <2>9, <3>1, BackgroundEffect DEF Background
  <2>10. QED
    BY <1>1, <2>3, <2>5, <2>6, <2>7, <2>8, <2>9 DEF ApiNext, Handle
<1>2. IInv /\ ApiIInv /\ [ApiNext]_allVars
        => [\A s \in sessions :
              (~is_expired(s) /\ ~stopping /\ owner[s] # req.tenant)
                => s \in sessions' /\ idleTime'[s] >= idleTime[s]]_allVars
  BY <1>1
<1>3. QED
  BY <1>2, ApiInvariant, PTL DEF ApiSpec, ForeignRequestHarmless

-----------------------------------------------------------------------------
(* Handlers come nearer to their answer.                                   *)

StepsLeft(s) ==
  IF s = "peek" THEN 5 ELSE IF s = "get" THEN 4 ELSE IF s = "policy" THEN 3
  ELSE IF s = "act" THEN 2 ELSE IF s = "direct" THEN 1 ELSE 0

(* What RequestsEnd rests on: a handler's own step takes it to a later     *)
(* stage, a step of the manager brings the call it waits for nearer to its *)
(* end, and while a request is handled nothing else, be it the cleanup     *)
(* thread, the clock, an interrupt or the next request, moves either.      *)
HandlersAdvance ==
  [][/\ Handle => StepsLeft(stage') < StepsLeft(stage)
     /\ CallGoesOn => stage' = stage /\ Nearer(Server)
     /\ (stage # "idle" \/ ~Returned) /\ ~Handle /\ ~CallGoesOn
          => stage' = stage /\ Rests(Server)]_allVars

(* No handler goes round in circles, and none is set back.                 *)
THEOREM HandlersOnlyAdvance == ApiSpec => HandlersAdvance
<1>1. ASSUME IInv, ApiIInv, [ApiNext]_allVars
      PROVE  /\ Handle => StepsLeft(stage') < StepsLeft(stage)
             /\ CallGoesOn => stage' = stage /\ Nearer(Server)
             /\ (stage # "idle" \/ ~Returned) /\ ~Handle /\ ~CallGoesOn
                  => stage' = stage /\ Rests(Server)
  <2>0. TypeCore /\ Server \in Thread /\ Janitor \in Thread
    BY <1>1, Threads DEF IInv
  <2>1. Handle => StepsLeft(stage') < StepsLeft(stage)
    <3> USE DEF StepsLeft
    <3>1. CASE PeekToRun \/ PeekToDestroy \/ GetToRun
      BY <3>1 DEF PeekToRun, PeekToDestroy, GetToRun
    <3>2. CASE Evaluate \/ EvaluateRaises
      BY <3>2 DEF Evaluate, EvaluateRaises
    <3>3. CASE ActCreate \/ ActRun \/ ActDestroy \/ EnterSandbox \/ LeaveSandbox
      BY <3>3 DEF ActCreate, ActRun, ActDestroy, EnterSandbox, LeaveSandbox
    <3> QED
      BY <3>1, <3>2, <3>3 DEF Handle
  <2>2. CallGoesOn => stage' = stage /\ Nearer(Server)
    BY <2>0, ContinueAdvances DEF CallGoesOn, Metadata
  <2>3. ASSUME stage # "idle" \/ ~Returned, ~Handle, ~CallGoesOn
        PROVE  stage' = stage /\ Rests(Server)
    <3>1. CASE \E r \in Request : ReceiveForPolicy(r) \/ ReceiveForSession(r)
      BY <2>3, <3>1 DEF ReceiveForPolicy, ReceiveForSession, Receive
    <3>2. CASE Shutdown
      BY <2>3, <3>2 DEF Shutdown, StopSignal, Returned
    <3>3. CASE Background
      <4>1. CASE Continue(Janitor)
        BY <2>0, <3>3, <4>1, Threads, ContinueAdvances DEF Background, Metadata
      <4>2. CASE CleanupPass \/ Tick
        BY <2>0, <3>3, <4>2, Threads
        DEF Background, Metadata, CleanupPass, Tick, Goto, Rests, TypeCore
      <4> QED
        BY <3>3, <4>1, <4>2 DEF Background
    <3>4. CASE UNCHANGED allVars
      BY <3>4 DEF allVars, apiVars, vars, Rests
    <3> QED
      BY <1>1, <2>3, <3>1, <3>2, <3>3, <3>4 DEF ApiNext
  <2> QED
    BY <2>1, <2>2, <2>3
<1>2. IInv /\ ApiIInv /\ [ApiNext]_allVars =>
        [/\ Handle => StepsLeft(stage') < StepsLeft(stage)
         /\ CallGoesOn => stage' = stage /\ Nearer(Server)
         /\ (stage # "idle" \/ ~Returned) /\ ~Handle /\ ~CallGoesOn
              => stage' = stage /\ Rests(Server)]_allVars
  BY <1>1
<1> QED
  BY <1>2, ApiInvariant, PTL DEF ApiSpec, HandlersAdvance
=============================================================================
