---------------------------- MODULE ExecutorApi ----------------------------
(***************************************************************************)
(* executor/api_server.py over SessionManager: the POST handlers of the    *)
(* single-threaded HTTPServer, the tenant binding of sessions, and the     *)
(* policy check of policy_client.py.  The server is the only caller of the *)
(* manager, beside the manager's own cleanup thread; a handler is          *)
(* interrupted by the cleanup thread and by time, not by other requests.   *)
(*                                                                         *)
(* A handler goes through stages.  It calls the manager by taking one of   *)
(* the manager's actions as the server, and goes on when the manager has   *)
(* returned: pc[Server] is "idle" again.                                   *)
(***************************************************************************)
EXTENDS SessionManager

CONSTANTS
  Server,      \* the thread of serve_forever
  Tenant,      \* tenant ids
  NoTenant,    \* a missing header, field or metadata entry
  AllowUnsafe  \* POLICY_ALLOW_UNSAFE

ASSUME ApiAssumption ==
  /\ Caller = {Server}
  /\ NoTenant \notin Tenant
  /\ AllowUnsafe \in BOOLEAN

VARIABLES
  config,      \* POLICY_MODE and POLICY_FAIL_MODE
  stage,       \* where the handler of the current request is
  req,         \* the current or last request
  verdict,     \* the policy client's result that let it pass
  owner,       \* owner[s]: metadata["tenant_id"] of session s
  direct       \* does a handler hold the sandbox of an /execute?

apiVars == <<config, stage, req, verdict, owner, direct>>
allVars == <<vars, apiVars>>

SafeConfig == [mode |-> "enforce", fail |-> "closed"]

(* What _validate_configuration lets pass. *)
Config ==
  {c \in [mode : {"enforce", "shadow"}, fail : {"open", "closed"}] :
     AllowUnsafe \/ c = SafeConfig}

(* "idle": no handler, or one that only waits for its last call of the     *)
(* manager to return; "act": the policy has let the request pass.          *)
Stage == {"idle", "peek", "get", "policy", "act", "direct"}

(* The requests to /execute, /session/create, /session/execute ("run") and *)
(* /session/destroy.  header: X-Authenticated-Tenant-Id; body: tenant_id,  *)
(* where the handler reads one; id: session_id, of any session or none.    *)
Request ==
  [op : {"execute", "create"}, header : Tenant \cup {NoTenant},
   body : Tenant \cup {NoTenant}, id : {NoSid}]
  \cup
  [op : {"run", "destroy"}, header : Tenant \cup {NoTenant},
   body : {NoTenant}, id : Sid]

(* What a handler keeps of it. *)
Bound ==
  [op : {"execute", "create"}, tenant : Tenant \cup {NoTenant}, id : {NoSid}]
  \cup
  [op : {"run", "destroy"}, tenant : Tenant \cup {NoTenant}, id : Sid]

(* The value of req before the first request. *)
NoRequest == [op |-> "create", tenant |-> NoTenant, id |-> NoSid]

(* OPA's decisions; "open" and "closed" are the fallback results when it   *)
(* cannot be reached or answers nonsense.                                  *)
Verdict == {"none", "allow", "deny", "requires_approval", "open", "closed"}

ApiTypeOK ==
  /\ config \in Config
  /\ stage \in Stage
  /\ req \in Bound
  /\ verdict \in Verdict
  /\ owner \in [Sid -> Tenant \cup {NoTenant}]
  /\ \A s \in sessions : owner[s] \in Tenant
  /\ direct \in BOOLEAN

ApiInit ==
  /\ Init
  /\ config \in Config
  /\ stage = "idle"
  /\ req = NoRequest
  /\ verdict = "none"
  /\ owner = [s \in Sid |-> NoTenant]
  /\ direct = FALSE

-----------------------------------------------------------------------------
(* Helpers.                                                                *)

(* The manager has nothing to do for the server any more. *)
Returned == pc[Server] = "idle"

(* peek_session finds the session. *)
Alive(s) == s \in sessions /\ ~is_expired(s)

(* Seeded fault: a request without the header acts for no tenant. *)
BoundTenantHeaderless(r) ==
  r.body \in {r.header, NoTenant}

(* The tenant a handler acts for: the header is required (start_server     *)
(* refuses to run without an API key) and a tenant in the body must agree. *)
BoundTenant(r) ==
  /\ r.header # NoTenant
  /\ r.body \in {r.header, NoTenant}

(* _bind_session_tenant_to_authenticated_caller accepts session s. *)
OwnSession(s) == owner[s] = req.tenant

(* Seeded fault: everything that is not a denial passes. *)
enforceByNegation(v) == v \notin {"deny", "closed"}

(* PolicyClient.enforce *)
enforce(v) == config.mode # "enforce" \/ v \in {"allow", "open"}

FallbackResult == IF config.fail = "open" THEN "open" ELSE "closed"

(* get_session, and with label "saveExec" execute_in_session, by the       *)
(* server: an expired session is destroyed, a missing one ignored.         *)
CallGet(s, label) ==
  \/ Alive(s) /\ Touch(Server, s, label)
  \/ s \in Expired /\ DestroySession(Server, s)
  \/ s \notin sessions /\ UNCHANGED vars

-----------------------------------------------------------------------------
(* The handlers                                                            *)

(* do_POST: the handler of a request starts.  A request that is not bound  *)
(* to a tenant is answered 403 and changes nothing.                        *)
Receive(r, first) ==
  /\ stage = "idle"
  /\ Returned
  /\ ~stopping
  /\ BoundTenant(r)
  /\ req' = [op |-> r.op, tenant |-> r.header, id |-> r.id]
  /\ verdict' = "none"
  /\ stage' = first
  /\ UNCHANGED <<vars, config, owner, direct>>

(* _handle_execute and _handle_create_session ask the policy first. *)
ReceiveForPolicy(r) == r.op \in {"execute", "create"} /\ Receive(r, "policy")

(* The other two look at the session first. *)
ReceiveForSession(r) == r.op \in {"run", "destroy"} /\ Receive(r, "peek")

(* Seeded fault: the session's tenant is not compared. *)
PeekToRunUnbound ==
  /\ stage = "peek"
  /\ req.op = "run"
  /\ stage' = IF Alive(req.id) THEN "get" ELSE "idle"
  /\ UNCHANGED <<vars, config, req, verdict, owner, direct>>

(* _handle_session_execute: 404 if peek_session finds nothing, 403 if the  *)
(* session is another tenant's.                                            *)
PeekToRun ==
  /\ stage = "peek"
  /\ req.op = "run"
  /\ stage' = IF Alive(req.id) /\ OwnSession(req.id) THEN "get" ELSE "idle"
  /\ UNCHANGED <<vars, config, req, verdict, owner, direct>>

(* Seeded fault: a destroy that trusts the session id. *)
PeekToDestroyUnbound ==
  /\ stage = "peek"
  /\ req.op = "destroy"
  /\ stage' = "act"
  /\ UNCHANGED <<vars, config, req, verdict, owner, direct>>

(* _handle_destroy_session: only a session that peek_session finds is      *)
(* compared with the caller's tenant.                                      *)
PeekToDestroy ==
  /\ stage = "peek"
  /\ req.op = "destroy"
  /\ stage' = IF Alive(req.id) => OwnSession(req.id) THEN "act" ELSE "idle"
  /\ UNCHANGED <<vars, config, req, verdict, owner, direct>>

(* get_session before the policy check: 404 if the session is gone. *)
GetToRun ==
  /\ stage = "get"
  /\ CallGet(req.id, "save")
  /\ stage' = IF Alive(req.id) THEN "policy" ELSE "idle"
  /\ UNCHANGED <<config, req, verdict, owner, direct>>

(* _evaluate_policy and _enforce_or_respond: go on, or answer 403. *)
Evaluate ==
  /\ stage = "policy"
  /\ Returned
  /\ \E v \in {"allow", "deny", "requires_approval", FallbackResult} :
       \/ enforce(v) /\ stage' = "act" /\ verdict' = v
       \/ ~enforce(v) /\ stage' = "idle" /\ UNCHANGED verdict
  /\ UNCHANGED <<vars, config, req, owner, direct>>

(* The policy client raises on an answer it cannot convert: 500. *)
EvaluateRaises ==
  /\ stage = "policy"
  /\ Returned
  /\ stage' = "idle"
  /\ UNCHANGED <<vars, config, req, verdict, owner, direct>>

(* _handle_create_session once the policy has let it pass. *)
ActCreate ==
  /\ stage = "act"
  /\ req.op = "create"
  /\ AcquireSlot(Server) \/ FindFull(Server)
  /\ stage' = "idle"
  /\ UNCHANGED <<config, req, verdict, owner, direct>>

(* _handle_session_execute: the session may have gone since GetToRun. *)
ActRun ==
  /\ stage = "act"
  /\ req.op = "run"
  /\ CallGet(req.id, "saveExec")
  /\ stage' = "idle"
  /\ UNCHANGED <<config, req, verdict, owner, direct>>

(* _handle_destroy_session: 404 if there is no such session. *)
ActDestroy ==
  /\ stage = "act"
  /\ req.op = "destroy"
  /\ \/ DestroySession(Server, req.id)
     \/ req.id \notin sessions /\ UNCHANGED vars
  /\ stage' = "idle"
  /\ UNCHANGED <<config, req, verdict, owner, direct>>

(* /execute: CodeSandbox as a context manager; create may fail. *)
EnterSandbox ==
  /\ stage = "act"
  /\ req.op = "execute"
  /\ \/ stage' = "direct" /\ direct' = TRUE
     \/ stage' = "idle" /\ UNCHANGED direct
  /\ UNCHANGED <<vars, config, req, verdict, owner>>

(* The code returns, fails or times out; __exit__ destroys the sandbox. *)
LeaveSandbox ==
  /\ stage = "direct"
  /\ stage' = "idle"
  /\ direct' = FALSE
  /\ UNCHANGED <<vars, config, req, verdict, owner>>

(* The manager takes a step by itself.  A session gets its metadata when   *)
(* it is registered.                                                       *)
Metadata ==
  /\ owner' = [s \in Sid |-> IF s \in sessions' \ sessions THEN req.tenant
                                                           ELSE owner[s]]
  /\ UNCHANGED <<config, stage, req, verdict, direct>>

CallGoesOn == Continue(Server) /\ Metadata

Background == (Continue(Janitor) \/ CleanupPass \/ Tick) /\ Metadata

(* KeyboardInterrupt while the server waits for a request. *)
Shutdown ==
  /\ stage = "idle"
  /\ ~stopping
  /\ StopSignal(Server)
  /\ UNCHANGED apiVars

Handle ==
  \/ PeekToRun \/ PeekToDestroy \/ GetToRun \/ Evaluate \/ EvaluateRaises
  \/ ActCreate \/ ActRun \/ ActDestroy \/ EnterSandbox \/ LeaveSandbox

ApiNext ==
  \/ \E r \in Request : ReceiveForPolicy(r) \/ ReceiveForSession(r)
  \/ Handle
  \/ CallGoesOn
  \/ Background
  \/ Shutdown

ApiSpec == ApiInit /\ [][ApiNext]_allVars

(* A handler runs until it has answered: the policy client, the state      *)
(* store, Docker and the executed code all have time-outs.                 *)
ApiFairSpec ==
  /\ ApiSpec
  /\ WF_allVars(Handle)
  /\ WF_allVars(CallGoesOn)

-----------------------------------------------------------------------------
(* Properties.                                                             *)

(* What the properties rest on: where the manager can be while a handler   *)
(* is at a stage, and what the handler has established by then.            *)
Creating == {"full", "purge", "retry"} \cup Holding

HandlerInv ==
  /\ pc[Janitor] \in {"idle", "del"}
  /\ pc[Server] = "stopping" => stopping
  /\ stage \in {"peek", "get", "act", "direct"} => Returned
  /\ stage = "policy" => pc[Server] \in {"idle", "save"} /\ req.op # "destroy"
  /\ stage = "get" => req.op = "run"
  /\ stage # "idle" \/ pc[Server] \in Creating => req.tenant \in Tenant
  /\ verdict = "open" => config.fail = "open"
  /\ pc[Server] \in Creating \/ (stage = "act" /\ req.op # "destroy")
       => enforce(verdict)
  /\ stage \in {"get", "policy", "act"} /\ req.op = "run" => OwnSession(req.id)
  /\ stage = "act" /\ req.op = "destroy" /\ Alive(req.id)
       => OwnSession(req.id)

(* Every step of the server is one the manager allows: the handlers use it *)
(* by its methods only, and what holds of the manager holds here.          *)
UsesManager == Spec

(* Code runs in a session for the tenant the session was created for, and  *)
(* only once the policy has let this very request pass, although session   *)
(* and tenant are looked up one, two and three calls earlier, and the      *)
(* cleanup thread and other requests come between.                         *)
RunsForOwner ==
  pc[Server] \in {"saveExec", "run"} =>
    /\ req.tenant = owner[sid[Server]]
    /\ enforce(verdict)

(* A request of another tenant neither destroys a live session nor         *)
(* prolongs its life: what test_api_server_session_lifecycle.py:348 checks *)
(* of one request, for every sequence of them.                             *)
ForeignRequestHarmless ==
  [][\A s \in sessions :
       (~is_expired(s) /\ ~stopping /\ owner[s] # req.tenant)
         => s \in sessions' /\ idleTime'[s] >= idleTime[s]]_allVars

(* With POLICY_MODE=enforce and POLICY_FAIL_MODE=closed, no sandbox is     *)
(* started unless OPA itself allowed the request being handled: an outage, *)
(* a denial or a pending approval starts nothing.                          *)
NothingStartsUnapproved ==
  [][(config = SafeConfig
        /\ (issued' # issued \/ (direct' /\ ~direct)))
       => verdict = "allow"]_allVars

(* "Maximum session limit reached" is the truth: the server is the only    *)
(* caller, so it is refused a session only when the table is full (if only *)
(* because one of its sessions expired after create_session cleaned up).   *)
RefusedOnlyWhenFull ==
  [][(pc[Server] = "retry" /\ pc'[Server] = "idle")
       => Cardinality(sessions) = MaxSessions]_allVars

(* Every request is answered, and the server is free for the next one.     *)
RequestsEnd == (stage # "idle") ~> (stage = "idle" /\ Returned)
=============================================================================
