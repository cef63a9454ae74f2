--------------------------- MODULE PolicyRegistry ---------------------------
(***************************************************************************)
(* The policy registry.  Operators edit the rules of the draft policy and  *)
(* publish revisions of it through n8n workflows                           *)
(* (n8n/workflows-v3/06, 07 and 12), whose nodes call the policy bundle    *)
(* server one after the other (docker/policy-bundle-server/server.py): it  *)
(* keeps the draft, the revisions and a publish log in Postgres, and the   *)
(* registry in force in a file, from which it builds the bundle that OPA   *)
(* polls.                                                                  *)
(*                                                                         *)
(* The server is a single-threaded HTTPServer: a request is a step of an   *)
(* idle server, and a database request is one transaction.  Replacing the  *)
(* file takes several steps, because the process may die between them.     *)
(*                                                                         *)
(* Abstractions.  A rule is a key of policy_workflows, its setting stands  *)
(* for constraints and enabled; the payload of a revision is the draft at  *)
(* the time.  Log rows are kept for published revisions only: those of     *)
(* edits all carry the revision "draft".  n8n stays up.                    *)
(***************************************************************************)
EXTENDS Integers, FiniteSets

CONSTANTS
  Run,          \* workflow executions that can be in progress at once
  Rule,         \* keys of policy_workflows
  Setting,      \* what an upsert can give a rule
  Rev,          \* revision ids
  Registry,     \* bodies operators send to POST /registry/publish
  PublishKey,   \* POLICY_BUNDLE_PUBLISH_API_KEY, NoKey if it is not set
  MaxTries,     \* maxTries of the last two nodes of workflow 07
  MaxLate,      \* bound: abandoned requests in the server's backlog
  NoKey, Absent, NoPayload, NoFile, Torn, Baseline, NotLoaded

ASSUME TriesAssumption == MaxTries \in Nat \ {0}
ASSUME LateAssumption == MaxLate \in Nat
ASSUME NoPayloadAssumption == NoPayload \notin [Rule -> Setting \cup {Absent}]
ASSUME RegistryAssumption ==
  /\ Registry \cap {NoFile, Torn, Baseline, NotLoaded} = {}
  /\ NoFile # Torn

VARIABLES
  policy,      \* policy_workflows: the setting of each rule, or Absent
  revisions,   \* policy_revisions.payload_jsonb, or NoPayload
  active,      \* the revisions with is_active
  log,         \* the revisions with a publish row in policy_publish_logs
  run,         \* the workflow executions
  late,        \* requests n8n gave up on that the server has yet to read
  server,      \* what the server is doing
  posted,      \* the body of the POST /registry/publish it is serving
  tmp,         \* policy_registry.json.tmp
  runtime,     \* policy_registry.json
  opa          \* the bundle OPA decides with

dbvars   == <<policy, revisions, active, log>>
filevars == <<server, posted, tmp, runtime>>
vars     == <<dbvars, run, late, filevars, opa>>

Draft     == [Rule -> Setting \cup {Absent}]
Upserts   == [op: {"upsert"}, rule: Rule, setting: Setting]
Deletes   == [op: {"delete"}, rule: Rule]
Publishes == [op: {"publish"}, rev: Rev]
Request   == Upserts \cup Deletes \cup Publishes

(* The node an execution is at: the one that changes the database, Insert  *)
(* Log, Load Published Payload, Publish To Bundle Server, Check Bundle     *)
(* Server; then its answer to the caller of the webhook.                   *)
Busy     == {"change", "log", "load", "bundle", "health"}
Answered == {"ok", "error"}

Executions ==
  [at: Busy \cup Answered, req: Request, tries: 0 .. MaxTries - 1]
    \cup [at: {"idle"}]

PRTypeOK ==
  /\ policy \in Draft
  /\ revisions \in [Rev -> Draft \cup {NoPayload}]
  /\ active \subseteq Rev
  /\ log \subseteq Rev
  /\ run \in [Run -> Executions]
  /\ late \subseteq [at: {"change", "log"}, req: Request]
  /\ server \in {"idle", "writing", "replacing", "down"}
  /\ posted \in Registry \cup {NoFile}
  /\ tmp \in Registry \cup {NoFile, Torn}
  /\ runtime \in Registry \cup {NoFile, Torn}
  /\ opa \in Registry \cup {Baseline, NotLoaded}

PRInit ==
  /\ policy = [r \in Rule |-> Absent]
  /\ revisions = [v \in Rev |-> NoPayload]
  /\ active = {}
  /\ log = {}
  /\ run = [e \in Run |-> [at |-> "idle"]]
  /\ late = {}
  /\ server = "idle"
  /\ posted = NoFile
  /\ tmp = NoFile
  /\ runtime = NoFile
  /\ opa = NotLoaded

-----------------------------------------------------------------------------
(* The database requests of the server.                                    *)

UpsertWorkflow(q) ==
  /\ q.op = "upsert"
  /\ policy' = [policy EXCEPT ![q.rule] = q.setting]
  /\ UNCHANGED <<revisions, active>>

DeleteWorkflow(q) ==
  /\ q.op = "delete"
  /\ policy' = [policy EXCEPT ![q.rule] = Absent]
  /\ UNCHANGED <<revisions, active>>

(* Seeded fault: the other revisions stay active. *)
PublishRevisionAlone(q) ==
  /\ q.op = "publish"
  /\ revisions' = [revisions EXCEPT ![q.rev] = policy]
  /\ active' = active \cup {q.rev}
  /\ UNCHANGED policy

(* One statement stores the draft as the revision, active, and deactivates *)
(* the revisions with another id.                                          *)
PublishRevision(q) ==
  /\ q.op = "publish"
  /\ revisions' = [revisions EXCEPT ![q.rev] = policy]
  /\ active' = (active \ {v \in Rev : v # q.rev}) \cup {q.rev}
  /\ UNCHANGED policy

ChangeDatabase(q) ==
  /\ UpsertWorkflow(q) \/ DeleteWorkflow(q) \/ PublishRevision(q)
  /\ UNCHANGED log

AppendLog(q) ==
  /\ log' = IF q.op = "publish" THEN log \cup {q.rev} ELSE log
  /\ UNCHANGED <<policy, revisions, active>>

-----------------------------------------------------------------------------
(* Workflow executions.                                                    *)

GoTo(e, node) == run' = [run EXCEPT ![e].at = node]

(* The webhook accepts a request.                                          *)
Start(e, q) ==
  /\ run[e].at \notin Busy
  /\ run' = [run EXCEPT ![e] = [at |-> "change", req |-> q, tries |-> 0]]
  /\ UNCHANGED <<dbvars, late, filevars, opa>>

ChangeNode(e) ==
  /\ run[e].at = "change"
  /\ server = "idle"
  /\ ChangeDatabase(run[e].req)
  /\ GoTo(e, "log")
  /\ UNCHANGED <<late, filevars, opa>>

LogNode(e) ==
  /\ run[e].at = "log"
  /\ server = "idle"
  /\ AppendLog(run[e].req)
  /\ GoTo(e, IF run[e].req.op = "publish" THEN "load" ELSE "ok")
  /\ UNCHANGED <<late, filevars, opa>>

LoadNode(e) ==
  /\ run[e].at = "load"
  /\ server = "idle"
  /\ GoTo(e, "bundle")
  /\ UNCHANGED <<dbvars, late, filevars, opa>>

(* Seeded fault: the first try is not counted. *)
RetryOnceMore(e, next) ==
  run' = IF run[e].tries < MaxTries
           THEN [run EXCEPT ![e].tries = @ + 1]
           ELSE [run EXCEPT ![e] = [at |-> next, req |-> @.req, tries |-> 0]]

(* Seeded fault: the node never stops trying. *)
RetryForEver(e, next) ==
  run' = [run EXCEPT ![e].tries = (@ + 1) % MaxTries]

(* A failed call of a node with retryOnFail and continueOnFail: another    *)
(* try, or on to the next node with the error for its output.              *)
Retry(e, next) ==
  run' = IF run[e].tries + 1 < MaxTries
           THEN [run EXCEPT ![e].tries = @ + 1]
           ELSE [run EXCEPT ![e] = [at |-> next, req |-> @.req, tries |-> 0]]

PublishAuthorised(key) == PublishKey # NoKey /\ key = PublishKey

(* The node sends no X-API-Key, so that the server, if it answers, refuses *)
(* every try: 503 if it has no publish key, 401 if it has one.             *)
NodeKey == NoKey

BundleNode(e) ==
  /\ run[e].at = "bundle"
  /\ ~PublishAuthorised(NodeKey)
  /\ Retry(e, "health")
  /\ UNCHANGED <<dbvars, late, filevars, opa>>

(* GET /healthz; the answer of the workflow does not depend on it.         *)
HealthNode(e) ==
  /\ run[e].at = "health"
  /\ \/ server = "idle" /\ GoTo(e, "ok")
     \/ server # "idle" /\ Retry(e, "ok")
  /\ UNCHANGED <<dbvars, late, filevars, opa>>

(* Seeded fault: these nodes too have continueOnFail. *)
NodeFailsOnward(e) ==
  /\ run[e].at \in {"change", "log", "load"}
  /\ GoTo(e, CASE run[e].at = "change" -> "log"
               [] run[e].at = "log" -> "load"
               [] OTHER -> "bundle")
  /\ UNCHANGED <<dbvars, late, filevars, opa>>

(* Any other node that fails ends the execution: the server is down, or    *)
(* the database refuses and the server answers 500 or 503.                 *)
NodeFails(e) ==
  /\ run[e].at \in {"change", "log", "load"}
  /\ GoTo(e, "error")
  /\ UNCHANGED <<dbvars, late, filevars, opa>>

(* n8n gives up after 30 s, but the request stays in the server's backlog. *)
NodeTimesOut(e) ==
  /\ run[e].at \in {"change", "log"}
  /\ Cardinality(late) < MaxLate
  /\ late' = late \cup {[at |-> run[e].at, req |-> run[e].req]}
  /\ GoTo(e, "error")
  /\ UNCHANGED <<dbvars, filevars, opa>>

Continue(e) ==
  \/ ChangeNode(e) \/ LogNode(e) \/ LoadNode(e) \/ BundleNode(e)
  \/ HealthNode(e) \/ NodeFails(e) \/ NodeTimesOut(e)

ServeLate(l) ==
  /\ server = "idle"
  /\ \/ l.at = "change" /\ ChangeDatabase(l.req)
     \/ l.at = "log" /\ AppendLog(l.req)
  /\ late' = late \ {l}
  /\ UNCHANGED <<run, filevars, opa>>

-----------------------------------------------------------------------------
(* The file, the process and OPA.                                          *)

(* Seeded fault: the registry file is written in place. *)
BeginPublishInPlace(b) ==
  /\ server = "idle"
  /\ PublishAuthorised(PublishKey)
  /\ server' = "writing"
  /\ posted' = b
  /\ tmp' = Torn
  /\ runtime' = Torn
  /\ UNCHANGED <<dbvars, run, late, opa>>

(* POST /registry/publish with the key: open the temporary file, write it, *)
(* then os.replace.                                                        *)
BeginPublish(b) ==
  /\ server = "idle"
  /\ PublishAuthorised(PublishKey)
  /\ server' = "writing"
  /\ posted' = b
  /\ tmp' = Torn
  /\ UNCHANGED <<dbvars, run, late, runtime, opa>>

WriteFile ==
  /\ server = "writing"
  /\ server' = "replacing"
  /\ tmp' = posted
  /\ UNCHANGED <<dbvars, run, late, posted, runtime, opa>>

ReplaceFile ==
  /\ server = "replacing"
  /\ server' = "idle"
  /\ runtime' = tmp
  /\ tmp' = NoFile
  /\ posted' = NoFile
  /\ UNCHANGED <<dbvars, run, late, opa>>

Crash ==
  /\ server # "down"
  /\ server' = "down"
  /\ posted' = NoFile
  /\ UNCHANGED <<dbvars, run, late, tmp, runtime, opa>>

(* "restart: always"                                                       *)
Restart ==
  /\ server = "down"
  /\ server' = "idle"
  /\ UNCHANGED <<dbvars, run, late, posted, tmp, runtime, opa>>

(* Seeded fault: the bundle is built from the temporary file. *)
BundleOfTmp == IF tmp \in {NoFile, Torn} THEN Baseline ELSE tmp

(* A file that is missing or does not parse leaves the baseline data, in   *)
(* which the registry has no workflows.                                    *)
Bundle == IF runtime \in {NoFile, Torn} THEN Baseline ELSE runtime

PollBundle ==
  /\ server = "idle"
  /\ opa' = Bundle
  /\ UNCHANGED <<dbvars, run, late, filevars>>

OpaRestarts ==
  /\ opa' = NotLoaded
  /\ UNCHANGED <<dbvars, run, late, filevars>>

-----------------------------------------------------------------------------
PRNext ==
  \/ \E e \in Run : (\E q \in Request : Start(e, q)) \/ Continue(e)
  \/ \E l \in late : ServeLate(l)
  \/ \E b \in Registry : BeginPublish(b)
  \/ WriteFile \/ ReplaceFile
  \/ Crash \/ Restart
  \/ PollBundle \/ OpaRestarts

PRSpec == PRInit /\ [][PRNext]_vars

(* Every call of a node ends, by its time-out at the latest; the server    *)
(* finishes what it serves unless it dies, and is restarted; OPA polls for *)
(* ever, and not each of its polls meets a server that is down.            *)
PRFairSpec ==
  /\ PRSpec
  /\ \A e \in Run : WF_vars(Continue(e))
  /\ WF_vars(WriteFile) /\ WF_vars(ReplaceFile) /\ WF_vars(Restart)
  /\ SF_vars(PollBundle)

-----------------------------------------------------------------------------
(* Properties.                                                             *)

IsPublish(e) == run[e].at # "idle" /\ run[e].req.op = "publish"

(* A publish that was answered "ok" is on record: the database has the     *)
(* revision with its payload and the log has its row, in spite of failing  *)
(* nodes; and the log names no revision the database does not have, even   *)
(* when requests are served after their senders gave up.                   *)
PublishesOnRecord ==
  /\ \A e \in Run : run[e].at = "ok" /\ IsPublish(e) => run[e].req.rev \in log
  /\ \A v \in log : revisions[v] # NoPayload

(* However publishes interleave, fail halfway or come late: as soon as     *)
(* there is a revision exactly one is active.                              *)
OneActiveRevision ==
  \/ active = {} /\ \A v \in Rev : revisions[v] = NoPayload
  \/ \E v \in Rev : active = {v} /\ revisions[v] # NoPayload

(* Once OPA decides with a published registry it never falls back to the   *)
(* baseline, where the registered workflows are unknown, except by its own *)
(* restart: no crash of the server in the middle of a publish leaves a     *)
(* file that build_bundle_bytes cannot read.                               *)
RegistrySurvives ==
  [][(opa \in Registry) => (opa' \in Registry \cup {NotLoaded})]_opa

(* What the registry promises: see RevisionRegistry. *)
Promise == INSTANCE RevisionRegistry
             WITH Nothing <- NoFile,
                  stored <- {v \in Rev : revisions[v] # NoPayload},
                  logged <- log,
                  inForce <- runtime,
                  read <- opa

(* Interleaved, failing, abandoned and late requests look like one publish *)
(* after the other, and a file that is written, renamed and perhaps lost   *)
(* in a crash like a registry that is replaced at once.                    *)
ImplementsRegistry == Promise!Spec

(* Every execution of a workflow answers its caller, whatever the server   *)
(* does.                                                                   *)
RunsEnd == \A e \in Run : run[e].at \in Busy ~> run[e].at \in Answered

(* What the file says is what OPA decides with in the end, unless the file *)
(* is replaced before that.                                                *)
ReflectsRuntime ==
  \A b \in Registry : runtime = b ~> (opa = b \/ runtime # b)

(* The runbook's expectation of a publish that answers status ok: "GET     *)
(* /registry/current: revision id matches publish request".  Violated: the *)
(* runtime publish is refused and workflow 07 answers ok all the same.     *)
PublishTakesEffect ==
  \A e \in Run :
    run[e].at = "ok" /\ IsPublish(e) =>
      \E b \in Registry : runtime = b /\ b.rev = run[e].req.rev
=============================================================================
