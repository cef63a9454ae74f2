------------------------ MODULE PolicyRegistryProofs ------------------------
(***************************************************************************)
(* Theorems about PolicyRegistry, for any number of executions, rules,     *)
(* revisions, settings, posted bodies, tries and abandoned requests.       *)
(***************************************************************************)
EXTENDS PolicyRegistry, TLAPS

(* A revision is in the database before the execution that publishes it    *)
(* reaches the log, and in the log before it is loaded; a log request left *)
(* in the backlog comes from such an execution.                            *)
Stored(q) == q.op = "publish" => revisions[q.rev] # NoPayload
Logged(q) == q.op = "publish" => q.rev \in log

RunsRecorded ==
  \A e \in Run :
    /\ run[e].at \in {"log", "load", "bundle", "health", "ok"} => Stored(run[e].req)
    /\ run[e].at \in {"load", "bundle", "health", "ok"} => Logged(run[e].req)

LateRecorded == \A l \in late : l.at = "log" => Stored(l.req)

LogRecorded == \A v \in log : revisions[v] # NoPayload

(* The registry file is complete at all times, and what replaces it is.    *)
FileInv ==
  /\ server = "writing" => posted \in Registry
  /\ server = "replacing" => tmp \in Registry
  /\ runtime # Torn
  /\ opa \in Registry => runtime \in Registry

PRInv ==
  /\ PRTypeOK
  /\ RunsRecorded
  /\ LateRecorded
  /\ LogRecorded
  /\ OneActiveRevision
  /\ FileInv

-----------------------------------------------------------------------------
(* The shape of executions.                                                *)

LEMMA Requests ==
  ASSUME NEW q \in Request
  PROVE  /\ q.op \in {"upsert", "delete", "publish"}
         /\ q.op = "publish" => q.rev \in Rev
         /\ q.op = "upsert" => q.rule \in Rule /\ q.setting \in Setting
         /\ q.op = "delete" => q.rule \in Rule
BY DEF Request, Upserts, Deletes, Publishes

LEMMA BusyExecution ==
  ASSUME NEW x \in Executions, x.at # "idle"
  PROVE  /\ x = [at |-> x.at, req |-> x.req, tries |-> x.tries]
         /\ x.at \in Busy \cup Answered
         /\ x.req \in Request
         /\ x.tries \in 0 .. MaxTries - 1
BY DEF Executions, Busy, Answered

(* What a step of execution e can do to run.                               *)
Moves(e, to) ==
  /\ run' \in [Run -> Executions]
  /\ run'[e].at = to
  /\ run'[e].req = run[e].req
  /\ \A d \in Run \ {e} : run'[d] = run[d]

LEMMA GoToMoves ==
  ASSUME PRTypeOK, NEW e \in Run, run[e].at # "idle",
         NEW to \in Busy \cup Answered, GoTo(e, to)
  PROVE  Moves(e, to)
<1> DEFINE x == [at |-> to, req |-> run[e].req, tries |-> run[e].tries]
<1>1. run[e] \in Executions /\ run \in [Run -> Executions]
  BY DEF PRTypeOK
<1>2. /\ run[e] = [at |-> run[e].at, req |-> run[e].req, tries |-> run[e].tries]
      /\ run[e].req \in Request
      /\ run[e].tries \in 0 .. MaxTries - 1
  BY <1>1, BusyExecution
<1>3. [run[e] EXCEPT !.at = to] = x
  BY <1>2
<1>4. x \in Executions
  BY <1>2 DEF Executions
<1>5. run' = [run EXCEPT ![e] = x]
  BY <1>1, <1>3 DEF GoTo
<1> HIDE DEF x
<1>6. run' \in [Run -> Executions] /\ run'[e] = x /\ \A d \in Run \ {e} : run'[d] = run[d]
  BY <1>1, <1>4, <1>5
<1> QED BY <1>6 DEF Moves, x

LEMMA RetryMoves ==
  ASSUME PRTypeOK, NEW e \in Run, run[e].at # "idle",
         NEW next \in Busy \cup Answered, Retry(e, next)
  PROVE  Moves(e, run[e].at) \/ Moves(e, next)
<1>1. run[e] \in Executions /\ run \in [Run -> Executions]
  BY DEF PRTypeOK
<1>2. /\ run[e] = [at |-> run[e].at, req |-> run[e].req, tries |-> run[e].tries]
      /\ run[e].at \in Busy \cup Answered
      /\ run[e].req \in Request
      /\ run[e].tries \in 0 .. MaxTries - 1
  BY <1>1, BusyExecution
<1>3. CASE run[e].tries + 1 < MaxTries
  <2> DEFINE x == [at |-> run[e].at, req |-> run[e].req, tries |-> run[e].tries + 1]
  <2>1. [run[e] EXCEPT !.tries = @ + 1] = x
    BY <1>2
  <2>2. run[e].tries + 1 \in 0 .. MaxTries - 1
    BY <1>2, <1>3, TriesAssumption
  <2>3. x \in Executions
    BY <1>2, <2>2 DEF Executions
  <2>4. run' = [run EXCEPT ![e] = x]
    BY <1>1, <1>3, <2>1 DEF Retry
  <2> HIDE DEF x
  <2>5. run' \in [Run -> Executions] /\ run'[e] = x /\ \A d \in Run \ {e} : run'[d] = run[d]
    BY <1>1, <2>3, <2>4
  <2> QED BY <2>5 DEF Moves, x
<1>4. CASE ~(run[e].tries + 1 < MaxTries)
  <2> DEFINE x == [at |-> next, req |-> run[e].req, tries |-> 0]
  <2>2. 0 \in 0 .. MaxTries - 1
    BY TriesAssumption
  <2>3. x \in Executions
    BY <1>2, <2>2 DEF Executions
  <2>4. run' = [run EXCEPT ![e] = x]
    BY <1>1, <1>4 DEF Retry
  <2> HIDE DEF x
  <2>5. run' \in [Run -> Executions] /\ run'[e] = x /\ \A d \in Run \ {e} : run'[d] = run[d]
    BY <1>1, <2>3, <2>4
  <2> QED BY <2>5 DEF Moves, x
<1> QED BY <1>3, <1>4

-----------------------------------------------------------------------------
(* The database only gains revisions and log rows.                         *)

Grows ==
  /\ \A v \in Rev : revisions[v] # NoPayload => revisions'[v] # NoPayload
  /\ log \subseteq log'

DbTypeOK == /\ policy \in Draft
            /\ revisions \in [Rev -> Draft \cup {NoPayload}]
            /\ active \subseteq Rev
            /\ log \subseteq Rev

LEMMA DraftsArePayloads == \A d \in Draft : d # NoPayload
BY NoPayloadAssumption DEF Draft

LEMMA ChangeStep ==
  ASSUME PRInv, NEW q \in Request, ChangeDatabase(q)
  PROVE  DbTypeOK' /\ Grows /\ OneActiveRevision' /\ LogRecorded' /\ Stored(q)'
<1> USE DEF DbTypeOK, Grows, LogRecorded
<1>1. PRTypeOK /\ OneActiveRevision /\ LogRecorded
  BY DEF PRInv
<1>2. log' = log
  BY DEF ChangeDatabase
<1>3. CASE UpsertWorkflow(q)
  <2>1. q.op = "upsert" /\ q.rule \in Rule /\ q.setting \in Setting
    BY <1>3, Requests DEF UpsertWorkflow
  <2>2. policy' \in Draft
    BY <1>1, <1>3, <2>1 DEF UpsertWorkflow, PRTypeOK, Draft
  <2> QED BY <1>1, <1>2, <1>3, <2>1, <2>2 DEF UpsertWorkflow, PRTypeOK, OneActiveRevision, Stored
<1>4. CASE DeleteWorkflow(q)
  <2>1. q.op = "delete" /\ q.rule \in Rule
    BY <1>4, Requests DEF DeleteWorkflow
  <2>2. policy' \in Draft
    BY <1>1, <1>4, <2>1 DEF DeleteWorkflow, PRTypeOK, Draft
  <2> QED BY <1>1, <1>2, <1>4, <2>1, <2>2 DEF DeleteWorkflow, PRTypeOK, OneActiveRevision, Stored
<1>5. CASE PublishRevision(q)
  <2>1. q.op = "publish" /\ q.rev \in Rev
    BY <1>5, Requests DEF PublishRevision
  <2>2. policy \in Draft /\ policy # NoPayload
    BY <1>1, DraftsArePayloads DEF PRTypeOK
  <2>3. /\ revisions' \in [Rev -> Draft \cup {NoPayload}]
        /\ revisions'[q.rev] # NoPayload
        /\ \A v \in Rev : v # q.rev => revisions'[v] = revisions[v]
    BY <1>1, <1>5, <2>1, <2>2 DEF PublishRevision, PRTypeOK
  <2>4. active' = {q.rev}
    BY <1>1, <1>5, <2>1 DEF PublishRevision, PRTypeOK
  <2>5. policy' = policy
    BY <1>5 DEF PublishRevision
  <2>6. log \subseteq Rev
    BY <1>1 DEF PRTypeOK
  <2> QED BY <1>1, <1>2, <2>1, <2>2, <2>3, <2>4, <2>5, <2>6 DEF OneActiveRevision, Stored
<1> QED BY <1>3, <1>4, <1>5 DEF ChangeDatabase

LEMMA LogStep ==
  ASSUME PRInv, NEW q \in Request, Stored(q), AppendLog(q)
  PROVE  /\ DbTypeOK' /\ Grows /\ OneActiveRevision' /\ LogRecorded'
         /\ Stored(q)' /\ Logged(q)'
<1> USE DEF DbTypeOK, Grows, LogRecorded
<1>1. PRTypeOK /\ OneActiveRevision /\ LogRecorded
  BY DEF PRInv
<1>2. UNCHANGED <<policy, revisions, active>>
  BY DEF AppendLog
<1>3. CASE q.op = "publish"
  <2>1. q.rev \in Rev /\ revisions[q.rev] # NoPayload
    BY <1>3, Requests DEF Stored
  <2>2. log' = log \cup {q.rev}
    BY <1>3 DEF AppendLog
  <2> QED BY <1>1, <1>2, <1>3, <2>1, <2>2 DEF PRTypeOK, OneActiveRevision, Stored, Logged
<1>4. CASE q.op # "publish"
  <2>1. log' = log
    BY <1>4 DEF AppendLog
  <2> QED BY <1>1, <1>2, <1>4, <2>1 DEF PRTypeOK, OneActiveRevision, Stored, Logged
<1> QED BY <1>3, <1>4

LEMMA StillRecorded ==
  ASSUME PRInv, Grows, NEW q \in Request
  PROVE  /\ Stored(q) => Stored(q)'
         /\ Logged(q) => Logged(q)'
BY Requests DEF Grows, Stored, Logged

LEMMA UnchangedDatabase ==
  ASSUME PRInv, UNCHANGED dbvars
  PROVE  DbTypeOK' /\ Grows /\ OneActiveRevision' /\ LogRecorded'
BY DEF PRInv, PRTypeOK, dbvars, DbTypeOK, Grows, OneActiveRevision, LogRecorded

(* An execution that moves keeps the records, if its own request is on     *)
(* record as far as its new node needs.                                    *)
LEMMA MovedRuns ==
  ASSUME PRInv, Grows, NEW e \in Run, run[e].at # "idle", NEW to, Moves(e, to),
         NEW q \in Request, q = run[e].req,
         to \in {"log", "load", "bundle", "health", "ok"} => Stored(q)',
         to \in {"load", "bundle", "health", "ok"} => Logged(q)'
  PROVE  RunsRecorded' /\ run' \in [Run -> Executions]
<1>1. ASSUME NEW d \in Run
      PROVE  /\ run'[d].at \in {"log", "load", "bundle", "health", "ok"} => Stored(run[d].req)'
             /\ run'[d].at \in {"load", "bundle", "health", "ok"} => Logged(run[d].req)'
  <2>1. CASE d = e
    <3>1. run'[d].at = to /\ run'[d].req = q
      BY <2>1 DEF Moves
    <3> QED BY <3>1 DEF Stored, Logged
  <2>2. CASE d # e
    <3>1. run'[d] = run[d] /\ run[d] \in Executions
      BY <2>2 DEF Moves, PRInv, PRTypeOK
    <3>2. CASE run[d].at \in {"log", "load", "bundle", "health", "ok"}
      <4>1. PICK r \in Request : r = run[d].req
        BY <3>1, <3>2, BusyExecution
      <4>2. Stored(r) /\ (run[d].at \in {"load", "bundle", "health", "ok"} => Logged(r))
        BY <3>2, <4>1 DEF PRInv, RunsRecorded
      <4>3. Stored(r)' /\ (run[d].at \in {"load", "bundle", "health", "ok"} => Logged(r)')
        BY <4>2, StillRecorded
      <4> QED BY <3>1, <4>1, <4>3 DEF Stored, Logged
    <3>3. CASE run[d].at \notin {"log", "load", "bundle", "health", "ok"}
      BY <3>1, <3>3
    <3> QED BY <3>2, <3>3
  <2> QED BY <2>1, <2>2
<1> QED BY <1>1 DEF RunsRecorded, Moves

LEMMA LateKept ==
  ASSUME PRInv, Grows, late' \subseteq late
  PROVE  LateRecorded' /\ late' \subseteq [at: {"change", "log"}, req: Request]
<1>1. late \subseteq [at: {"change", "log"}, req: Request] /\ LateRecorded
  BY DEF PRInv, PRTypeOK
<1>2. ASSUME NEW l \in late', l.at = "log"
      PROVE  Stored(l.req)'
  <2>1. l.req \in Request /\ Stored(l.req)
    BY <1>1, <1>2 DEF LateRecorded
  <2> QED BY <2>1, StillRecorded
<1> QED BY <1>1, <1>2 DEF LateRecorded

(* What makes up the invariant after a step that is none of the file's.    *)
LEMMA Assemble ==
  ASSUME PRInv, UNCHANGED <<filevars, opa>>,
         DbTypeOK', OneActiveRevision', LogRecorded',
         RunsRecorded', run' \in [Run -> Executions],
         LateRecorded', late' \subseteq [at: {"change", "log"}, req: Request]
  PROVE  PRInv'
BY DEF PRInv, PRTypeOK, DbTypeOK, FileInv, filevars

-----------------------------------------------------------------------------
(* One lemma for the steps of an execution, one for the other steps.       *)

LEMMA MoveKeepsInv ==
  ASSUME PRInv, NEW e \in Run, run[e].at # "idle",
         NEW to, Moves(e, to), DbTypeOK', Grows, OneActiveRevision', LogRecorded',
         NEW q \in Request, q = run[e].req,
         to \in {"log", "load", "bundle", "health", "ok"} => Stored(q)',
         to \in {"load", "bundle", "health", "ok"} => Logged(q)',
         late' \subseteq late, UNCHANGED <<filevars, opa>>
  PROVE  PRInv'
<1>1. RunsRecorded' /\ run' \in [Run -> Executions]
  BY MovedRuns
<1>2. LateRecorded' /\ late' \subseteq [at: {"change", "log"}, req: Request]
  BY LateKept
<1> QED BY <1>1, <1>2, Assemble

LEMMA ExecutionStep ==
  ASSUME PRInv, NEW e \in Run, Continue(e)
  PROVE  PRInv'
<1>1. PRTypeOK /\ run[e] \in Executions
  BY DEF PRInv, PRTypeOK
<1>2. run[e].at # "idle"
  BY DEF Continue, ChangeNode, LogNode, LoadNode, BundleNode, HealthNode,
         NodeFails, NodeTimesOut
<1>3. PICK q \in Request : q = run[e].req
  BY <1>1, <1>2, BusyExecution
<1>4. /\ run[e].at \in {"log", "load", "bundle", "health", "ok"} => Stored(q)
      /\ run[e].at \in {"load", "bundle", "health", "ok"} => Logged(q)
  BY <1>3 DEF PRInv, RunsRecorded
<1> DEFINE nodes == Busy \cup Answered
<1>5. {"log", "load", "bundle", "health", "ok", "error"} \subseteq nodes
  BY DEF Busy, Answered
<1> HIDE DEF nodes
<1>6. ASSUME NEW to \in nodes, GoTo(e, to)
      PROVE  Moves(e, to)
  BY <1>1, <1>2, <1>6, GoToMoves DEF nodes
<1>7. CASE ChangeNode(e)
  <2>1. Moves(e, "log") /\ ChangeDatabase(q) /\ UNCHANGED <<late, filevars, opa>>
    BY <1>3, <1>5, <1>6, <1>7 DEF ChangeNode
  <2>2. DbTypeOK' /\ Grows /\ OneActiveRevision' /\ LogRecorded' /\ Stored(q)'
    BY <2>1, ChangeStep
  <2> QED BY <1>2, <1>3, <2>1, <2>2, MoveKeepsInv
<1>8. CASE LogNode(e)
  <2>1. PICK to \in {"load", "ok"} : GoTo(e, to)
    BY <1>8 DEF LogNode
  <2>2. Moves(e, to) /\ AppendLog(q) /\ Stored(q) /\ UNCHANGED <<late, filevars, opa>>
    BY <1>3, <1>4, <1>5, <1>6, <1>8, <2>1 DEF LogNode
  <2>3. /\ DbTypeOK' /\ Grows /\ OneActiveRevision' /\ LogRecorded'
        /\ Stored(q)' /\ Logged(q)'
    BY <2>2, LogStep
  <2> QED BY <1>2, <1>3, <2>2, <2>3, MoveKeepsInv
<1>9. ASSUME NEW to \in nodes, Moves(e, to), UNCHANGED <<dbvars, filevars, opa>>,
             late' \subseteq late,
             to = "error" \/ run[e].at \in {"load", "bundle", "health"}
      PROVE  PRInv'
  <2>1. DbTypeOK' /\ Grows /\ OneActiveRevision' /\ LogRecorded'
    BY <1>9, UnchangedDatabase
  <2>2. run[e].at \in {"load", "bundle", "health"} => Stored(q)' /\ Logged(q)'
    BY <1>4, <2>1, StillRecorded
  <2>3. CASE to = "error"
    BY <1>2, <1>3, <1>9, <2>1, <2>3, MoveKeepsInv
  <2>4. CASE run[e].at \in {"load", "bundle", "health"}
    BY <1>2, <1>3, <1>9, <2>1, <2>2, <2>4, MoveKeepsInv
  <2> QED BY <1>9, <2>3, <2>4
<1>10. CASE LoadNode(e)
  <2>1. Moves(e, "bundle") /\ UNCHANGED <<dbvars, late, filevars, opa>>
    BY <1>5, <1>6, <1>10 DEF LoadNode
  <2> QED BY <1>5, <1>9, <1>10, <2>1 DEF LoadNode
<1>11. CASE BundleNode(e)
  <2>1. Moves(e, "bundle") \/ Moves(e, "health")
    BY <1>1, <1>2, <1>5, <1>11, RetryMoves DEF BundleNode, nodes
  <2> QED BY <1>5, <1>9, <1>11, <2>1 DEF BundleNode
<1>12. CASE HealthNode(e)
  <2>1. CASE GoTo(e, "ok")
    BY <1>5, <1>6, <1>9, <1>12, <2>1 DEF HealthNode
  <2>2. CASE Retry(e, "ok")
    <3>1. Moves(e, "health") \/ Moves(e, "ok")
      BY <1>1, <1>2, <1>5, <1>12, <2>2, RetryMoves DEF HealthNode, nodes
    <3> QED BY <1>5, <1>9, <1>12, <3>1 DEF HealthNode
  <2> QED BY <1>12, <2>1, <2>2 DEF HealthNode
<1>13. CASE NodeFails(e)
  <2>1. Moves(e, "error") /\ UNCHANGED <<dbvars, late, filevars, opa>>
    BY <1>5, <1>6, <1>13 DEF NodeFails
  <2> QED BY <1>5, <1>9, <2>1
<1>14. CASE NodeTimesOut(e)
  <2> DEFINE l == [at |-> run[e].at, req |-> q]
  <2>1. /\ Moves(e, "error") /\ UNCHANGED <<dbvars, filevars, opa>>
        /\ late' = late \cup {l}
        /\ l \in [at: {"change", "log"}, req: Request]
    BY <1>3, <1>5, <1>6, <1>14 DEF NodeTimesOut
  <2>2. DbTypeOK' /\ Grows /\ OneActiveRevision' /\ LogRecorded'
    BY <2>1, UnchangedDatabase
  <2>3. RunsRecorded' /\ run' \in [Run -> Executions]
    BY <1>2, <1>3, <2>1, <2>2, MovedRuns
  <2>4. late' \subseteq [at: {"change", "log"}, req: Request]
    BY <1>1, <2>1 DEF PRTypeOK
  <2>5. LateRecorded'
    <3>1. l.at = "log" => Stored(q)'
      BY <1>4, <2>2, StillRecorded
    <3>2. ASSUME NEW k \in late, k.at = "log"
          PROVE  Stored(k.req)'
      <4>1. PICK r \in Request : r = k.req
        BY <1>1 DEF PRTypeOK
      <4>2. Stored(r)
        BY <3>2, <4>1 DEF PRInv, LateRecorded
      <4> QED BY <2>2, <4>1, <4>2, StillRecorded DEF Stored
    <3> QED BY <2>1, <3>1, <3>2 DEF LateRecorded, Stored
  <2> QED BY <2>1, <2>2, <2>3, <2>4, <2>5, Assemble
<1> QED BY <1>7, <1>8, <1>10, <1>11, <1>12, <1>13, <1>14 DEF Continue

(* Executions and backlog keep their records when neither changes.         *)
LEMMA RestingRuns ==
  ASSUME PRInv, Grows, UNCHANGED run
  PROVE  RunsRecorded' /\ run' \in [Run -> Executions]
<1>1. ASSUME NEW d \in Run, run[d].at \in {"log", "load", "bundle", "health", "ok"}
      PROVE  /\ Stored(run[d].req)'
             /\ run[d].at \in {"load", "bundle", "health", "ok"} => Logged(run[d].req)'
  <2>1. PICK q \in Request : q = run[d].req
    BY <1>1, BusyExecution DEF PRInv, PRTypeOK
  <2>2. Stored(q) /\ (run[d].at \in {"load", "bundle", "health", "ok"} => Logged(q))
    BY <1>1, <2>1 DEF PRInv, RunsRecorded
  <2>3. Stored(q)' /\ (run[d].at \in {"load", "bundle", "health", "ok"} => Logged(q)')
    BY <2>2, StillRecorded
  <2>4. q = run'[d].req
    BY <2>1
  <2> QED BY <2>3, <2>4 DEF Stored, Logged
<1> QED BY <1>1 DEF RunsRecorded, PRInv, PRTypeOK

LEMMA StartStep ==
  ASSUME PRInv, NEW e \in Run, NEW q \in Request, Start(e, q)
  PROVE  PRInv'
<1> DEFINE x == [at |-> "change", req |-> q, tries |-> 0]
<1>1. x \in Executions
  BY TriesAssumption DEF Executions, Busy
<1>2. run' = [run EXCEPT ![e] = x] /\ UNCHANGED <<dbvars, late, filevars, opa>>
  BY DEF Start
<1>3. x.at = "change"
  OBVIOUS
<1> HIDE DEF x
<1>4. /\ run' \in [Run -> Executions] /\ run'[e] = x
      /\ \A d \in Run \ {e} : run'[d] = run[d]
  BY <1>1, <1>2 DEF PRInv, PRTypeOK
<1>5. DbTypeOK' /\ Grows /\ OneActiveRevision' /\ LogRecorded'
  BY <1>2, UnchangedDatabase
<1>6. RunsRecorded'
  BY <1>2, <1>3, <1>4 DEF PRInv, RunsRecorded, Stored, Logged, dbvars
<1>7. LateRecorded' /\ late' \subseteq [at: {"change", "log"}, req: Request]
  BY <1>2, <1>5, LateKept
<1> QED BY <1>2, <1>4, <1>5, <1>6, <1>7, Assemble

LEMMA LateStep ==
  ASSUME PRInv, NEW l \in late, ServeLate(l)
  PROVE  PRInv'
<1>1. PICK q \in Request : q = l.req
  BY DEF PRInv, PRTypeOK
<1>2. DbTypeOK' /\ Grows /\ OneActiveRevision' /\ LogRecorded'
  <2>1. CASE l.at = "change" /\ ChangeDatabase(q)
    BY <2>1, ChangeStep
  <2>2. CASE l.at = "log" /\ AppendLog(q)
    <3>1. Stored(q)
      BY <1>1, <2>2 DEF PRInv, LateRecorded
    <3> QED BY <2>2, <3>1, LogStep
  <2> QED BY <1>1, <2>1, <2>2 DEF ServeLate
<1>3. UNCHANGED run /\ late' \subseteq late /\ UNCHANGED <<filevars, opa>>
  BY DEF ServeLate
<1> QED BY <1>2, <1>3, RestingRuns, LateKept, Assemble

(* The steps that change neither the database nor an execution: the file   *)
(* stays complete, and OPA never holds what the file does not.             *)
LEMMA FileStep ==
  ASSUME PRInv, UNCHANGED <<dbvars, run, late>>,
         \/ \E b \in Registry : BeginPublish(b)
         \/ WriteFile
         \/ ReplaceFile
         \/ Crash
         \/ Restart
         \/ PollBundle
         \/ OpaRestarts
         \/ UNCHANGED <<filevars, opa>>
  PROVE  PRInv'
<1>1. DbTypeOK' /\ Grows /\ OneActiveRevision' /\ LogRecorded'
  BY UnchangedDatabase
<1>2. RunsRecorded' /\ run' \in [Run -> Executions]
  BY <1>1, RestingRuns
<1>3. LateRecorded' /\ late' \subseteq [at: {"change", "log"}, req: Request]
  BY <1>1, LateKept
<1> DEFINE FileTypeOK ==
      /\ server \in {"idle", "writing", "replacing", "down"}
      /\ posted \in Registry \cup {NoFile}
      /\ tmp \in Registry \cup {NoFile, Torn}
      /\ runtime \in Registry \cup {NoFile, Torn}
      /\ opa \in Registry \cup {Baseline, NotLoaded}
<1>4. FileTypeOK /\ FileInv
  BY DEF PRInv, PRTypeOK
<1>5. FileTypeOK' /\ FileInv'
  <2>1. CASE \E b \in Registry : BeginPublish(b)
    BY <1>4, <2>1 DEF BeginPublish, FileInv
  <2>2. CASE WriteFile
    BY <1>4, <2>2 DEF WriteFile, FileInv
  <2>3. CASE ReplaceFile
    BY <1>4, <2>3, RegistryAssumption DEF ReplaceFile, FileInv
  <2>4. CASE Crash
    BY <1>4, <2>4 DEF Crash, FileInv
  <2>5. CASE Restart
    BY <1>4, <2>5 DEF Restart, FileInv
  <2>6. CASE PollBundle
    BY <1>4, <2>6, RegistryAssumption DEF PollBundle, Bundle, FileInv, filevars
  <2>7. CASE OpaRestarts
    BY <1>4, <2>7, RegistryAssumption DEF OpaRestarts, FileInv, filevars
  <2>8. CASE UNCHANGED <<filevars, opa>>
    BY <1>4, <2>8 DEF FileInv, filevars
  <2> QED BY <2>1, <2>2, <2>3, <2>4, <2>5, <2>6, <2>7, <2>8
<1> QED BY <1>1, <1>2, <1>3, <1>5 DEF PRInv, PRTypeOK, DbTypeOK

LEMMA PRInvInit == PRInit => PRInv
<1> SUFFICES ASSUME PRInit PROVE PRInv
  OBVIOUS
<1>1. PRTypeOK
  <2>1. [at |-> "idle"] \in Executions
    BY DEF Executions
  <2>2. run \in [Run -> Executions]
    BY <2>1 DEF PRInit
  <2>3. policy \in Draft /\ revisions \in [Rev -> Draft \cup {NoPayload}]
    BY DEF PRInit, Draft
  <2> QED BY <2>2, <2>3 DEF PRInit, PRTypeOK
<1>2. OneActiveRevision
  BY DEF PRInit, OneActiveRevision
<1> QED
  BY <1>1, <1>2, RegistryAssumption
  DEF PRInit, PRInv, RunsRecorded, LateRecorded, LogRecorded, FileInv

LEMMA PRInvNext == PRInv /\ [PRNext]_vars => PRInv'
<1> SUFFICES ASSUME PRInv, [PRNext]_vars PROVE PRInv'
  OBVIOUS
<1>1. CASE \E e \in Run, q \in Request : Start(e, q)
  BY <1>1, StartStep
<1>2. CASE \E e \in Run : Continue(e)
  BY <1>2, ExecutionStep
<1>3. CASE \E l \in late : ServeLate(l)
  BY <1>3, LateStep
<1>4. CASE \/ \E b \in Registry : BeginPublish(b)
           \/ WriteFile \/ ReplaceFile \/ Crash \/ Restart \/ PollBundle \/ OpaRestarts
  <2>1. UNCHANGED <<dbvars, run, late>>
    BY <1>4 DEF BeginPublish, WriteFile, ReplaceFile, Crash, Restart, PollBundle, OpaRestarts
  <2> QED BY <1>4, <2>1, FileStep
<1>5. CASE UNCHANGED vars
  <2>1. UNCHANGED <<dbvars, run, late>> /\ UNCHANGED <<filevars, opa>>
    BY <1>5 DEF vars
  <2> QED BY <2>1, FileStep
<1> QED BY <1>1, <1>2, <1>3, <1>4, <1>5 DEF PRNext

-----------------------------------------------------------------------------
LEMMA PRInvariant == PRSpec => []PRInv
BY PRInvInit, PRInvNext, PTL DEF PRSpec

(* Every variable keeps its type; in particular no node makes more than    *)
(* MaxTries calls.                                                         *)
THEOREM PRTypeCorrect == PRSpec => []PRTypeOK
<1>1. PRInv => PRTypeOK
  BY DEF PRInv
<1> QED BY <1>1, PRInvariant, PTL

(* A publish answered ok is in the database and in the log, and the log    *)
(* names only revisions the database has.                                  *)
THEOREM OnRecord == PRSpec => []PublishesOnRecord
<1>1. PRInv => PublishesOnRecord
  BY DEF PRInv, RunsRecorded, LogRecorded, PublishesOnRecord, IsPublish, Logged
<1> QED BY <1>1, PRInvariant, PTL

(* As soon as a revision was published exactly one is active.              *)
THEOREM OneActive == PRSpec => []OneActiveRevision
<1>1. PRInv => OneActiveRevision
  BY DEF PRInv
<1> QED BY <1>1, PRInvariant, PTL

(* A registry OPA decides with is only ever replaced by another one, or    *)
(* lost by a restart of OPA itself.                                        *)
THEOREM Survives == PRSpec => RegistrySurvives
<1>1. ASSUME PRInv, [PRNext]_vars
      PROVE  [(opa \in Registry) => (opa' \in Registry \cup {NotLoaded})]_opa
  <2>1. CASE PollBundle
    BY <1>1, <2>1, RegistryAssumption DEF PollBundle, Bundle, PRInv, PRTypeOK, FileInv
  <2>2. CASE OpaRestarts
    BY <2>2 DEF OpaRestarts
  <2>3. CASE opa' = opa
    BY <2>3
  <2>4. CASE PRNext /\ ~PollBundle /\ ~OpaRestarts
    <3>1. CASE \E e \in Run, q \in Request : Start(e, q)
      BY <2>3, <3>1 DEF Start
    <3>2. CASE \E e \in Run : Continue(e)
      BY <2>3, <3>2 DEF Continue, ChangeNode, LogNode, LoadNode, BundleNode, HealthNode,
                        NodeFails, NodeTimesOut
    <3>3. CASE \E l \in late : ServeLate(l)
      BY <2>3, <3>3 DEF ServeLate
    <3>4. CASE (\E b \in Registry : BeginPublish(b)) \/ WriteFile \/ ReplaceFile \/ Crash \/ Restart
      BY <2>3, <3>4 DEF BeginPublish, WriteFile, ReplaceFile, Crash, Restart
    <3> QED BY <2>4, <3>1, <3>2, <3>3, <3>4 DEF PRNext
  <2>5. CASE UNCHANGED vars
    BY <2>3, <2>5 DEF vars
  <2> QED BY <1>1, <2>1, <2>2, <2>4, <2>5
<1> QED BY <1>1, PRInvariant, PTL DEF PRSpec, RegistrySurvives

-----------------------------------------------------------------------------
(* The refinement of RevisionRegistry.                                     *)

StoredRevs == {v \in Rev : revisions[v] # NoPayload}

LEMMA PromiseInit == PRInit => Promise!Init
  BY DEF PRInit, Promise!Init

(* A database request is one publish or none, however late it is served.   *)
LEMMA ChangePromised ==
  ASSUME PRInv, NEW q \in Request, ChangeDatabase(q), UNCHANGED <<filevars, opa>>
  PROVE  [Promise!Next]_Promise!vars
<1>1. UNCHANGED <<log, runtime, opa>>
  BY DEF ChangeDatabase, filevars
<1>2. CASE UpsertWorkflow(q) \/ DeleteWorkflow(q)
  BY <1>1, <1>2
  DEF UpsertWorkflow, DeleteWorkflow, Promise!vars, Promise!records
<1>3. CASE PublishRevision(q)
  <2>1. q.rev \in Rev /\ policy # NoPayload
    BY <1>3, Requests, DraftsArePayloads DEF PublishRevision, PRInv, PRTypeOK
  <2>2. active' = {q.rev}
    BY <1>3, <2>1 DEF PublishRevision, PRInv, PRTypeOK
  <2>3. StoredRevs' = StoredRevs \cup {q.rev}
    BY <1>3, <2>1 DEF PublishRevision, StoredRevs, PRInv, PRTypeOK
  <2>4. Promise!Publish(q.rev)
    BY <1>1, <2>2, <2>3 DEF Promise!Publish, StoredRevs
  <2> QED
    BY <2>1, <2>4 DEF Promise!Next
<1> QED
  BY <1>2, <1>3 DEF ChangeDatabase

LEMMA LogPromised ==
  ASSUME PRInv, NEW q \in Request, Stored(q), AppendLog(q),
         UNCHANGED <<filevars, opa>>
  PROVE  [Promise!Next]_Promise!vars
<1>1. UNCHANGED <<revisions, active, runtime, opa>>
  BY DEF AppendLog, filevars
<1>2. CASE q.op = "publish"
  <2>1. q.rev \in StoredRevs
    BY <1>2, Requests DEF Stored, StoredRevs
  <2>2. Promise!Record(q.rev)
    BY <1>1, <1>2, <2>1 DEF Promise!Record, AppendLog, StoredRevs
  <2> QED
    BY <2>1, <2>2 DEF Promise!Next, StoredRevs
<1>3. CASE q.op # "publish"
  BY <1>1, <1>3 DEF AppendLog, Promise!vars, Promise!records
<1> QED
  BY <1>2, <1>3

LEMMA PromiseStep ==
  ASSUME PRInv, [PRNext]_vars
  PROVE  [Promise!Next]_Promise!vars
<1>1. ASSUME UNCHANGED <<dbvars, runtime, opa>>
      PROVE  [Promise!Next]_Promise!vars
  BY <1>1 DEF dbvars, Promise!vars, Promise!records
<1>2. CASE \E e \in Run, q \in Request : Start(e, q)
  BY <1>1, <1>2 DEF Start, filevars
<1>3. ASSUME NEW e \in Run, Continue(e)
      PROVE  [Promise!Next]_Promise!vars
  <2>1. CASE ChangeNode(e) \/ LogNode(e)
    <3>1. run[e].at \in {"change", "log"} /\ UNCHANGED <<filevars, opa>>
      BY <2>1 DEF ChangeNode, LogNode
    <3>2. PICK q \in Request : q = run[e].req
      BY <3>1, BusyExecution DEF PRInv, PRTypeOK
    <3>3. run[e].at = "log" => Stored(q)
      BY <3>2 DEF PRInv, RunsRecorded
    <3> QED
      BY <2>1, <3>1, <3>2, <3>3, ChangePromised, LogPromised
      DEF ChangeNode, LogNode
  <2>2. CASE LoadNode(e) \/ BundleNode(e) \/ HealthNode(e)
             \/ NodeFails(e) \/ NodeTimesOut(e)
    BY <1>1, <2>2
    DEF LoadNode, BundleNode, HealthNode, NodeFails, NodeTimesOut, filevars
  <2> QED
    BY <1>3, <2>1, <2>2 DEF Continue
<1>4. ASSUME NEW l \in late, ServeLate(l)
      PROVE  [Promise!Next]_Promise!vars
  <2>1. PICK q \in Request : q = l.req
    BY DEF PRInv, PRTypeOK
  <2>2. l.at = "log" => Stored(q)
    BY <2>1 DEF PRInv, LateRecorded
  <2> QED
    BY <1>4, <2>1, <2>2, ChangePromised, LogPromised DEF ServeLate
<1>5. CASE ReplaceFile
  <2>1. tmp \in Registry /\ runtime' = tmp /\ UNCHANGED <<dbvars, opa>>
    BY <1>5 DEF ReplaceFile, PRInv, FileInv
  <2>2. Promise!Replace(tmp)
    BY <2>1 DEF Promise!Replace, Promise!records, dbvars
  <2> QED
    BY <2>1, <2>2 DEF Promise!Next
<1>6. CASE PollBundle
  <2>1. runtime # Torn /\ opa' = Bundle /\ UNCHANGED <<dbvars, runtime>>
    BY <1>6 DEF PollBundle, PRInv, FileInv, filevars
  <2>2. Promise!Read
    BY <2>1 DEF Promise!Read, Promise!records, Bundle, dbvars
  <2> QED
    BY <2>2 DEF Promise!Next
<1>7. CASE OpaRestarts
  <2>1. Promise!ReaderRestarts
    BY <1>7
    DEF OpaRestarts, Promise!ReaderRestarts, Promise!records, dbvars, filevars
  <2> QED
    BY <2>1 DEF Promise!Next
<1>8. CASE (\E b \in Registry : BeginPublish(b)) \/ WriteFile \/ Crash \/ Restart
  BY <1>1, <1>8 DEF BeginPublish, WriteFile, Crash, Restart
<1>9. CASE UNCHANGED vars
  BY <1>1, <1>9 DEF vars, filevars
<1> QED
  BY <1>2, <1>3, <1>4, <1>5, <1>6, <1>7, <1>8, <1>9 DEF PRNext

(* The registry implements RevisionRegistry: requests that interleave,     *)
(* fail, are given up on or are served late amount to publishes one after  *)
(* the other, and the file that is written, renamed and left behind by a   *)
(* crash amounts to a registry replaced at once (server.py:428-489, 923).  *)
THEOREM RegistryImplementsPromise == PRSpec => ImplementsRegistry
<1>1. PRInv /\ [PRNext]_vars => [Promise!Next]_Promise!vars
  BY PromiseStep
<1> QED
  BY <1>1, PromiseInit, PRInvariant, PTL
  DEF PRSpec, ImplementsRegistry, Promise!Spec

-----------------------------------------------------------------------------
(* Executions come nearer to their answer.                                 *)

NodesLeft(node) ==
  IF node = "change" THEN 5 ELSE IF node = "log" THEN 4
  ELSE IF node = "load" THEN 3 ELSE IF node = "bundle" THEN 2
  ELSE IF node = "health" THEN 1 ELSE 0

(* From execution x to execution y: a later node, or the next of at most   *)
(* MaxTries tries of the same one.                                         *)
Advances(x, y) ==
  /\ y.req = x.req
  /\ \/ NodesLeft(y.at) < NodesLeft(x.at)
     \/ y.at = x.at /\ x.tries < y.tries /\ y.tries < MaxTries

(* What RunsEnd rests on: a step of a workflow execution brings it nearer  *)
(* to its answer, and nothing else touches an execution in progress: not   *)
(* the server, its backlog or a crash, not OPA, and no other execution.    *)
ExecutionsAdvance ==
  [][\A e \in Run : /\ Continue(e) => Advances(run[e], run'[e])
                    /\ run[e].at \in Busy /\ ~Continue(e) => run'[e] = run[e]]_vars

LEMMA RetryAdvances ==
  ASSUME PRTypeOK, NEW e \in Run, run[e].at \in Busy,
         NEW next \in Busy \cup Answered, NodesLeft(next) < NodesLeft(run[e].at),
         Retry(e, next)
  PROVE  Advances(run[e], run'[e])
<1>1. /\ run[e] = [at |-> run[e].at, req |-> run[e].req, tries |-> run[e].tries]
      /\ run[e].tries \in 0 .. MaxTries - 1
  BY BusyExecution DEF PRTypeOK, Busy
<1>2. CASE run[e].tries + 1 < MaxTries
  <2>1. run'[e] = [run[e] EXCEPT !.tries = @ + 1]
    BY <1>2 DEF Retry, PRTypeOK
  <2>2. run'[e] = [at |-> run[e].at, req |-> run[e].req, tries |-> run[e].tries + 1]
    BY <1>1, <2>1
  <2>3. /\ run'[e].at = run[e].at /\ run'[e].req = run[e].req
        /\ run'[e].tries = run[e].tries + 1
    BY <2>2
  <2> QED
    BY <1>1, <1>2, <2>3, TriesAssumption DEF Advances
<1>3. CASE ~(run[e].tries + 1 < MaxTries)
  <2>1. run'[e] = [at |-> next, req |-> run[e].req, tries |-> 0]
    BY <1>3 DEF Retry, PRTypeOK
  <2> QED
    BY <2>1 DEF Advances
<1> QED
  BY <1>2, <1>3

LEMMA ContinueAdvances ==
  ASSUME PRTypeOK, NEW e \in Run, Continue(e)
  PROVE  Advances(run[e], run'[e]) /\ \A d \in Run \ {e} : run'[d] = run[d]
<1>1. run[e].at \in Busy
  BY DEF Continue, ChangeNode, LogNode, LoadNode, BundleNode, HealthNode,
         NodeFails, NodeTimesOut, Busy
<1>2. {"log", "load", "bundle", "health", "ok", "error"} \subseteq Busy \cup Answered
  BY DEF Busy, Answered
<1>3. ASSUME NEW to \in {"log", "load", "bundle", "ok", "error"}, GoTo(e, to),
             NodesLeft(to) < NodesLeft(run[e].at)
      PROVE  Advances(run[e], run'[e]) /\ \A d \in Run \ {e} : run'[d] = run[d]
  BY <1>1, <1>2, <1>3, GoToMoves DEF Moves, Advances, Busy
<1>4. ASSUME NEW to \in {"health", "ok"}, Retry(e, to),
             NodesLeft(to) < NodesLeft(run[e].at)
      PROVE  Advances(run[e], run'[e]) /\ \A d \in Run \ {e} : run'[d] = run[d]
  <2>1. \A d \in Run \ {e} : run'[d] = run[d]
    BY <1>4 DEF Retry, PRTypeOK
  <2> QED
    BY <1>1, <1>2, <1>4, <2>1, RetryAdvances
<1>5. CASE ChangeNode(e) \/ LogNode(e) \/ LoadNode(e) \/ NodeFails(e) \/ NodeTimesOut(e)
  <2>1. \E to \in {"log", "load", "bundle", "ok", "error"} :
          GoTo(e, to) /\ NodesLeft(to) < NodesLeft(run[e].at)
    BY <1>5
    DEF ChangeNode, LogNode, LoadNode, NodeFails, NodeTimesOut, NodesLeft
  <2> QED
    BY <1>3, <2>1
<1>6. CASE BundleNode(e)
  BY <1>4, <1>6 DEF BundleNode, NodesLeft
<1>7. CASE HealthNode(e)
  BY <1>3, <1>4, <1>7 DEF HealthNode, NodesLeft
<1> QED
  BY <1>5, <1>6, <1>7 DEF Continue

(* Every step of a workflow execution brings it nearer to its answer, and  *)
(* nothing but its own steps touches it meanwhile.                         *)
THEOREM ExecutionsOnlyAdvance == PRSpec => ExecutionsAdvance
<1> DEFINE Onward(e) ==
      /\ Continue(e) => Advances(run[e], run'[e])
      /\ run[e].at \in Busy /\ ~Continue(e) => run'[e] = run[e]
<1>1. ASSUME PRInv, [PRNext]_vars, NEW e \in Run
      PROVE  UNCHANGED vars \/ Onward(e)
  <2>1. PRTypeOK
    BY <1>1 DEF PRInv
  <2>2. Continue(e) => Advances(run[e], run'[e])
    BY <2>1, ContinueAdvances
  <2>3. ASSUME run[e].at \in Busy, ~Continue(e)
        PROVE  run'[e] = run[e]
    <3>1. CASE \E d \in Run, q \in Request : Start(d, q)
      BY <2>1, <2>3, <3>1 DEF Start, PRTypeOK
    <3>2. CASE \E d \in Run : Continue(d)
      BY <2>1, <2>3, <3>2, ContinueAdvances
    <3>3. CASE \E l \in late : ServeLate(l)
      BY <3>3 DEF ServeLate
    <3>4. CASE \/ \E b \in Registry : BeginPublish(b)
               \/ WriteFile \/ ReplaceFile \/ Crash \/ Restart
               \/ PollBundle \/ OpaRestarts
      BY <3>4
      DEF BeginPublish, WriteFile, ReplaceFile, Crash, Restart, PollBundle,
          OpaRestarts
    <3>5. CASE UNCHANGED vars
      BY <3>5 DEF vars
    <3> QED
      BY <1>1, <3>1, <3>2, <3>3, <3>4, <3>5 DEF PRNext
  <2> QED
    BY <2>2, <2>3
<1>2. PRInv /\ [PRNext]_vars => [\A e \in Run : Onward(e)]_vars
  BY <1>1
<1> QED
  BY <1>2, PRInvariant, PTL DEF PRSpec, ExecutionsAdvance
=============================================================================
