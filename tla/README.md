# nexus-ai-orchestrator in TLA+

TLA+ models of the executor and of its controllers: what they promise about
sandboxes, sessions, tenants and pools, checked by TLC on small instances and,
for the main properties, proved by TLAPS for every size. The models follow the
code under `executor/`, `k8s/controllers/`, `docker/policy-bundle-server/` and
`n8n/workflows-v3/` (paths below are relative to the repository); `PROJECT.json`
gives the source lines of every definition.

## 1. The system and its components

An n8n instance runs workflows that send code to an *executor*. The executor runs
it in Docker sandboxes, asks OPA for permission first, and keeps sandboxes alive
in *sessions*. In Kubernetes, an *operator* creates pools of executors, a *load
balancer* sends sessions to pools, and session state is kept in Redis. Policies
are published through a *bundle server* into PostgreSQL and a registry file.

| Component (code) | State | Operations | Talks to | Modelled in |
|---|---|---|---|---|
| Session manager (`executor/session.py`) | table of sessions, a semaphore, idle times, one Redis key per session | create, get, execute, destroy, clean-up thread, stop | sandboxes (Docker), Redis | `SessionManager`, `SessionLimit` |
| Code sandbox (`executor/sandbox.py`) | the reference to one container | create, run_code with a time-out, destroy | Docker | the ownership part in `SessionManager` |
| Session pool (`executor/session.py:561`) | idle sandboxes per template | acquire, release | session manager | `SessionPool` |
| Executor API (`executor/api_server.py`) | none of its own but the tenant in a session's metadata | POST execute, session create/execute/destroy; GETs; shutdown | session manager, sandbox, policy client | `ExecutorApi` |
| Policy client (`executor/policy_client.py`), OPA rules (`policy/opa`) | configuration | evaluate, enforce, fall back | OPA over HTTP | client in `ExecutorApi`; rules planned |
| Load balancer (`k8s/controllers/load_balancer.py`, `load_balancer_server.py`) | pools, counts, breakers, affinities; a Redis copy of pools and affinities | assign, release, register, unregister, health checks, start | Redis, pools over HTTP | `CircuitBreaker`, `LoadBalancer` |
| Session persistence (`k8s/controllers/session_persistence.py`) | cache of sessions, Redis copy with an expiry, files | create, update, add and delete files, migrate, restore, delete, snapshots | Redis | `SessionPersistence` |
| Operator (`k8s/controllers/operator.py`) | none: custom resources, deployments, sessions in the cluster | create/update/delete pool, create/delete session, reconcile, metrics | Kubernetes API, Redis | `OperatorPools`, `OperatorSessions` |
| Policy registry (`docker/policy-bundle-server/server.py`, workflows 06, 07, 12) | draft and revisions in PostgreSQL, a publish log, a runtime file | upsert, publish, delete, direct publish, serve a bundle | PostgreSQL, n8n, OPA | `PolicyRegistry` |
| Audit events (`sql/20260220_audit_hardening.sql`, workflows 01 to 04, bundle server) | rows with a hash chain | append | PostgreSQL | planned |
| Package cache (`executor/package_cache.py`) | files and an index on disk | put, get, evict | file system | planned |
| Interpreter, file-system helper, templates, command line (`executor/`) | per sandbox only | wrappers around one sandbox | sandbox | not modelled |
| Slack verifier (`docker/slack-request-verifier`) | none | check one signature | | not modelled |
| The other n8n workflows, scripts, deployment, documents | | | | not modelled |

What is hard in it: threads that take a semaphore, a lock, a container and a
Redis key in separate steps; a single-threaded server beside a cleanup thread and
a clock; coroutines that check before an `await` and act after it; Redis calls that
fail and are only logged; a process that dies between two writes; handlers that are begun anew over what
an earlier attempt left; workflows whose
nodes fail, retry or are given up while their request is still served. What makes each
part correct: the session manager never has more containers than `max_sessions`
and loses neither a slot nor a container; the API runs code only for the tenant
a session belongs to and only with the policy's approval; the load balancer keeps
away from pools that fail and comes back to those that recover, keeps its counts
within bounds, and remembers the pools it confirmed; a pool of sessions
gives none of them to two clients; the stored copy of a session follows the cached one, and
does not come back after it was deleted; the operator brings pools back to their minimum, leaves nothing
of a deleted one that it could delete, answers every session, and Redis names the pod it answered; the policy
registry's database, log, file and OPA agree after every failure. `PROJECT.json`
lists the hazards at the lines where they bite.

## 2. The modules

```
SessionLimit            what the manager promises, abstractly
   ^ refined by
SessionManager   <----- ExecutorApi, SessionPool   (EXTENDS: handlers and pool take
   ^                       ^             ^   |      the manager's actions)
   |                       |             |   '-- refines SessionHandout
SessionManagerProofs <-- ExecutorApiProofs, SessionPoolProofs

CircuitBreaker  <-- LoadBalancer <-- LoadBalancerProofs

SessionPersistence <-- SessionPersistenceProofs
OperatorPools      <-- OperatorSessions   (EXTENDS: the same operator, its second kind of resource)
   ^                          ^
OperatorPoolsProofs <-- OperatorSessionsProofs
PolicyRegistry     <-- PolicyRegistryProofs
   '-- refines RevisionRegistry

MC... : one for each module that is checked, for TLC
```

In every module an operator that begins with "Seeded fault" in its comment is a
wrong version of the definition after it. No specification uses it; a property is
accepted only if TLC finds it violated once the wrong version is put in place.

### SessionManager (with the container part of CodeSandbox)

An action is one uninterrupted piece of a method: a section under `self._lock`, one
semaphore operation, one Docker call, one Redis call. `pc[t]` says which piece
thread `t` does next, `sid[t]` what it works on. `create_session` is
`AcquireSlot` or `FindFull` (non-blocking acquire), `MakeRoom` (clean-up under the
lock), `DeleteState` (keys, after the lock), `RetryAcquire` or `GiveUp`,
`CreateSandbox`, then `Register` or `CreateFails`. `get_session` and
`execute_in_session` are `Touch` (last_used, under the lock) and `SaveState`, then
`RunReturns` or `RunTimesOut`; `destroy_session` is `DestroySession` and
`DeleteState`; the thread of `_start_cleanup_thread` takes `CleanupPass`; `stop` is
`StopSignal` and `StopDestroyAll`. `Tick` ages sessions and Redis keys.

- A session and its sandbox share one name, and a name is never used twice
  (`uuid4`): `Sid` bounds how many sandboxes a behaviour creates.
- `idleTime` is `now - last_used` and stops at `TTL + 1`, where nothing more
  depends on it, so the clock needs no bound. All sessions have one ttl.
- `destroy` swallows an error of `container.stop` and drops the reference: the
  container is then `"leaked"`. A run that times out destroys the container while
  its session stays registered; the model keeps that.
- `is_active` is false only inside one lock section. The `ValueError` branch around
  `release` is dead code (a plain `Semaphore` never raises). Early returns that
  find no session change nothing and are stutters; `peek_session`,
  `list_sessions` and the metrics read only. A container that Docker created but
  failed to start is not modelled: it happens inside the Docker SDK.
- `stop` deletes no Redis keys, and nothing prevents a `create_session` after it.

`SessionLimit` is the promise without locks, containers or Redis: a place is
reserved before a session is opened, at most `MaxSessions` are open or being
opened, and the id of a closed session never returns. `ImplementsSessionLimit` maps
creators to `opening`, the table to `open`, and the containers handed out and
no longer in the making to `used`.

### SessionPool

The pool's lock is held across the calls of the manager, so `acquire` and `release` are
made of the manager's own steps, and other threads see the pool only when nobody is inside
(`Unlocked`). `stage[c]` is where a client is, `held[c]` the session it was given.
`_initialize_pool` is `WarmCreate`, `WarmKeep`, `WarmDone`; `acquire` is `Acquire`, then `Pop`
(`pop(0)` and `get_session`; a session that is gone is skipped) and `Taken`, or `PopNone`
and `Created`; `release` is `Release`, `ReleaseGet`, `GiveBack`, `Dropped`, and
`ReleaseDestroy` without the lock. `Use` executes. The cleanup thread goes on beside.

- Clients are orderly: they give back what they were given, once. The code checks nothing
  here; a session released twice is in the list twice.
- `max_size` bounds the list only, and only from `release` on: `_initialize_pool` warms `min_size` sessions
  without looking at it, and nothing requires `min_size <= max_size`. So the larger of the two is the bound
  (`Bound`). `acquire` compares `max_size` with a list it has just found empty, so what limits the sessions
  handed out is the manager's `max_sessions`; with a `max_size` of 0 it never creates one, and the client is told
  that the pool is exhausted.
- `__exit__` does nothing, so a client of the context manager is one that never releases.
- The pool is used by no other module of the repository; its manager is its own.

`SessionHandout` is the promise without a lock, a manager or a clock: a first-in-first-out list of bounded
length (the larger of `min_size` and `max_size`); a client without a session gets a new one or the oldest of the list, which may also be
thrown away; one that has a session gives it back to the list or drops it; a session that was once thrown away or
dropped does not come back. `ImplementsHandout` maps the list to `free`, `held` to `given` and the registered
ids to `made`. That nobody has the session of another is a theorem about `SessionHandout`.

### ExecutorApi

`HTTPServer` handles one request at a time, so there is one handler (`stage`,
`req`, `verdict`), interrupted by the cleanup thread and by time. A handler calls
the manager by taking the manager's actions as `Server` and goes on when
`pc[Server]` is `"idle"` again. `/session/execute` is `ReceiveForSession`,
`PeekToRun` (compare tenants), `GetToRun` (touch), `Evaluate` or
`EvaluateRaises`, `ActRun`; `/session/destroy` is `PeekToDestroy`, `ActDestroy`;
`/session/create` and `/execute` ask the policy first (`ReceiveForPolicy`).
`CallGet` is the whole of `get_session`, which destroys an expired session itself.
`config` is what `_validate_configuration` lets pass; OPA's answer is any of its
decisions, or the fallback when it cannot be reached.

- Requests rejected with 400, 401, 403 or 404 before any call are stutters; GET
  handlers read only; a failure to send the response changes nothing.
- In `session_execute` the policy subject is built from the session's own metadata,
  so `_validate_execution_tenancy_context` always passes there.
- `KeyboardInterrupt` stops the server between requests (`Shutdown`).

### CircuitBreaker, LoadBalancer

`CircuitBreaker` has the three methods as functions of a breaker. `LoadBalancer` has
one action for what a coroutine does from one `await` to the next, together with
the Redis or HTTP reply it waited for. `get_pool_for_session` is `AssignCached` or
`AssignUncached` and `Lookup` (both continue with `Proceed`: an affinity that holds, or
`Select`), `CountSession` after the affinity was written, `SaveMetrics`;
`release_session` is `Release`, `SaveRelease`, `Forget`; registration is
`RegisterPool`, `SavePool`; `UnregisterPool`, `ErasePool`. `RunHealthChecks`
starts a check per endpoint, which `CheckPasses`, `CheckFails` or, if the pool was
unregistered meanwhile, ends with a `KeyError` (`CheckOrphan`); `CheckSaves` writes the
metrics. `Restart` is a crash and a `start` with the pools Redis holds, or with
none if it does not answer. `OtherReplica` is what another process does to the Redis hashes.

- An endpoint is a pair of a pool name and an object: registering a name again
  makes a new object while requests and checks still hold the old one. `Copy` is the
  number of objects of one name in use at once. The status of a replaced object is
  never read, so `status` is kept per name; breakers are kept per name by the code.
- HSET and EXPIRE of an affinity, and status and body of a check, are one step: no
  other coroutine can see a difference.
- Which available pool is drawn is left open (the code draws among the best three
  by score). Queue depths can hide any pool, so `Select` may find none. `priority`
  and `region` only order a list that `_select_weighted_pool` orders again by score,
  so they never decide; the docstring at `load_balancer.py:264` says "lower = higher
  priority".
- `failures` stops at the threshold: it is read in a closed breaker only and reset
  when one closes. A success lowers the count by one and does not reset it, so
  "Opens after: 5 consecutive failures" (`k8s/README.md:342`) describes one way to
  open it, not the only one. `TrippedPoolsRest` is about that one way.
- A status is saved and loaded with its pool; `Restart` allows any.
- `Admin` is a set of requests: the coroutines of `/pools/register` and `/pools/{name}` take no lock
  (`load_balancer_server.py:86-125`), so registrations and unregistrations of one name overlap with each other. Each
  changes memory first and then awaits its HSET or HDEL, and nothing orders the two in Redis: the HDEL of an
  unregistration that began earlier can remove the pool that a later registration has just confirmed. `DurableRegistration`
  says what is left: a confirmed registration stays until it is undone, or until an unregistration under way when it was
  confirmed is over (`Unregistering`, `Confirm`).
- The deployment runs two replicas over one Redis (`k8s/config/deployment/operator-deployment.yaml:392`). The module is one
  of them; affinities and saved pools are shared, counts, breakers and the affinity cache are not. `OtherReplica` (`Shared`)
  writes any affinity, saves or registers a pool with any count up to the same bound, or unregisters it. A pool that is
  registered or unregistered at one replica is known to the other only when that restarts.
- So the counts are per process. A replica that finds an affinity the other wrote answers without counting
  (`load_balancer.py:339-344`), and a release may reach the replica that never counted: a count says nothing about how many
  sessions were sent to the pool, and no property claims so. With one replica the same happens as soon as a
  client releases twice, or from another pool, since `release_session` counts down whatever pool it is told.
- A write under way when its pool is unregistered restores the pool in Redis; the
  model has the behaviour, the code promises nothing about it.
- A check that was started for an endpoint since replaced counts on the breaker of the new one. The model has that; the
  breaker properties count checks per name, as the breaker does, and so are silent about it.

### SessionPersistence

One action is what a coroutine does from one `await` to the next with the Redis reply it waited
for. `cache[s]` is the pod of the state in `_active_sessions`, `key[s]` the Redis key with whether
it expires, `hash[s]` the files. A call that finds its state in the cache is `create_session`,
`UpdateCached`, `MigrateCached`, `AddCached`; one that does not is `Load`, then `Loaded` or
`LoadFails`. `Saved`, `Put`, `Removed`, `Dropped` are the writes, `WriteFails` their failure.
`StartPass`, `NextInPass`, `PassSaves`, `PassFails`, `PassEnds` are `_save_all_sessions`, run by
the snapshot task (`Loop`) and by `stop` (any other member of `Pass`). `NewProcess` is a crash, or
the end of `stop`, and a new start.

- A state is an object shared by reference, and that matters here: `_save_all_sessions` lists objects,
  not copies. `listed[p][s]` is `Same` while the listed object is still the cached one, so that the
  snapshot writes what the object says then; `Replace` gives the list a value of its own.
- Of a state only `pod_name` is kept, the field that update, migrate and restore change; of a file only
  its path. What is cached of files decides nothing, so copies in memory are not kept.
- `json.dumps` runs before the `await` of the save; a value on its way cannot change any more.
- HSET and EXPIRE of a file are one step. `add_file` answers True when the HSET failed
  (`_save_file` swallows the error), files are not part of a snapshot, and expire 24 h after the last one was added.
- `get_file`, `list_sessions` and `get_stats` read only.
- One process. The key prefix `executor:session:` is shared with the executor's `SessionManager` (a
  string) and the operator (a hash); on one Redis database and one id these would meet with
  WRONGTYPE errors. The components are modelled with a Redis each.

### OperatorPools, OperatorSessions

kopf is not part of the repository; it is modelled as version 1.37.1, which requirements and image pin,
behaves. It runs the handlers of one resource one after the other, timers beside them, and calls a handler that raised
or was cut off again from its beginning, for ever. What a handler returns it stores under `status.<handler id>`; the
schemas have no such field (`k8s/config/crd/executor-crd.yaml:166` on for sessions), so the API server prunes it. The handlers
read `status.phase`, `status.podName` and `status.redisKey`, which nothing writes. Hence `reconcile_sessions`, which
acts on an Active or a Pending session, never does anything, `get_sessions_on_pod` never finds a session, and
`delete_executor_session` never finds a key: of these no action is needed, and `update_pool_metrics` computes figures for
a result nobody sees. The Kubernetes client is synchronous, so a handler blocks the loop between two of its calls; only
users, an autoscaler and the end of the process come in between (`LoopFree`, `Crash`, `Start`).

`OperatorPools`: `BeginCreate`, then `Put` or `PutFails` for ConfigMap, Deployment and Service in that order, and then
always `BuildHPA`: the body of the autoscaler uses `V2HPAScalingPolicy(stabilization_window_seconds=..., policies=...)`
(`operator.py:333-355`), which the pinned kubernetes 28.1.0 does not know. The TypeError is raised outside the `try` around the
call, so the handler fails and kopf calls it again, for ever. No autoscaler is made, and nothing is announced. Each of these
attempts patches the Deployment back to `minReplicas`. `BeginDelete`, `Drop` in the opposite order (an error
is logged, the object stays) and `DeleteReturns` are the delete handler, `UpdatePool` the field handler.

- Of a Deployment only the number of replicas is kept, of a spec only `minReplicas`, which may be 0 (the CRD's minimum).
  `maxReplicas` and the other fields only go into objects that are never made, or decide nothing; `minReplicas` above
  `maxReplicas` is not refused by anybody and makes no difference.
- `refused` is a history: which objects the API refused to delete in the last deletion. A resource that is deleted before
  kopf has seen it has no finalizer and is gone at once; no handler ever learns of it, and it is not modelled.
- An error that is no answer of the API (a lost connection is no `ApiException`) leaves a delete or field handler to be called
  again, as a cut-off does; it is not modelled besides `Crash`.
- Edits while the creation is not handled may not be handed to the field handler: `EditPool` leaves that open. Since
  the creation is never handled, what makes them effective is the next attempt of it.

`OperatorSessions` adds the second kind of resource to the same event loop: `PlaceOn` or `PlaceNowhere`, for a persistent
session `Hset` and `Expire` (where the handler waits for Redis, and Redis may fail: `RedisFails`), `Noted` when kopf has
written that the handler is done; `DeleteHandled` is the deletion, which has no key to delete. `step[s]` is where the handler is,
`target[s]` the pod it has chosen. A crash (`CutOff`) has every handler that was not noted begin again.

- No pod is ever full: the cap of 10 sessions (`operator.py:513`) counts sessions by `status.podName`.
- The key of a session stays after the session: it goes when its ttl is over, and never if there is none (see section 4).
  A later session of that name writes over it.
- A session keeps its pod when that dies, and an error of the create handler makes it Failed for good: the handler has
  returned.

### PolicyRegistry

`run[e]` is an execution of workflow 06 (upsert), 07 (publish) or 12 (delete): `Start`
is the webhook, then one action per node that calls the bundle server: `ChangeNode`
(upsert, delete, Publish Revision), `LogNode`, and for a publish `LoadNode`,
`BundleNode` (Publish To Bundle Server) and `HealthNode`. `NodeFails` ends an execution at
a node without `continueOnFail`; the last two retry and go on (`Retry`). The server is
a single-threaded `HTTPServer`, so a request is one step of an idle server and a
database request one transaction. `NodeTimesOut` is n8n giving up after 30 s: the request stays in
`late`, and `ServeLate` serves it. `BeginPublish`, `WriteFile`, `ReplaceFile` are the
direct `POST /registry/publish` with the key, in steps because of `Crash`;
`PollBundle` is OPA's poll of the bundle built from the file.

- A rule is a key of `policy_workflows`; its setting stands for constraints and
  `enabled`. A payload is the draft when it was published. What `Load Published Payload`
  returns only goes into the refused request and a count in the answer, so it
  is not kept. Log rows of edits all carry the revision `draft` and are not kept.
- `late` is a set: two equal requests have the effect of one.
- Requests that a webhook refuses (no key, invalid input) change nothing. That includes
  every request the policy UI proxies: `_proxy_n8n_json` (`server.py:66`) sends no
  `X-API-Key`, and the workflows require one. The UI's `current` reads only.
- A crash is one of the process; a file system that loses a renamed file with the
  machine is not modelled. n8n stays up.

`RevisionRegistry` is the promise without requests, retries, a backlog, a temporary file or a crash: a revision
is stored and made the only active one in one step, the log tells of stored revisions only, the registry in force
is replaced as a whole, and whoever reads it has the whole of one, or the baseline while there is none.
`ImplementsRegistry` maps the tables, the complete file and what OPA holds to it.

## 3. The runs

| Run | Question | Instance |
|---|---|---|
| `session_manager` | Are slots, containers and Redis keys accounted for under every interleaving, and is `SessionLimit` implemented? | 2 callers and the janitor, 3 sandboxes, 2 slots, ttl 1 |
| `session_idle_execution` (violated) | Is a session that executes code never expired? | 2 callers, 2 sandboxes, 1 slot |
| `session_pool` | Does a pool implement `SessionHandout` and always give its lock back? Are expired sessions and orphaned keys reclaimed, behind a pool? | 2 clients and the janitor, 2 sandboxes, 2 slots, `min_size` = `max_size` = 1, ttl 1, failing store |
| `executor_api` | Do tenants and policy hold over every sequence of requests, and does every request end? | 2 tenants, 2 sandboxes, 2 slots, enforcing configuration |
| `load_balancer` | Do tripped pools rest, breakers close only after their tests; do dead pools stay away and recovered ones return? | 1 request, 1 administrator, 1 name with 2 objects, thresholds 2, failing Redis, restarts |
| `load_balancer_requests` | By how much can a count pass the limit, and what does a confirmed registration last through? | 2 requests, 2 administrators, the other replica, 1 session, 1 pool with 1 place, failing Redis, restarts |
| `session_persistence` | Does a deleted session stay deleted, and does Redis catch up with the cache? | 1 caller and the snapshot task, 2 sessions, 2 pods, 1 file, failing Redis, new processes |
| `session_state_ttl` (violated) | Does the key of a session nobody uses expire? | 1 session, 2 pods, Redis that does not fail |
| `operator` | Does a deletion leave only what it was refused, does a pool get its replicas, is every session answered, and does Redis name its pod, for a time? | 1 pool, sizes 0 and 1, 1 persistent session, 2 pods, failing API and Redis, crashes |
| `operator_queued` (violated) | Is a queued session placed once a pod runs? | 1 pool, 1 plain session, 1 pod, nothing fails |
| `policy_registry` | Is `RevisionRegistry` implemented in spite of failing nodes, late requests, crashes and restarts, is the file never torn, and does every caller get an answer? | 1 execution, 1 abandoned request, 1 rule, 2 revisions, 1 posted body, 2 tries |
| `policy_registry_publish` (violated) | Does a publish that is answered ok take effect? | the same, 3 tries |

Why the bounds suffice: every race in the code is between two parties, so two callers
(or a caller and the janitor) show it; three sandboxes and two slots allow a full
table, a failed creation beside it and a retry that finds room; a ttl of one tick
separates fresh, idle and expired. Two endpoint objects are an old and a new one;
a threshold of two distinguishes the first failure from the last and makes a half-open
period fail after its first success. One pool is enough for `load_balancer_requests`:
another pool changes nothing about this one's count or registration. There one object of the pool is enough, too: the restarts
replace it, and a larger instance with two (3 million states, where a name is registered over itself) agrees. `session_pool` has a list
of one session and two slots: full and empty list, full and free manager all occur, and a second sandbox
is created beside the pooled one. In `session_persistence` the caller and the snapshot task are the two parties,
and the second session is what a snapshot still has to save; in `operator` pool and session meet the leftovers of earlier ones of their
names, sizes 0 and 1 are a pool that is asked for nothing and one that is too small, and the second pod is where a placement
that is repeated may end up; sessions do not compete, as no pod is ever full. Requests, administrators, callers and
sandboxes are symmetric where no liveness is checked. `executor_api`
has the enforcing configuration only (all four have 680 000 states); the proofs
cover every configuration, and two slots rather than one make "full" differ from "busy".
In `policy_registry` an execution overlaps with the abandoned request of an earlier one and
with a direct publish; since the server serves one request at a time, a second execution
adds no other kind of overlap (a safety run with two, 5.6 million states, agrees), and
the proofs cover any number. Two revisions are needed for one to be deactivated, two
tries for a retry and a last one.

Deadlock is checked everywhere but in `executor_api`, where the server may really
stop after `Shutdown`.

Fairness. A thread inside a method is scheduled again and its Docker or Redis call
returns (weak fairness of what a thread does next); the cleanup thread wakes up while it is
not stopped (`while not self._stop_cleanup.wait`); time passes. In `ExecutorApi` a
handler and the call it makes go on; nothing more is assumed there. In the load balancer the event loop runs every coroutine
whose await is over, Redis answers or raises, and an HTTP check takes 5 seconds
at most (`aiohttp.ClientTimeout`). Nobody is ever obliged to call anything:
`RecoveredPoolReturns` therefore assumes that requests keep looking for pools, since
only they move an open breaker to half-open. Its premises also say that registrations, failing
checks and restarts come to an end, as do those of the other liveness properties there: a process that is killed for ever
does nothing. In the session pool a call that has begun goes on (weak fairness), and nobody has to call.
In session persistence every Redis call ends, the snapshot task wakes up (`while self._running`) and Redis
expires keys; `SnapshotsConverge` speaks of behaviours in which calls, new processes and failing snapshots
end. In the operator a call of Kubernetes or Redis ends, with a result or an error (weak fairness), and kopf calls
the handlers it owes in turn (strong fairness of the beginnings, since the one loop is busy with others in between). No call has to
succeed, and nobody has to stop restarting the operator: `<>[]up` is a premise of the three liveness properties, and
`PoolsSettle` has, for the replicas, that the API stops failing. A deletion needs no such premise. In the policy registry a call of a
node ends by its time-out at the latest, the bundle server finishes what it serves or dies,
and is then restarted (`restart: always`); OPA's polls are strongly fair: it polls for ever
(`docker/opa/config.yaml`), and not each of its polls meets a server that is down.

## 4. What disagrees with the documents

- `session_idle_execution`: idle time counts from the *start* of the last call. A run
  longer than the ttl is expired while it runs, and clean-up destroys its container.
- `session_state_ttl`: `_save_session` without a ttl is a plain SET, which removes the expiry that
  `create_session` set. After the first snapshot (60 s) or a migration the key stays until `delete_session`; if the
  pod dies before, for ever.
- `policy_registry_publish`: the node "Publish To Bundle Server" of workflow 07 sends no
  `X-API-Key`, so the bundle server refuses it; `continueOnFail` carries the workflow on to
  `status: 'ok'`. The revision is active in the database and logged as published, while the
  file, and OPA, stay as they were (`docs/policy-registry-operations.md:57` and `:93`
  expect otherwise). Only the direct publish of the runbook changes them.

- `operator_queued`: a session for which no pod runs is answered with "Waiting for available capacity"
  (`operator.py:529`), and the timer is there to "assign pending session" (`operator.py:614`). The phase the timer looks
  for is never in the status, so the session waits for ever, with pods running and nothing failing.

More gaps are in the models and need no run of their own. `stop` sweeps the table once, and a
`create_session` between its sandbox and its registration registers it afterwards, with nobody left to clean it up.
The load balancer checks for room before the `await` of the affinity write and counts after it, so two
requests may take the last place; how far this can go is `OvershootBounded`: less than the number of
requests one process serves at once. With its two replicas, a pool may be sent twice `max_sessions`, and counts fall below what was
sent. An HDEL under way can remove a registration that was confirmed meanwhile. A session that expires between the clean-up
of `create_session` and its retry has the creation refused although a slot could be freed (`RefusedOnlyWhenFull` counts it as one
that fills the table).

"Creates Deployment, Service, and HPA for the pool." (`operator.py:93`): the HPA is never made, the handler never ends, the status
never becomes Active, no scaling by CPU or queue depth (`k8s/README.md:330`) takes place, and the attempts set a Deployment that was scaled by hand or by a self-made autoscaler back to
its minimum, each time anew (that is why `PoolsSettle` says "again and again"). The cap of ten sessions per pod is never reached, and
deleting a session never deletes its key. A create handler of a session that fails or is cut off between HSET and EXPIRE leaves
a key without a time to live, and if the session has failed then, or is queued or deleted before the handler runs again, nothing ever
removes it (`PlacedKeysExpire` is about the sessions that were placed).

## 5. What is proved

All theorems hold for every value of the constants that satisfies the assumptions of the
modules (`ManagerAssumption`, `ApiAssumption`, `BreakerAssumption`,
`LBAssumption`, `TriesAssumption`, `RegistryAssumption`, `PoolAssumption`, `PersistenceAssumption`,
`PoolsAssumption`, `SessionsAssumption`: finite sets of
callers, positive ttl, tries and thresholds, null values that are no names).

`SessionManagerProofs`. The invariant is `TypeCore /\ WorkInv /\ SlotsConserved /\
NoAbandonedContainer /\ StoreCoversSessions`. `TypeOK` alone is not inductive: that
`permits` stays at or below `MaxSessions` follows from `SlotsConserved`, which
needs `WorkInv` (a thread in the middle of a creation has a sandbox of its own,
not yet registered). `ContainersWithinLimit` follows: a held container belongs to a
session or to a creator, and both have a permit. The refinement theorem shows that
every step of the manager is a step of `SessionLimit` or leaves it alone, and `LimitIsBounded` that
what is promised there is a bound.

Liveness is out of the prover's reach, but most of its argument is not: that each step of a call makes some rank of the
call smaller, and that no step of anybody else makes it larger or takes the next step away. These facts are action
properties and invariants, proved below as the *safety half* of a liveness property. What the proofs leave to TLC is that a
step that is due is possible and, by fairness, taken. For the manager they are `CallsOnlyAdvance` (the phase of the call, and the
keys it has still to delete) and `DeletersGoOn` (there is such a key, and there are finitely many). An expired session
can only leave the table, and a clean-up pass leaves none behind (`ExpiryIsFinal`); of a session that is gone no new save
begins, and without a late one its key only ages (`GoneForGood`). What TLC adds is that the clean-up thread runs and the clock ticks.

`ExecutorApiProofs`. `ApiUsesManager` shows that a step of the server is a step of the manager,
so the manager's invariant holds in it. `HandlerInv` says what a handler has
established at each stage; the point is that it survives the cleanup thread: a
session may vanish or expire between peek, get, policy and execution, but an id never
gets another owner. `ApiInheritsManager` passes the manager's theorems on to the server. `HandlersOnlyAdvance` is the safety
half of `RequestsEnd`: the stage of the handler, then the rank of the manager's call.

`LoadBalancerProofs`. The invariant is `LBTypeOK /\ LBWork /\ BreakerInv /\ CountInv /\
DurableRegistration`. `BreakerInv` ties `failure_count` to the checks failed in a
row, and the successes of a half-open breaker to the checks passed in a row; it is proved
from `BreakerSound`, a lemma about the three methods. `CountInv` bounds counts in
memory, in Redis and on the way there: a restart loads the last one, so the bound on
memory alone is not inductive. `PickCases` says that only a request that sees a pool
available starts to wait with it, `CountCases` that a count only rises by such
a request. What other replicas save is part of `CountInv`, too. `DurableRegistration` is inductive with any number of administrators,
since `Confirm` looks at the unregistrations under way.

`SessionPoolProofs`. `PoolUsesManager` shows that a step of the pool or of a client is a step of the manager or
leaves it alone, so the manager's invariant holds behind a pool. The invariant is that one with `PoolTypeOK /\
LockInv /\ WarmInv /\ HeldInv /\ ExclusivelyHeld`. That a new session is in nobody's hands needs the manager's
invariant: its name is new, while whatever is listed or held was registered before (`HeldInv`). That the list
stays within the larger of `min_size` and `max_size` needs `LockInv` (one thread is inside) and `WarmInv` (what is being warmed has its place).
The refinement of `SessionHandout` needs two more facts: a session is made only for a client that
waits for one and has none (`WaitInv`), and the cleanup thread makes none (`JanitorInv`). `ExclusivelyHeld` is proved both of the
pool and, as `HandoutIsExclusive`, of whatever keeps the promise; `PoolWithinLimits` adds that the manager's
own limits hold behind a pool. `LockHoldersAdvance` is the safety half of `LockReleased`: the stage of the call, then
the length of the list or the sessions to warm, then the manager's rank.

`SessionPersistenceProofs`. The invariant is `SPTypeOK /\ CallInv /\ ListInv /\ GoneInv`. `GoneInv`: of a deleted session
nothing is cached, listed, on its way to Redis or stored; calls with its id may still look for it or
delete it again, and every call that writes, but for `create_session` with its new id, has to find it first.
The safety half of `SnapshotsConverge` is in four theorems. `SnapshotsCover`: a snapshot that begins when calls have ended
covers the cache (each cached state is in Redis or still to be written, and nothing older is), and no later step of snapshots or
expiry undoes that, whatever the snapshot before wrote late. `SavedOnceCovered`: when such a snapshot ends, Redis has the cache.
`PassesOnlyAdvance` and `PassesAreFinite`: it does end, its list being finite and never growing. They need `PassInv`.

`OperatorPoolsProofs`. The invariant is `OPTypeOK /\ HandlerInv /\ DropInv /\ OnlyRefusedRemains /\ OneHandlerAtATime`. `HandlerInv`
says which handlers kopf owes a resource in each of its states, `DropInv` that what a delete handler has passed is gone or was
refused; no create handler writes meanwhile, as there is one handler at a time (`HandlersAlone`). `DeletionsOnlyAdvance` is the safety half of
`PoolsSettle` as to deletion: the calls that are left fall with every step, those of a create handler in its way first.

`OperatorSessionsProofs`. The invariant is `OSTypeOK /\ CreateInv /\ StoredPodAgrees /\ PlacedKeysExpire`; `CreateInv` says that
from `Hset` on the key is about the target of the handler, or has expired. `SessionsUsePools` passes on what is proved of
pools. `AnswersOnlyAdvance` is the safety half of `SessionsAnswered`; it says as well that an answer is final, and so that a
queued session stays queued: the disagreement of section 4, for every size.

`PolicyRegistryProofs`. The invariant is `PRTypeOK /\ RunsRecorded /\ LateRecorded /\
LogRecorded /\ OneActiveRevision /\ FileInv`. `PublishesOnRecord` speaks of answers; it needs
`RunsRecorded`, what an execution has on record at each of its nodes, and `LateRecorded`, the
same for log requests that outlive their execution. `FileInv` says that what is about to
replace the file is complete and that OPA holds a registry only if the file does. `Grows` (the
database never loses a revision or a log row) carries the records over the steps of others. The same invariant makes every step one
of `RevisionRegistry` or none (`RegistryImplementsPromise`). `ExecutionsOnlyAdvance` is the safety half of `RunsEnd`: the
nodes left, then the tries left at this one.

Only model-checked: every liveness property (`ExpiredReclaimed`, `OrphanKeysExpire`, `LockReleased`,
`RequestsEnd`, `DeadPoolAvoided`, `RecoveredPoolReturns`, `RunsEnd`, `ReflectsRuntime`, `SnapshotsConverge`,
`PoolsSettle`, `SessionsAnswered`), which the prover cannot treat because of `ENABLED`; of eight of them the safety half is proved, as
above (of `PoolsSettle` as to deletion; of `DeadPoolAvoided`, `RecoveredPoolReturns` and `ReflectsRuntime` nothing of the kind: they wait for repeated checks
and polls); and the violations.

## 6. Not modelled

Interpreter, file-system helper, templates and the command line are sequential wrappers
around one sandbox or constant tables. The Slack verifier is a stateless check of
one signature. The n8n workflows other than 06, 07 and 12 are data for an interpreter that
is not in the repository. Of the bundle server, the memory inserts, the read-only routes and
the UI's static files are left out.
Scripts, deployment files and documents have no behaviour to model. Metrics,
payloads, log lines and HTTP formatting are left out of every model.

## 7. Plan

Next modules, in this order, with their main properties:

1. `AuditChain`: the trigger that links an audit event to the latest row by `created_at`. It takes no lock, and
   `created_at` is the time a transaction began. The legacy workflows in `n8n/workflows` insert concurrently, so the
   chain may fork; the properties are that a fork needs overlapping transactions, and that an event appended
   while no other is being appended is met by every later walk back. With `n8n/workflows-v3` as the only writer the bundle
   server appends one event at a time, and nothing overlaps.
2. `PackageCache`: files and the index on disk, with a crash between the two. No code of the executor uses the
   cache yet.
3. The OPA thresholds and the risk score as operators, checked against the tables of the documents.

For each: an abstract specification where one is natural, one
passing run, and the type invariant and main safety invariant proved.
