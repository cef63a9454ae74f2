------------------------- MODULE SessionPersistence -------------------------
(***************************************************************************)
(* k8s/controllers/session_persistence.py: SessionPersistenceManager, a    *)
(* cache of session states in front of Redis, with a background task that  *)
(* saves the whole cache every snapshot_interval seconds.                  *)
(*                                                                         *)
(* One action is what a coroutine does from one await to the next,         *)
(* together with the Redis reply it waited for.  The state kept of a       *)
(* session is one value, the pod it is assigned to; a state is an object   *)
(* shared by reference, which the model keeps: see "listed".  Files are    *)
(* their paths in Redis: what is cached of them decides nothing.           *)
(***************************************************************************)
EXTENDS FiniteSets

CONSTANTS
  Caller,        \* coroutines that call the manager
  Session,       \* session ids; an id is never used for a second session
  Pod,           \* pod names
  File,          \* file paths
  Loop, Pass,    \* the snapshot task; all runs of _save_all_sessions
  None,          \* no state, no key, nothing
  Same,          \* "the object that is in the cache"
  RedisMayFail   \* may a Redis call raise?

ASSUME PersistenceAssumption ==
  /\ Loop \in Pass
  /\ None \notin Pod \cup Session \cup File
  /\ None \notin [pod : Pod, expires : BOOLEAN]
  /\ Same \notin Pod \cup {None}
  /\ RedisMayFail \in BOOLEAN

VARIABLES
  cache,    \* cache[s]: pod_name of _active_sessions[s], or None
  key,      \* key[s]: executor:session:s in Redis, or None
  hash,     \* hash[s]: fields of executor:session:s:files in Redis
  used,     \* ids that were given to create_session
  pc,       \* pc[t]: the Redis call t waits for
  job,      \* job[t]: what t was called to do
  pass,     \* pass[p]: where a _save_all_sessions is, and what it saves
  listed,   \* listed[p][s]: the state of s in the list p has still to save
  gone      \* deleted sessions nobody was working on (history)

redis == <<key, hash>>
tasks == <<pc, job>>
passes == <<pass, listed>>
spvars == <<cache, redis, used, tasks, passes, gone>>

Key == [pod : Pod, expires : BOOLEAN]

(* A call: the pod it assigns, or the file it is about. *)
Job == [op : {"create", "update", "migrate", "restore"}, s : Session, x : Pod]
       \cup [op : {"add", "remove"}, s : Session, x : File]
       \cup [op : {"delete"}, s : Session, x : {None}]

NoJob == [op |-> "none", s |-> None, x |-> None]

(* "rest": waits for its time, or to be started; "next": between two       *)
(* sessions; "save": waits for the SET of state x under s.                 *)
Rest == [at |-> "rest", s |-> None, x |-> None]
Between == [at |-> "next", s |-> None, x |-> None]
Writing(s, x) == [at |-> "save", s |-> s, x |-> x]

SPTypeOK ==
  /\ cache \in [Session -> Pod \cup {None}]
  /\ key \in [Session -> Key \cup {None}]
  /\ hash \in [Session -> SUBSET File]
  /\ used \in SUBSET Session
  /\ pc \in [Caller -> {"idle", "load", "save", "put", "drop"}]
  /\ job \in [Caller -> Job \cup {NoJob}]
  /\ pass \in [Pass -> {Rest, Between} \cup [at : {"save"}, s : Session, x : Pod]]
  /\ listed \in [Pass -> [Session -> Pod \cup {None, Same}]]
  /\ gone \in SUBSET used

SPInit ==
  /\ cache = [s \in Session |-> None]
  /\ key = [s \in Session |-> None]
  /\ hash = [s \in Session |-> {}]
  /\ used = {}
  /\ pc = [t \in Caller |-> "idle"]
  /\ job = [t \in Caller |-> NoJob]
  /\ pass = [p \in Pass |-> Rest]
  /\ listed = [p \in Pass |-> [s \in Session |-> None]]
  /\ gone = {}

-----------------------------------------------------------------------------
(* Helpers.                                                                *)

(* t goes on to wait for a Redis call. *)
Await(t, call, j) ==
  /\ pc' = [pc EXCEPT ![t] = call]
  /\ job' = [job EXCEPT ![t] = j]

Return(t) == Await(t, "idle", NoJob)

(* _active_sessions[s] = a new object, or nothing: what others hold of s   *)
(* is not the cached object any more, and keeps the value that one had.    *)
Replace(s, x) ==
  /\ cache' = [cache EXCEPT ![s] = x]
  /\ listed' = [p \in Pass |->
       IF listed[p][s] = Same THEN [listed[p] EXCEPT ![s] = cache[s]]
                              ELSE listed[p]]

(* Somebody but t may still write what it knows of s. *)
WorksOn(s, t) ==
  \/ cache[s] # None
  \/ \E u \in Caller \ {t} : job[u].s = s
  \/ \E p \in Pass : pass[p].s = s \/ listed[p][s] # None

-----------------------------------------------------------------------------
(* Calls that find the state in the cache, or need none                    *)

create_session(t, s, x) ==
  /\ pc[t] = "idle"
  /\ s \notin used
  /\ used' = used \cup {s}
  /\ Replace(s, x)
  /\ Await(t, "save", [op |-> "create", s |-> s, x |-> x])
  /\ UNCHANGED <<redis, pass, gone>>

(* update_session on a cached state: no await at all, nothing is saved. *)
UpdateCached(t, s, x) ==
  /\ pc[t] = "idle"
  /\ cache[s] # None
  /\ cache' = [cache EXCEPT ![s] = x]
  /\ UNCHANGED <<redis, used, tasks, passes, gone>>

(* migrate_session on a cached state. *)
MigrateCached(t, s, x) ==
  /\ pc[t] = "idle"
  /\ cache[s] # None
  /\ cache' = [cache EXCEPT ![s] = x]
  /\ Await(t, "save", [op |-> "migrate", s |-> s, x |-> x])
  /\ UNCHANGED <<redis, used, passes, gone>>

(* Seeded fault: a file is stored without asking for its session. *)
AddUnchecked(t, s, f) ==
  /\ pc[t] = "idle"
  /\ s \in used
  /\ Await(t, "put", [op |-> "add", s |-> s, x |-> f])
  /\ UNCHANGED <<cache, redis, used, passes, gone>>

(* add_file on a cached state. *)
AddCached(t, s, f) ==
  /\ pc[t] = "idle"
  /\ cache[s] # None
  /\ Await(t, "put", [op |-> "add", s |-> s, x |-> f])
  /\ UNCHANGED <<cache, redis, used, passes, gone>>

delete_file(t, s, f) ==
  /\ pc[t] = "idle"
  /\ s \in used
  /\ Await(t, "drop", [op |-> "remove", s |-> s, x |-> f])
  /\ UNCHANGED <<cache, redis, used, passes, gone>>

delete_session(t, s) ==
  /\ pc[t] = "idle"
  /\ s \in used
  /\ Replace(s, None)
  /\ Await(t, "drop", [op |-> "delete", s |-> s, x |-> None])
  /\ UNCHANGED <<redis, used, pass, gone>>

-----------------------------------------------------------------------------
(* Calls that have to load the state                                       *)

(* The session is not cached, or the call is restore_session. *)
Load(t, j) ==
  /\ pc[t] = "idle"
  /\ j.s \in used
  /\ \/ j.op = "restore"
     \/ j.op \in {"update", "migrate", "add"} /\ cache[j.s] = None
  /\ Await(t, "load", j)
  /\ UNCHANGED <<cache, redis, used, passes, gone>>

(* There is no such key, or GET raised: not found. *)
LoadFails(t) ==
  /\ pc[t] = "load"
  /\ key[job[t].s] = None \/ RedisMayFail
  /\ Return(t)
  /\ UNCHANGED <<cache, redis, used, passes, gone>>

(* A new object is made of the key.  add_file changes only that object;    *)
(* the others change it and put it into the cache, in the place of         *)
(* whatever is there by now.                                               *)
Loaded(t) ==
  LET j == job[t] IN
  /\ pc[t] = "load"
  /\ key[j.s] # None
  /\ IF j.op = "add"
     THEN Await(t, "put", j) /\ UNCHANGED <<cache, listed>>
     ELSE /\ Replace(j.s, j.x)
          /\ IF j.op = "migrate" THEN Await(t, "save", j) ELSE Return(t)
  /\ UNCHANGED <<redis, used, pass, gone>>

-----------------------------------------------------------------------------
(* The writes                                                              *)

(* _save_session: SETEX for create_session, a plain SET, which takes an    *)
(* earlier expiry away, for the others.                                    *)
Saved(t) ==
  /\ pc[t] = "save"
  /\ key' = [key EXCEPT ![job[t].s] =
       [pod |-> job[t].x, expires |-> job[t].op = "create"]]
  /\ Return(t)
  /\ UNCHANGED <<cache, hash, used, passes, gone>>

(* _save_file: HSET, and EXPIRE, after which the files may go by           *)
(* themselves.                                                             *)
Put(t) ==
  /\ pc[t] = "put"
  /\ hash' = [hash EXCEPT ![job[t].s] = @ \cup {job[t].x}]
  /\ Return(t)
  /\ UNCHANGED <<cache, key, used, passes, gone>>

(* HDEL. *)
Removed(t) ==
  /\ pc[t] = "drop"
  /\ job[t].op = "remove"
  /\ hash' = [hash EXCEPT ![job[t].s] = @ \ {job[t].x}]
  /\ Return(t)
  /\ UNCHANGED <<cache, key, used, passes, gone>>

(* The pipeline of delete_session, a transaction. *)
Dropped(t) ==
  LET s == job[t].s IN
  /\ pc[t] = "drop"
  /\ job[t].op = "delete"
  /\ key' = [key EXCEPT ![s] = None]
  /\ hash' = [hash EXCEPT ![s] = {}]
  /\ gone' = IF WorksOn(s, t) THEN gone ELSE gone \cup {s}
  /\ Return(t)
  /\ UNCHANGED <<cache, used, passes>>

(* A write raises, and is logged. *)
WriteFails(t) ==
  /\ RedisMayFail
  /\ pc[t] \in {"save", "put", "drop"}
  /\ Return(t)
  /\ UNCHANGED <<cache, redis, used, passes, gone>>

-----------------------------------------------------------------------------
(* _save_all_sessions, by the snapshot task and by stop()                  *)

Cached == {s \in Session : cache[s] # None}

(* What p has listed of s. *)
Entry(p, s) == IF listed[p][s] = Same THEN cache[s] ELSE listed[p][s]

(* The list is taken, and its first session s is on the way to Redis. *)
StartPass(p, s) ==
  /\ pass[p] = Rest
  /\ s \in Cached
  /\ listed' = [listed EXCEPT ![p] =
       [u \in Session |-> IF u \in Cached \ {s} THEN Same ELSE None]]
  /\ pass' = [pass EXCEPT ![p] = Writing(s, cache[s])]
  /\ UNCHANGED <<cache, redis, used, tasks, gone>>

(* Seeded fault: the list is of ids, looked up in the cache one by one. *)
NextById(p, s) ==
  /\ pass[p] = Between
  /\ listed[p][s] # None
  /\ pass' = [pass EXCEPT ![p] = Writing(s, cache[s])]
  /\ listed' = [listed EXCEPT ![p][s] = None]
  /\ UNCHANGED <<cache, redis, used, tasks, gone>>

(* The next session of the list, as its object is now. *)
NextInPass(p, s) ==
  /\ pass[p] = Between
  /\ listed[p][s] # None
  /\ pass' = [pass EXCEPT ![p] = Writing(s, Entry(p, s))]
  /\ listed' = [listed EXCEPT ![p][s] = None]
  /\ UNCHANGED <<cache, redis, used, tasks, gone>>

(* Seeded fault: SET NX, a session that is in Redis is not saved again. *)
PassSavesNew(p) ==
  /\ pass[p].at = "save"
  /\ key' = [key EXCEPT ![pass[p].s] =
       IF @ = None THEN [pod |-> pass[p].x, expires |-> FALSE] ELSE @]
  /\ pass' = [pass EXCEPT ![p] = Between]
  /\ UNCHANGED <<cache, hash, used, tasks, listed, gone>>

(* A plain SET.  _save_all_sessions goes on in any case. *)
PassSaves(p) ==
  /\ pass[p].at = "save"
  /\ key' = [key EXCEPT ![pass[p].s] = [pod |-> pass[p].x, expires |-> FALSE]]
  /\ pass' = [pass EXCEPT ![p] = Between]
  /\ UNCHANGED <<cache, hash, used, tasks, listed, gone>>

PassFails(p) ==
  /\ RedisMayFail
  /\ pass[p].at = "save"
  /\ pass' = [pass EXCEPT ![p] = Between]
  /\ UNCHANGED <<cache, redis, used, tasks, listed, gone>>

(* The list is done: the snapshot task goes back to sleep. *)
PassEnds(p) ==
  /\ pass[p] = Between
  /\ \A s \in Session : listed[p][s] = None
  /\ pass' = [pass EXCEPT ![p] = Rest]
  /\ UNCHANGED <<cache, redis, used, tasks, listed, gone>>

(* The process dies, or stop() has saved its list and closes the           *)
(* connection; a new process begins.  What is not in Redis is lost.        *)
NewProcess ==
  /\ cache' = [s \in Session |-> None]
  /\ pc' = [t \in Caller |-> "idle"]
  /\ job' = [t \in Caller |-> NoJob]
  /\ pass' = [p \in Pass |-> Rest]
  /\ listed' = [p \in Pass |-> [s \in Session |-> None]]
  /\ UNCHANGED <<redis, used, gone>>

-----------------------------------------------------------------------------
(* Redis removes what has expired: a state ttl seconds after create, files *)
(* 24 hours after the last one was added.                                  *)
KeyExpires(s) ==
  /\ key[s] # None
  /\ key[s].expires
  /\ key' = [key EXCEPT ![s] = None]
  /\ UNCHANGED <<cache, hash, used, tasks, passes, gone>>

FilesExpire(s) ==
  /\ hash[s] # {}
  /\ hash' = [hash EXCEPT ![s] = {}]
  /\ UNCHANGED <<cache, key, used, tasks, passes, gone>>

-----------------------------------------------------------------------------
Call(t) ==
  \E s \in Session :
    \/ \E x \in Pod : \/ create_session(t, s, x)
                      \/ UpdateCached(t, s, x) \/ MigrateCached(t, s, x)
    \/ \E f \in File : AddCached(t, s, f) \/ delete_file(t, s, f)
    \/ delete_session(t, s)
    \/ \E j \in Job : j.s = s /\ Load(t, j)

Goes(t) ==
  \/ LoadFails(t) \/ Loaded(t)
  \/ Saved(t) \/ Put(t) \/ Removed(t) \/ Dropped(t) \/ WriteFails(t)

PassGoes(p) ==
  \/ \E s \in Session : NextInPass(p, s)
  \/ PassSaves(p) \/ PassFails(p) \/ PassEnds(p)

Starts(p) == \E s \in Session : StartPass(p, s)

SPNext ==
  \/ \E t \in Caller : Call(t) \/ Goes(t)
  \/ \E p \in Pass : Starts(p) \/ PassGoes(p)
  \/ NewProcess
  \/ \E s \in Session : KeyExpires(s) \/ FilesExpire(s)

SPSpec == SPInit /\ [][SPNext]_spvars

(* Redis answers or raises, the snapshot task wakes up again and again,    *)
(* and Redis expires keys.  Nobody has to call, and nobody calls stop().   *)
SPFairSpec ==
  /\ SPSpec
  /\ \A t \in Caller : WF_spvars(Goes(t))
  /\ \A p \in Pass : WF_spvars(PassGoes(p))
  /\ WF_spvars(Starts(Loop))
  /\ \A s \in Session : WF_spvars(KeyExpires(s))

-----------------------------------------------------------------------------
(* Properties.                                                             *)

(* Once a delete_session has reached Redis and no other call or snapshot   *)
(* was under way with the session, nothing brings it back, whatever is     *)
(* called with its id afterwards: neither its state nor a file of it.      *)
(* (A call or a snapshot that was under way may write it back.)            *)
DeletedForGood ==
  \A s \in gone : cache[s] = None /\ key[s] = None /\ hash[s] = {}

(* What makes cache and Redis differ, or keeps them so: a call, a snapshot *)
(* that does not get through, the end of the process.                      *)
Disturbs ==
  \/ \E t \in Caller : Call(t)
  \/ \E p \in Pass : PassFails(p) /\ ~PassSaves(p)
  \/ NewProcess
  \/ \E p \in Pass \ {Loop} : Starts(p)

(* Redis catches up with the cache: once calls, crashes and failing        *)
(* snapshots end, what a new pod would restore is what this one has,       *)
(* although writes were lost, two SETs of one session arrived in the wrong *)
(* order, or a snapshot wrote a state that had been replaced meanwhile.    *)
SnapshotsConverge ==
  (<>[][~Disturbs]_spvars) =>
     <>[](\A s \in Cached : key[s] # None /\ key[s].pod = cache[s])

(* "ttl: Time-to-live in seconds" (session_persistence.py:179): the state  *)
(* of a session that nobody uses any more does not stay in Redis for ever. *)
StateExpires ==
  \A s \in Session :
    (<>[][\A t \in Caller : ~Call(t)]_spvars) => []<>(key[s] = None)
=============================================================================
