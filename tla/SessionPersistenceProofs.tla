----------------------- MODULE SessionPersistenceProofs -----------------------
(***************************************************************************)
(* Proofs about SessionPersistence, for any number of callers, sessions,   *)
(* pods, files and runs of _save_all_sessions, with and without failing    *)
(* calls.  The inductive invariant is                                      *)
(*                                                                         *)
(*   SPTypeOK /\ CallInv /\ ListInv /\ GoneInv                             *)
(***************************************************************************)
EXTENDS SessionPersistence, FiniteSetTheorems, TLAPS

(* What a caller waits for fits what it was called to do. *)
CallInv ==
  \A t \in Caller :
    /\ pc[t] = "idle" => job[t] = NoJob
    /\ pc[t] = "load" => job[t].op \in {"update", "migrate", "restore", "add"}
    /\ pc[t] = "save" => job[t].op \in {"create", "migrate"}
    /\ pc[t] = "put" => job[t].op = "add"
    /\ pc[t] = "drop" => job[t].op \in {"remove", "delete"} /\ job[t].s \in used

(* The object that is in the cache is there. *)
ListInv ==
  \A p \in Pass, s \in Session : listed[p][s] = Same => cache[s] # None

(* Nobody is left who could write a deleted session back: no snapshot has  *)
(* it, and a caller has only still to look for it or to remove it again.   *)
GoneInv ==
  \A s \in gone :
    /\ cache[s] = None /\ key[s] = None /\ hash[s] = {}
    /\ \A p \in Pass : pass[p].s # s /\ listed[p][s] = None
    /\ \A t \in Caller : job[t].s = s => pc[t] \in {"load", "drop"}

SPInv == SPTypeOK /\ CallInv /\ ListInv /\ GoneInv

LEMMA SPInitInv == SPInit => SPInv
  BY PersistenceAssumption, SMT
  DEF SPInit, SPInv, SPTypeOK, CallInv, ListInv, GoneInv, Rest, NoJob

LEMMA SPStepInv == SPInv /\ [SPNext]_spvars => SPInv'
<1> SUFFICES ASSUME SPInv, [SPNext]_spvars PROVE SPInv'
  OBVIOUS
<1> USE PersistenceAssumption DEF SPInv, SPTypeOK, CallInv, ListInv, GoneInv
<1>1. CASE UNCHANGED spvars
  BY <1>1, SMT DEF spvars, redis, tasks, passes
<1>2. ASSUME NEW t \in Caller, NEW s \in Session, NEW x \in Pod, create_session(t, s, x)
      PROVE  SPInv'
  BY <1>2, SMT DEF create_session, Replace, Await, redis, Job, NoJob, Key
<1>3. ASSUME NEW t \in Caller, NEW s \in Session, NEW x \in Pod, UpdateCached(t, s, x)
      PROVE  SPInv'
  BY <1>3, SMT DEF UpdateCached, redis, tasks, passes
<1>4. ASSUME NEW t \in Caller, NEW s \in Session, NEW x \in Pod, MigrateCached(t, s, x)
      PROVE  SPInv'
  BY <1>4, SMT DEF MigrateCached, Await, redis, passes, Job, NoJob
<1>5. ASSUME NEW t \in Caller, NEW s \in Session, NEW f \in File,
             AddCached(t, s, f) \/ delete_file(t, s, f)
      PROVE  SPInv'
  <2>1. CASE AddCached(t, s, f)
    BY <2>1, SMT DEF AddCached, Await, redis, passes, Job, NoJob
  <2>2. CASE delete_file(t, s, f)
    BY <2>2, SMT DEF delete_file, Await, redis, passes, Job, NoJob
  <2> QED
    BY <1>5, <2>1, <2>2
<1>6. ASSUME NEW t \in Caller, NEW s \in Session, delete_session(t, s)
      PROVE  SPInv'
  BY <1>6, SMT DEF delete_session, Replace, Await, redis, Job, NoJob
<1>7. ASSUME NEW t \in Caller, NEW j \in Job, Load(t, j)
      PROVE  SPInv'
  BY <1>7, SMT DEF Load, Await, redis, passes, Job, NoJob
<1>8. ASSUME NEW t \in Caller, LoadFails(t) \/ WriteFails(t)
      PROVE  SPInv'
  <2>1. /\ pc' = [pc EXCEPT ![t] = "idle"]
        /\ job' = [job EXCEPT ![t] = NoJob]
        /\ UNCHANGED <<cache, key, hash, used, pass, listed, gone>>
    BY <1>8 DEF LoadFails, WriteFails, Return, Await, redis, passes
  <2>2. NoJob \in Job \cup {NoJob} /\ NoJob.s = None
    BY DEF NoJob
  <2>3. SPTypeOK'
    BY <2>1, <2>2, SMT
  <2>4. CallInv'
    BY <2>1, SMT
  <2>5. ListInv' /\ GoneInv'
    BY <2>1, <2>2, SMT
  <2> QED
    BY <2>3, <2>4, <2>5
<1>9. ASSUME NEW t \in Caller, Loaded(t)
      PROVE  SPInv'
  <2> DEFINE j == job[t]
  <2>1. /\ j \in Job /\ j.s \in Session
        /\ j.op # "add" => j.x \in Pod
        /\ j.s \notin gone
    BY <1>9, SMT DEF Loaded, Job, NoJob
  <2>2. CASE j.op = "add"
    BY <1>9, <2>1, <2>2, SMT DEF Loaded, Await, redis
  <2>3. CASE j.op = "migrate"
    <3>1. /\ cache' = [cache EXCEPT ![j.s] = j.x]
          /\ pc' = [pc EXCEPT ![t] = "save"]
          /\ job' = [job EXCEPT ![t] = j]
          /\ UNCHANGED <<key, hash, used, pass, gone>>
      BY <1>9, <2>3 DEF Loaded, Replace, Await, redis
    <3>2. listed' = [p \in Pass |->
            IF listed[p][j.s] = Same THEN [listed[p] EXCEPT ![j.s] = cache[j.s]]
                                     ELSE listed[p]]
      BY <1>9, <2>3 DEF Loaded, Replace
    <3>3. SPTypeOK'
      BY <2>1, <2>3, <3>1, <3>2, SMT
    <3>4. CallInv'
      BY <2>1, <2>3, <3>1, SMT
    <3>5. ListInv' /\ GoneInv'
      BY <2>1, <2>3, <3>1, <3>2, SMT
    <3> QED
      BY <3>3, <3>4, <3>5
  <2>4. CASE j.op \notin {"add", "migrate"}
    <3>1. /\ cache' = [cache EXCEPT ![j.s] = j.x]
          /\ pc' = [pc EXCEPT ![t] = "idle"]
          /\ job' = [job EXCEPT ![t] = NoJob]
          /\ UNCHANGED <<key, hash, used, pass, gone>>
      BY <1>9, <2>4 DEF Loaded, Replace, Return, Await, redis
    <3>2. listed' = [p \in Pass |->
            IF listed[p][j.s] = Same THEN [listed[p] EXCEPT ![j.s] = cache[j.s]]
                                     ELSE listed[p]]
      BY <1>9, <2>4 DEF Loaded, Replace
    <3>3. SPTypeOK'
      BY <2>1, <2>4, <3>1, <3>2, SMT
    <3>4. CallInv'
      BY <2>1, <3>1, SMT
    <3>5. ListInv' /\ GoneInv'
      BY <2>1, <3>1, <3>2, SMT DEF NoJob
    <3> QED
      BY <3>3, <3>4, <3>5
  <2> QED
    BY <2>2, <2>3, <2>4
<1>10. ASSUME NEW t \in Caller, Saved(t)
       PROVE  SPInv'
  BY <1>10, SMT DEF Saved, Return, Await, passes, Job, NoJob, Key
<1>11. ASSUME NEW t \in Caller, Put(t)
       PROVE  SPInv'
  BY <1>11, SMT DEF Put, Return, Await, passes, Job, NoJob
<1>12. ASSUME NEW t \in Caller, Removed(t)
       PROVE  SPInv'
  BY <1>12, SMT DEF Removed, Return, Await, passes, Job, NoJob
<1>13. ASSUME NEW t \in Caller, Dropped(t)
       PROVE  SPInv'
  <2> DEFINE s == job[t].s
  <2>1. job[t] \in Job /\ s \in Session /\ s \in used
    BY <1>13, SMT DEF Dropped, Job, NoJob
  <2>2. /\ key' = [key EXCEPT ![s] = None]
        /\ hash' = [hash EXCEPT ![s] = {}]
        /\ pc' = [pc EXCEPT ![t] = "idle"]
        /\ job' = [job EXCEPT ![t] = NoJob]
        /\ UNCHANGED <<cache, used, pass, listed>>
    BY <1>13 DEF Dropped, Return, Await, passes
  <2>3. gone' = gone \/ (gone' = gone \cup {s} /\ ~WorksOn(s, t))
    BY <1>13 DEF Dropped
  <2>4. SPTypeOK'
    BY <2>1, <2>2, <2>3, SMT
  <2>5. CallInv' /\ ListInv'
    BY <2>2, SMT
  <2>6. GoneInv'
    BY <2>1, <2>2, <2>3, SMT DEF WorksOn, NoJob
  <2> QED
    BY <2>4, <2>5, <2>6
<1>14. ASSUME NEW p \in Pass, NEW s \in Session, StartPass(p, s)
       PROVE  SPInv'
  BY <1>14, SMT DEF StartPass, Cached, Writing, redis, tasks
<1>15. ASSUME NEW p \in Pass, NEW s \in Session, NextInPass(p, s)
       PROVE  SPInv'
  BY <1>15, SMT DEF NextInPass, Entry, Writing, redis, tasks
<1>16. ASSUME NEW p \in Pass, PassSaves(p) \/ PassFails(p)
       PROVE  SPInv'
  <2>1. CASE PassSaves(p)
    BY <2>1, SMT DEF PassSaves, Rest, Between, redis, tasks, Key
  <2>2. CASE PassFails(p)
    BY <2>2, SMT DEF PassFails, Rest, Between, redis, tasks
  <2> QED
    BY <1>16, <2>1, <2>2
<1>17. ASSUME NEW p \in Pass, PassEnds(p)
       PROVE  SPInv'
  BY <1>17, SMT DEF PassEnds, Rest, redis, tasks
<1>18. CASE NewProcess
  BY <1>18, SMT DEF NewProcess, Rest, NoJob, redis
<1>19. ASSUME NEW s \in Session, KeyExpires(s) \/ FilesExpire(s)
       PROVE  SPInv'
  <2>1. CASE KeyExpires(s)
    BY <2>1, SMT DEF KeyExpires, tasks, passes
  <2>2. CASE FilesExpire(s)
    BY <2>2, SMT DEF FilesExpire, tasks, passes
  <2> QED
    BY <1>19, <2>1, <2>2
<1> QED
  BY <1>1, <1>2, <1>3, <1>4, <1>5, <1>6, <1>7, <1>8, <1>9, <1>10, <1>11,
     <1>12, <1>13, <1>14, <1>15, <1>16, <1>17, <1>18, <1>19
  DEF SPNext, Call, Goes, PassGoes, Starts

LEMMA SPInvHolds == SPSpec => []SPInv
  BY SPInitInv, SPStepInv, PTL DEF SPSpec

(* Type correctness: whatever is written to Redis or to the cache is the   *)
(* state of a session.                                                     *)
THEOREM SPTypeCorrect == SPSpec => []SPTypeOK
  BY SPInvHolds, PTL DEF SPInv

(* A session whose deletion has reached Redis while nobody else was        *)
(* working on it stays deleted.                                            *)
THEOREM GoneForGood == SPSpec => []DeletedForGood
<1>1. SPInv => DeletedForGood
  BY DEF SPInv, GoneInv, DeletedForGood
<1> QED
  BY <1>1, SPInvHolds, PTL

-----------------------------------------------------------------------------
(* How Redis catches up with the cache.                                    *)

(* No call is under way, and no pass but the snapshot task's.              *)
Quiet ==
  /\ \A t \in Caller : pc[t] = "idle"
  /\ \A p \in Pass \ {Loop} : pass[p] = Rest

(* Redis has the state of every cached session, without an expiry, or the  *)
(* snapshot under way has it still to write; and it writes nothing else.   *)
Covered ==
  \A s \in Cached :
    /\ \/ key[s] = [pod |-> cache[s], expires |-> FALSE]
       \/ listed[Loop][s] = Same
       \/ pass[Loop].s = s
    /\ listed[Loop][s] \in {None, Same}
    /\ pass[Loop].s = s => pass[Loop].x = cache[s]

(* The first snapshot that begins when calls have ended covers the cache,  *)
(* whatever the snapshot before it still wrote, and from then on every     *)
(* step, of that snapshot, of the next ones and of keys that expire, keeps *)
(* it covered, until there is another call, a failure or a crash.          *)
SnapshotCovers ==
  [][Quiet /\ ~Disturbs =>
       /\ Quiet'
       /\ Starts(Loop) => Covered'
       /\ Covered => Covered']_spvars

(* What is covered when a snapshot has ended is in Redis, which is what    *)
(* SnapshotsConverge says of the end.                                      *)
CoveredIsSaved ==
  Covered /\ pass[Loop] = Rest =>
    \A s \in Cached : key[s] # None /\ key[s].pod = cache[s]

LeftToSave(p) == {s \in Session : listed[p][s] # None}

(* A pass never gets longer: it saves one session of its list after the    *)
(* other, even if others are created, loaded and deleted meanwhile.        *)
PassesAdvance ==
  [][\A p \in Pass :
       /\ PassGoes(p) =>
            \/ /\ pass[p].at = "save" /\ pass'[p] = Between
               /\ LeftToSave(p)' = LeftToSave(p)
            \/ /\ pass[p] = Between
               /\ \E s \in LeftToSave(p) : LeftToSave(p)' = LeftToSave(p) \ {s}
            \/ pass[p] = Between /\ pass'[p] = Rest
       /\ pass[p] # Rest /\ ~PassGoes(p) =>
            \/ pass'[p] = pass[p] /\ LeftToSave(p)' = LeftToSave(p)
            \/ pass'[p] = Rest]_spvars

(* A list is of finitely many sessions that were once created.             *)
PassInv ==
  /\ IsFiniteSet(used)
  /\ Cached \subseteq used
  /\ \A t \in Caller : pc[t] # "idle" => job[t].s \in used
  /\ \A p \in Pass : /\ LeftToSave(p) \subseteq used
                     /\ pass[p] = Rest => LeftToSave(p) = {}

(* A snapshot has finitely many states to save. *)
PassesFinite == \A p \in Pass : IsFiniteSet(LeftToSave(p))

(* Replacing a state changes what is listed of it, not that it is. *)
LEMMA ReplaceKeepsLists ==
  ASSUME SPInv, NEW s \in Session, NEW x, Replace(s, x), NEW p \in Pass
  PROVE  LeftToSave(p)' = LeftToSave(p)
<1>1. listed \in [Pass -> [Session -> Pod \cup {None, Same}]] /\ ListInv
  BY DEF SPInv, SPTypeOK
<1>2. \A u \in Session : (listed'[p][u] # None) <=> (listed[p][u] # None)
  BY <1>1, PersistenceAssumption DEF Replace, ListInv
<1> QED
  BY <1>2 DEF LeftToSave

(* Only the steps of a pass and the end of the process change what a pass  *)
(* has still to do.                                                        *)
LEMMA ListsKept ==
  ASSUME SPInv, [SPNext]_spvars, ~NewProcess,
         \A p \in Pass : ~Starts(p) /\ ~PassGoes(p)
  PROVE  pass' = pass /\ \A p \in Pass : LeftToSave(p)' = LeftToSave(p)
<1>0. \A t \in Caller : pc[t] = "load" => job[t] \in Job
  BY DEF SPInv, SPTypeOK, CallInv, NoJob
<1>1. ASSUME UNCHANGED listed, UNCHANGED pass
      PROVE  pass' = pass /\ \A p \in Pass : LeftToSave(p)' = LeftToSave(p)
  BY <1>1 DEF LeftToSave
<1>2. ASSUME NEW s \in Session, NEW x, Replace(s, x), UNCHANGED pass
      PROVE  pass' = pass /\ \A p \in Pass : LeftToSave(p)' = LeftToSave(p)
  BY <1>2, ReplaceKeepsLists
<1>3. ASSUME NEW t \in Caller, Call(t)
      PROVE  pass' = pass /\ \A p \in Pass : LeftToSave(p)' = LeftToSave(p)
  <2>1. ASSUME NEW s \in Session, NEW x \in Pod, create_session(t, s, x)
        PROVE  pass' = pass /\ \A p \in Pass : LeftToSave(p)' = LeftToSave(p)
    BY <1>2, <2>1 DEF create_session
  <2>2. ASSUME NEW s \in Session, delete_session(t, s)
        PROVE  pass' = pass /\ \A p \in Pass : LeftToSave(p)' = LeftToSave(p)
    BY <1>2, <2>2 DEF delete_session
  <2> QED
    BY <1>1, <1>3, <2>1, <2>2 DEF Call, UpdateCached, MigrateCached, AddCached,
       delete_file, Load, passes
<1>4. ASSUME NEW t \in Caller, Goes(t)
      PROVE  pass' = pass /\ \A p \in Pass : LeftToSave(p)' = LeftToSave(p)
  <2>1. CASE Loaded(t)
    <3>1. job[t].s \in Session
      BY <1>0, <2>1 DEF Loaded, Job
    <3> QED
      BY <1>1, <1>2, <2>1, <3>1 DEF Loaded
  <2> QED
    BY <1>1, <1>4, <2>1 DEF Goes, LoadFails, Saved, Put, Removed, Dropped,
       WriteFails, passes
<1>5. CASE UNCHANGED spvars \/ \E s \in Session : KeyExpires(s) \/ FilesExpire(s)
  BY <1>1, <1>5 DEF KeyExpires, FilesExpire, spvars, passes
<1> QED
  BY <1>3, <1>4, <1>5 DEF SPNext

(* What a step of a pass does. *)
LEMMA PassEffect ==
  ASSUME SPInv, NEW p \in Pass, PassGoes(p)
  PROVE  /\ \/ /\ pass[p].at = "save" /\ pass'[p] = Between
               /\ LeftToSave(p)' = LeftToSave(p)
            \/ /\ pass[p] = Between /\ pass'[p] # Rest
               /\ \E s \in LeftToSave(p) : LeftToSave(p)' = LeftToSave(p) \ {s}
            \/ /\ pass[p] = Between /\ pass'[p] = Rest
               /\ LeftToSave(p) = {} /\ LeftToSave(p)' = {}
         /\ \A q \in Pass \ {p} : pass'[q] = pass[q] /\ listed'[q] = listed[q]
         /\ UNCHANGED <<cache, used, pc, job>>
<1>0. /\ pass \in [Pass -> {Rest, Between} \cup [at : {"save"}, s : Session, x : Pod]]
      /\ listed \in [Pass -> [Session -> Pod \cup {None, Same}]]
  BY DEF SPInv, SPTypeOK
<1>1. CASE PassSaves(p) \/ PassFails(p)
  BY <1>0, <1>1 DEF PassSaves, PassFails, LeftToSave, redis, tasks
<1>2. ASSUME NEW s \in Session, NextInPass(p, s)
      PROVE  /\ pass[p] = Between /\ pass'[p] # Rest
             /\ s \in LeftToSave(p) /\ LeftToSave(p)' = LeftToSave(p) \ {s}
             /\ \A q \in Pass \ {p} : pass'[q] = pass[q] /\ listed'[q] = listed[q]
             /\ UNCHANGED <<cache, used, pc, job>>
  <2>1. /\ pass[p] = Between /\ listed[p][s] # None
        /\ pass' = [pass EXCEPT ![p] = Writing(s, Entry(p, s))]
        /\ listed' = [listed EXCEPT ![p][s] = None]
        /\ UNCHANGED <<cache, used, pc, job>>
    BY <1>2 DEF NextInPass, tasks
  <2>2. pass'[p] # Rest
    BY <1>0, <2>1 DEF Writing, Rest
  <2>3. \A u \in Session : listed'[p][u] = IF u = s THEN None ELSE listed[p][u]
    BY <1>0, <2>1
  <2>4. \A q \in Pass \ {p} : pass'[q] = pass[q] /\ listed'[q] = listed[q]
    BY <1>0, <2>1
  <2> QED
    BY <2>1, <2>2, <2>3, <2>4 DEF LeftToSave
<1>3. CASE PassEnds(p)
  BY <1>0, <1>3 DEF PassEnds, LeftToSave, redis, tasks
<1> QED
  BY <1>1, <1>2, <1>3 DEF PassGoes

LEMMA StartEffect ==
  ASSUME SPInv, NEW p \in Pass, Starts(p)
  PROVE  /\ pass[p] = Rest /\ pass'[p] # Rest
         /\ LeftToSave(p)' \subseteq Cached
         /\ \A q \in Pass \ {p} : pass'[q] = pass[q] /\ listed'[q] = listed[q]
         /\ UNCHANGED <<cache, used, pc, job>>
<1>0. /\ pass \in [Pass -> {Rest, Between} \cup [at : {"save"}, s : Session, x : Pod]]
      /\ listed \in [Pass -> [Session -> Pod \cup {None, Same}]]
  BY DEF SPInv, SPTypeOK
<1> QED
  BY <1>0 DEF Starts, StartPass, LeftToSave, Writing, Rest, redis, tasks

(* No pass goes round in circles. *)
THEOREM PassesOnlyAdvance == SPSpec => PassesAdvance
<1> DEFINE Onward(p) ==
       /\ PassGoes(p) =>
            \/ /\ pass[p].at = "save" /\ pass'[p] = Between
               /\ LeftToSave(p)' = LeftToSave(p)
            \/ /\ pass[p] = Between
               /\ \E s \in LeftToSave(p) : LeftToSave(p)' = LeftToSave(p) \ {s}
            \/ pass[p] = Between /\ pass'[p] = Rest
       /\ pass[p] # Rest /\ ~PassGoes(p) =>
            \/ pass'[p] = pass[p] /\ LeftToSave(p)' = LeftToSave(p)
            \/ pass'[p] = Rest
<1>1. ASSUME SPInv, [SPNext]_spvars, NEW p \in Pass
      PROVE  Onward(p)
  <2>1. CASE PassGoes(p)
    BY <1>1, <2>1, PassEffect
  <2>2. ASSUME pass[p] # Rest, ~PassGoes(p)
        PROVE  \/ pass'[p] = pass[p] /\ LeftToSave(p)' = LeftToSave(p)
               \/ pass'[p] = Rest
    <3>1. CASE NewProcess
      BY <3>1 DEF NewProcess
    <3>2. ASSUME NEW q \in Pass, Starts(q) \/ PassGoes(q)
          PROVE  pass'[p] = pass[p] /\ LeftToSave(p)' = LeftToSave(p)
      BY <1>1, <2>2, <3>2, StartEffect, PassEffect DEF LeftToSave
    <3> QED
      BY <1>1, <3>1, <3>2, ListsKept
  <2> QED
    BY <2>1, <2>2
<1>2. SPInv /\ [SPNext]_spvars => [\A p \in Pass : Onward(p)]_spvars
  BY <1>1
<1> QED
  BY <1>2, SPInvHolds, PTL DEF SPSpec, PassesAdvance

LEMMA PassInvInit == SPInit => PassInv
  BY FS_EmptySet, SMT DEF SPInit, PassInv, Cached, LeftToSave

LEMMA PassInvStep == SPInv /\ PassInv /\ [SPNext]_spvars => PassInv'
<1> SUFFICES ASSUME SPInv, PassInv, [SPNext]_spvars
             PROVE  PassInv'
  OBVIOUS
<1>0. SPTypeOK /\ CallInv /\ PassInv
  BY DEF SPInv
<1>1. ASSUME NEW p \in Pass, Starts(p) \/ PassGoes(p)
      PROVE  PassInv'
  <2>1. UNCHANGED <<cache, used, pc, job>>
    BY <1>1, StartEffect, PassEffect
  <2>2. Cached' = Cached
    BY <2>1 DEF Cached
  <2>3. /\ LeftToSave(p)' \subseteq used
        /\ pass'[p] = Rest => LeftToSave(p)' = {}
    BY <1>0, <1>1, StartEffect, PassEffect DEF PassInv, Between, Rest
  <2>4. \A q \in Pass \ {p} : pass'[q] = pass[q] /\ LeftToSave(q)' = LeftToSave(q)
    BY <1>1, StartEffect, PassEffect DEF LeftToSave
  <2> QED
    BY <1>0, <2>1, <2>2, <2>3, <2>4 DEF PassInv
<1>2. CASE NewProcess
  BY <1>0, <1>2 DEF NewProcess, PassInv, Cached, LeftToSave
<1>3. ASSUME ~NewProcess, \A p \in Pass : ~Starts(p) /\ ~PassGoes(p)
      PROVE  PassInv'
  <2>1. \A p \in Pass : pass'[p] = pass[p] /\ LeftToSave(p)' = LeftToSave(p)
    BY <1>3, ListsKept
  <2> DEFINE Grown ==
        /\ used \subseteq used' /\ IsFiniteSet(used')
        /\ Cached' \subseteq used'
        /\ \A t \in Caller : pc'[t] # "idle" => job'[t].s \in used'
  <2>2. Grown
    <3> USE DEF PassInv, SPTypeOK, Cached, Await, Return, Replace
    <3>1. ASSUME NEW t \in Caller, NEW s \in Session, NEW x \in Pod,
                 create_session(t, s, x)
          PROVE  Grown
      BY <1>0, <3>1, FS_AddElement DEF create_session
    <3>2. ASSUME NEW t \in Caller, NEW s \in Session, NEW x \in Pod,
                 UpdateCached(t, s, x) \/ MigrateCached(t, s, x)
          PROVE  Grown
      BY <1>0, <3>2 DEF UpdateCached, MigrateCached, tasks
    <3>3. ASSUME NEW t \in Caller, NEW s \in Session, NEW x \in File,
                 AddCached(t, s, x) \/ delete_file(t, s, x)
          PROVE  Grown
      BY <1>0, <3>3 DEF AddCached, delete_file
    <3>4. ASSUME NEW t \in Caller, NEW s \in Session, delete_session(t, s)
          PROVE  Grown
      BY <1>0, <3>4 DEF delete_session
    <3>5. ASSUME NEW t \in Caller, NEW j \in Job, Load(t, j)
          PROVE  Grown
      BY <1>0, <3>5 DEF Load
    <3>6. ASSUME NEW t \in Caller, Loaded(t)
          PROVE  Grown
      BY <1>0, <3>6 DEF Loaded
    <3>7. ASSUME NEW t \in Caller,
                 \/ LoadFails(t) \/ Saved(t) \/ Put(t) \/ Removed(t)
                 \/ Dropped(t) \/ WriteFails(t)
          PROVE  Grown
      BY <1>0, <3>7 DEF LoadFails, Saved, Put, Removed, Dropped, WriteFails
    <3>8. CASE UNCHANGED spvars \/ \E s \in Session : KeyExpires(s) \/ FilesExpire(s)
      BY <1>0, <3>8 DEF KeyExpires, FilesExpire, spvars, tasks
    <3> QED
      BY <1>3, <3>1, <3>2, <3>3, <3>4, <3>5, <3>6, <3>7, <3>8
      DEF SPNext, Call, Goes
  <2> QED
    BY <1>0, <2>1, <2>2 DEF PassInv
<1> QED
  BY <1>1, <1>2, <1>3

LEMMA PassInvHolds == SPSpec => [](SPInv /\ PassInv)
  BY PassInvInit, PassInvStep, SPInvHolds, PTL DEF SPSpec

(* A pass has a finite list, and so it comes to its end: it can always go  *)
(* on, and never gets longer.                                              *)
THEOREM PassesAreFinite == SPSpec => []PassesFinite
<1>1. PassInv => PassesFinite
  BY FS_Subset DEF PassInv, PassesFinite
<1> QED
  BY <1>1, PassInvHolds, PTL

(* The end of a snapshot that covers the cache leaves the cache in Redis.  *)
THEOREM SavedOnceCovered == SPSpec => []CoveredIsSaved
<1>1. SPInv /\ PassInv => CoveredIsSaved
  <2> SUFFICES ASSUME SPInv, PassInv, Covered, pass[Loop] = Rest, NEW s \in Cached
               PROVE  key[s] # None /\ key[s].pod = cache[s]
    BY DEF CoveredIsSaved
  <2>1. s \in Session /\ listed[Loop][s] = None /\ pass[Loop].s = None
    BY PersistenceAssumption DEF PassInv, LeftToSave, Cached, Rest
  <2>2. key[s] = [pod |-> cache[s], expires |-> FALSE] /\ None # s
    BY <2>1, PersistenceAssumption DEF Covered
  <2>3. cache[s] \in Pod
    BY DEF Cached, SPInv, SPTypeOK
  <2>4. ASSUME NEW k, k = [pod |-> cache[s], expires |-> FALSE]
        PROVE  k \in [pod : Pod, expires : BOOLEAN] /\ k.pod = cache[s]
    BY <2>3, <2>4
  <2> QED
    BY <2>2, <2>4, PersistenceAssumption, Zenon
<1> QED
  BY <1>1, PassInvHolds, PTL

(* Why SnapshotsConverge: a snapshot that begins when calls have ended     *)
(* covers the cache, and it stays covered.                                 *)
THEOREM SnapshotsCover == SPSpec => SnapshotCovers
<1>1. ASSUME SPInv, PassInv, [SPNext]_spvars, Quiet, ~Disturbs
      PROVE  /\ Quiet'
             /\ Starts(Loop) => Covered'
             /\ Covered => Covered'
  <2>0. /\ SPTypeOK
        /\ Loop \in Pass /\ None \notin Session /\ Same \notin Pod \cup {None}
    BY <1>1, PersistenceAssumption DEF SPInv
  <2>1. \/ Starts(Loop)
        \/ \E s \in Session : NextInPass(Loop, s)
        \/ PassSaves(Loop) \/ PassEnds(Loop)
        \/ \E s \in Session : KeyExpires(s) \/ FilesExpire(s)
        \/ UNCHANGED spvars
    <3>1. ~NewProcess /\ \A t \in Caller : ~Call(t)
      BY <1>1 DEF Disturbs
    <3>2. \A t \in Caller : ~Goes(t)
      BY <1>1 DEF Quiet, Goes, LoadFails, Loaded, Saved, Put, Removed, Dropped,
         WriteFails
    <3>3. ASSUME NEW p \in Pass, Starts(p)
          PROVE  p = Loop
      BY <1>1, <3>3 DEF Disturbs
    <3>4. ASSUME NEW p \in Pass, PassGoes(p)
          PROVE  /\ p = Loop
                 /\ \/ \E s \in Session : NextInPass(p, s)
                    \/ PassSaves(p) \/ PassEnds(p)
      <4>1. pass[p] # Rest
        BY <3>4 DEF PassGoes, PassSaves, PassFails, PassEnds, NextInPass, Rest,
           Between
      <4>2. p = Loop
        BY <1>1, <4>1 DEF Quiet
      <4> QED
        BY <1>1, <3>4, <4>2 DEF PassGoes, Disturbs
    <3> QED
      BY <1>1, <3>1, <3>2, <3>3, <3>4 DEF SPNext
  <2>2. UNCHANGED <<cache, pc>>
    BY <2>1 DEF Starts, StartPass, NextInPass, PassSaves, PassEnds, KeyExpires,
       FilesExpire, spvars, tasks
  <2>3. Quiet'
    BY <1>1, <2>0, <2>1, <2>2 DEF Quiet, Starts, StartPass, NextInPass,
       PassSaves, PassEnds, KeyExpires, FilesExpire, spvars, passes, SPTypeOK
  <2>4. ASSUME Starts(Loop)
        PROVE  Covered'
    BY <2>0, <2>2, <2>4 DEF Starts, StartPass, Covered, Cached, Writing, SPTypeOK
  <2>5. ASSUME Covered
        PROVE  Covered'
    <3>1. ASSUME NEW s \in Session, NextInPass(Loop, s)
          PROVE  Covered'
      BY <2>0, <2>2, <2>5, <3>1
      DEF NextInPass, Covered, Cached, Entry, Writing, Between, SPTypeOK, redis
    <3>2. CASE PassSaves(Loop)
      BY <2>0, <2>2, <2>5, <3>2
      DEF PassSaves, Covered, Cached, Between, SPTypeOK
    <3>3. CASE PassEnds(Loop)
      BY <2>0, <2>2, <2>5, <3>3
      DEF PassEnds, Covered, Cached, Between, Rest, SPTypeOK, redis
    <3>4. ASSUME NEW s \in Session, KeyExpires(s) \/ FilesExpire(s)
          PROVE  Covered'
      <4>1. \A u \in Cached :
              key[u] = [pod |-> cache[u], expires |-> FALSE] => key'[u] = key[u]
        <5>1. ASSUME NEW u \in Cached, key[u] = [pod |-> cache[u], expires |-> FALSE]
              PROVE  ~key[u].expires
          BY <5>1
        <5> QED
          BY <2>0, <3>4, <5>1 DEF KeyExpires, FilesExpire, Cached, SPTypeOK
      <4>2. UNCHANGED <<cache, pass, listed>>
        BY <3>4 DEF KeyExpires, FilesExpire, passes
      <4> QED
        BY <2>5, <4>1, <4>2 DEF Covered, Cached
    <3>5. CASE UNCHANGED spvars
      BY <2>5, <3>5 DEF Covered, Cached, spvars, redis, passes
    <3> QED
      BY <2>1, <2>4, <3>1, <3>2, <3>3, <3>4, <3>5
  <2> QED
    BY <2>3, <2>4, <2>5
<1>2. SPInv /\ PassInv /\ [SPNext]_spvars =>
        [Quiet /\ ~Disturbs =>
           /\ Quiet'
           /\ Starts(Loop) => Covered'
           /\ Covered => Covered']_spvars
  BY <1>1
<1> QED
  BY <1>2, PassInvHolds, PTL DEF SPSpec, SnapshotCovers
=============================================================================
