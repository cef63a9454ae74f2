--------------------------- MODULE SessionManager ---------------------------
(***************************************************************************)
(* executor/session.py: SessionManager, with the part of CodeSandbox that  *)
(* owns a Docker container and the Redis key a session's state is saved    *)
(* under.  Any number of caller threads use the manager beside its own     *)
(* cleanup thread.                                                         *)
(*                                                                         *)
(* One action is one uninterrupted piece of a method: a section under      *)
(* self._lock, one semaphore operation, one call of Docker or of Redis.    *)
(* create_session and the saves and deletes of the state store run outside *)
(* the lock, so they are steps of their own.                               *)
(***************************************************************************)
EXTENDS Integers, FiniteSets

CONSTANTS
  Caller,         \* threads that call the manager
  Janitor,        \* the thread of _start_cleanup_thread
  Sid,            \* sandboxes; the session registered for one has its name
  NoSid,          \* "this thread works on no sandbox"
  MaxSessions,    \* max_sessions
  TTL,            \* the sessions' ttl, in ticks of the clock
  StoreMayFail    \* may a call of the state store raise?

ASSUME ManagerAssumption ==
  /\ MaxSessions \in Nat
  /\ TTL \in Nat \ {0}
  /\ StoreMayFail \in BOOLEAN
  /\ IsFiniteSet(Caller)
  /\ Janitor \notin Caller
  /\ NoSid \notin Sid

VARIABLES
  sessions,    \* keys of self.sessions
  permits,     \* value of self._session_semaphore
  idleTime,    \* idleTime[s]: now - last_used, up to TTL + 1 (expired)
  issued,      \* sandboxes that were given a container
  container,   \* container[s]: the container of sandbox s
  store,       \* store[s]: seconds the Redis key of s still has, 0 = no key
  stopping,    \* self._stop_cleanup is set
  pc,          \* pc[t]: where thread t is
  sid,         \* sid[t]: the sandbox or session t works on
  dels         \* dels[t]: keys t has still to delete from the store

vars == <<sessions, permits, idleTime, issued, container, store, stopping,
          pc, sid, dels>>

Thread == Caller \cup {Janitor}

(***************************************************************************)
(* "none": before create; "held": self.container is set; "gone": stopped   *)
(* and removed; "leaked": destroy gave up on it (stop or remove raised)    *)
(* and dropped the only reference to it.                                   *)
(***************************************************************************)
ContainerState == {"none", "held", "gone", "leaked"}

Holding   == {"reserve", "made"}    \* has taken a permit for a new session
Saving    == {"save", "saveExec"}   \* has a payload to save after the lock
Deleting  == {"purge", "del"}       \* has keys to delete after the lock
PcState   == {"idle", "full", "retry", "stopping", "run"}
             \cup Holding \cup Saving \cup Deleting

TypeOK ==
  /\ sessions \in SUBSET Sid /\ IsFiniteSet(sessions)
  /\ permits \in 0 .. MaxSessions
  /\ idleTime \in [Sid -> 0 .. TTL + 1]
  /\ issued \in SUBSET Sid
  /\ container \in [Sid -> ContainerState]
  /\ store \in [Sid -> 0 .. TTL]
  /\ stopping \in BOOLEAN
  /\ pc \in [Thread -> PcState]
  /\ sid \in [Thread -> Sid \cup {NoSid}]
  /\ dels \in [Thread -> SUBSET Sid]

Init ==
  /\ sessions = {}
  /\ permits = MaxSessions
  /\ idleTime = [s \in Sid |-> 0]
  /\ issued = {}
  /\ container = [s \in Sid |-> "none"]
  /\ store = [s \in Sid |-> 0]
  /\ stopping = FALSE
  /\ pc = [t \in Thread |-> "idle"]
  /\ sid = [t \in Thread |-> NoSid]
  /\ dels = [t \in Thread |-> {}]

-----------------------------------------------------------------------------
(* Helpers.                                                                *)

is_expired(s) == idleTime[s] > TTL

Expired == {s \in sessions : is_expired(s)}

Goto(t, label) == pc' = [pc EXCEPT ![t] = label]

WorkOn(t, s) == sid' = [sid EXCEPT ![t] = s]

(* CodeSandbox.destroy on every sandbox of S; Docker refuses to stop or    *)
(* remove those of Refused, which only logs.                               *)
DestroySandboxes(S, Refused) ==
  container' = [s \in Sid |->
    IF s \in S /\ container[s] = "held"
    THEN IF s \in Refused THEN "leaked" ELSE "gone"
    ELSE container[s]]

(* _destroy_session_unlocked on every session of S, under the lock.        *)
DestroyUnlocked(S) ==
  /\ sessions' = sessions \ S
  /\ permits' = permits + Cardinality(S)
  /\ idleTime' = [s \in Sid |-> IF s \in S THEN 0 ELSE idleTime[s]]
  /\ \E Refused \in SUBSET S : DestroySandboxes(S, Refused)

-----------------------------------------------------------------------------
(* create_session                                                          *)

(* Seeded fault: counting the table instead of taking a permit, the race   *)
(* docs/reports/security-audit-report.md:157 describes.                    *)
TakePermitByCount(t) ==
  /\ Cardinality(sessions) < MaxSessions
  /\ permits' = IF permits > 0 THEN permits - 1 ELSE 0
  /\ Goto(t, "reserve")
  /\ UNCHANGED <<sessions, idleTime, issued, container, store, stopping, sid,
                 dels>>

(* The non-blocking acquire succeeds. *)
TakePermit(t) ==
  /\ permits > 0
  /\ permits' = permits - 1
  /\ Goto(t, "reserve")
  /\ UNCHANGED <<sessions, idleTime, issued, container, store, stopping, sid,
                 dels>>

(* Phase 1: the first try. *)
AcquireSlot(t) == pc[t] = "idle" /\ TakePermit(t)

(* The first try fails: expired sessions have to make room. *)
FindFull(t) ==
  /\ pc[t] = "idle"
  /\ permits = 0
  /\ Goto(t, "full")
  /\ UNCHANGED <<sessions, permits, idleTime, issued, container, store,
                 stopping, sid, dels>>

(* _cleanup_expired under the lock, on behalf of a full create_session. *)
MakeRoom(t) ==
  /\ pc[t] = "full"
  /\ DestroyUnlocked(Expired)
  /\ dels' = [dels EXCEPT ![t] = Expired]
  /\ Goto(t, IF Expired = {} THEN "retry" ELSE "purge")
  /\ UNCHANGED <<issued, store, stopping, sid>>

(* The second try. *)
RetryAcquire(t) == pc[t] = "retry" /\ TakePermit(t)

(* Seeded fault: the second acquire blocks. *)
GiveUpBlocks(t) ==
  /\ pc[t] = "retry"
  /\ permits = 0
  /\ UNCHANGED vars

(* The second try fails too: RuntimeError. *)
GiveUp(t) ==
  /\ pc[t] = "retry"
  /\ permits = 0
  /\ Goto(t, "idle")
  /\ UNCHANGED <<sessions, permits, idleTime, issued, container, store,
                 stopping, sid, dels>>

(* Seeded fault: a name is taken again once its container is gone. *)
CreateSandboxReusesName(t, s) ==
  /\ pc[t] = "reserve"
  /\ container[s] \in {"none", "gone"}
  /\ s \notin sessions
  /\ issued' = issued \cup {s}
  /\ container' = [container EXCEPT ![s] = "held"]
  /\ WorkOn(t, s)
  /\ Goto(t, "made")
  /\ UNCHANGED <<sessions, permits, idleTime, store, stopping, dels>>

(* Phase 2: CodeSandbox(...).create(), outside the lock. *)
CreateSandbox(t, s) ==
  /\ pc[t] = "reserve"
  /\ s \notin issued
  /\ issued' = issued \cup {s}
  /\ container' = [container EXCEPT ![s] = "held"]
  /\ WorkOn(t, s)
  /\ Goto(t, "made")
  /\ UNCHANGED <<sessions, permits, idleTime, store, stopping, dels>>

(* Seeded fault: the except branch forgets the permit. *)
CreateFailsKeepsPermit(t) ==
  /\ pc[t] = "reserve"
  /\ Goto(t, "idle")
  /\ UNCHANGED <<sessions, permits, idleTime, issued, container, store,
                 stopping, sid, dels>>

(* Phase 2 raises: the except branch gives the permit back.  There is no   *)
(* container to destroy, self.container is set by the call that raised.    *)
CreateFails(t) ==
  /\ pc[t] = "reserve"
  /\ permits' = permits + 1
  /\ Goto(t, "idle")
  /\ UNCHANGED <<sessions, idleTime, issued, container, store, stopping, sid,
                 dels>>

(* Phase 3: the session enters self.sessions under the lock. *)
Register(t) ==
  /\ pc[t] = "made"
  /\ sessions' = sessions \cup {sid[t]}
  /\ idleTime' = [idleTime EXCEPT ![sid[t]] = 0]
  /\ Goto(t, "save")
  /\ UNCHANGED <<permits, issued, container, store, stopping, sid, dels>>

-----------------------------------------------------------------------------
(* get_session and execute_in_session                                      *)

(* Seeded fault: a touch that is not persisted. *)
TouchUnsaved(t, s, label) ==
  /\ pc[t] = "idle"
  /\ s \in sessions
  /\ ~is_expired(s)
  /\ idleTime' = [idleTime EXCEPT ![s] = 0]
  /\ \/ label = "save" /\ Goto(t, "idle") /\ UNCHANGED sid
     \/ label = "saveExec" /\ Goto(t, "run") /\ WorkOn(t, s)
  /\ UNCHANGED <<sessions, permits, issued, container, store, stopping, dels>>

(* get_session finds s alive and touches it; its state is saved next, at   *)
(* the given label.                                                        *)
Touch(t, s, label) ==
  /\ pc[t] = "idle"
  /\ s \in sessions
  /\ ~is_expired(s)
  /\ idleTime' = [idleTime EXCEPT ![s] = 0]
  /\ WorkOn(t, s)
  /\ Goto(t, label)
  /\ UNCHANGED <<sessions, permits, issued, container, store, stopping, dels>>

GetSession(t, s) == Touch(t, s, "save")

(* execute_in_session runs the code once get_session has returned. *)
ExecuteInSession(t, s) == Touch(t, s, "saveExec")

(* destroy_session, or get_session on an expired session. *)
DestroySession(t, s) ==
  /\ pc[t] = "idle"
  /\ s \in sessions
  /\ DestroyUnlocked({s})
  /\ dels' = [dels EXCEPT ![t] = {s}]
  /\ Goto(t, "del")
  /\ UNCHANGED <<issued, store, stopping, sid>>

(* run_code comes back: with its result, or with an error if the container *)
(* went away before or meanwhile.                                          *)
RunReturns(t) ==
  /\ pc[t] = "run"
  /\ Goto(t, "idle")
  /\ WorkOn(t, NoSid)
  /\ UNCHANGED <<sessions, permits, idleTime, issued, container, store,
                 stopping, dels>>

(* Seeded fault: the time-out also frees the slot of the session. *)
RunTimesOutFreesSlot(t) ==
  /\ pc[t] = "run"
  /\ container[sid[t]] = "held"
  /\ DestroySandboxes({sid[t]}, {})
  /\ permits' = permits + 1
  /\ Goto(t, "idle")
  /\ WorkOn(t, NoSid)
  /\ UNCHANGED <<sessions, idleTime, issued, store, stopping, dels>>

(* _exec_run_with_timeout gives up: it destroys the sandbox, without the   *)
(* manager's lock and without telling the manager.                         *)
RunTimesOut(t) ==
  /\ pc[t] = "run"
  /\ container[sid[t]] = "held"
  /\ \E Refused \in SUBSET {sid[t]} : DestroySandboxes({sid[t]}, Refused)
  /\ Goto(t, "idle")
  /\ WorkOn(t, NoSid)
  /\ UNCHANGED <<sessions, permits, idleTime, issued, store, stopping, dels>>

-----------------------------------------------------------------------------
(* The state store, after the lock is released                             *)

(* Seeded fault: SET without EX (Redis reports a time to live of -1). *)
SaveStateForEver(t) ==
  /\ pc[t] \in Saving
  /\ store' = [store EXCEPT ![sid[t]] = -1]
  /\ IF pc[t] = "saveExec"
     THEN Goto(t, "run") /\ UNCHANGED sid
     ELSE Goto(t, "idle") /\ WorkOn(t, NoSid)
  /\ UNCHANGED <<sessions, permits, idleTime, issued, container, stopping,
                 dels>>

(* _save_session_state: SET with EX ttl; a failure is logged. *)
SaveState(t) ==
  /\ pc[t] \in Saving
  /\ \/ store' = [store EXCEPT ![sid[t]] = TTL]
     \/ StoreMayFail /\ UNCHANGED store
  /\ IF pc[t] = "saveExec"
     THEN Goto(t, "run") /\ UNCHANGED sid
     ELSE Goto(t, "idle") /\ WorkOn(t, NoSid)
  /\ UNCHANGED <<sessions, permits, idleTime, issued, container, stopping,
                 dels>>

(* _delete_session_state for the next key of the list; a failure is logged. *)
DeleteState(t, s) ==
  /\ pc[t] \in Deleting
  /\ s \in dels[t]
  /\ \/ store' = [store EXCEPT ![s] = 0]
     \/ StoreMayFail /\ UNCHANGED store
  /\ dels' = [dels EXCEPT ![t] = @ \ {s}]
  /\ Goto(t, IF dels[t] # {s} THEN pc[t]
             ELSE IF pc[t] = "purge" THEN "retry" ELSE "idle")
  /\ UNCHANGED <<sessions, permits, idleTime, issued, container, stopping,
                 sid>>

-----------------------------------------------------------------------------
(* The cleanup thread, stop() and the clock                                *)

(* Seeded fault: sessions that already lost their container are skipped. *)
CleanupPassSkipsBroken ==
  LET broken == {s \in Expired : container[s] # "held"} IN
  /\ pc[Janitor] = "idle"
  /\ ~stopping
  /\ Expired \ broken # {}
  /\ DestroyUnlocked(Expired \ broken)
  /\ dels' = [dels EXCEPT ![Janitor] = Expired \ broken]
  /\ Goto(Janitor, "del")
  /\ UNCHANGED <<issued, store, stopping, sid>>

(* One round of cleanup_loop that finds something to clean up. *)
CleanupPass ==
  /\ pc[Janitor] = "idle"
  /\ ~stopping
  /\ Expired # {}
  /\ DestroyUnlocked(Expired)
  /\ dels' = [dels EXCEPT ![Janitor] = Expired]
  /\ Goto(Janitor, "del")
  /\ UNCHANGED <<issued, store, stopping, sid>>

(* stop() sets the event and joins the cleanup thread, for 5 seconds at    *)
(* most: it may go on while the thread is still deleting keys.             *)
StopSignal(t) ==
  /\ pc[t] = "idle"
  /\ stopping' = TRUE
  /\ Goto(t, "stopping")
  /\ UNCHANGED <<sessions, permits, idleTime, issued, container, store, sid,
                 dels>>

(* Seeded fault: stop() clears the table and leaves the containers. *)
StopForgetsSandboxes(t) ==
  /\ pc[t] = "stopping"
  /\ sessions' = {}
  /\ permits' = permits + Cardinality(sessions)
  /\ Goto(t, "idle")
  /\ UNCHANGED <<idleTime, issued, container, store, stopping, sid, dels>>

(* stop() destroys every session it finds; it deletes no key. *)
StopDestroyAll(t) ==
  /\ pc[t] = "stopping"
  /\ DestroyUnlocked(sessions)
  /\ Goto(t, "idle")
  /\ UNCHANGED <<issued, store, stopping, sid, dels>>

(* A second passes, for the sessions' idle time and for Redis' expiry. *)
Tick ==
  /\ idleTime' = [s \in Sid |->
       IF s \in sessions /\ idleTime[s] <= TTL THEN idleTime[s] + 1
                                               ELSE idleTime[s]]
  /\ store' = [s \in Sid |-> IF store[s] > 0 THEN store[s] - 1 ELSE store[s]]
  /\ <<idleTime, store>>' # <<idleTime, store>>
  /\ UNCHANGED <<sessions, permits, issued, container, stopping, pc, sid,
                 dels>>

-----------------------------------------------------------------------------
(* A call of the manager begins. *)
Call(t) ==
  \/ AcquireSlot(t) \/ FindFull(t)
  \/ \E s \in Sid : \/ GetSession(t, s) \/ ExecuteInSession(t, s)
                    \/ DestroySession(t, s)
  \/ StopSignal(t)

(* A call goes on to its next step. *)
Continue(t) ==
  \/ MakeRoom(t) \/ RetryAcquire(t) \/ GiveUp(t)
  \/ CreateFails(t) \/ Register(t)
  \/ RunReturns(t) \/ RunTimesOut(t)
  \/ SaveState(t) \/ StopDestroyAll(t)
  \/ \E s \in Sid : CreateSandbox(t, s) \/ DeleteState(t, s)

Next ==
  \/ \E t \in Caller : Call(t)
  \/ \E t \in Thread : Continue(t)
  \/ CleanupPass
  \/ Tick

Spec == Init /\ [][Next]_vars

-----------------------------------------------------------------------------
(* Properties.                                                             *)

(* Threads between their acquire and the registration of the session. *)
Creators == {t \in Thread : pc[t] \in Holding}

(* Sandboxes with a container that are not registered yet. *)
Makers == {t \in Thread : pc[t] = "made"}

Making == {sid[t] : t \in Makers}

Saves(t, s) == pc[t] \in Saving /\ sid[t] = s

Executing(s) == \E t \in Thread : pc[t] = "run" /\ sid[t] = s

(* No permit is lost or released twice, on any path through failed         *)
(* creations, clean-ups by three parties, explicit destroys and stop():    *)
(* each one is free, held by a caller creating a session, or stands for a  *)
(* registered session.  (Semaphore is not a BoundedSemaphore: nothing in   *)
(* Python would notice.)                                                   *)
SlotsConserved ==
  permits + Cardinality(Creators) + Cardinality(sessions) = MaxSessions

(* A container the manager still refers to belongs to a session in the     *)
(* table or to a create_session under way: destroying a session, failing   *)
(* to create one, or stop() never forgets a container in passing.          *)
NoAbandonedContainer ==
  \A s \in Sid : container[s] = "held" => s \in sessions \cup Making

(* At most max_sessions containers at once, although each is started       *)
(* outside the lock and before its session is counted.                     *)
ContainersWithinLimit ==
  Cardinality({s \in issued : container[s] = "held"}) <= MaxSessions

(* What Redis says of a live session: unless a write failed or is still    *)
(* under way, its key lives at least as long as the session could without  *)
(* being used again, however saves and deletes made after the lock was     *)
(* released overtake one another.                                          *)
StoreCoversSessions ==
  ~StoreMayFail =>
    \A s \in sessions :
      (\A t \in Thread : ~Saves(t, s)) => store[s] + idleTime[s] >= TTL

(* The bookkeeping the properties above rest on: who works on which        *)
(* sandbox, and which keys are doomed.                                     *)
WorkInv ==
  /\ sessions \subseteq issued
  /\ \A t \in Thread :
       /\ pc[t] \in Saving \cup {"made", "run"} => sid[t] \in issued
       /\ pc[t] = "made" => sid[t] \notin sessions
       /\ dels[t] \subseteq issued \ (sessions \cup Making)
  /\ \A t, u \in Makers : sid[t] = sid[u] => t = u

(* What the manager promises: see SessionLimit. *)
Limit == INSTANCE SessionLimit
           WITH Caller <- Thread,
                opening <- Creators,
                open <- sessions,
                used <- issued \ Making

ImplementsSessionLimit == Limit!Spec

(* An expired session does not keep its slot and its container for ever,   *)
(* even if nobody calls the manager any more: the cleanup thread sees to   *)
(* it until stop() is called.                                              *)
ExpiredReclaimed ==
  \A s \in Sid : (s \in Expired /\ ~stopping) ~> (s \notin sessions)

(* The Redis key of a session that is gone disappears in the end, even if  *)
(* a late save re-created it after its delete or the delete failed.        *)
OrphanKeysExpire ==
  \A s \in Sid :
    (s \in issued \ (sessions \cup Making)) ~> (store[s] = 0)

(* "Get idle time in seconds" (session.py:81), on which the clean-up of    *)
(* expired sessions rests: a session that is executing code is not idle,   *)
(* so no clean-up should take it for expired.                              *)
ExecutingIsNotIdle == \A s \in sessions : Executing(s) => ~is_expired(s)
=============================================================================
