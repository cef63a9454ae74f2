----------------------------- MODULE SessionPool -----------------------------
(***************************************************************************)
(* executor/session.py: SessionPool, a list of idle sessions in front of a *)
(* SessionManager.  The pool's lock is held across the calls of the        *)
(* manager, so acquire and release are made of the manager's steps; the    *)
(* cleanup thread and the clients that execute or destroy go on beside     *)
(* them.  A client gives back the session it was given, and once; the      *)
(* manager is used through the pool only, and not stopped under it.        *)
(***************************************************************************)
EXTENDS SessionManager, Sequences

CONSTANTS
  Main,      \* the thread that makes the pool
  MinSize,   \* min_size
  MaxSize    \* max_size

ASSUME PoolAssumption ==
  /\ Main \in Caller
  /\ MinSize \in Nat
  /\ MaxSize \in Nat

VARIABLES
  idle,      \* self._pool
  toWarm,    \* sessions _initialize_pool has still to create
  stage,     \* stage[c]: where client c is
  held       \* held[c]: the session c was given, or is about to be given

poolVars == <<idle, toWarm, stage, held>>
pvars == <<vars, poolVars>>

(* "out": the client has no session; "warm": in _initialize_pool, when no  *)
(* other thread has the pool yet; "pop", "take", "create": in acquire;     *)
(* "using": it has one; "give", "back", "evict": in release; "drop": in    *)
(* release with destroy=True, which takes no lock.                         *)
Locked == {"warm", "pop", "take", "create", "give", "back", "evict"}
PoolStage == {"out", "using", "drop"} \cup Locked

(* min_size sessions are made however small max_size is; it is release     *)
(* that looks at max_size.                                                 *)
Bound == IF MinSize > MaxSize THEN MinSize ELSE MaxSize

PoolTypeOK ==
  /\ idle \in Seq(Sid)
  /\ Len(idle) + toWarm <= Bound
  /\ toWarm \in 0 .. MinSize
  /\ stage \in [Caller -> PoolStage]
  /\ held \in [Caller -> Sid \cup {NoSid}]

PoolInit ==
  /\ Init
  /\ idle = <<>>
  /\ toWarm = MinSize
  /\ stage = [c \in Caller |-> IF c = Main THEN "warm" ELSE "out"]
  /\ held = [c \in Caller |-> NoSid]

-----------------------------------------------------------------------------
(* Helpers.                                                                *)

Alive(s) == s \in sessions /\ ~is_expired(s)

(* Nobody holds self._lock. *)
Unlocked == \A c \in Caller : stage[c] \notin Locked

(* Client c is at this stage, and the manager has nothing to do for it. *)
At(c, here) == stage[c] = here /\ pc[c] = "idle"

Enter(c, there) == stage' = [stage EXCEPT ![c] = there]

Give(c, s) == held' = [held EXCEPT ![c] = s]

(* destroy_session, or get_session on a session that is not alive. *)
Dispose(c, s) ==
  \/ DestroySession(c, s)
  \/ s \notin sessions /\ UNCHANGED vars

-----------------------------------------------------------------------------
(* _initialize_pool                                                        *)

(* The next session is created; a failure is logged and counts too. *)
WarmCreate ==
  /\ At(Main, "warm")
  /\ toWarm > 0
  /\ held[Main] = NoSid
  /\ AcquireSlot(Main) \/ FindFull(Main)
  /\ toWarm' = toWarm - 1
  /\ UNCHANGED <<idle, stage, held>>

(* create_session has returned an id. *)
WarmKeep ==
  /\ At(Main, "warm")
  /\ held[Main] # NoSid
  /\ idle' = Append(idle, held[Main])
  /\ Give(Main, NoSid)
  /\ UNCHANGED <<vars, toWarm, stage>>

WarmDone ==
  /\ At(Main, "warm")
  /\ toWarm = 0
  /\ held[Main] = NoSid
  /\ Enter(Main, "out")
  /\ UNCHANGED <<vars, idle, toWarm, held>>

-----------------------------------------------------------------------------
(* acquire                                                                 *)

(* The caller takes the lock. *)
Acquire(c) ==
  /\ At(c, "out")
  /\ Unlocked
  /\ Enter(c, "pop")
  /\ UNCHANGED <<vars, idle, toWarm, held>>

(* Seeded fault: the head is looked at and not removed. *)
PopKeeps(c) ==
  /\ At(c, "pop")
  /\ idle # <<>>
  /\ \/ Alive(Head(idle)) /\ Touch(c, Head(idle), "save")
        /\ Enter(c, "take") /\ Give(c, Head(idle)) /\ UNCHANGED idle
     \/ ~Alive(Head(idle)) /\ Dispose(c, Head(idle))
        /\ idle' = Tail(idle) /\ UNCHANGED <<stage, held>>
  /\ UNCHANGED toWarm

(* pop(0), and get_session on what was popped: a session that expired or   *)
(* that somebody destroyed is skipped.                                     *)
Pop(c) ==
  /\ At(c, "pop")
  /\ idle # <<>>
  /\ idle' = Tail(idle)
  /\ \/ Touch(c, Head(idle), "save") /\ Enter(c, "take") /\ Give(c, Head(idle))
     \/ /\ ~Alive(Head(idle))
        /\ Dispose(c, Head(idle))
        /\ UNCHANGED <<stage, held>>
  /\ UNCHANGED toWarm

(* get_session has returned the session. *)
Taken(c) ==
  /\ At(c, "take")
  /\ Enter(c, "using")
  /\ UNCHANGED <<vars, idle, toWarm, held>>

(* The list is empty, hence shorter than max_size unless that is 0: a      *)
(* session is created, however many are in use.                            *)
PopNone(c) ==
  /\ At(c, "pop")
  /\ idle = <<>>
  /\ IF MaxSize > 0 THEN AcquireSlot(c) \/ FindFull(c) ELSE UNCHANGED vars
  /\ Enter(c, "create")
  /\ UNCHANGED <<idle, toWarm, held>>

(* Seeded fault: acquire tries again until the manager has room. *)
CreatedOrRetry(c) ==
  /\ At(c, "create")
  /\ Enter(c, IF held[c] = NoSid THEN "pop" ELSE "using")
  /\ UNCHANGED <<vars, idle, toWarm, held>>

(* create_session has returned an id, or raised: acquire returns None. *)
Created(c) ==
  /\ At(c, "create")
  /\ Enter(c, IF held[c] = NoSid THEN "out" ELSE "using")
  /\ UNCHANGED <<vars, idle, toWarm, held>>

-----------------------------------------------------------------------------
(* The client's use of its session, and release                            *)

(* execute_in_session; the session may have expired or broken since. *)
Use(c) ==
  /\ At(c, "using")
  /\ ExecuteInSession(c, held[c]) \/ (held[c] \in Expired /\ Dispose(c, held[c]))
  /\ UNCHANGED poolVars

(* release with destroy=True: no lock. *)
ReleaseDestroy(c) ==
  /\ At(c, "using")
  /\ Dispose(c, held[c])
  /\ Enter(c, "drop")
  /\ Give(c, NoSid)
  /\ UNCHANGED <<idle, toWarm>>

(* release takes the lock. *)
Release(c) ==
  /\ At(c, "using")
  /\ Unlocked
  /\ Enter(c, "give")
  /\ UNCHANGED <<vars, idle, toWarm, held>>

(* get_session finds the session or not; in the second case                *)
(* destroy_session is called too, and finds nothing.                       *)
ReleaseGet(c) ==
  /\ At(c, "give")
  /\ \/ Touch(c, held[c], "save") /\ Enter(c, "back") /\ UNCHANGED held
     \/ /\ ~Alive(held[c])
        /\ Dispose(c, held[c])
        /\ Enter(c, "evict")
        /\ Give(c, NoSid)
  /\ UNCHANGED <<idle, toWarm>>

(* Seeded fault: the list is not bounded. *)
GiveBackAlways(c) ==
  /\ At(c, "back")
  /\ idle' = Append(idle, held[c]) /\ Enter(c, "out") /\ UNCHANGED vars
  /\ Give(c, NoSid)
  /\ UNCHANGED toWarm

(* The session goes back to the list, or is destroyed if that is full. *)
GiveBack(c) ==
  /\ At(c, "back")
  /\ \/ /\ Len(idle) < MaxSize
        /\ idle' = Append(idle, held[c])
        /\ Enter(c, "out")
        /\ UNCHANGED vars
     \/ /\ Len(idle) >= MaxSize
        /\ Dispose(c, held[c])
        /\ Enter(c, "evict")
        /\ UNCHANGED idle
  /\ Give(c, NoSid)
  /\ UNCHANGED toWarm

(* destroy_session has returned, and so does release. *)
Dropped(c) ==
  /\ At(c, "drop") \/ At(c, "evict")
  /\ Enter(c, "out")
  /\ UNCHANGED <<vars, idle, toWarm, held>>

-----------------------------------------------------------------------------
(* The manager goes on by itself; whoever registers a session in           *)
(* create_session is given its id.                                         *)
ManagerGoesOn(c) ==
  /\ Continue(c)
  /\ IF pc[c] = "made" THEN Give(c, sid[c]) ELSE UNCHANGED held
  /\ UNCHANGED <<idle, toWarm, stage>>

(* A call of the pool that has begun goes on. *)
PoolGoesOn(c) ==
  \/ Pop(c) \/ PopNone(c) \/ Taken(c) \/ Created(c)
  \/ ReleaseGet(c) \/ GiveBack(c) \/ Dropped(c)
  \/ ManagerGoesOn(c)
  \/ c = Main /\ (WarmCreate \/ WarmKeep \/ WarmDone)

ClientBegins(c) ==
  Acquire(c) \/ Use(c) \/ Release(c) \/ ReleaseDestroy(c)

PoolNext ==
  \/ \E c \in Caller : PoolGoesOn(c) \/ ClientBegins(c)
  \/ (Continue(Janitor) \/ CleanupPass \/ Tick) /\ UNCHANGED poolVars

PoolSpec == PoolInit /\ [][PoolNext]_pvars

(* A thread inside a call is not suspended for ever (sandbox creation,     *)
(* Redis calls and executions all have time-outs), the cleanup thread      *)
(* wakes up every cleanup_interval seconds, and time passes.  A client     *)
(* need not call, use or give back.                                        *)
PoolFairSpec ==
  /\ PoolSpec
  /\ \A c \in Caller : WF_pvars(PoolGoesOn(c))
  /\ WF_pvars(Continue(Janitor) /\ UNCHANGED poolVars)
  /\ WF_pvars(CleanupPass /\ UNCHANGED poolVars)
  /\ WF_pvars(Tick /\ UNCHANGED poolVars)

-----------------------------------------------------------------------------
(* Properties.                                                             *)

Listed == {idle[i] : i \in 1 .. Len(idle)}

(* A session is in one place: in the list once, or with one client.  Two   *)
(* clients never execute in the same sandbox, although a session changes   *)
(* hands while the cleanup thread expires others and executions outlast    *)
(* the touch that began them.                                              *)
ExclusivelyHeld ==
  /\ \A i, j \in 1 .. Len(idle) : idle[i] = idle[j] => i = j
  /\ \A c \in Caller : held[c] # NoSid =>
       /\ held[c] \notin Listed
       /\ \A d \in Caller : held[d] = held[c] => d = c

(* What the pool promises: see SessionHandout. *)
Handout == INSTANCE SessionHandout
             WITH Client <- Caller,
                  Session <- Sid,
                  NoSession <- NoSid,
                  Capacity <- Bound,
                  free <- idle,
                  given <- held,
                  made <- issued \ Making

(* Whatever the lock, the manager, expiry and clean-up do: a session that  *)
(* is handed out is a new one or the oldest of the list, a client has one  *)
(* at a time, the list never outgrows the larger of min_size and max_size, *)
(* and a session that was destroyed or skipped is never handed out again.  *)
ImplementsHandout == Handout!Spec

(* A call that holds the pool's lock comes to its end, whatever it finds   *)
(* in the list and whether or not the manager has room: other callers are  *)
(* blocked meanwhile.                                                      *)
LockReleased ==
  \A c \in Caller : (stage[c] \in Locked) ~> (stage[c] \notin Locked)
=============================================================================
