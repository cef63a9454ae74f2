-------------------------- MODULE SessionPoolProofs --------------------------
(***************************************************************************)
(* Proofs about SessionPool, for any number of clients, sandboxes and      *)
(* permits and any sizes.  The inductive invariant is                      *)
(*                                                                         *)
(*   IInv /\ PoolTypeOK /\ LockInv /\ WarmInv /\ HeldInv /\ ExclusivelyHeld *)
(*                                                                         *)
(* with IInv the inductive invariant of the manager: the pool takes no     *)
(* step that is not one of the manager or none at all.  The refinement of  *)
(* SessionHandout, and that a call that has the lock comes nearer to its   *)
(* release, need WaitInv /\ JanitorInv besides.                            *)
(***************************************************************************)
EXTENDS SessionPool, SessionManagerProofs, SequenceTheorems

(* One thread at a time has the lock; while the pool is being made nobody  *)
(* else has the pool at all.                                               *)
LockInv ==
  /\ \A c, d \in Caller : stage[c] \in Locked /\ stage[d] \in Locked => c = d
  /\ stage[Main] = "warm" => \A c \in Caller \ {Main} : stage[c] = "out"
  /\ \A c \in Caller : stage[c] = "warm" => c = Main

(* A session that is being created for the pool has a place in it. *)
WarmInv ==
  /\ stage[Main] # "warm" => toWarm = 0
  /\ stage[Main] = "warm" =>
       /\ Len(idle) + toWarm <= MinSize
       /\ pc[Main] # "idle" \/ held[Main] # NoSid
            => Len(idle) + toWarm < MinSize

(* What the pool and its clients have was registered some time ago. *)
Used == issued \ Making

HeldInv ==
  /\ Listed \subseteq Used
  /\ \A c \in Caller : held[c] # NoSid => held[c] \in Used
  /\ \A c \in Caller :
       stage[c] \in {"take", "using", "give", "back"} => held[c] # NoSid

PoolInv == PoolTypeOK /\ LockInv /\ WarmInv /\ HeldInv /\ ExclusivelyHeld

-----------------------------------------------------------------------------
(* Facts about the manager.                                                *)

(* Only a registration makes a name used.                                  *)
LEMMA UsedKept ==
  ASSUME IInv, [Next]_vars, \A t \in Thread : ~Register(t)
  PROVE  Used' = Used
<1> USE DEF Used, Goto, WorkOn, Making, Makers, Saving
<1>1. TypeCore /\ WorkInv
  BY DEF IInv
<1> USE <1>1 DEF TypeCore, WorkInv
<1>2. ASSUME NEW t \in Thread, NEW s \in Sid, CreateSandbox(t, s)
      PROVE  Used' = Used
  <2>1. /\ pc' = [pc EXCEPT ![t] = "made"] /\ pc[t] # "made"
        /\ sid' = [sid EXCEPT ![t] = s]
        /\ issued' = issued \cup {s} /\ s \notin issued
    BY <1>2 DEF CreateSandbox
  <2>2. Makers' = Makers \cup {t}
    BY <2>1
  <2>3. Making' = Making \cup {s}
    BY <2>1, <2>2
  <2> QED
    BY <2>1, <2>3
<1>3. ASSUME issued' = issued, NEW t \in Thread, pc[t] # "made", pc'[t] # "made",
             \A u \in Thread \ {t} : pc'[u] = pc[u] /\ sid'[u] = sid[u]
      PROVE  Used' = Used
  <2>1. Makers' = Makers /\ \A u \in Makers : sid'[u] = sid[u]
    BY <1>3
  <2> QED
    BY <1>3, <2>1
<1>4. ASSUME NEW t \in Thread,
             \/ AcquireSlot(t) \/ RetryAcquire(t) \/ FindFull(t)
             \/ GiveUp(t) \/ CreateFails(t)
             \/ RunReturns(t) \/ RunTimesOut(t)
             \/ StopSignal(t) \/ StopDestroyAll(t)
      PROVE  Used' = Used
  BY <1>3, <1>4
  DEF AcquireSlot, RetryAcquire, TakePermit, FindFull, GiveUp, CreateFails,
      RunReturns, RunTimesOut, StopSignal, StopDestroyAll
<1>5. ASSUME NEW t \in Thread, MakeRoom(t)
      PROVE  Used' = Used
  BY <1>3, <1>5 DEF MakeRoom
<1>6. ASSUME NEW t \in Thread, SaveState(t)
      PROVE  Used' = Used
  BY <1>3, <1>6 DEF SaveState
<1>7. ASSUME NEW t \in Thread, NEW s \in Sid,
             (\E l \in Saving : Touch(t, s, l)) \/ DestroySession(t, s)
      PROVE  Used' = Used
  BY <1>3, <1>7 DEF Touch, DestroySession
<1>8. ASSUME NEW t \in Thread, NEW s \in Sid, DeleteState(t, s)
      PROVE  Used' = Used
  <2>1. PICK l \in {"purge", "del", "retry", "idle"} : pc' = [pc EXCEPT ![t] = l]
    BY <1>8 DEF DeleteState, Deleting
  <2> QED
    BY <1>3, <1>8, <2>1 DEF DeleteState, Deleting
<1>9. CASE CleanupPass
  BY <1>3, <1>9 DEF CleanupPass, Thread
<1>10. CASE Tick \/ UNCHANGED vars
  BY <1>10 DEF Tick, vars
<1> QED
  BY <1>2, <1>4, <1>5, <1>6, <1>7, <1>8, <1>9, <1>10, StepCases

LEMMA UsedByRegister ==
  ASSUME IInv, NEW t \in Thread, Register(t)
  PROVE  Used' = Used \cup {sid[t]}
<1> USE DEF IInv, TypeCore, WorkInv, Goto, Makers
<1>1. /\ pc[t] = "made" /\ pc' = [pc EXCEPT ![t] = "save"]
      /\ UNCHANGED <<issued, sid>>
  BY DEF Register
<1>2. Makers' = Makers \ {t} /\ t \in Makers
  BY <1>1
<1>3. \A u \in Makers \ {t} : sid[u] # sid[t]
  BY <1>2
<1>4. Making' = Making \ {sid[t]} /\ sid[t] \in Making
  BY <1>1, <1>2, <1>3 DEF Making
<1>5. sid[t] \in issued
  BY <1>1
<1> QED
  BY <1>1, <1>4, <1>5 DEF Used

(* A sandbox, once registered, is never made again. *)
LEMMA UsedGrows ==
  ASSUME IInv, [Next]_vars
  PROVE  Used \subseteq Used'
  BY UsedKept, UsedByRegister

(* A thread moves only itself. *)
LEMMA ContinueLocal ==
  ASSUME IInv, NEW t \in Thread, Continue(t)
  PROVE  /\ pc[t] # "idle"
         /\ \A u \in Thread \ {t} : pc'[u] = pc[u]
  BY DEF IInv, TypeCore, Continue, MakeRoom, RetryAcquire, TakePermit, GiveUp,
     CreateFails, Register, RunReturns, RunTimesOut, SaveState, StopDestroyAll,
     CreateSandbox, DeleteState, Goto, Saving, Deleting

(* Whoever registers a session has made its sandbox alone. *)
LEMMA RegisteredIsNew ==
  ASSUME IInv, NEW t \in Thread, Continue(t), pc[t] = "made"
  PROVE  /\ sid[t] \in Making
         /\ sid[t] \in Sid
         /\ sid[t] \in Used'
<1>1. Register(t)
  BY DEF Continue, MakeRoom, RetryAcquire, TakePermit, GiveUp, CreateFails,
     RunReturns, RunTimesOut, SaveState, StopDestroyAll, CreateSandbox,
     DeleteState, Saving, Deleting
<1>2. sid[t] \in Making /\ sid[t] \in issued /\ sid[t] \in Sid
  BY DEF IInv, TypeCore, WorkInv, Making, Makers
<1>3. \A u \in Makers' : u \in Makers /\ u # t /\ sid'[u] = sid[u]
  BY <1>1 DEF IInv, TypeCore, Register, Goto, Makers
<1>4. t \in Makers
  BY DEF Makers
<1> QED
  BY <1>1, <1>2, <1>3, <1>4 DEF IInv, WorkInv, Register, Making, Used

-----------------------------------------------------------------------------
(* Every step of the pool is a step of the manager or leaves it alone.     *)
LEMMA PoolStepIsNext ==
  ASSUME IInv, [PoolNext]_pvars
  PROVE  [Next]_vars
<1> USE DEF Thread
<1>1. sessions \subseteq Sid
  BY DEF IInv, TypeCore
<1>2. ASSUME NEW c \in Caller, NEW s, Touch(c, s, "save") \/ Dispose(c, s)
      PROVE  [Next]_vars
  BY <1>1, <1>2 DEF Dispose, Touch, DestroySession, GetSession, Next, Call
<1>3. ASSUME NEW c \in Caller, AcquireSlot(c) \/ FindFull(c)
      PROVE  [Next]_vars
  BY <1>3 DEF Next, Call
<1>4. ASSUME NEW c \in Caller, Pop(c) \/ ReleaseGet(c) \/ ReleaseDestroy(c)
      PROVE  [Next]_vars
  BY <1>2, <1>4 DEF Pop, ReleaseGet, ReleaseDestroy
<1>5. ASSUME NEW c \in Caller, PopNone(c) \/ (c = Main /\ WarmCreate)
      PROVE  [Next]_vars
  BY <1>3, <1>5 DEF PopNone, WarmCreate
<1>6. ASSUME NEW c \in Caller, GiveBack(c)
      PROVE  [Next]_vars
  BY <1>2, <1>6 DEF GiveBack
<1>7. ASSUME NEW c \in Caller,
             \/ Taken(c) \/ Created(c) \/ Dropped(c) \/ WarmKeep \/ WarmDone
             \/ Acquire(c) \/ Release(c)
      PROVE  [Next]_vars
  BY <1>7 DEF Taken, Created, Dropped, WarmKeep, WarmDone, Acquire, Release
<1>8. ASSUME NEW c \in Caller, ManagerGoesOn(c)
      PROVE  [Next]_vars
  BY <1>8 DEF ManagerGoesOn, Next
<1>9. ASSUME NEW c \in Caller, Use(c)
      PROVE  [Next]_vars
  <2>1. CASE ExecuteInSession(c, held[c])
    BY <1>1, <2>1 DEF ExecuteInSession, Touch, Next, Call
  <2>2. CASE Dispose(c, held[c])
    BY <1>2, <2>2
  <2> QED
    BY <1>9, <2>1, <2>2 DEF Use
<1>10. CASE (Continue(Janitor) \/ CleanupPass \/ Tick) /\ UNCHANGED poolVars
  BY <1>10 DEF Next
<1>11. CASE UNCHANGED pvars
  BY <1>11 DEF pvars
<1> QED
  BY <1>4, <1>5, <1>6, <1>7, <1>8, <1>9, <1>10, <1>11
  DEF PoolNext, PoolGoesOn, ClientBegins

LEMMA PoolInitInv == PoolInit => IInv /\ PoolInv
<1> SUFFICES ASSUME PoolInit PROVE IInv /\ PoolInv
  OBVIOUS
<1>1. IInv
  BY IInvInit DEF PoolInit
<1>2. idle \in Seq(Sid) /\ Len(idle) = 0
  BY EmptySeq DEF PoolInit
<1>3. PoolTypeOK /\ LockInv
  BY <1>2, PoolAssumption DEF PoolInit, PoolTypeOK, Bound, LockInv, PoolStage, Locked
<1>4. WarmInv
  BY <1>2, PoolAssumption, ManagerAssumption DEF PoolInit, Init, WarmInv, Thread
<1>5. HeldInv /\ ExclusivelyHeld
  BY <1>2 DEF PoolInit, HeldInv, ExclusivelyHeld, Listed
<1> QED
  BY <1>1, <1>3, <1>4, <1>5 DEF PoolInv

-----------------------------------------------------------------------------
(* The steps of the pool keep its invariant.                               *)

(* What the list looks like after pop(0) and after append. *)
LEMMA AfterPop ==
  ASSUME idle \in Seq(Sid), idle # <<>>, idle' = Tail(idle)
  PROVE  /\ Head(idle) \in Listed /\ Head(idle) \in Sid
         /\ idle' \in Seq(Sid) /\ Len(idle') = Len(idle) - 1
         /\ Listed' \subseteq Listed
         /\ (\A i, j \in 1 .. Len(idle) : idle[i] = idle[j] => i = j) =>
              /\ \A i, j \in 1 .. Len(idle') : idle'[i] = idle'[j] => i = j
              /\ Head(idle) \notin Listed'
<1>1. /\ Head(idle) = idle[1] /\ Head(idle) \in Sid
      /\ Tail(idle) \in Seq(Sid) /\ Len(Tail(idle)) = Len(idle) - 1
      /\ \A i \in 1 .. Len(Tail(idle)) : Tail(idle)[i] = idle[i + 1]
  BY HeadTailProperties
<1>2. Len(idle) \in Nat \ {0}
  BY EmptySeq
<1>3. \A i \in 1 .. Len(idle') : /\ i + 1 \in 1 .. Len(idle) /\ i + 1 # 1
                                 /\ idle'[i] = idle[i + 1]
  BY <1>1, <1>2
<1>4. Head(idle) \in Listed /\ Listed' \subseteq Listed
  BY <1>1, <1>2, <1>3 DEF Listed
<1>5. ASSUME \A i, j \in 1 .. Len(idle) : idle[i] = idle[j] => i = j
      PROVE  /\ \A i, j \in 1 .. Len(idle') : idle'[i] = idle'[j] => i = j
             /\ Head(idle) \notin Listed'
  <2>1. \A i, j \in 1 .. Len(idle') : idle'[i] = idle'[j] => i + 1 = j + 1
    BY <1>3, <1>5
  <2>2. \A i \in 1 .. Len(idle') : idle'[i] # idle[1]
    BY <1>2, <1>3, <1>5
  <2> QED
    BY <1>1, <2>1, <2>2 DEF Listed
<1> QED
  BY <1>1, <1>4, <1>5

LEMMA AfterAppend ==
  ASSUME idle \in Seq(Sid), NEW s \in Sid, idle' = Append(idle, s)
  PROVE  /\ idle' \in Seq(Sid) /\ Len(idle') = Len(idle) + 1
         /\ Listed' = Listed \cup {s}
         /\ /\ s \notin Listed
            /\ \A i, j \in 1 .. Len(idle) : idle[i] = idle[j] => i = j
            => \A i, j \in 1 .. Len(idle') : idle'[i] = idle'[j] => i = j
<1>1. /\ idle' \in Seq(Sid) /\ Len(idle') = Len(idle) + 1 /\ Len(idle) \in Nat
      /\ \A i \in 1 .. Len(idle) : idle'[i] = idle[i]
      /\ idle'[Len(idle) + 1] = s
  BY AppendProperties, LenProperties
<1>2. \A i \in 1 .. Len(idle') : i \in 1 .. Len(idle) \/ i = Len(idle) + 1
  BY <1>1
<1>3. Listed' = Listed \cup {s}
  BY <1>1, <1>2 DEF Listed
<1>4. ASSUME s \notin Listed,
             \A i, j \in 1 .. Len(idle) : idle[i] = idle[j] => i = j
      PROVE  \A i, j \in 1 .. Len(idle') : idle'[i] = idle'[j] => i = j
  BY <1>1, <1>2, <1>4 DEF Listed
<1> QED
  BY <1>1, <1>3, <1>4

LEMMA PoolStepInv ==
  ASSUME IInv, PoolInv, [PoolNext]_pvars, Used \subseteq Used'
  PROVE  PoolInv'
<1> USE PoolAssumption, ManagerAssumption
    DEF Bound, PoolInv, PoolTypeOK, LockInv, WarmInv, HeldInv, ExclusivelyHeld,
        PoolStage, Locked, At, Enter, Give, Thread
<1>1. Len(idle) \in Nat /\ toWarm \in Nat
  BY LenProperties
<1>2. Used \subseteq Sid
  BY DEF IInv, TypeCore, Used
<1>3. ASSUME UNCHANGED poolVars, stage[Main] = "warm" => pc'[Main] = pc[Main]
      PROVE  PoolInv'
  <2>1. UNCHANGED <<idle, toWarm, stage, held>> /\ Listed' = Listed
    BY <1>3 DEF poolVars, Listed
  <2> QED
    BY <1>3, <2>1, SMT
<1>4. CASE UNCHANGED pvars
  BY <1>3, <1>4 DEF pvars, vars
<1>5. CASE (Continue(Janitor) \/ CleanupPass \/ Tick) /\ UNCHANGED poolVars
  <2>1. pc'[Main] = pc[Main]
    BY <1>5, ContinueLocal DEF CleanupPass, Tick, Goto, IInv, TypeCore
  <2> QED
    BY <1>3, <1>5, <2>1
<1>6. ASSUME NEW c \in Caller, Use(c)
      PROVE  PoolInv'
  <2>1. stage[Main] # "warm"
    BY <1>6 DEF Use
  <2> QED
    BY <1>3, <1>6, <2>1 DEF Use
<1>7. CASE WarmCreate
  <2>1. /\ stage[Main] = "warm" /\ toWarm > 0 /\ toWarm' = toWarm - 1
        /\ UNCHANGED <<idle, stage, held>>
    BY <1>7 DEF WarmCreate
  <2> QED
    BY <1>1, <2>1, SMT DEF Listed
<1>8. CASE WarmKeep
  <2>1. /\ stage[Main] = "warm" /\ held[Main] # NoSid
        /\ idle' = Append(idle, held[Main])
        /\ held' = [held EXCEPT ![Main] = NoSid]
        /\ UNCHANGED <<toWarm, stage>> /\ pc'[Main] = "idle"
    BY <1>8 DEF WarmKeep, vars
  <2>2. held[Main] \in Sid /\ held[Main] \notin Listed
    BY <2>1
  <2>3. /\ idle' \in Seq(Sid) /\ Len(idle') = Len(idle) + 1
        /\ Listed' = Listed \cup {held[Main]}
        /\ \A i, j \in 1 .. Len(idle') : idle'[i] = idle'[j] => i = j
    BY <2>1, <2>2, AfterAppend
  <2> QED
    BY <1>1, <2>1, <2>2, <2>3, SMT
<1>9. CASE WarmDone
  <2>1. /\ stage[Main] = "warm" /\ toWarm = 0
        /\ stage' = [stage EXCEPT ![Main] = "out"]
        /\ UNCHANGED <<idle, toWarm, held>>
    BY <1>9 DEF WarmDone
  <2> QED
    BY <1>1, <2>1, SMT DEF Listed
<1>10. ASSUME NEW c \in Caller, Acquire(c) \/ Release(c)
       PROVE  PoolInv'
  <2>1. /\ \A d \in Caller : stage[d] \notin Locked
        /\ \/ stage' = [stage EXCEPT ![c] = "pop"]
           \/ stage[c] = "using" /\ stage' = [stage EXCEPT ![c] = "give"]
        /\ UNCHANGED <<idle, toWarm, held>>
    BY <1>10 DEF Acquire, Release, Unlocked
  <2> QED
    BY <1>1, <2>1, SMT DEF Listed
<1>11. ASSUME NEW c \in Caller, Pop(c)
       PROVE  PoolInv'
  <2>1. /\ stage[c] = "pop" /\ idle # <<>> /\ idle' = Tail(idle)
        /\ UNCHANGED toWarm
        /\ \/ /\ stage' = [stage EXCEPT ![c] = "take"]
              /\ held' = [held EXCEPT ![c] = Head(idle)]
           \/ UNCHANGED <<stage, held>>
    BY <1>11 DEF Pop
  <2>2. /\ Head(idle) \in Listed /\ Head(idle) \in Sid
        /\ idle' \in Seq(Sid) /\ Len(idle') = Len(idle) - 1
        /\ Listed' \subseteq Listed /\ Head(idle) \notin Listed'
        /\ \A i, j \in 1 .. Len(idle') : idle'[i] = idle'[j] => i = j
    BY <2>1, AfterPop
  <2>3. stage[Main] # "warm" /\ toWarm = 0
    BY <2>1
  <2> QED
    BY <1>1, <2>1, <2>2, <2>3, SMT
<1>12. ASSUME NEW c \in Caller, PopNone(c) \/ Taken(c) \/ Created(c) \/ Dropped(c)
       PROVE  PoolInv'
  <2>1. /\ UNCHANGED <<idle, toWarm, held>>
        /\ \/ stage[c] = "pop" /\ stage' = [stage EXCEPT ![c] = "create"]
           \/ stage[c] = "take" /\ stage' = [stage EXCEPT ![c] = "using"]
           \/ /\ stage[c] = "create" /\ held[c] # NoSid
              /\ stage' = [stage EXCEPT ![c] = "using"]
           \/ /\ stage[c] \in {"create", "drop", "evict"}
              /\ stage' = [stage EXCEPT ![c] = "out"]
    BY <1>12 DEF PopNone, Taken, Created, Dropped
  <2>2. stage[Main] # "warm" /\ stage[c] # "warm"
    BY <2>1
  <2> QED
    BY <1>1, <2>1, <2>2, SMT DEF Listed
<1>13. ASSUME NEW c \in Caller, ReleaseDestroy(c) \/ ReleaseGet(c)
       PROVE  PoolInv'
  <2>1. /\ UNCHANGED <<idle, toWarm>>
        /\ \/ /\ stage[c] = "using" /\ stage' = [stage EXCEPT ![c] = "drop"]
              /\ held' = [held EXCEPT ![c] = NoSid]
           \/ /\ stage[c] = "give" /\ stage' = [stage EXCEPT ![c] = "back"]
              /\ UNCHANGED held
           \/ /\ stage[c] = "give" /\ stage' = [stage EXCEPT ![c] = "evict"]
              /\ held' = [held EXCEPT ![c] = NoSid]
    BY <1>13 DEF ReleaseDestroy, ReleaseGet
  <2>2. stage[Main] # "warm" /\ stage[c] # "warm"
    BY <2>1
  <2> QED
    BY <1>1, <2>1, <2>2, SMT DEF Listed
<1>14. ASSUME NEW c \in Caller, GiveBack(c)
       PROVE  PoolInv'
  <2>1. /\ stage[c] = "back" /\ UNCHANGED toWarm
        /\ held' = [held EXCEPT ![c] = NoSid]
    BY <1>14 DEF GiveBack
  <2>2. stage[Main] # "warm" /\ toWarm = 0
    BY <2>1
  <2>3. CASE /\ Len(idle) < MaxSize /\ idle' = Append(idle, held[c])
             /\ stage' = [stage EXCEPT ![c] = "out"]
    <3>1. held[c] \in Sid /\ held[c] \notin Listed
      BY <2>1
    <3>2. /\ idle' \in Seq(Sid) /\ Len(idle') = Len(idle) + 1
          /\ Listed' = Listed \cup {held[c]}
          /\ \A i, j \in 1 .. Len(idle') : idle'[i] = idle'[j] => i = j
      BY <2>3, <3>1, AfterAppend
    <3> QED
      BY <1>1, <2>1, <2>2, <2>3, <3>1, <3>2, SMT
  <2>4. CASE stage' = [stage EXCEPT ![c] = "evict"] /\ UNCHANGED idle
    BY <1>1, <2>1, <2>2, <2>4, SMT DEF Listed
  <2> QED
    BY <1>14, <2>3, <2>4 DEF GiveBack
<1>15. ASSUME NEW c \in Caller, ManagerGoesOn(c)
       PROVE  PoolInv'
  <2>1. /\ Continue(c) /\ UNCHANGED <<idle, toWarm, stage>>
        /\ \/ pc[c] = "made" /\ held' = [held EXCEPT ![c] = sid[c]]
           \/ UNCHANGED held
    BY <1>15 DEF ManagerGoesOn
  <2>2. pc[c] # "idle" /\ \A d \in Thread \ {c} : pc'[d] = pc[d]
    BY <2>1, ContinueLocal
  <2>3. Listed' = Listed
    BY <2>1 DEF Listed
  <2>4. CASE pc[c] = "made" /\ held' = [held EXCEPT ![c] = sid[c]]
    <3>1. sid[c] \in Sid /\ sid[c] \in Used' /\ sid[c] \notin Used
      BY <2>1, <2>4, RegisteredIsNew DEF Used
    <3> QED
      BY <1>1, <2>1, <2>2, <2>3, <2>4, <3>1, SMT
  <2>5. CASE UNCHANGED held
    BY <1>1, <2>1, <2>2, <2>3, <2>5, SMT
  <2> QED
    BY <2>1, <2>4, <2>5
<1> QED
  BY <1>4, <1>5, <1>6, <1>7, <1>8, <1>9, <1>10, <1>11, <1>12, <1>13, <1>14, <1>15
  DEF PoolNext, PoolGoesOn, ClientBegins

LEMMA PoolInvHolds == PoolSpec => [](IInv /\ PoolInv)
<1>1. IInv /\ PoolInv /\ [PoolNext]_pvars => (IInv /\ PoolInv)'
  BY PoolStepIsNext, IInvStep, UsedGrows, PoolStepInv
<1> QED
  BY <1>1, PoolInitInv, PTL DEF PoolSpec

(* The pool uses the manager as any client does: whatever is proved of     *)
(* SessionManager under Spec is true of a manager behind a pool.           *)
THEOREM PoolUsesManager == PoolSpec => Spec
<1>1. PoolInit => Init
  BY DEF PoolInit
<1>2. IInv /\ [PoolNext]_pvars => [Next]_vars
  BY PoolStepIsNext
<1> QED
  BY <1>1, <1>2, PoolInvHolds, PTL DEF PoolSpec, Spec

(* Type correctness; the list never outgrows max_size (session.py:653), or *)
(* min_size if that is larger (session.py:601), the sessions that are      *)
(* still being made for it included.                                       *)
THEOREM PoolTypeCorrect == PoolSpec => []PoolTypeOK
<1>1. PoolInv => PoolTypeOK
  BY DEF PoolInv
<1> QED
  BY <1>1, PoolInvHolds, PTL

(* A session is in the list once, or with one client.                      *)
THEOREM SessionsExclusive == PoolSpec => []ExclusivelyHeld
<1>1. PoolInv => ExclusivelyHeld
  BY DEF PoolInv
<1> QED
  BY <1>1, PoolInvHolds, PTL

-----------------------------------------------------------------------------
(* The refinement of SessionHandout.                                       *)

(* A client without a session is known to have none, and a session is made *)
(* only for a client that waits for one.                                   *)
WaitInv ==
  \A c \in Caller :
    /\ stage[c] \in {"out", "pop", "drop", "evict"} => held[c] = NoSid
    /\ pc[c] \in {"full", "purge", "retry", "reserve", "made"} =>
         stage[c] \in {"create", "warm"} /\ held[c] = NoSid

(* The cleanup thread never makes a session. *)
JanitorInv == pc[Janitor] \in {"idle", "del"}

LEMMA WaitInvInit == PoolInit => WaitInv /\ JanitorInv
  BY DEF PoolInit, Init, WaitInv, JanitorInv, Thread

LEMMA JanitorStep ==
  ASSUME IInv, JanitorInv, [Next]_vars
  PROVE  JanitorInv'
<1> USE ManagerAssumption DEF JanitorInv, IInv, TypeCore, Thread
<1>1. CASE \E t \in Caller : Call(t)
  BY <1>1
  DEF Call, AcquireSlot, TakePermit, FindFull, GetSession, ExecuteInSession,
      Touch, DestroySession, StopSignal, Goto
<1>2. CASE \E t \in Caller : Continue(t)
  BY <1>2, ContinueLocal
<1>3. CASE Continue(Janitor)
  BY <1>3
  DEF Continue, MakeRoom, RetryAcquire, TakePermit, GiveUp, CreateFails,
      Register, RunReturns, RunTimesOut, SaveState, StopDestroyAll,
      CreateSandbox, DeleteState, Goto, Saving, Deleting
<1>4. CASE CleanupPass \/ Tick \/ UNCHANGED vars
  BY <1>4 DEF CleanupPass, Tick, Goto, vars
<1> QED
  BY <1>1, <1>2, <1>3, <1>4 DEF Next

(* What a step of the manager does to the thread that takes it. *)
LEMMA ContinueStays ==
  ASSUME IInv, NEW t \in Thread, Continue(t),
         pc'[t] \in {"full", "purge", "retry", "reserve", "made"}
  PROVE  pc[t] \in {"full", "purge", "retry", "reserve"}
  BY DEF IInv, TypeCore, Continue, MakeRoom, RetryAcquire, TakePermit, GiveUp,
     CreateFails, Register, RunReturns, RunTimesOut, SaveState, StopDestroyAll,
     CreateSandbox, DeleteState, Goto, Saving, Deleting

LEMMA WaitInvStep ==
  ASSUME IInv, PoolInv, WaitInv, [PoolNext]_pvars
  PROVE  WaitInv'
<1> USE ManagerAssumption, PoolAssumption
    DEF WaitInv, PoolInv, PoolTypeOK, PoolStage, Locked, Enter, Give, At, Thread
<1>0. pc \in [Thread -> PcState]
  BY DEF IInv, TypeCore
<1>1. ASSUME UNCHANGED poolVars,
             \A c \in Caller : \/ pc'[c] \in {"idle", "saveExec", "del"}
                              \/ pc'[c] = pc[c]
      PROVE  WaitInv'
  BY <1>1 DEF poolVars
<1>2. CASE UNCHANGED pvars
  BY <1>1, <1>2 DEF pvars, vars
<1>3. CASE (Continue(Janitor) \/ CleanupPass \/ Tick) /\ UNCHANGED poolVars
  <2>1. \A c \in Caller : pc'[c] = pc[c]
    BY <1>0, <1>3, ContinueLocal DEF CleanupPass, Tick, Goto
  <2> QED
    BY <1>1, <1>3, <2>1
<1>4. ASSUME NEW c \in Caller, NEW s,
             \/ Touch(c, s, "save") \/ ExecuteInSession(c, s)
             \/ Dispose(c, s)
      PROVE  /\ pc[c] = "idle" => pc'[c] \in {"idle", "save", "saveExec", "del"}
             /\ \A d \in Caller \ {c} : pc'[d] = pc[d]
  BY <1>0, <1>4
  DEF Touch, ExecuteInSession, Dispose, DestroySession, Goto, vars
<1>5. ASSUME NEW c \in Caller, Use(c)
      PROVE  WaitInv'
  BY <1>4, <1>5 DEF Use, poolVars
<1>6. ASSUME NEW c \in Caller, Pop(c) \/ ReleaseGet(c) \/ ReleaseDestroy(c)
      PROVE  WaitInv'
  <2>1. /\ pc[c] = "idle" /\ pc'[c] \in {"idle", "save", "saveExec", "del"}
        /\ \A d \in Caller \ {c} : pc'[d] = pc[d]
    BY <1>4, <1>6 DEF Pop, ReleaseGet, ReleaseDestroy
  <2>2. \/ UNCHANGED <<stage, held>>
        \/ \E x : held' = [held EXCEPT ![c] = x] /\ stage' = [stage EXCEPT ![c] = "take"]
        \/ stage' = [stage EXCEPT ![c] = "back"] /\ UNCHANGED held
        \/ /\ \E l \in {"evict", "drop"} : stage' = [stage EXCEPT ![c] = l]
           /\ held' = [held EXCEPT ![c] = NoSid]
    BY <1>6 DEF Pop, ReleaseGet, ReleaseDestroy
  <2> QED
    BY <2>1, <2>2
<1>7. ASSUME NEW c \in Caller, GiveBack(c)
      PROVE  WaitInv'
  <2>1. /\ pc[c] = "idle" /\ pc'[c] \in {"idle", "save", "saveExec", "del"}
        /\ \A d \in Caller \ {c} : pc'[d] = pc[d]
    BY <1>4, <1>7 DEF GiveBack, vars
  <2>2. /\ \E l \in {"out", "evict"} : stage' = [stage EXCEPT ![c] = l]
        /\ held' = [held EXCEPT ![c] = NoSid]
    BY <1>7 DEF GiveBack
  <2> QED
    BY <2>1, <2>2
<1>8. ASSUME NEW c \in Caller, PopNone(c) \/ (c = Main /\ WarmCreate)
      PROVE  WaitInv'
  <2>1. /\ \/ \E l \in {"reserve", "full"} : pc' = [pc EXCEPT ![c] = l]
           \/ pc[c] = "idle" /\ UNCHANGED pc
        /\ held[c] = NoSid /\ UNCHANGED held
        /\ \/ stage' = [stage EXCEPT ![c] = "create"]
           \/ stage[c] = "warm" /\ UNCHANGED stage
    BY <1>0, <1>8
    DEF PopNone, WarmCreate, AcquireSlot, TakePermit, FindFull, Goto, vars
  <2> QED
    BY <1>0, <2>1
<1>9. ASSUME NEW c \in Caller,
             \/ Taken(c) \/ Created(c) \/ Dropped(c)
             \/ (c = Main /\ (WarmKeep \/ WarmDone))
             \/ Acquire(c) \/ Release(c)
      PROVE  WaitInv'
  <2>1. /\ pc[c] = "idle" /\ UNCHANGED pc
        /\ \/ /\ UNCHANGED held
              /\ \/ stage' = [stage EXCEPT ![c] = "using"]
                 \/ stage' = [stage EXCEPT ![c] = "give"]
                 \/ held[c] = NoSid /\ \E l \in {"out", "pop"} : stage' = [stage EXCEPT ![c] = l]
           \/ held' = [held EXCEPT ![c] = NoSid] /\ UNCHANGED stage
    BY <1>9 DEF Taken, Created, Dropped, WarmKeep, WarmDone, Acquire, Release, vars
  <2> QED
    BY <2>1
<1>10. ASSUME NEW c \in Caller, ManagerGoesOn(c)
       PROVE  WaitInv'
  <2>1. /\ UNCHANGED stage /\ Continue(c)
        /\ pc[c] # "made" => UNCHANGED held
        /\ pc[c] = "made" => \E x : held' = [held EXCEPT ![c] = x]
    BY <1>10 DEF ManagerGoesOn
  <2>2. pc[c] # "idle" /\ \A d \in Caller \ {c} : pc'[d] = pc[d]
    BY <2>1, ContinueLocal
  <2>3. pc'[c] \in {"full", "purge", "retry", "reserve", "made"} =>
          pc[c] \in {"full", "purge", "retry", "reserve"}
    BY <2>1, ContinueStays
  <2> QED
    BY <2>1, <2>2, <2>3
<1> QED
  BY <1>2, <1>3, <1>5, <1>6, <1>7, <1>8, <1>9, <1>10
  DEF PoolNext, PoolGoesOn, ClientBegins

(* A step of the pool that registers nothing leaves the names in use.      *)
LEMMA UsedSame ==
  ASSUME IInv, [PoolNext]_pvars,
         \A t \in Thread : pc[t] = "made" => pc'[t] = "made"
  PROVE  Used' = Used
<1>1. \A t \in Thread : Register(t) => pc[t] = "made" /\ pc'[t] = "save"
  BY DEF IInv, TypeCore, Register, Goto
<1> QED
  BY <1>1, PoolStepIsNext, UsedKept

LEMMA HandoutInit == PoolInit => Handout!Init
  BY DEF PoolInit, Init, Handout!Init, Makers, Making, Thread

LEMMA HandoutStep ==
  ASSUME IInv, PoolInv, WaitInv, JanitorInv, [PoolNext]_pvars
  PROVE  [Handout!Next]_Handout!vars
<1> USE ManagerAssumption, PoolAssumption
    DEF Enter, Give, At, Thread, Locked
<1> DEFINE Stutters == UNCHANGED <<idle, held, Used>>
<1>1. ASSUME Stutters
      PROVE  [Handout!Next]_Handout!vars
  BY <1>1 DEF Handout!vars, Used
<1>2. /\ pc \in [Thread -> PcState]
      /\ held \in [Caller -> Sid \cup {NoSid}]
      /\ Len(idle) \in Nat
  BY LenProperties DEF IInv, TypeCore, PoolInv, PoolTypeOK
<1>3. ASSUME UNCHANGED pc \/ \E t \in Thread : /\ pc[t] = "idle"
                                           /\ \A u \in Thread \ {t} : pc'[u] = pc[u]
      PROVE  Used' = Used
  BY <1>3, UsedSame
<1>4. ASSUME NEW c \in Caller, NEW s,
             \/ Touch(c, s, "save") \/ ExecuteInSession(c, s)
             \/ Dispose(c, s) \/ AcquireSlot(c) \/ FindFull(c)
      PROVE  Used' = Used
  <2>1. \/ UNCHANGED pc
        \/ pc[c] = "idle" /\ \E l : pc' = [pc EXCEPT ![c] = l]
    BY <1>4
    DEF Touch, ExecuteInSession, Dispose, DestroySession, AcquireSlot,
        TakePermit, FindFull, Goto, vars
  <2> QED
    BY <1>2, <1>3, <2>1
<1>5. CASE UNCHANGED pvars
  <2>1. UNCHANGED <<idle, held, pc>>
    BY <1>5 DEF pvars, poolVars, vars
  <2> QED
    BY <1>1, <1>3, <2>1
<1>6. CASE (Continue(Janitor) \/ CleanupPass \/ Tick) /\ UNCHANGED poolVars
  <2>1. UNCHANGED <<idle, held>>
    BY <1>6 DEF poolVars
  <2>2. CASE Continue(Janitor)
    <3>1. pc[Janitor] # "made"
      BY DEF JanitorInv
    <3>2. \A t \in Thread : pc[t] = "made" => pc'[t] = "made"
      BY <2>2, <3>1, ContinueLocal
    <3> QED
      BY <1>1, <2>1, <3>2, UsedSame
  <2>3. CASE CleanupPass \/ Tick
    <3>1. UNCHANGED pc \/ (pc[Janitor] = "idle" /\ \A u \in Thread \ {Janitor} : pc'[u] = pc[u])
      BY <1>2, <2>3 DEF CleanupPass, Tick, Goto
    <3> QED
      BY <1>1, <1>3, <2>1, <3>1
  <2> QED
    BY <1>6, <2>2, <2>3
<1>7. ASSUME NEW c \in Caller,
             \/ Taken(c) \/ Created(c) \/ Dropped(c) \/ (c = Main /\ WarmDone)
             \/ Acquire(c) \/ Release(c)
      PROVE  Stutters
  <2>1. UNCHANGED <<idle, held, pc>>
    BY <1>7 DEF Taken, Created, Dropped, WarmDone, Acquire, Release, vars
  <2> QED
    BY <1>3, <2>1
<1>8. ASSUME NEW c \in Caller, Use(c) \/ PopNone(c) \/ (c = Main /\ WarmCreate)
      PROVE  Stutters
  <2>1. UNCHANGED <<idle, held>>
    BY <1>8 DEF Use, PopNone, WarmCreate, poolVars
  <2>2. \E s : \/ ExecuteInSession(c, s) \/ Dispose(c, s)
               \/ AcquireSlot(c) \/ FindFull(c)
        \/ UNCHANGED pc
    BY <1>8 DEF Use, PopNone, WarmCreate, vars
  <2> QED
    BY <1>3, <1>4, <2>1, <2>2
<1>9. CASE WarmKeep
  <2>1. /\ held[Main] # NoSid /\ idle' = Append(idle, held[Main])
        /\ held' = [held EXCEPT ![Main] = NoSid]
        /\ UNCHANGED pc /\ stage[Main] = "warm"
    BY <1>9 DEF WarmKeep, vars
  <2>2. Len(idle) < Bound
    BY <1>2, <2>1 DEF PoolInv, PoolTypeOK, WarmInv, Bound
  <2>3. Used' = Used
    BY <1>3, <2>1
  <2>4. Handout!GiveBack(Main)
    BY <2>1, <2>2, <2>3 DEF Handout!GiveBack, Used
  <2> QED
    BY <2>4 DEF Handout!Next
<1>10. ASSUME NEW c \in Caller, Pop(c)
       PROVE  [Handout!Next]_Handout!vars
  <2>1. stage[c] = "pop" /\ idle # <<>> /\ idle' = Tail(idle) /\ held[c] = NoSid
    BY <1>10 DEF Pop, WaitInv
  <2>2. Used' = Used
    BY <1>4, <1>10 DEF Pop
  <2>3. CASE held' = [held EXCEPT ![c] = Head(idle)]
    BY <2>1, <2>2, <2>3 DEF Handout!Take, Handout!Next, Used
  <2>4. CASE UNCHANGED held
    BY <2>1, <2>2, <2>4 DEF Handout!Discard, Handout!Next, Used
  <2> QED
    BY <1>10, <2>3, <2>4 DEF Pop
<1>11. ASSUME NEW c \in Caller, ReleaseGet(c) \/ ReleaseDestroy(c)
       PROVE  [Handout!Next]_Handout!vars
  <2>1. UNCHANGED idle /\ stage[c] \in {"give", "using"}
    BY <1>11 DEF ReleaseGet, ReleaseDestroy
  <2>2. held[c] # NoSid
    BY <2>1 DEF PoolInv, HeldInv
  <2>3. Used' = Used
    BY <1>4, <1>11 DEF ReleaseGet, ReleaseDestroy
  <2>4. CASE UNCHANGED held
    BY <1>1, <2>1, <2>3, <2>4
  <2>5. CASE held' = [held EXCEPT ![c] = NoSid]
    BY <2>1, <2>2, <2>3, <2>5 DEF Handout!Drop, Handout!Next, Used
  <2> QED
    BY <1>11, <2>4, <2>5 DEF ReleaseGet, ReleaseDestroy
<1>12. ASSUME NEW c \in Caller, GiveBack(c)
       PROVE  [Handout!Next]_Handout!vars
  <2>1. stage[c] = "back" /\ held' = [held EXCEPT ![c] = NoSid]
    BY <1>12 DEF GiveBack
  <2>2. held[c] # NoSid
    BY <2>1 DEF PoolInv, HeldInv
  <2>3. CASE Len(idle) < MaxSize /\ idle' = Append(idle, held[c]) /\ UNCHANGED vars
    <3>1. Used' = Used
      BY <1>3, <2>3 DEF vars
    <3>2. Len(idle) < Bound
      BY <1>2, <2>3 DEF Bound
    <3> QED
      BY <2>1, <2>2, <2>3, <3>1, <3>2 DEF Handout!GiveBack, Handout!Next, Used
  <2>4. CASE Dispose(c, held[c]) /\ UNCHANGED idle
    <3>1. Used' = Used
      BY <1>4, <2>4
    <3> QED
      BY <2>1, <2>2, <2>4, <3>1 DEF Handout!Drop, Handout!Next, Used
  <2> QED
    BY <1>12, <2>3, <2>4 DEF GiveBack
<1>13. ASSUME NEW c \in Caller, ManagerGoesOn(c)
       PROVE  [Handout!Next]_Handout!vars
  <2>1. Continue(c) /\ UNCHANGED idle
    BY <1>13 DEF ManagerGoesOn
  <2>2. CASE pc[c] = "made"
    <3>1. /\ Register(c) /\ held' = [held EXCEPT ![c] = sid[c]]
      BY <1>13, <2>1, <2>2
      DEF ManagerGoesOn, Continue, MakeRoom, RetryAcquire, TakePermit, GiveUp,
          CreateFails, RunReturns, RunTimesOut, SaveState, StopDestroyAll,
          CreateSandbox, DeleteState, Saving, Deleting
    <3>2. sid[c] \in Sid /\ sid[c] \notin Used /\ Used' = Used \cup {sid[c]}
      BY <2>1, <2>2, <3>1, RegisteredIsNew, UsedByRegister DEF Used
    <3>3. held[c] = NoSid
      BY <2>2 DEF WaitInv
    <3>4. Handout!Make(c, sid[c])
      BY <2>1, <3>1, <3>2, <3>3 DEF Handout!Make, Used
    <3> QED
      BY <3>2, <3>4 DEF Handout!Next
  <2>3. CASE pc[c] # "made"
    <3>1. UNCHANGED held
      BY <1>13, <2>3 DEF ManagerGoesOn
    <3>2. \A t \in Thread : pc[t] = "made" => pc'[t] = "made"
      BY <2>1, <2>3, ContinueLocal
    <3> QED
      BY <1>1, <2>1, <3>1, <3>2, UsedSame
  <2> QED
    BY <2>2, <2>3
<1> QED
  BY <1>1, <1>5, <1>6, <1>7, <1>8, <1>9, <1>10, <1>11, <1>12, <1>13
  DEF PoolNext, PoolGoesOn, ClientBegins

(* The pool implements SessionHandout: behind the lock, the manager, the   *)
(* clock and the clean-up there is a bounded queue of sessions that change *)
(* hands one at a time (session.py:600-664).                               *)
THEOREM PoolImplementsHandout == PoolSpec => ImplementsHandout
<1>1. PoolInit => WaitInv /\ JanitorInv
  BY WaitInvInit
<1>2. IInv /\ PoolInv /\ WaitInv /\ JanitorInv /\ [PoolNext]_pvars
        => (WaitInv /\ JanitorInv)'
  BY WaitInvStep, JanitorStep, PoolStepIsNext
<1>3. IInv /\ PoolInv /\ WaitInv /\ JanitorInv /\ [PoolNext]_pvars
        => [Handout!Next]_Handout!vars
  BY HandoutStep
<1> QED
  BY <1>1, <1>2, <1>3, HandoutInit, PoolInvHolds, PTL
  DEF PoolSpec, ImplementsHandout, Handout!Spec

(* Exclusion follows from the promise alone: every specification that      *)
(* implements SessionHandout has it.                                       *)
HandoutInv ==
  /\ idle \in Seq(Sid)
  /\ held \in [Caller -> Sid \cup {NoSid}]
  /\ Listed \subseteq Used
  /\ \A c \in Caller : held[c] # NoSid => held[c] \in Used
  /\ ExclusivelyHeld

LEMMA HandoutKeepsInv ==
  ASSUME HandoutInv, [Handout!Next]_Handout!vars
  PROVE  HandoutInv'
<1> USE DEF HandoutInv, ExclusivelyHeld, Handout!vars
<1>1. ASSUME NEW c \in Caller, Handout!Take(c)
      PROVE  HandoutInv'
  <2>1. /\ idle # <<>> /\ idle' = Tail(idle) /\ Used' = Used
        /\ held' = [held EXCEPT ![c] = Head(idle)]
    BY <1>1 DEF Handout!Take, Used
  <2>2. /\ Head(idle) \in Listed /\ Head(idle) \in Sid /\ idle' \in Seq(Sid)
        /\ Listed' \subseteq Listed /\ Head(idle) \notin Listed'
        /\ \A i, j \in 1 .. Len(idle') : idle'[i] = idle'[j] => i = j
    BY <2>1, AfterPop
  <2> QED
    BY <2>1, <2>2, SMT
<1>2. ASSUME NEW c \in Caller, Handout!GiveBack(c)
      PROVE  HandoutInv'
  <2>1. /\ held[c] # NoSid /\ idle' = Append(idle, held[c]) /\ Used' = Used
        /\ held' = [held EXCEPT ![c] = NoSid]
    BY <1>2 DEF Handout!GiveBack, Used
  <2>2. held[c] \in Sid /\ held[c] \notin Listed
    BY <2>1
  <2>3. /\ idle' \in Seq(Sid) /\ Listed' = Listed \cup {held[c]}
        /\ \A i, j \in 1 .. Len(idle') : idle'[i] = idle'[j] => i = j
    BY <2>1, <2>2, AfterAppend
  <2> QED
    BY <2>1, <2>2, <2>3, SMT
<1>3. ASSUME NEW c \in Caller, Handout!Drop(c)
      PROVE  HandoutInv'
  BY <1>3, SMT DEF Handout!Drop, Used, Listed
<1>4. ASSUME NEW c \in Caller, NEW s \in Sid, Handout!Make(c, s)
      PROVE  HandoutInv'
  <2>1. /\ s \notin Used /\ Used' = Used \cup {s} /\ UNCHANGED idle
        /\ held' = [held EXCEPT ![c] = s]
    BY <1>4 DEF Handout!Make, Used
  <2>2. Listed' = Listed
    BY <2>1 DEF Listed
  <2> QED
    BY <2>1, <2>2, SMT
<1>5. CASE Handout!Discard
  <2>1. idle # <<>> /\ idle' = Tail(idle) /\ Used' = Used /\ UNCHANGED held
    BY <1>5 DEF Handout!Discard, Used
  <2>2. /\ idle' \in Seq(Sid) /\ Listed' \subseteq Listed
        /\ \A i, j \in 1 .. Len(idle') : idle'[i] = idle'[j] => i = j
    BY <2>1, AfterPop
  <2> QED
    BY <2>1, <2>2
<1>6. CASE UNCHANGED Handout!vars
  <2>1. UNCHANGED <<idle, held>> /\ Used' = Used /\ Listed' = Listed
    BY <1>6 DEF Used, Listed
  <2> QED
    BY <2>1
<1> QED
  BY <1>1, <1>2, <1>3, <1>4, <1>5, <1>6 DEF Handout!Next

THEOREM HandoutIsExclusive == Handout!Spec => []Handout!Exclusive
<1>1. Handout!Init => HandoutInv
  <2> SUFFICES ASSUME Handout!Init PROVE HandoutInv
    OBVIOUS
  <2>1. idle \in Seq(Sid) /\ Len(idle) = 0
    BY EmptySeq DEF Handout!Init
  <2> QED
    BY <2>1 DEF Handout!Init, HandoutInv, ExclusivelyHeld, Listed
<1>2. HandoutInv /\ [Handout!Next]_Handout!vars => HandoutInv'
  BY HandoutKeepsInv
<1>3. HandoutInv => Handout!Exclusive
  <2> SUFFICES ASSUME HandoutInv PROVE Handout!Exclusive
    OBVIOUS
  <2>1. \A i \in 1 .. Len(idle) : idle[i] \in Listed
    BY DEF Listed
  <2> QED
    BY <2>1 DEF HandoutInv, ExclusivelyHeld, Handout!Exclusive
<1> QED
  BY <1>1, <1>2, <1>3, PTL DEF Handout!Spec

(* Behind a pool too, sessions and openings stay within max_sessions, and  *)
(* so do the containers the manager has under its control.                 *)
THEOREM PoolWithinLimits ==
  PoolSpec => ImplementsSessionLimit /\ []ContainersWithinLimit
  BY PoolUsesManager, Refinement, ContainersLimited, PTL

-----------------------------------------------------------------------------
(* Calls that hold the pool's lock come nearer to their end.               *)

StagesLeft(label) ==
  IF label = "warm" THEN 4 ELSE IF label \in {"give", "pop"} THEN 3
  ELSE IF label = "back" THEN 2
  ELSE IF label \in {"create", "take", "evict"} THEN 1 ELSE 0

(* A later stage of the call; or, within a stage, a session less to try or *)
(* to make; or a step of the manager's call, or its result put away.       *)
PoolNearer(c) ==
  \/ StagesLeft(stage'[c]) < StagesLeft(stage[c])
  \/ /\ stage'[c] = stage[c]
     /\ \/ stage[c] = "pop" /\ Len(idle') < Len(idle)
        \/ stage[c] = "warm" /\ toWarm' < toWarm
        \/ /\ UNCHANGED toWarm
           /\ stage[c] = "pop" => UNCHANGED idle
           /\ \/ Nearer(c)
              \/ Rests(c) /\ held[c] # NoSid /\ held'[c] = NoSid

PoolRests(c) ==
  /\ stage'[c] = stage[c] /\ held'[c] = held[c] /\ Rests(c)
  /\ UNCHANGED <<idle, toWarm>>

(* What LockReleased rests on: whatever a call that has the lock does      *)
(* brings it nearer to the release of the lock, and while it has the lock  *)
(* nothing that other clients, the cleanup thread or the clock do sets it  *)
(* back or touches the list.                                               *)
LockHolderAdvances ==
  [][\A c \in Caller : stage[c] \in Locked =>
       /\ PoolGoesOn(c) => PoolNearer(c)
       /\ ~PoolGoesOn(c) => PoolRests(c)]_pvars

LEMMA PoolGoesOnAdvances ==
  ASSUME IInv, PoolInv, WaitInv, NEW c \in Caller, stage[c] \in Locked,
         PoolGoesOn(c)
  PROVE  PoolNearer(c)
<1> USE DEF At, Enter, Give, Locked, PoolNearer, StagesLeft
<1>0. /\ c \in Thread /\ TypeCore
      /\ idle \in Seq(Sid) /\ Len(idle) \in Nat /\ toWarm \in Nat
      /\ stage \in [Caller -> PoolStage]
      /\ held \in [Caller -> Sid \cup {NoSid}]
  BY LenProperties, PoolAssumption DEF PoolInv, PoolTypeOK, IInv, Thread
<1>1. CASE Pop(c)
  <2>1. idle \in Seq(Sid) /\ idle # <<>> /\ idle' = Tail(idle) /\ stage[c] = "pop"
    BY <1>0, <1>1 DEF Pop
  <2>2. Len(idle') < Len(idle)
    BY <1>0, <2>1, HeadTailProperties
  <2>3. CASE Enter(c, "take")
    BY <1>0, <2>1, <2>3
  <2>4. CASE UNCHANGED stage
    BY <2>1, <2>2, <2>4
  <2> QED
    BY <1>1, <2>3, <2>4 DEF Pop
<1>2. CASE PopNone(c) \/ Taken(c) \/ Created(c) \/ Dropped(c)
  BY <1>0, <1>2 DEF PopNone, Taken, Created, Dropped
<1>3. CASE ReleaseGet(c) \/ GiveBack(c)
  BY <1>0, <1>3 DEF ReleaseGet, GiveBack
<1>4. CASE WarmCreate /\ c = Main
  BY <1>0, <1>4 DEF WarmCreate
<1>5. CASE WarmKeep /\ c = Main
  <2>1. Rests(c)
    BY <1>5 DEF WarmKeep, vars, Rests
  <2> QED
    BY <1>0, <1>5, <2>1 DEF WarmKeep
<1>6. CASE WarmDone /\ c = Main
  BY <1>0, <1>6 DEF WarmDone
<1>7. CASE ManagerGoesOn(c)
  <2>1. Nearer(c)
    BY <1>0, <1>7, ContinueAdvances DEF ManagerGoesOn
  <2> QED
    BY <1>7, <2>1 DEF ManagerGoesOn
<1> QED
  BY <1>1, <1>2, <1>3, <1>4, <1>5, <1>6, <1>7 DEF PoolGoesOn

(* A step of a client moves no other client, and the list only if it has   *)
(* the lock or is about to take it.                                        *)
LEMMA OtherClientsRest ==
  ASSUME IInv, PoolInv, NEW d \in Caller, PoolGoesOn(d) \/ ClientBegins(d)
  PROVE  /\ \A c \in Caller \ {d} :
              Rests(c) /\ stage'[c] = stage[c] /\ held'[c] = held[c]
         /\ UNCHANGED <<idle, toWarm>> \/ stage[d] \in Locked
<1> USE DEF At, Enter, Give, Locked
<1>0. /\ d \in Thread /\ TypeCore
      /\ stage \in [Caller -> PoolStage]
      /\ held \in [Caller -> Sid \cup {NoSid}]
      /\ \A s \in sessions : s \in Sid
  BY DEF PoolInv, PoolTypeOK, IInv, TypeCore, Thread
<1>1. ASSUME NEW s, \/ Touch(d, s, "save") \/ ExecuteInSession(d, s)
                     \/ Dispose(d, s) \/ AcquireSlot(d) \/ FindFull(d)
                     \/ UNCHANGED vars
      PROVE  \A c \in Caller \ {d} : Rests(c)
  <2>0. pc \in [Thread -> PcState] /\ DOMAIN sid = Thread /\ DOMAIN dels = Thread
        /\ DOMAIN pc = Thread /\ Caller \subseteq Thread
    BY <1>0 DEF TypeCore, Thread
  <2>1. CASE Touch(d, s, "save") \/ ExecuteInSession(d, s)
    BY <2>0, <2>1 DEF Touch, ExecuteInSession, Goto, WorkOn, Rests
  <2>2. CASE Dispose(d, s)
    BY <2>0, <2>2 DEF Dispose, DestroySession, Goto, vars, Rests
  <2>3. CASE AcquireSlot(d) \/ FindFull(d) \/ UNCHANGED vars
    BY <2>0, <2>3 DEF AcquireSlot, TakePermit, FindFull, Goto, vars, Rests
  <2> QED
    BY <1>1, <2>1, <2>2, <2>3
<1>2. CASE Pop(d) \/ PopNone(d) \/ ReleaseGet(d) \/ ReleaseDestroy(d)
  BY <1>0, <1>1, <1>2 DEF Pop, PopNone, ReleaseGet, ReleaseDestroy
<1>3. CASE Taken(d) \/ Created(d) \/ Dropped(d) \/ Acquire(d) \/ Release(d)
  BY <1>0, <1>1, <1>3 DEF Taken, Created, Dropped, Acquire, Release
<1>4. CASE GiveBack(d)
  BY <1>0, <1>1, <1>4 DEF GiveBack
<1>5. CASE Use(d)
  BY <1>0, <1>1, <1>5 DEF Use, poolVars
<1>6. CASE d = Main /\ (WarmCreate \/ WarmKeep \/ WarmDone)
  BY <1>0, <1>1, <1>6 DEF WarmCreate, WarmKeep, WarmDone
<1>7. CASE ManagerGoesOn(d)
  <2>1. \A c \in Caller \ {d} : Rests(c)
    BY <1>0, <1>7, ContinueAdvances DEF ManagerGoesOn, Thread
  <2> QED
    BY <1>0, <1>7, <2>1 DEF ManagerGoesOn
<1> QED
  BY <1>2, <1>3, <1>4, <1>5, <1>6, <1>7 DEF PoolGoesOn, ClientBegins

(* No call keeps the pool's lock by going round in circles or because of   *)
(* what others do.                                                         *)
THEOREM LockHoldersAdvance == PoolSpec => LockHolderAdvances
<1> DEFINE Onward(c) == stage[c] \in Locked =>
             /\ PoolGoesOn(c) => PoolNearer(c)
             /\ ~PoolGoesOn(c) => PoolRests(c)
<1>1. ASSUME IInv, PoolInv, WaitInv, [PoolNext]_pvars, NEW c \in Caller
      PROVE  Onward(c)
  <2>1. stage[c] \in Locked /\ PoolGoesOn(c) => PoolNearer(c)
    BY <1>1, PoolGoesOnAdvances
  <2>2. ASSUME stage[c] \in Locked, ~PoolGoesOn(c)
        PROVE  PoolRests(c)
    <3>1. ASSUME NEW d \in Caller, PoolGoesOn(d) \/ ClientBegins(d)
          PROVE  PoolRests(c)
      <4>1. d # c
        <5>1. CASE PoolGoesOn(d)
          BY <2>2, <5>1
        <5>2. CASE ClientBegins(d)
          BY <2>2, <5>2
          DEF ClientBegins, Acquire, Use, Release, ReleaseDestroy, At, Locked
        <5> QED
          BY <3>1, <5>1, <5>2
      <4>2. stage[d] \notin Locked
        BY <1>1, <2>2, <4>1 DEF PoolInv, LockInv
      <4> QED
        BY <1>1, <3>1, <4>1, <4>2, OtherClientsRest DEF PoolRests
    <3>2. CASE (Continue(Janitor) \/ CleanupPass \/ Tick) /\ UNCHANGED poolVars
      <4>1. Rests(c)
        <5>1. CASE Continue(Janitor)
          BY <1>1, <5>1, ContinueAdvances, ManagerAssumption DEF Thread, IInv
        <5>2. CASE CleanupPass \/ Tick
          BY <1>1, <5>2, ManagerAssumption
          DEF CleanupPass, Tick, Goto, Rests, IInv, TypeCore, Thread
        <5> QED
          BY <3>2, <5>1, <5>2
      <4> QED
        BY <3>2, <4>1 DEF PoolRests, poolVars
    <3>3. CASE UNCHANGED pvars
      BY <3>3 DEF pvars, poolVars, vars, PoolRests, Rests
    <3> QED
      BY <1>1, <3>1, <3>2, <3>3 DEF PoolNext
  <2> QED
    BY <2>1, <2>2
<1>2. IInv /\ PoolInv /\ WaitInv /\ [PoolNext]_pvars
        => [\A c \in Caller : Onward(c)]_pvars
  BY <1>1
<1>3. PoolInit => WaitInv
  BY WaitInvInit
<1>4. IInv /\ PoolInv /\ WaitInv /\ [PoolNext]_pvars => WaitInv'
  BY WaitInvStep
<1> QED
  BY <1>2, <1>3, <1>4, PoolInvHolds, PTL DEF PoolSpec, LockHolderAdvances
=============================================================================
