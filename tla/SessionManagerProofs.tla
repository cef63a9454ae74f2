------------------------ MODULE SessionManagerProofs ------------------------
(***************************************************************************)
(* Proofs about SessionManager, for any number of callers, sandboxes,      *)
(* permits and any ttl.  The inductive invariant is                        *)
(*                                                                         *)
(*   TypeCore /\ WorkInv /\ SlotsConserved /\ NoAbandonedContainer         *)
(*     /\ StoreCoversSessions                                              *)
(*                                                                         *)
(* proved one conjunct at a time, each from the ones before it.            *)
(***************************************************************************)
EXTENDS SessionManager, FiniteSetTheorems, TLAPS

(* TypeOK without the upper bound of permits, which only SlotsConserved    *)
(* gives.                                                                  *)
TypeCore ==
  /\ sessions \in SUBSET Sid /\ IsFiniteSet(sessions)
  /\ permits \in Nat
  /\ idleTime \in [Sid -> 0 .. TTL + 1]
  /\ issued \in SUBSET Sid
  /\ container \in [Sid -> ContainerState]
  /\ store \in [Sid -> 0 .. TTL]
  /\ stopping \in BOOLEAN
  /\ pc \in [Thread -> PcState]
  /\ sid \in [Thread -> Sid \cup {NoSid}]
  /\ dels \in [Thread -> SUBSET Sid]

(***************************************************************************)
(* The steps of the manager, whoever takes them.                           *)
(***************************************************************************)
LEMMA StepCases ==
  ASSUME [Next]_vars
  PROVE  \/ \E t \in Thread :
              \/ AcquireSlot(t) \/ RetryAcquire(t) \/ FindFull(t)
              \/ MakeRoom(t) \/ GiveUp(t) \/ CreateFails(t) \/ Register(t)
              \/ RunReturns(t) \/ RunTimesOut(t) \/ SaveState(t)
              \/ StopSignal(t) \/ StopDestroyAll(t)
              \/ \E s \in Sid : \/ CreateSandbox(t, s)
                                \/ \E l \in Saving : Touch(t, s, l)
                                \/ DestroySession(t, s) \/ DeleteState(t, s)
         \/ CleanupPass
         \/ Tick
         \/ UNCHANGED vars
  BY Zenon DEF Next, Call, Continue, Thread, GetSession, ExecuteInSession,
               Saving

(***************************************************************************)
(* Destroying sessions of the table gives exactly their permits back and   *)
(* touches nobody else's session or container.                             *)
(***************************************************************************)
LEMMA DestroyEffect ==
  ASSUME TypeCore, NEW S \in SUBSET sessions, DestroyUnlocked(S)
  PROVE  /\ sessions' = sessions \ S
         /\ IsFiniteSet(sessions')
         /\ permits' = permits + Cardinality(S)
         /\ permits' \in Nat
         /\ permits' + Cardinality(sessions') = permits + Cardinality(sessions)
         /\ idleTime' \in [Sid -> 0 .. TTL + 1]
         /\ container' \in [Sid -> ContainerState]
         /\ \A s \in sessions' : idleTime'[s] = idleTime[s]
         /\ \A s \in Sid : container'[s] = "held"
                             => container[s] = "held" /\ s \notin S
<1>1. IsFiniteSet(sessions) /\ IsFiniteSet(S) /\ IsFiniteSet(sessions \ S)
  BY FS_Subset DEF TypeCore
<1>2. /\ Cardinality(S) \in Nat
      /\ Cardinality(sessions \ S) \in Nat
      /\ Cardinality(sessions) \in Nat
  BY <1>1, FS_CardinalityType
<1>3. Cardinality(sessions) = Cardinality(sessions \ S) + Cardinality(S)
  <2>1. sessions = (sessions \ S) \cup S /\ (sessions \ S) \cap S = {}
    OBVIOUS
  <2>2. Cardinality((sessions \ S) \cup S)
          = Cardinality(sessions \ S) + Cardinality(S)
              - Cardinality((sessions \ S) \cap S)
    BY <1>1, FS_Union
  <2>3. Cardinality((sessions \ S) \cap S) = 0
    BY <2>1, FS_EmptySet
  <2>4. QED
    BY <1>2, <2>1, <2>2, <2>3
<1>4. sessions' = sessions \ S /\ permits' = permits + Cardinality(S)
  BY DEF DestroyUnlocked
<1>5. PICK Refused \in SUBSET S : DestroySandboxes(S, Refused)
  BY DEF DestroyUnlocked
<1>6. /\ container' \in [Sid -> ContainerState]
      /\ \A s \in Sid : container'[s] = "held"
                          => container[s] = "held" /\ s \notin S
  BY <1>5 DEF DestroySandboxes, TypeCore, ContainerState
<1>7. /\ idleTime' \in [Sid -> 0 .. TTL + 1]
      /\ \A s \in sessions' : idleTime'[s] = idleTime[s]
  BY <1>4, ManagerAssumption DEF DestroyUnlocked, TypeCore
<1>8. permits \in Nat
  BY DEF TypeCore
<1>9. QED
  BY <1>1, <1>2, <1>3, <1>4, <1>6, <1>7, <1>8

LEMMA ExpiredInTable == Expired \in SUBSET sessions
  BY DEF Expired

-----------------------------------------------------------------------------
(* Types.                                                                  *)

LEMMA TypeCoreInit == Init => TypeCore
<1>1. IsFiniteSet({})
  BY FS_EmptySet
<1>2. 0 \in 0 .. TTL /\ 0 \in 0 .. TTL + 1 /\ MaxSessions \in Nat
  BY ManagerAssumption
<1>3. QED
  BY <1>1, <1>2 DEF Init, TypeCore, ContainerState, PcState

LEMMA TypeCoreStep == TypeCore /\ WorkInv /\ [Next]_vars => TypeCore'
<1> SUFFICES ASSUME TypeCore, WorkInv, [Next]_vars PROVE TypeCore'
  OBVIOUS
<1> USE ManagerAssumption DEF Goto, WorkOn, PcState, Holding, Saving, Deleting
<1>1. ASSUME NEW t \in Thread,
             \/ AcquireSlot(t) \/ RetryAcquire(t) \/ FindFull(t)
             \/ GiveUp(t) \/ CreateFails(t) \/ RunReturns(t) \/ StopSignal(t)
      PROVE  TypeCore'
  <2>1. CASE AcquireSlot(t) \/ RetryAcquire(t)
    BY <2>1 DEF TypeCore, AcquireSlot, RetryAcquire, TakePermit
  <2>2. CASE FindFull(t) \/ GiveUp(t) \/ StopSignal(t)
    BY <2>2 DEF TypeCore, FindFull, GiveUp, StopSignal
  <2>3. CASE CreateFails(t)
    BY <2>3 DEF TypeCore, CreateFails
  <2>4. CASE RunReturns(t)
    BY <2>4 DEF TypeCore, RunReturns
  <2>5. QED
    BY <1>1, <2>1, <2>2, <2>3, <2>4
<1>2. ASSUME NEW t \in Thread, MakeRoom(t) PROVE TypeCore'
  BY <1>2, ExpiredInTable, DestroyEffect DEF TypeCore, MakeRoom
<1>3. ASSUME NEW t \in Thread, Register(t) PROVE TypeCore'
  <2>1. sid[t] \in Sid
    BY <1>3 DEF Register, WorkInv, TypeCore
  <2>2. IsFiniteSet(sessions')
    BY <1>3, FS_AddElement DEF Register, TypeCore
  <2>3. QED
    BY <1>3, <2>1, <2>2 DEF TypeCore, Register
<1>4. ASSUME NEW t \in Thread, RunTimesOut(t) PROVE TypeCore'
  <2>1. container' \in [Sid -> ContainerState]
    BY <1>4 DEF RunTimesOut, DestroySandboxes, TypeCore, ContainerState
  <2>2. QED
    BY <1>4, <2>1 DEF TypeCore, RunTimesOut
<1>5. ASSUME NEW t \in Thread, SaveState(t) PROVE TypeCore'
  BY <1>5 DEF TypeCore, SaveState
<1>6. ASSUME NEW t \in Thread, StopDestroyAll(t) PROVE TypeCore'
  BY <1>6, DestroyEffect DEF TypeCore, StopDestroyAll
<1>7. ASSUME NEW t \in Thread, NEW s \in Sid, CreateSandbox(t, s)
      PROVE  TypeCore'
  BY <1>7 DEF TypeCore, CreateSandbox, ContainerState
<1>8. ASSUME NEW t \in Thread, NEW s \in Sid, NEW l \in Saving, Touch(t, s, l)
      PROVE  TypeCore'
  BY <1>8 DEF TypeCore, Touch
<1>9. ASSUME NEW t \in Thread, NEW s \in Sid, DestroySession(t, s)
      PROVE  TypeCore'
  <2>1. {s} \in SUBSET sessions
    BY <1>9 DEF DestroySession
  <2>2. QED
    BY <1>9, <2>1, DestroyEffect DEF TypeCore, DestroySession
<1>10. ASSUME NEW t \in Thread, NEW s \in Sid, DeleteState(t, s)
       PROVE  TypeCore'
  BY <1>10 DEF TypeCore, DeleteState
<1>11. CASE CleanupPass
  BY <1>11, ExpiredInTable, DestroyEffect DEF TypeCore, CleanupPass, Thread
<1>12. CASE Tick
  BY <1>12 DEF TypeCore, Tick
<1>13. CASE UNCHANGED vars
  BY <1>13 DEF TypeCore, vars
<1>14. QED
  BY <1>1, <1>2, <1>3, <1>4, <1>5, <1>6, <1>7, <1>8, <1>9, <1>10, <1>11,
     <1>12, <1>13, StepCases

-----------------------------------------------------------------------------
(* Who works on which sandbox.                                             *)

LEMMA WorkInvInit == Init => WorkInv
  BY DEF Init, WorkInv, Makers, Saving

(* Destroying sessions of the table and going on to delete their keys      *)
(* keeps the books: nobody is about to register one of them.               *)
LEMMA DestroyKeepsWorkInv ==
  ASSUME TypeCore, WorkInv, NEW S \in SUBSET sessions, DestroyUnlocked(S),
         NEW t \in Thread, pc[t] # "made",
         NEW label \in PcState \ (Holding \cup Saving \cup {"run"}),
         Goto(t, label), UNCHANGED <<issued, sid>>,
         \/ dels' = [dels EXCEPT ![t] = S]
         \/ UNCHANGED dels
  PROVE  WorkInv'
<1> USE DEF Goto, TypeCore, PcState, Holding, Saving, Deleting
<1>1. sessions' = sessions \ S
  BY DEF DestroyUnlocked
<1>2. Makers' = Makers
  BY DEF Makers
<1>3. Making' = Making /\ Making \cap sessions = {}
  BY <1>2 DEF Making, WorkInv, Makers
<1>4. \A u \in Thread : dels'[u] \subseteq dels[u] \cup S
  OBVIOUS
<1>5. \A u \in Thread : dels'[u] \subseteq issued' \ (sessions' \cup Making')
  BY <1>1, <1>3, <1>4 DEF WorkInv
<1>6. QED
  BY <1>1, <1>2, <1>5 DEF WorkInv

LEMMA WorkInvStep == TypeCore /\ WorkInv /\ [Next]_vars => WorkInv'
<1> SUFFICES ASSUME TypeCore, WorkInv, [Next]_vars PROVE WorkInv'
  OBVIOUS
<1> USE ManagerAssumption DEF Goto, WorkOn, PcState, Holding, Saving, Deleting
<1>1. ASSUME NEW t \in Thread,
             \/ AcquireSlot(t) \/ RetryAcquire(t) \/ FindFull(t)
             \/ GiveUp(t) \/ CreateFails(t) \/ RunReturns(t) \/ StopSignal(t)
             \/ RunTimesOut(t) \/ SaveState(t)
      PROVE  WorkInv'
  <2>1. /\ UNCHANGED <<sessions, issued, dels>>
        /\ \A u \in Thread :
             /\ pc'[u] = "made" <=> pc[u] = "made"
             /\ pc'[u] = "made" => sid'[u] = sid[u]
             /\ pc'[u] \in Saving \cup {"run"}
                  => pc[u] \in Saving \cup {"run"} /\ sid'[u] = sid[u]
    BY <1>1 DEF TypeCore, AcquireSlot, RetryAcquire, TakePermit, FindFull,
                GiveUp, CreateFails, RunReturns, StopSignal, RunTimesOut,
                SaveState
  <2>2. Makers' = Makers
    BY <2>1 DEF Makers
  <2>3. Making' = Making
    BY <2>1, <2>2 DEF Making, Makers
  <2>4. QED
    BY <2>1, <2>2, <2>3 DEF WorkInv, Makers
<1>2. ASSUME NEW t \in Thread, MakeRoom(t) PROVE WorkInv'
  BY <1>2, ExpiredInTable, DestroyKeepsWorkInv DEF MakeRoom
<1>3. ASSUME NEW t \in Thread, StopDestroyAll(t) PROVE WorkInv'
  BY <1>3, DestroyKeepsWorkInv DEF StopDestroyAll
<1>4. ASSUME NEW t \in Thread, NEW s \in Sid, DestroySession(t, s)
      PROVE  WorkInv'
  <2>1. {s} \in SUBSET sessions
    BY <1>4 DEF DestroySession
  <2>2. QED
    BY <1>4, <2>1, DestroyKeepsWorkInv DEF DestroySession
<1>5. CASE CleanupPass
  BY <1>5, ExpiredInTable, DestroyKeepsWorkInv DEF CleanupPass, Thread
<1>6. ASSUME NEW t \in Thread, NEW s \in Sid, CreateSandbox(t, s)
      PROVE  WorkInv'
  <2>1. /\ Makers' = Makers \cup {t} /\ t \notin Makers
        /\ sid'[t] = s
        /\ \A u \in Thread \ {t} : sid'[u] = sid[u] /\ pc'[u] = pc[u]
    BY <1>6 DEF CreateSandbox, Makers, TypeCore
  <2>2. Making' = Making \cup {s}
    BY <2>1 DEF Making, Makers
  <2>3. /\ s \notin issued /\ s \notin sessions
        /\ issued' = issued \cup {s}
        /\ UNCHANGED <<sessions, dels>>
    BY <1>6 DEF CreateSandbox, WorkInv
  <2>4. \A u \in Thread : dels'[u] \subseteq issued' \ (sessions' \cup Making')
    BY <2>2, <2>3 DEF WorkInv
  <2>5. \A u, v \in Makers' : sid'[u] = sid'[v] => u = v
    BY <2>1, <2>3 DEF WorkInv, Makers
  <2>6. \A u \in Thread :
          /\ pc'[u] \in Saving \cup {"made", "run"} => sid'[u] \in issued'
          /\ pc'[u] = "made" => sid'[u] \notin sessions'
    BY <2>1, <2>3 DEF WorkInv
  <2>7. QED
    BY <2>3, <2>4, <2>5, <2>6 DEF WorkInv
<1>7. ASSUME NEW t \in Thread, Register(t) PROVE WorkInv'
  <2>1. /\ pc[t] = "made" /\ t \in Makers
        /\ UNCHANGED <<issued, sid, dels>>
        /\ sessions' = sessions \cup {sid[t]}
        /\ sid[t] \in issued /\ sid[t] \in Making
    BY <1>7 DEF Register, WorkInv, Makers, Making
  <2>2. /\ Makers' = Makers \ {t}
        /\ pc'[t] = "save"
        /\ \A u \in Thread \ {t} : pc'[u] = pc[u]
    BY <1>7 DEF Register, Makers, TypeCore
  <2>3. Making' = Making \ {sid[t]}
    BY <2>1, <2>2 DEF Making, WorkInv
  <2>4. \A u \in Thread :
          /\ pc'[u] \in Saving \cup {"made", "run"} => sid'[u] \in issued'
          /\ pc'[u] = "made" => sid'[u] \notin sessions'
    BY <2>1, <2>2 DEF WorkInv, Makers
  <2>5. QED
    BY <2>1, <2>2, <2>3, <2>4 DEF WorkInv
<1>8. ASSUME NEW t \in Thread, NEW s \in Sid, NEW l \in Saving, Touch(t, s, l)
      PROVE  WorkInv'
  <2>1. /\ Makers' = Makers /\ t \notin Makers
        /\ UNCHANGED <<sessions, issued, dels>>
        /\ s \in issued /\ sid'[t] = s
        /\ \A u \in Thread \ {t} : sid'[u] = sid[u] /\ pc'[u] = pc[u]
        /\ pc'[t] \in Saving
    BY <1>8 DEF Touch, Makers, TypeCore, WorkInv
  <2>2. Making' = Making
    BY <2>1 DEF Making, Makers
  <2>3. QED
    BY <2>1, <2>2 DEF WorkInv, Makers
<1>9. ASSUME NEW t \in Thread, NEW s \in Sid, DeleteState(t, s)
      PROVE  WorkInv'
  <2>1. /\ Makers' = Makers /\ UNCHANGED <<sessions, issued, sid>>
        /\ \A u \in Thread : dels'[u] \subseteq dels[u]
        /\ \A u \in Thread : pc'[u] \in Saving \cup {"made", "run"}
                             => pc'[u] = pc[u]
    BY <1>9 DEF DeleteState, Makers, TypeCore
  <2>2. Making' = Making
    BY <2>1 DEF Making
  <2>3. QED
    BY <2>1, <2>2 DEF WorkInv
<1>10. CASE Tick \/ UNCHANGED vars
  BY <1>10 DEF Tick, vars, WorkInv, Makers, Making
<1>11. QED
  BY <1>1, <1>2, <1>3, <1>4, <1>5, <1>6, <1>7, <1>8, <1>9, <1>10, StepCases

-----------------------------------------------------------------------------
(* Permits.                                                                *)

LEMMA CreatorsFinite == IsFiniteSet(Creators) /\ Cardinality(Creators) \in Nat
<1>1. IsFiniteSet(Thread)
  BY ManagerAssumption, FS_AddElement DEF Thread
<1>2. IsFiniteSet(Creators)
  BY <1>1, FS_Subset DEF Creators
<1>3. QED
  BY <1>2, FS_CardinalityType

LEMMA SlotsInit == Init => SlotsConserved
<1> SUFFICES ASSUME Init PROVE SlotsConserved
  OBVIOUS
<1>1. Creators = {} /\ sessions = {} /\ permits = MaxSessions
  BY DEF Init, Creators, Holding
<1>2. Cardinality({}) = 0
  BY FS_EmptySet
<1>3. QED
  BY <1>1, <1>2, ManagerAssumption DEF SlotsConserved

LEMMA SlotsStep ==
  TypeCore /\ WorkInv /\ SlotsConserved /\ [Next]_vars => SlotsConserved'
<1> SUFFICES ASSUME TypeCore, WorkInv, SlotsConserved, [Next]_vars
             PROVE  SlotsConserved'
  OBVIOUS
<1> USE ManagerAssumption DEF Goto, WorkOn, Holding, Saving, Deleting
<1>1. /\ Cardinality(Creators) \in Nat /\ Cardinality(sessions) \in Nat
      /\ permits \in Nat /\ IsFiniteSet(sessions) /\ IsFiniteSet(Creators)
  BY CreatorsFinite, FS_CardinalityType DEF TypeCore
<1>2. ASSUME NEW t \in Thread, AcquireSlot(t) \/ RetryAcquire(t)
      PROVE  SlotsConserved'
  <2>1. /\ Creators' = Creators \cup {t} /\ t \notin Creators
        /\ permits' = permits - 1 /\ sessions' = sessions
    BY <1>2 DEF AcquireSlot, RetryAcquire, TakePermit, Creators, TypeCore
  <2>2. Cardinality(Creators') = Cardinality(Creators) + 1
    BY <1>1, <2>1, FS_AddElement
  <2>3. QED
    BY <1>1, <2>1, <2>2 DEF SlotsConserved
<1>3. ASSUME NEW t \in Thread, CreateFails(t) PROVE SlotsConserved'
  <2>1. /\ Creators' = Creators \ {t} /\ t \in Creators
        /\ permits' = permits + 1 /\ sessions' = sessions
    BY <1>3 DEF CreateFails, Creators, TypeCore
  <2>2. Cardinality(Creators') = Cardinality(Creators) - 1
    BY <1>1, <2>1, FS_RemoveElement
  <2>3. QED
    BY <1>1, <2>1, <2>2 DEF SlotsConserved
<1>4. ASSUME NEW t \in Thread, Register(t) PROVE SlotsConserved'
  <2>1. /\ Creators' = Creators \ {t} /\ t \in Creators
        /\ sessions' = sessions \cup {sid[t]} /\ sid[t] \notin sessions
        /\ permits' = permits
    BY <1>4 DEF Register, Creators, TypeCore, WorkInv
  <2>2. Cardinality(Creators') = Cardinality(Creators) - 1
    BY <1>1, <2>1, FS_RemoveElement
  <2>3. Cardinality(sessions') = Cardinality(sessions) + 1
    BY <1>1, <2>1, FS_AddElement
  <2>4. QED
    BY <1>1, <2>1, <2>2, <2>3 DEF SlotsConserved
<1>5. ASSUME NEW S \in SUBSET sessions, DestroyUnlocked(S), Creators' = Creators
      PROVE  SlotsConserved'
  <2>1. permits' + Cardinality(sessions') = permits + Cardinality(sessions)
    BY <1>5, DestroyEffect
  <2>2. permits' \in Nat /\ IsFiniteSet(sessions')
    BY <1>5, DestroyEffect
  <2>3. Cardinality(sessions') \in Nat
    BY <2>2, FS_CardinalityType
  <2>4. QED
    BY <1>1, <1>5, <2>1, <2>2, <2>3 DEF SlotsConserved
<1>6. ASSUME NEW t \in Thread, MakeRoom(t) \/ StopDestroyAll(t)
      PROVE  SlotsConserved'
  <2>1. Creators' = Creators
    BY <1>6 DEF MakeRoom, StopDestroyAll, Creators, TypeCore
  <2>2. QED
    BY <1>5, <1>6, <2>1, ExpiredInTable DEF MakeRoom, StopDestroyAll
<1>7. ASSUME NEW t \in Thread, NEW s \in Sid, DestroySession(t, s)
      PROVE  SlotsConserved'
  <2>1. Creators' = Creators /\ {s} \in SUBSET sessions
    BY <1>7 DEF DestroySession, Creators, TypeCore
  <2>2. QED
    BY <1>5, <1>7, <2>1 DEF DestroySession
<1>8. CASE CleanupPass
  <2>1. Creators' = Creators
    BY <1>8 DEF CleanupPass, Creators, TypeCore, Thread
  <2>2. QED
    BY <1>5, <1>8, <2>1, ExpiredInTable DEF CleanupPass
<1>9. ASSUME NEW t \in Thread,
             \/ FindFull(t) \/ GiveUp(t) \/ RunReturns(t) \/ RunTimesOut(t)
             \/ SaveState(t) \/ StopSignal(t)
      PROVE  SlotsConserved'
  <2>1. Creators' = Creators /\ UNCHANGED <<permits, sessions>>
    BY <1>9 DEF FindFull, GiveUp, RunReturns, RunTimesOut, SaveState,
                StopSignal, Creators, TypeCore
  <2>2. QED
    BY <2>1 DEF SlotsConserved
<1>10. ASSUME NEW t \in Thread, NEW s \in Sid,
              CreateSandbox(t, s) \/ (\E l \in Saving : Touch(t, s, l)) \/ DeleteState(t, s)
       PROVE  SlotsConserved'
  <2>1. Creators' = Creators /\ UNCHANGED <<permits, sessions>>
    BY <1>10 DEF CreateSandbox, Touch, DeleteState, Creators, TypeCore
  <2>2. QED
    BY <2>1 DEF SlotsConserved
<1>11. CASE Tick \/ UNCHANGED vars
  BY <1>11 DEF Tick, vars, SlotsConserved, Creators
<1>12. QED
  BY <1>2, <1>3, <1>4, <1>6, <1>7, <1>8, <1>9, <1>10, <1>11, StepCases

-----------------------------------------------------------------------------
(* Containers.                                                             *)

LEMMA NoAbandonedInit == Init => NoAbandonedContainer
  BY DEF Init, NoAbandonedContainer

LEMMA NoAbandonedStep ==
  TypeCore /\ WorkInv /\ NoAbandonedContainer /\ [Next]_vars
    => NoAbandonedContainer'
<1> SUFFICES ASSUME TypeCore, WorkInv, NoAbandonedContainer, [Next]_vars
             PROVE  NoAbandonedContainer'
  OBVIOUS
<1> USE ManagerAssumption DEF Goto, WorkOn, Holding, Saving, Deleting
<1>1. ASSUME NEW S \in SUBSET sessions, DestroyUnlocked(S), Making' = Making
      PROVE  NoAbandonedContainer'
  <2>1. sessions' = sessions \ S
    BY <1>1, DestroyEffect
  <2>2. \A s \in Sid : container'[s] = "held"
                         => container[s] = "held" /\ s \notin S
    BY <1>1, DestroyEffect
  <2>3. QED
    BY <1>1, <2>1, <2>2 DEF NoAbandonedContainer
<1>2. ASSUME NEW t \in Thread, MakeRoom(t) \/ StopDestroyAll(t)
      PROVE  NoAbandonedContainer'
  <2>1. Making' = Making
    BY <1>2 DEF MakeRoom, StopDestroyAll, Making, Makers, TypeCore
  <2>2. QED
    BY <1>1, <1>2, <2>1, ExpiredInTable DEF MakeRoom, StopDestroyAll
<1>3. ASSUME NEW t \in Thread, NEW s \in Sid, DestroySession(t, s)
      PROVE  NoAbandonedContainer'
  <2>1. Making' = Making /\ {s} \in SUBSET sessions
    BY <1>3 DEF DestroySession, Making, Makers, TypeCore
  <2>2. QED
    BY <1>1, <1>3, <2>1 DEF DestroySession
<1>4. CASE CleanupPass
  <2>1. Making' = Making
    BY <1>4 DEF CleanupPass, Making, Makers, TypeCore, Thread
  <2>2. QED
    BY <1>1, <1>4, <2>1, ExpiredInTable DEF CleanupPass
<1>5. ASSUME NEW t \in Thread, NEW s \in Sid, CreateSandbox(t, s)
      PROVE  NoAbandonedContainer'
  <2>1. /\ Making \subseteq Making' /\ s \in Making'
        /\ container' = [container EXCEPT ![s] = "held"]
        /\ sessions' = sessions
    BY <1>5 DEF CreateSandbox, Making, Makers, TypeCore
  <2>2. QED
    BY <2>1 DEF NoAbandonedContainer, TypeCore
<1>6. ASSUME NEW t \in Thread, Register(t) PROVE NoAbandonedContainer'
  <2>1. /\ Making \subseteq Making' \cup {sid[t]}
        /\ sessions' = sessions \cup {sid[t]}
        /\ container' = container
    BY <1>6 DEF Register, Making, Makers, TypeCore
  <2>2. QED
    BY <2>1 DEF NoAbandonedContainer
<1>7. ASSUME NEW t \in Thread, RunTimesOut(t) PROVE NoAbandonedContainer'
  <2>1. Making' = Making /\ sessions' = sessions
    BY <1>7 DEF RunTimesOut, Making, Makers, TypeCore
  <2>2. \A s \in Sid : container'[s] = "held" => container[s] = "held"
    BY <1>7 DEF RunTimesOut, DestroySandboxes, TypeCore
  <2>3. QED
    BY <2>1, <2>2 DEF NoAbandonedContainer
<1>8. ASSUME NEW t \in Thread,
             \/ AcquireSlot(t) \/ RetryAcquire(t) \/ FindFull(t)
             \/ GiveUp(t) \/ CreateFails(t) \/ RunReturns(t)
             \/ SaveState(t) \/ StopSignal(t)
      PROVE  NoAbandonedContainer'
  <2>1. Making' = Making /\ UNCHANGED <<sessions, container>>
    BY <1>8 DEF AcquireSlot, RetryAcquire, TakePermit, FindFull, GiveUp,
                CreateFails, RunReturns, SaveState, StopSignal, Making,
                Makers, TypeCore
  <2>2. QED
    BY <2>1 DEF NoAbandonedContainer
<1>9. ASSUME NEW t \in Thread, NEW s \in Sid,
             (\E l \in Saving : Touch(t, s, l)) \/ DeleteState(t, s)
      PROVE  NoAbandonedContainer'
  <2>1. Making' = Making /\ UNCHANGED <<sessions, container>>
    BY <1>9 DEF Touch, DeleteState, Making, Makers, TypeCore
  <2>2. QED
    BY <2>1 DEF NoAbandonedContainer
<1>10. CASE Tick \/ UNCHANGED vars
  BY <1>10 DEF Tick, vars, NoAbandonedContainer, Making, Makers
<1>11. QED
  BY <1>2, <1>3, <1>4, <1>5, <1>6, <1>7, <1>8, <1>9, <1>10, StepCases

(* The containers are counted by the sessions and the threads creating     *)
(* one, and those by the permits.                                          *)
LEMMA LimitFromSlots ==
  ASSUME TypeCore, WorkInv, SlotsConserved, NoAbandonedContainer
  PROVE  ContainersWithinLimit
<1> DEFINE Held == {s \in issued : container[s] = "held"}
           name == [t \in Makers |-> sid[t]]
<1>1. /\ IsFiniteSet(sessions) /\ Cardinality(sessions) \in Nat
      /\ Cardinality(Creators) \in Nat /\ permits \in Nat
  BY CreatorsFinite, FS_CardinalityType DEF TypeCore
<1>2. /\ IsFiniteSet(Makers)
      /\ Cardinality(Makers) \in Nat
      /\ Cardinality(Makers) <= Cardinality(Creators)
  <2>1. Makers \in SUBSET Creators
    BY DEF Makers, Creators, Holding
  <2>2. QED
    BY <2>1, CreatorsFinite, FS_Subset, FS_CardinalityType
<1>3. name \in Surjection(Makers, Making)
  BY DEF Surjection, Making
<1>4. IsFiniteSet(Making) /\ Cardinality(Making) <= Cardinality(Makers)
  BY <1>2, <1>3, FS_Surjection
<1>5. Cardinality(Making) \in Nat
  BY <1>4, FS_CardinalityType
<1>6. Making \cap sessions = {}
  BY DEF Making, Makers, WorkInv
<1>7. /\ IsFiniteSet(sessions \cup Making)
      /\ Cardinality(sessions \cup Making)
           = Cardinality(sessions) + Cardinality(Making)
  <2>1. Cardinality(sessions \cap Making) = 0
    BY <1>6, FS_EmptySet
  <2>2. /\ IsFiniteSet(sessions \cup Making)
        /\ Cardinality(sessions \cup Making)
             = Cardinality(sessions) + Cardinality(Making)
                 - Cardinality(sessions \cap Making)
    BY <1>1, <1>4, FS_Union
  <2>3. QED
    BY <1>1, <1>5, <2>1, <2>2
<1>8. Held \in SUBSET (sessions \cup Making)
  BY DEF NoAbandonedContainer, TypeCore
<1>9. /\ Cardinality(Held) <= Cardinality(sessions \cup Making)
      /\ Cardinality(Held) \in Nat
  BY <1>7, <1>8, FS_Subset, FS_CardinalityType
<1>10. Cardinality(Held) <= MaxSessions
  BY <1>1, <1>2, <1>4, <1>5, <1>7, <1>9, ManagerAssumption
     DEF SlotsConserved
<1>11. QED
  BY <1>10 DEF ContainersWithinLimit

-----------------------------------------------------------------------------
(* The state store.                                                        *)

LEMMA StoreCoversInit == Init => StoreCoversSessions
  BY DEF Init, StoreCoversSessions

LEMMA StoreCoversStep ==
  TypeCore /\ WorkInv /\ StoreCoversSessions /\ [Next]_vars
    => StoreCoversSessions'
<1> SUFFICES ASSUME TypeCore, WorkInv, StoreCoversSessions, [Next]_vars,
                    ~StoreMayFail,
                    NEW x \in sessions', \A t \in Thread : ~Saves(t, x)'
             PROVE  store'[x] + idleTime'[x] >= TTL
  BY DEF StoreCoversSessions
<1> USE ManagerAssumption
    DEF Goto, WorkOn, PcState, Holding, Saving, Deleting, Saves
<1>1. ASSUME x \in sessions, \A t \in Thread : ~Saves(t, x),
             UNCHANGED store, idleTime'[x] = idleTime[x]
      PROVE  store'[x] + idleTime'[x] >= TTL
  BY <1>1 DEF StoreCoversSessions
<1>2. ASSUME NEW S \in SUBSET sessions, DestroyUnlocked(S), UNCHANGED store,
             \A t \in Thread : Saves(t, x) => Saves(t, x)'
      PROVE  store'[x] + idleTime'[x] >= TTL
  <2>1. x \in sessions /\ idleTime'[x] = idleTime[x]
    BY <1>2, DestroyEffect
  <2>2. QED
    BY <1>1, <1>2, <2>1
<1>3. ASSUME NEW t \in Thread, MakeRoom(t) \/ StopDestroyAll(t)
      PROVE  store'[x] + idleTime'[x] >= TTL
  <2>1. \A u \in Thread : Saves(u, x) => Saves(u, x)'
    BY <1>3 DEF MakeRoom, StopDestroyAll, TypeCore
  <2>2. QED
    BY <1>2, <1>3, <2>1, ExpiredInTable DEF MakeRoom, StopDestroyAll
<1>4. ASSUME NEW t \in Thread, NEW s \in Sid, DestroySession(t, s)
      PROVE  store'[x] + idleTime'[x] >= TTL
  <2>1. {s} \in SUBSET sessions
        /\ \A u \in Thread : Saves(u, x) => Saves(u, x)'
    BY <1>4 DEF DestroySession, TypeCore
  <2>2. QED
    BY <1>2, <1>4, <2>1 DEF DestroySession
<1>5. CASE CleanupPass
  <2>1. \A u \in Thread : Saves(u, x) => Saves(u, x)'
    BY <1>5 DEF CleanupPass, TypeCore, Thread
  <2>2. QED
    BY <1>2, <1>5, <2>1, ExpiredInTable DEF CleanupPass
<1>6. ASSUME NEW t \in Thread, SaveState(t)
      PROVE  store'[x] + idleTime'[x] >= TTL
  <2>1. store' = [store EXCEPT ![sid[t]] = TTL] /\ x \in sessions
        /\ UNCHANGED idleTime
    BY <1>6 DEF SaveState
  <2>2. x \in Sid /\ idleTime[x] \in Nat
    BY <2>1 DEF TypeCore
  <2>3. CASE x = sid[t]
    BY <2>1, <2>2, <2>3 DEF TypeCore
  <2>4. CASE x # sid[t]
    <3>1. \A u \in Thread : ~Saves(u, x)
      BY <1>6, <2>4 DEF SaveState, TypeCore
    <3>2. QED
      BY <2>1, <2>2, <2>4, <3>1 DEF TypeCore, StoreCoversSessions
  <2>5. QED
    BY <2>3, <2>4
<1>7. ASSUME NEW t \in Thread, NEW s \in Sid, DeleteState(t, s)
      PROVE  store'[x] + idleTime'[x] >= TTL
  <2>1. /\ x \in sessions /\ x # s /\ idleTime' = idleTime
        /\ store' = [store EXCEPT ![s] = 0]
        /\ \A u \in Thread : ~Saves(u, x)
    BY <1>7 DEF DeleteState, WorkInv, TypeCore
  <2>2. QED
    BY <2>1 DEF StoreCoversSessions, TypeCore
<1>8. ASSUME NEW t \in Thread, Register(t)
      PROVE  store'[x] + idleTime'[x] >= TTL
  <2>1. x # sid[t]
    BY <1>8 DEF Register, TypeCore
  <2>2. /\ x \in sessions /\ idleTime'[x] = idleTime[x] /\ UNCHANGED store
        /\ \A u \in Thread : ~Saves(u, x)
    BY <1>8, <2>1 DEF Register, TypeCore
  <2>3. QED
    BY <1>1, <2>2
<1>9. ASSUME NEW t \in Thread, NEW s \in Sid, NEW l \in Saving, Touch(t, s, l)
      PROVE  store'[x] + idleTime'[x] >= TTL
  <2>1. x # s
    BY <1>9 DEF Touch, TypeCore
  <2>2. /\ x \in sessions /\ idleTime'[x] = idleTime[x] /\ UNCHANGED store
        /\ \A u \in Thread : ~Saves(u, x)
    BY <1>9, <2>1 DEF Touch, TypeCore
  <2>3. QED
    BY <1>1, <2>2
<1>10. ASSUME NEW t \in Thread,
              \/ AcquireSlot(t) \/ RetryAcquire(t) \/ FindFull(t)
              \/ GiveUp(t) \/ CreateFails(t) \/ RunReturns(t)
              \/ RunTimesOut(t) \/ StopSignal(t)
       PROVE  store'[x] + idleTime'[x] >= TTL
  <2>1. /\ UNCHANGED <<sessions, idleTime, store>>
        /\ \A u \in Thread : Saves(u, x) => Saves(u, x)'
    BY <1>10 DEF AcquireSlot, RetryAcquire, TakePermit, FindFull, GiveUp,
                 CreateFails, RunReturns, RunTimesOut, StopSignal, TypeCore
  <2>2. QED
    BY <1>1, <2>1
<1>11. ASSUME NEW t \in Thread, NEW s \in Sid, CreateSandbox(t, s)
       PROVE  store'[x] + idleTime'[x] >= TTL
  <2>1. /\ UNCHANGED <<sessions, idleTime, store>>
        /\ \A u \in Thread : Saves(u, x) => Saves(u, x)'
    BY <1>11 DEF CreateSandbox, TypeCore
  <2>2. QED
    BY <1>1, <2>1
<1>12. CASE Tick
  <2>1. /\ x \in sessions /\ x \in Sid
        /\ \A u \in Thread : ~Saves(u, x)
    BY <1>12 DEF Tick, TypeCore
  <2>2. store[x] + idleTime[x] >= TTL
    BY <2>1 DEF StoreCoversSessions
  <2>3. /\ store[x] \in 0 .. TTL /\ idleTime[x] \in 0 .. TTL + 1
        /\ idleTime'[x] = IF idleTime[x] <= TTL THEN idleTime[x] + 1
                                                ELSE idleTime[x]
        /\ store'[x] = IF store[x] > 0 THEN store[x] - 1 ELSE store[x]
    BY <1>12, <2>1 DEF Tick, TypeCore
  <2>4. QED
    BY <2>2, <2>3
<1>13. CASE UNCHANGED vars
  BY <1>1, <1>13 DEF vars
<1>14. QED
  BY <1>3, <1>4, <1>5, <1>6, <1>7, <1>8, <1>9, <1>10, <1>11, <1>12, <1>13,
     StepCases

-----------------------------------------------------------------------------
(* Theorems of the specification.                                          *)

IInv ==
  /\ TypeCore
  /\ WorkInv
  /\ SlotsConserved
  /\ NoAbandonedContainer
  /\ StoreCoversSessions

LEMMA IInvInit == Init => IInv
  BY TypeCoreInit, WorkInvInit, SlotsInit, NoAbandonedInit, StoreCoversInit
     DEF IInv

LEMMA IInvStep == IInv /\ [Next]_vars => IInv'
  BY TypeCoreStep, WorkInvStep, SlotsStep, NoAbandonedStep, StoreCoversStep
     DEF IInv

(* The conjunction of the invariants above is inductive. *)
THEOREM Inductive == Spec => []IInv
  BY IInvInit, IInvStep, PTL DEF Spec

(* Every variable keeps its type; the semaphore never counts more than     *)
(* max_sessions permits (session.py:131, 448), although it is not bounded. *)
THEOREM TypeCorrect == Spec => []TypeOK
<1>1. IInv => TypeOK
  <2> SUFFICES ASSUME IInv PROVE TypeOK
    OBVIOUS
  <2>1. /\ Cardinality(Creators) \in Nat
        /\ Cardinality(sessions) \in Nat
        /\ permits \in Nat
    BY CreatorsFinite, FS_CardinalityType DEF IInv, TypeCore
  <2>2. permits \in 0 .. MaxSessions
    BY <2>1, ManagerAssumption DEF IInv, SlotsConserved
  <2>3. QED
    BY <2>2 DEF IInv, TypeCore, TypeOK
<1>2. QED
  BY <1>1, Inductive, PTL

(* No path through create_session, the clean-ups, destroy_session or       *)
(* stop() loses a permit or releases one twice.                            *)
THEOREM PermitsConserved == Spec => []SlotsConserved
<1>1. IInv => SlotsConserved
  BY DEF IInv
<1>2. QED
  BY <1>1, Inductive, PTL

(* Whoever drops a session or fails to create one also drops its           *)
(* container.                                                              *)
THEOREM ContainersOwned == Spec => []NoAbandonedContainer
<1>1. IInv => NoAbandonedContainer
  BY DEF IInv
<1>2. QED
  BY <1>1, Inductive, PTL

(* SECURITY.md's promise that max_sessions is not exceeded, for the        *)
(* containers themselves.                                                  *)
THEOREM ContainersLimited == Spec => []ContainersWithinLimit
<1>1. IInv => ContainersWithinLimit
  BY LimitFromSlots DEF IInv
<1>2. QED
  BY <1>1, Inductive, PTL

(* With a store that does not fail, the state of every live session is in  *)
(* Redis, for as long as the session can live, once its saves are done.    *)
THEOREM StoreCovers == Spec => []StoreCoversSessions
<1>1. IInv => StoreCoversSessions
  BY DEF IInv
<1>2. QED
  BY <1>1, Inductive, PTL

-----------------------------------------------------------------------------
(* Refinement of SessionLimit.                                             *)

LEMMA LimitInit == Init => Limit!Init
  BY DEF Init, Limit!Init, Creators, Making, Makers, Holding

LEMMA LimitStep == IInv /\ [Next]_vars => [Limit!Next]_(Limit!vars)
<1> SUFFICES ASSUME IInv, [Next]_vars PROVE [Limit!Next]_(Limit!vars)
  OBVIOUS
<1> USE ManagerAssumption DEF Goto, WorkOn, Holding, Saving, Deleting
<1>0. TypeCore /\ WorkInv /\ SlotsConserved
  BY DEF IInv
<1>1. /\ Cardinality(Creators) \in Nat /\ Cardinality(sessions) \in Nat
      /\ permits \in Nat
  BY <1>0, CreatorsFinite, FS_CardinalityType DEF TypeCore
<1>2. ASSUME NEW t \in Thread, AcquireSlot(t) \/ RetryAcquire(t)
      PROVE  Limit!Begin(t)
  <2>1. /\ Creators' = Creators \cup {t} /\ t \notin Creators
        /\ permits > 0
        /\ Making' = Making /\ UNCHANGED <<sessions, issued>>
    BY <1>0, <1>2 DEF AcquireSlot, RetryAcquire, TakePermit, Creators,
                      Making, Makers, TypeCore
  <2>2. Cardinality(Creators) + Cardinality(sessions) < MaxSessions
    BY <1>0, <1>1, <2>1 DEF SlotsConserved
  <2>3. /\ Limit!Cardinality(Creators) = Cardinality(Creators)
        /\ Limit!Cardinality(sessions) = Cardinality(sessions)
    BY Zenon DEF Limit!Cardinality, Cardinality, Limit!IsFiniteSet, IsFiniteSet
  <2>4. QED
    BY <2>1, <2>2, <2>3 DEF Limit!Begin
<1>3. ASSUME NEW t \in Thread, CreateFails(t) PROVE Limit!Abort(t)
  <2>1. /\ Creators' = Creators \ {t} /\ t \in Creators
        /\ Making' = Making /\ UNCHANGED <<sessions, issued>>
    BY <1>0, <1>3 DEF CreateFails, Creators, Making, Makers, TypeCore
  <2>2. QED
    BY <2>1 DEF Limit!Abort
<1>4. ASSUME NEW t \in Thread, Register(t)
      PROVE  sid[t] \in Sid /\ Limit!Commit(t, sid[t])
  <2>1. /\ Creators' = Creators \ {t} /\ t \in Creators
        /\ sessions' = sessions \cup {sid[t]}
        /\ sid[t] \in issued /\ sid[t] \in Making
        /\ UNCHANGED <<issued, sid>>
    BY <1>0, <1>4 DEF Register, Creators, Making, Makers, TypeCore, WorkInv
  <2>2. Makers' = Makers \ {t} /\ t \in Makers
    BY <1>0, <1>4 DEF Register, Makers, TypeCore
  <2>3. Making' = Making \ {sid[t]}
    BY <1>0, <2>1, <2>2 DEF Making, WorkInv
  <2>4. (issued \ Making)' = (issued \ Making) \cup {sid[t]}
    BY <2>1, <2>3
  <2>5. QED
    BY <1>0, <2>1, <2>4 DEF Limit!Commit, TypeCore
<1>5. ASSUME NEW t \in Thread, NEW s \in Sid, CreateSandbox(t, s)
      PROVE  UNCHANGED Limit!vars
  <2>1. /\ Creators' = Creators /\ UNCHANGED sessions
        /\ issued' = issued \cup {s} /\ s \notin issued
        /\ Makers' = Makers \cup {t} /\ t \notin Makers /\ sid'[t] = s
        /\ \A u \in Thread \ {t} : sid'[u] = sid[u]
    BY <1>0, <1>5 DEF CreateSandbox, Creators, Makers, TypeCore
  <2>2. Making' = Making \cup {s} /\ Making \subseteq issued
    BY <1>0, <2>1 DEF Making, Makers, WorkInv
  <2>3. (issued \ Making)' = issued \ Making
    BY <2>1, <2>2
  <2>4. QED
    BY <2>1, <2>3 DEF Limit!vars
<1>6. ASSUME NEW S \in SUBSET sessions, DestroyUnlocked(S), UNCHANGED issued,
             Creators' = Creators, Making' = Making
      PROVE  (\E T \in SUBSET sessions : Limit!Close(T))
               \/ UNCHANGED Limit!vars
  <2>1. sessions' = sessions \ S
    BY <1>6 DEF DestroyUnlocked
  <2>2. CASE S = {}
    BY <1>6, <2>1, <2>2 DEF Limit!vars
  <2>3. CASE S # {}
    <3>1. Limit!Close(S)
      BY <1>6, <2>1, <2>3 DEF Limit!Close
    <3>2. QED
      BY <3>1
  <2>4. QED
    BY <2>2, <2>3
<1>7. ASSUME NEW t \in Thread,
             \/ MakeRoom(t) \/ StopDestroyAll(t)
             \/ \E s \in Sid : DestroySession(t, s)
      PROVE  (\E T \in SUBSET sessions : Limit!Close(T))
               \/ UNCHANGED Limit!vars
  <2>1. /\ Creators' = Creators /\ Making' = Making /\ UNCHANGED issued
        /\ \E S \in SUBSET sessions : DestroyUnlocked(S)
    <3>1. Creators' = Creators /\ Making' = Making /\ UNCHANGED issued
      <4>1. CASE MakeRoom(t)
        BY <1>0, <4>1 DEF MakeRoom, Creators, Making, Makers, TypeCore
      <4>2. CASE StopDestroyAll(t)
        BY <1>0, <4>2 DEF StopDestroyAll, Creators, Making, Makers, TypeCore
      <4>3. CASE \E s \in Sid : DestroySession(t, s)
        BY <1>0, <4>3 DEF DestroySession, Creators, Making, Makers, TypeCore
      <4>4. QED
        BY <1>7, <4>1, <4>2, <4>3
    <3>2. ASSUME MakeRoom(t)
          PROVE  \E S \in SUBSET sessions : DestroyUnlocked(S)
      <4>1. Expired \in SUBSET sessions /\ DestroyUnlocked(Expired)
        BY <3>2, ExpiredInTable DEF MakeRoom
      <4>2. QED
        BY <4>1
    <3>3. ASSUME StopDestroyAll(t)
          PROVE  \E S \in SUBSET sessions : DestroyUnlocked(S)
      <4>1. sessions \in SUBSET sessions /\ DestroyUnlocked(sessions)
        BY <3>3 DEF StopDestroyAll
      <4>2. QED
        BY <4>1
    <3>4. ASSUME NEW s \in Sid, DestroySession(t, s)
          PROVE  \E S \in SUBSET sessions : DestroyUnlocked(S)
      <4>1. {s} \in SUBSET sessions /\ DestroyUnlocked({s})
        BY <3>4 DEF DestroySession
      <4>2. QED
        BY <4>1
    <3>5. QED
      BY <1>7, <3>1, <3>2, <3>3, <3>4
  <2>2. QED
    BY <1>6, <2>1
<1>8. CASE CleanupPass
  <2>1. Creators' = Creators /\ Making' = Making /\ UNCHANGED issued
    BY <1>0, <1>8 DEF CleanupPass, Creators, Making, Makers, TypeCore, Thread
  <2>2. (\E T \in SUBSET sessions : Limit!Close(T)) \/ UNCHANGED Limit!vars
    BY <1>6, <1>8, <2>1, ExpiredInTable DEF CleanupPass
  <2>3. QED
    BY <2>2 DEF Limit!Next
<1>9. ASSUME NEW t \in Thread,
             \/ FindFull(t) \/ GiveUp(t) \/ RunReturns(t) \/ RunTimesOut(t)
             \/ SaveState(t) \/ StopSignal(t)
             \/ \E s \in Sid : (\E l \in Saving : Touch(t, s, l)) \/ DeleteState(t, s)
      PROVE  UNCHANGED Limit!vars
  <2>1. Creators' = Creators /\ Making' = Making
        /\ UNCHANGED <<sessions, issued>>
    BY <1>0, <1>9 DEF FindFull, GiveUp, RunReturns, RunTimesOut, SaveState,
                      StopSignal, Touch, DeleteState, Creators, Making,
                      Makers, TypeCore
  <2>2. QED
    BY <2>1 DEF Limit!vars
<1>10. CASE Tick \/ UNCHANGED vars
  BY <1>10 DEF Tick, vars, Limit!vars, Creators, Making, Makers
<1>11. QED
  BY <1>2, <1>3, <1>4, <1>5, <1>7, <1>8, <1>9, <1>10, StepCases
     DEF Limit!Next

(* The manager implements SessionLimit. *)
THEOREM Refinement == Spec => ImplementsSessionLimit
<1>1. Init => Limit!Init
  BY LimitInit
<1>2. IInv /\ [Next]_vars => [Limit!Next]_(Limit!vars)
  BY LimitStep
<1>3. QED
  BY <1>1, <1>2, Inductive, PTL DEF Spec, ImplementsSessionLimit, Limit!Spec

(* The promise says what it is meant to: of what keeps it, no more than    *)
(* max_sessions sessions are ever open and being opened together.          *)
THEOREM LimitIsBounded == Limit!Spec => []Limit!Bounded
<1> DEFINE Good ==
             /\ IsFiniteSet(Creators) /\ Cardinality(Creators) \in Nat
             /\ IsFiniteSet(sessions) /\ Cardinality(sessions) \in Nat
             /\ Cardinality(Creators) + Cardinality(sessions) <= MaxSessions
<1>0. ASSUME NEW S
      PROVE  Limit!Cardinality(S) = Cardinality(S)
  BY Zenon DEF Limit!Cardinality, Cardinality, Limit!IsFiniteSet, IsFiniteSet
<1>1. Limit!Init => Good
  BY FS_EmptySet, ManagerAssumption DEF Limit!Init
<1>2. ASSUME Good, [Limit!Next]_(Limit!vars)
      PROVE  Good'
  <2>0. MaxSessions \in Nat
    BY ManagerAssumption
  <2>1. ASSUME NEW t \in Thread, Limit!Begin(t)
        PROVE  Good'
    <3>1. Cardinality(Creators) + Cardinality(sessions) < MaxSessions
      BY <1>0, <2>1 DEF Limit!Begin
    <3>2. /\ Creators' = Creators \cup {t} /\ t \notin Creators
          /\ sessions' = sessions
      BY <2>1 DEF Limit!Begin
    <3>3. IsFiniteSet(Creators') /\ Cardinality(Creators') = Cardinality(Creators) + 1
      BY <1>2, <3>2, FS_AddElement
    <3> QED
      BY <1>2, <2>0, <3>1, <3>2, <3>3
  <2>2. ASSUME NEW t \in Thread, NEW s \in Sid, Limit!Commit(t, s)
        PROVE  Good'
    <3>0. /\ Creators' = Creators \ {t} /\ t \in Creators
          /\ sessions' = sessions \cup {s}
      BY <2>2 DEF Limit!Commit
    <3>1. /\ Cardinality(Creators') = Cardinality(Creators) - 1
          /\ IsFiniteSet(Creators')
      BY <1>2, <3>0, FS_RemoveElement
    <3>2. /\ Cardinality(sessions') <= Cardinality(sessions) + 1
          /\ IsFiniteSet(sessions')
      BY <1>2, <3>0, FS_AddElement
    <3>3. Cardinality(Creators') \in Nat /\ Cardinality(sessions') \in Nat
      BY <3>1, <3>2, FS_CardinalityType
    <3> QED
      BY <1>2, <2>0, <3>1, <3>2, <3>3
  <2>3. ASSUME NEW t \in Thread, Limit!Abort(t)
        PROVE  Good'
    <3>0. /\ Creators' = Creators \ {t} /\ t \in Creators
          /\ sessions' = sessions
      BY <2>3 DEF Limit!Abort
    <3>1. /\ Cardinality(Creators') = Cardinality(Creators) - 1
          /\ IsFiniteSet(Creators')
      BY <1>2, <3>0, FS_RemoveElement
    <3>2. Cardinality(Creators') \in Nat
      BY <3>1, FS_CardinalityType
    <3> QED
      BY <1>2, <2>0, <3>0, <3>1, <3>2
  <2>4. ASSUME NEW S \in SUBSET sessions, Limit!Close(S)
        PROVE  Good'
    <3>0. Creators' = Creators /\ sessions' = sessions \ S
      BY <2>4 DEF Limit!Close
    <3>1. /\ Cardinality(sessions') <= Cardinality(sessions)
          /\ IsFiniteSet(sessions')
      BY <1>2, <3>0, FS_Subset
    <3>2. Cardinality(sessions') \in Nat
      BY <3>1, FS_CardinalityType
    <3> QED
      BY <1>2, <2>0, <3>0, <3>1, <3>2
  <2>5. CASE UNCHANGED Limit!vars
    BY <1>2, <2>5 DEF Limit!vars
  <2> QED
    BY <1>2, <2>1, <2>2, <2>3, <2>4, <2>5 DEF Limit!Next
<1>3. Good => Limit!Bounded
  BY <1>0 DEF Limit!Bounded
<1> QED
  BY <1>1, <1>2, <1>3, PTL DEF Limit!Spec

-----------------------------------------------------------------------------
(* Calls of the manager come nearer to their end.                          *)

PhasesLeft(label) ==
  IF label = "full" THEN 6 ELSE IF label = "purge" THEN 5
  ELSE IF label = "retry" THEN 4 ELSE IF label = "reserve" THEN 3
  ELSE IF label \in {"made", "saveExec"} THEN 2
  ELSE IF label = "idle" THEN 0 ELSE 1

(* A later phase of the call, or one of its finitely many keys is done.    *)
Nearer(t) ==
  \/ PhasesLeft(pc'[t]) < PhasesLeft(pc[t])
  \/ pc'[t] = pc[t] /\ \E s \in dels[t] : dels'[t] = dels[t] \ {s}

Rests(t) == pc'[t] = pc[t] /\ sid'[t] = sid[t] /\ dels'[t] = dels[t]

(* Every step of a call brings it nearer to its end, and what others do    *)
(* meanwhile does not set it back.                                         *)
CallsAdvance ==
  [][\A t \in Thread : /\ Continue(t) => Nearer(t)
                       /\ pc[t] # "idle" /\ ~Continue(t) => Rests(t)]_vars

(* A thread that deletes keys has one to delete, and not for ever. *)
DeletersHaveWork ==
  \A t \in Thread : /\ IsFiniteSet(dels[t])
                    /\ pc[t] \in Deleting => dels[t] # {}

LEMMA ContinueAdvances ==
  ASSUME TypeCore, NEW t \in Thread, Continue(t)
  PROVE  /\ Nearer(t)
         /\ \A u \in Thread \ {t} : Rests(u)
<1> USE DEF TypeCore, Goto, WorkOn, PcState, Nearer, PhasesLeft, Rests
<1>1. CASE MakeRoom(t)
  BY <1>1 DEF MakeRoom
<1>2. CASE RetryAcquire(t) \/ GiveUp(t) \/ CreateFails(t) \/ Register(t)
  BY <1>2 DEF RetryAcquire, TakePermit, GiveUp, CreateFails, Register
<1>3. CASE RunReturns(t) \/ RunTimesOut(t) \/ StopDestroyAll(t)
  BY <1>3 DEF RunReturns, RunTimesOut, StopDestroyAll
<1>4. CASE SaveState(t)
  BY <1>4 DEF SaveState, Saving
<1>5. ASSUME NEW s \in Sid, CreateSandbox(t, s)
      PROVE  Nearer(t) /\ \A u \in Thread \ {t} : Rests(u)
  BY <1>5 DEF CreateSandbox
<1>6. ASSUME NEW s \in Sid, DeleteState(t, s)
      PROVE  Nearer(t) /\ \A u \in Thread \ {t} : Rests(u)
  <2>1. /\ pc[t] \in {"purge", "del"} /\ s \in dels[t]
        /\ dels' = [dels EXCEPT ![t] = dels[t] \ {s}] /\ UNCHANGED sid
    BY <1>6 DEF DeleteState, Deleting
  <2>2. CASE dels[t] # {s}
    BY <1>6, <2>1, <2>2 DEF DeleteState
  <2>3. CASE dels[t] = {s}
    BY <1>6, <2>1, <2>3 DEF DeleteState
  <2> QED
    BY <2>2, <2>3
<1> QED
  BY <1>1, <1>2, <1>3, <1>4, <1>5, <1>6 DEF Continue

LEMMA CallBegins ==
  ASSUME TypeCore, NEW t \in Thread, Call(t)
  PROVE  /\ pc[t] = "idle"
         /\ \A u \in Thread \ {t} : Rests(u)
  BY DEF TypeCore, Call, AcquireSlot, TakePermit, FindFull, GetSession,
     ExecuteInSession, Touch, DestroySession, StopSignal, Goto, WorkOn, Rests

(* A call of the manager ends after finitely many steps of its own: the    *)
(* safety half of what every liveness property of a client needs.          *)
THEOREM CallsOnlyAdvance == Spec => CallsAdvance
<1> DEFINE Onward(t) == /\ Continue(t) => Nearer(t)
                        /\ pc[t] # "idle" /\ ~Continue(t) => Rests(t)
<1>1. ASSUME IInv, [Next]_vars, NEW t \in Thread
      PROVE  Onward(t)
  <2>1. TypeCore
    BY <1>1 DEF IInv
  <2>2. Continue(t) => Nearer(t)
    BY <2>1, ContinueAdvances
  <2>3. ASSUME pc[t] # "idle", ~Continue(t)
        PROVE  Rests(t)
    <3>1. CASE \E u \in Caller : Call(u)
      BY <2>1, <2>3, <3>1, CallBegins DEF Thread
    <3>2. CASE \E u \in Thread : Continue(u)
      BY <2>1, <2>3, <3>2, ContinueAdvances
    <3>3. CASE CleanupPass
      BY <2>1, <2>3, <3>3 DEF CleanupPass, Goto, Rests, TypeCore, Thread
    <3>4. CASE Tick \/ UNCHANGED vars
      BY <3>4 DEF Tick, vars, Rests
    <3> QED
      BY <1>1, <3>1, <3>2, <3>3, <3>4 DEF Next
  <2> QED
    BY <2>2, <2>3
<1>2. IInv /\ [Next]_vars => [\A t \in Thread : Onward(t)]_vars
  BY <1>1
<1> QED
  BY <1>2, Inductive, PTL DEF Spec, CallsAdvance

(* No thread waits for a key to delete that does not exist (a call under   *)
(* way can always go on: every other guard of Continue is one of two       *)
(* complementary outcomes).                                                *)
THEOREM DeletersGoOn == Spec => []DeletersHaveWork
<1>1. Init => DeletersHaveWork
  BY FS_EmptySet DEF Init, DeletersHaveWork, Deleting
<1>2. ASSUME IInv, DeletersHaveWork, [Next]_vars
      PROVE  DeletersHaveWork'
  <2>0. TypeCore
    BY <1>2 DEF IInv
  <2> USE <1>2, <2>0 DEF TypeCore, DeletersHaveWork, Goto, WorkOn, PcState, Deleting
  <2>1. IsFiniteSet(Expired) /\ Expired \subseteq Sid
    BY FS_Subset DEF Expired
  <2>2. ASSUME NEW t \in Thread, NEW label, label \notin Deleting,
               pc' = [pc EXCEPT ![t] = label], UNCHANGED dels
        PROVE  DeletersHaveWork'
    BY <2>2
  <2>3. ASSUME NEW t \in Thread,
               \/ AcquireSlot(t) \/ RetryAcquire(t) \/ FindFull(t)
               \/ GiveUp(t) \/ CreateFails(t) \/ Register(t)
               \/ RunReturns(t) \/ RunTimesOut(t)
               \/ StopSignal(t) \/ StopDestroyAll(t)
        PROVE  DeletersHaveWork'
    BY <2>2, <2>3
    DEF AcquireSlot, RetryAcquire, TakePermit, FindFull, GiveUp, CreateFails,
        Register, RunReturns, RunTimesOut, StopSignal, StopDestroyAll
  <2>4. ASSUME NEW t \in Thread, SaveState(t)
        PROVE  DeletersHaveWork'
    BY <2>2, <2>4 DEF SaveState
  <2>5. ASSUME NEW t \in Thread, NEW s \in Sid, CreateSandbox(t, s)
        PROVE  DeletersHaveWork'
    BY <2>2, <2>5 DEF CreateSandbox
  <2>6. ASSUME NEW t \in Thread, NEW s \in Sid, NEW l \in Saving, Touch(t, s, l)
        PROVE  DeletersHaveWork'
    BY <2>2, <2>6 DEF Touch, Saving
  <2>7. ASSUME NEW t \in Thread, NEW D \in SUBSET Sid, IsFiniteSet(D),
               dels' = [dels EXCEPT ![t] = D],
               NEW label, pc' = [pc EXCEPT ![t] = label],
               label \in Deleting => D # {}
        PROVE  DeletersHaveWork'
    BY <2>7
  <2>8. ASSUME NEW t \in Thread, NEW s \in Sid, DestroySession(t, s)
        PROVE  DeletersHaveWork'
    <3>1. IsFiniteSet({s}) /\ {s} \in SUBSET Sid /\ {s} # {}
      BY FS_Singleton
    <3> QED
      BY <2>7, <2>8, <3>1 DEF DestroySession
  <2>9. ASSUME NEW t \in Thread, MakeRoom(t)
        PROVE  DeletersHaveWork'
    BY <2>1, <2>7, <2>9 DEF MakeRoom
  <2>10. CASE CleanupPass
    BY <2>1, <2>7, <2>10 DEF CleanupPass, Thread
  <2>11. ASSUME NEW t \in Thread, NEW s \in Sid, DeleteState(t, s)
         PROVE  DeletersHaveWork'
    <3> DEFINE label == IF dels[t] # {s} THEN pc[t]
                        ELSE IF pc[t] = "purge" THEN "retry" ELSE "idle"
    <3>1. pc' = [pc EXCEPT ![t] = label] /\ (dels[t] = {s} => label \notin Deleting)
      BY <2>11 DEF DeleteState
    <3> HIDE DEF label
    <3>2. IsFiniteSet(dels[t] \ {s}) /\ dels[t] \ {s} \in SUBSET Sid
      BY FS_Subset
    <3>3. dels' = [dels EXCEPT ![t] = dels[t] \ {s}]
      BY <2>11 DEF DeleteState
    <3>4. label \in Deleting => dels[t] \ {s} # {}
      <4>1. s \in dels[t]
        BY <2>11 DEF DeleteState
      <4> QED
        BY <3>1, <4>1
    <3> QED
      BY <2>7, <3>1, <3>2, <3>3, <3>4
  <2>12. CASE Tick \/ UNCHANGED vars
    BY <2>12 DEF Tick, vars
  <2> QED
    BY <1>2, <2>3, <2>4, <2>5, <2>6, <2>8, <2>9, <2>10, <2>11, <2>12, StepCases
<1> QED
  BY <1>1, <1>2, Inductive, PTL DEF Spec

-----------------------------------------------------------------------------
(* Expired sessions and the keys of sessions that are gone.                *)

(* Sandboxes whose session was in the table and has left it.               *)
Gone == issued \ (sessions \cup Making)

(* An expired session can only leave the table: no touch, registration or  *)
(* half-finished call makes it young again, and one round of cleanup_loop  *)
(* leaves no expired session behind.  The safety half of ExpiredReclaimed. *)
ExpiryAdvances ==
  [][/\ \A s \in Expired : s \in sessions' => is_expired(s)'
     /\ CleanupPass => Expired' = {}]_vars

(* A session that is gone stays gone, no thread begins to save its state   *)
(* again, and once the last late save is through its Redis key only ages.  *)
(* The safety half of OrphanKeysExpire.                                    *)
GoneStaysGone ==
  [][\A s \in Gone :
       /\ s \in Gone'
       /\ \A t \in Thread : ~Saves(t, s) => ~Saves(t, s)'
       /\ (\A t \in Thread : ~Saves(t, s)) => store'[s] <= store[s]]_vars

(* Nothing rejuvenates an expired session, whatever get_session,           *)
(* execute_in_session and the three parties that clean up do at once.      *)
THEOREM ExpiryIsFinal == Spec => ExpiryAdvances
<1> DEFINE Final ==
      /\ \A s \in Expired : s \in sessions' => is_expired(s)'
      /\ CleanupPass => Expired' = {}
<1>1. ASSUME IInv, [Next]_vars
      PROVE  Final
  <2>0. TypeCore
    BY <1>1 DEF IInv
  <2>1. ASSUME NEW S \in SUBSET sessions, DestroyUnlocked(S)
        PROVE  \A s \in sessions' : s \in sessions /\ idleTime'[s] = idleTime[s]
    BY <2>0, <2>1, DestroyEffect
  <2>2. CleanupPass => Expired' = {}
    <3> SUFFICES ASSUME CleanupPass PROVE Expired' = {}
      OBVIOUS
    <3>1. DestroyUnlocked(Expired) /\ sessions' = sessions \ Expired
      BY DEF CleanupPass, DestroyUnlocked
    <3> QED
      BY <2>1, <3>1, ExpiredInTable DEF Expired, is_expired
  <2>3. ASSUME NEW s \in Expired, s \in sessions'
        PROVE  is_expired(s)'
    <3> USE ManagerAssumption, <2>0, <2>3 DEF Expired, is_expired, TypeCore
    <3>1. ASSUME idleTime'[s] = idleTime[s]
          PROVE  is_expired(s)'
      BY <3>1
    <3>2. ASSUME NEW t \in Thread,
                 \/ AcquireSlot(t) \/ RetryAcquire(t) \/ FindFull(t)
                 \/ GiveUp(t) \/ CreateFails(t) \/ RunReturns(t)
                 \/ RunTimesOut(t) \/ SaveState(t) \/ StopSignal(t)
                 \/ \E r \in Sid : CreateSandbox(t, r) \/ DeleteState(t, r)
          PROVE  is_expired(s)'
      BY <3>1, <3>2
      DEF AcquireSlot, RetryAcquire, TakePermit, FindFull, GiveUp, CreateFails,
          RunReturns, RunTimesOut, SaveState, StopSignal, CreateSandbox,
          DeleteState
    <3>3. ASSUME NEW t \in Thread, MakeRoom(t) \/ StopDestroyAll(t)
          PROVE  is_expired(s)'
      BY <2>1, <3>1, <3>3, ExpiredInTable DEF MakeRoom, StopDestroyAll
    <3>4. ASSUME NEW t \in Thread, NEW r \in Sid, DestroySession(t, r)
          PROVE  is_expired(s)'
      BY <2>1, <3>1, <3>4 DEF DestroySession
    <3>5. ASSUME NEW t \in Thread, NEW r \in Sid, NEW l \in Saving, Touch(t, r, l)
          PROVE  is_expired(s)'
      BY <3>1, <3>5 DEF Touch
    <3>6. ASSUME NEW t \in Thread, Register(t)
          PROVE  is_expired(s)'
      BY <1>1, <3>1, <3>6 DEF Register, IInv, WorkInv
    <3>7. CASE CleanupPass
      BY <2>1, <3>1, <3>7, ExpiredInTable DEF CleanupPass
    <3>8. CASE Tick \/ UNCHANGED vars
      BY <3>1, <3>8 DEF Tick, vars
    <3> QED
      BY <1>1, <3>2, <3>3, <3>4, <3>5, <3>6, <3>7, <3>8, StepCases
  <2> QED
    BY <2>2, <2>3
<1>2. IInv /\ [Next]_vars => [Final]_vars
  BY <1>1
<1> QED
  BY <1>2, Inductive, PTL DEF Spec, ExpiryAdvances

(* Late saves cannot keep the key of a destroyed session for ever: there   *)
(* are at most as many as threads were saving when it was destroyed.       *)
THEOREM GoneForGood == Spec => GoneStaysGone
<1> DEFINE Stays(s) ==
      /\ s \in Gone'
      /\ \A t \in Thread : ~Saves(t, s) => ~Saves(t, s)'
      /\ (\A t \in Thread : ~Saves(t, s)) => store'[s] <= store[s]
<1>1. ASSUME IInv, [Next]_vars, NEW s \in Gone
      PROVE  Stays(s)
  <2>0. TypeCore /\ WorkInv
    BY <1>1 DEF IInv
  <2>1. /\ s \in Sid /\ s \in issued /\ s \notin sessions
        /\ \A t \in Thread : pc[t] = "made" => sid[t] # s
    BY <2>0, <1>1 DEF Gone, Making, Makers, TypeCore
  <2>2. ASSUME s \in issued', s \notin sessions',
               \A t \in Thread :
                 pc'[t] \in Saving \cup {"made"} /\ sid'[t] = s
                   => pc[t] \in Saving /\ pc'[t] # "made" /\ sid[t] = s,
               \/ store'[s] <= store[s]
               \/ \E t \in Thread : Saves(t, s)
        PROVE  Stays(s)
    BY <2>2 DEF Gone, Making, Makers, Saves
  <2> HIDE DEF Stays
  <2> USE ManagerAssumption, <2>0, <2>1
      DEF TypeCore, PcState, Holding, Saving, Deleting, Goto, WorkOn
  <2>3. store[s] \in Nat
    OBVIOUS
  <2>4. ASSUME NEW t \in Thread,
               \/ AcquireSlot(t) \/ RetryAcquire(t) \/ FindFull(t)
               \/ GiveUp(t) \/ CreateFails(t) \/ StopSignal(t)
               \/ RunReturns(t) \/ RunTimesOut(t)
        PROVE  Stays(s)
    BY <2>2, <2>3, <2>4
    DEF AcquireSlot, RetryAcquire, TakePermit, FindFull, GiveUp, CreateFails,
        RunReturns, RunTimesOut, StopSignal
  <2>5. ASSUME NEW t \in Thread, MakeRoom(t) \/ StopDestroyAll(t)
        PROVE  Stays(s)
    <3>1. s \notin sessions'
      BY <2>5 DEF MakeRoom, StopDestroyAll, DestroyUnlocked
    <3> QED
      BY <2>2, <2>3, <2>5, <3>1 DEF MakeRoom, StopDestroyAll
  <2>6. ASSUME NEW t \in Thread, NEW r \in Sid, DestroySession(t, r)
        PROVE  Stays(s)
    <3>1. s \notin sessions'
      BY <2>6 DEF DestroySession, DestroyUnlocked
    <3> QED
      BY <2>2, <2>3, <2>6, <3>1 DEF DestroySession
  <2>7. CASE CleanupPass
    <3>1. s \notin sessions'
      BY <2>7 DEF CleanupPass, DestroyUnlocked
    <3> QED
      BY <2>2, <2>3, <2>7, <3>1 DEF CleanupPass, Thread
  <2>8. ASSUME NEW t \in Thread, Register(t)
        PROVE  Stays(s)
    BY <2>2, <2>3, <2>8 DEF Register
  <2>9. ASSUME NEW t \in Thread, NEW r \in Sid,
               \/ \E l \in Saving : Touch(t, r, l)
               \/ CreateSandbox(t, r)
        PROVE  Stays(s)
    BY <2>2, <2>3, <2>9 DEF Touch, CreateSandbox
  <2>10. ASSUME NEW t \in Thread, SaveState(t)
         PROVE  Stays(s)
    <3>1. store'[s] = store[s] \/ Saves(t, s)
      BY <2>10 DEF SaveState, Saves
    <3> QED
      BY <2>2, <2>3, <2>10, <3>1 DEF SaveState
  <2>11. ASSUME NEW t \in Thread, NEW r \in Sid, DeleteState(t, r)
         PROVE  Stays(s)
    <3>1. store'[s] <= store[s]
      BY <2>3, <2>11 DEF DeleteState
    <3> QED
      BY <2>2, <2>11, <3>1 DEF DeleteState
  <2>12. CASE Tick \/ UNCHANGED vars
    <3>1. store'[s] <= store[s]
      BY <2>3, <2>12 DEF Tick, vars
    <3> QED
      BY <2>2, <2>12, <3>1 DEF Tick, vars
  <2> QED
    BY <1>1, <2>4, <2>5, <2>6, <2>7, <2>8, <2>9, <2>10, <2>11, <2>12, StepCases
<1>2. IInv /\ [Next]_vars => [\A s \in Gone : Stays(s)]_vars
  BY <1>1
<1> QED
  BY <1>2, Inductive, PTL DEF Spec, GoneStaysGone
=============================================================================
