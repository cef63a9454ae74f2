------------------------ MODULE OperatorSessionsProofs ------------------------
(***************************************************************************)
(* Proofs about OperatorSessions, for any number of pools, sessions and    *)
(* pods, with and without failing calls.  The inductive invariant is       *)
(*                                                                         *)
(*   OSTypeOK /\ CreateInv /\ StoredPodAgrees /\ PlacedKeysExpire          *)
(***************************************************************************)
EXTENDS OperatorSessions, TLAPS

(* A create handler runs for a session that is there, stores only for a    *)
(* persistent one, and what it has stored is about the pod it has chosen,  *)
(* or has expired.                                                         *)
CreateInv ==
  \A s \in Session :
    /\ sr[s] = "absent" => step[s] = "new"
    /\ step[s] \in {"hset", "expire"} => s \in Persist
    /\ step[s] = "expire" => stored[s] \in {NoPod, target[s]}

OSInv == OSTypeOK /\ CreateInv /\ StoredPodAgrees /\ PlacedKeysExpire

LEMMA OSInitInv == OSInit => OSInv
  BY SessionsAssumption, SMT
  DEF OSInit, OSInv, OSTypeOK, CreateInv, StoredPodAgrees, PlacedKeysExpire, SessionSteps

(* Nobody but the create handler of s writes to the key of s what is not   *)
(* its removal, and it sets a time to live before it reports the pod.      *)
LEMMA OSStepInv == OSInv /\ [OSNext]_osvars => OSInv'
<1> SUFFICES ASSUME OSInv, [OSNext]_osvars PROVE OSInv'
  OBVIOUS
<1> USE SessionsAssumption
    DEF OSInv, OSTypeOK, CreateInv, StoredPodAgrees, PlacedKeysExpire, SessionSteps,
        Returned
<1>1. CASE UNCHANGED ssvars
  BY <1>1, SMT DEF ssvars, creating, redis
<1>2. ASSUME NEW s \in Session, CreateSession(s) \/ DeleteSession(s)
      PROVE  OSInv'
  BY <1>2, SMT DEF CreateSession, DeleteSession, creating, redis
<1>3. ASSUME NEW s \in Session, NEW p \in Pod, PlaceOn(s, p)
      PROVE  OSInv'
  BY <1>3, SMT DEF PlaceOn, Called, Goes, redis
<1>4. ASSUME NEW s \in Session, PlaceNowhere(s)
      PROVE  OSInv'
  BY <1>4, SMT DEF PlaceNowhere, Called, Goes, redis
<1>5. ASSUME NEW s \in Session, Hset(s)
      PROVE  OSInv'
  BY <1>5, SMT DEF Hset, Goes
<1>6. ASSUME NEW s \in Session, Expire(s)
      PROVE  OSInv'
  <2>1. /\ UNCHANGED <<sr, handled, running, stored>>
        /\ step' = [step EXCEPT ![s] = "active"]
        /\ target' = [target EXCEPT ![s] = target[s]]
        /\ expires' = [expires EXCEPT ![s] = stored[s] # NoPod]
        /\ step[s] = "expire"
    BY <1>6 DEF Expire, Goes
  <2>2. expires' \in [Session -> BOOLEAN]
    BY <2>1
  <2>3. OSTypeOK' /\ CreateInv' /\ StoredPodAgrees'
    BY <2>1, <2>2, SMT
  <2>4. PlacedKeysExpire'
    <3>1. SUFFICES ASSUME NEW u \in Session \cap Persist, step'[u] = "active",
                          stored'[u] # NoPod
                   PROVE  expires'[u]
      BY Zenon DEF PlacedKeysExpire
    <3>2. CASE u = s
      BY <2>1, <3>1, <3>2, Zenon
    <3>3. CASE u # s
      BY <2>1, <3>1, <3>3, Zenon
    <3> QED
      BY <3>2, <3>3
  <2> QED
    BY <2>3, <2>4
<1>7. ASSUME NEW s \in Session, NEW call \in {"hset", "expire"}, RedisFails(s, call)
      PROVE  OSInv'
  BY <1>7, SMT DEF RedisFails, Goes, redis
<1>8. ASSUME NEW s \in Session, Noted(s)
      PROVE  OSInv'
  BY <1>8, SMT DEF Noted, redis
<1>9. ASSUME NEW s \in Session, DeleteHandled(s)
      PROVE  OSInv'
  BY <1>9, SMT DEF DeleteHandled, redis
<1>10. ASSUME NEW s \in Session, KeyExpires(s)
       PROVE  OSInv'
  BY <1>10, SMT DEF KeyExpires, creating
<1>11. ASSUME NEW p \in Pod, PodStarts(p) \/ PodStops(p)
       PROVE  OSInv'
  BY <1>11, SMT DEF PodStarts, PodStops, creating, redis
<1>12. CASE CutOff
  BY <1>12, SMT DEF CutOff, redis
<1> QED
  BY <1>1, <1>2, <1>3, <1>4, <1>5, <1>6, <1>7, <1>8, <1>9, <1>10, <1>11, <1>12
  DEF OSNext, SessionStep, Place, AwaitsRedis, osvars

LEMMA OSInvHolds == OSSpec => []OSInv
  BY OSInitInv, OSStepInv, PTL DEF OSSpec

(* Type correctness, with what ties a chosen pod to the handler's place.   *)
THEOREM OSTypeCorrect == OSSpec => []OSTypeOK
  BY OSInvHolds, PTL DEF OSInv

(* The key of a placed session is about the session's own pod, whatever    *)
(* failed, was cut off or was left behind by an earlier session.           *)
THEOREM StoredAgrees == OSSpec => []StoredPodAgrees
  BY OSInvHolds, PTL DEF OSInv

(* The key of a placed session does not stay in Redis for ever.            *)
THEOREM StoredKeysExpire == OSSpec => []PlacedKeysExpire
  BY OSInvHolds, PTL DEF OSInv

-----------------------------------------------------------------------------
(* The handlers of sessions take nothing from those of pools: what is      *)
(* proved of OperatorPools holds beside them.                              *)
THEOREM SessionsUsePools == OSSpec => OPSpec
<1>1. OSInit => OPInit
  BY DEF OSInit
<1>2. [OSNext]_osvars => [OPNext]_opvars
  BY DEF OSNext, OPNext, osvars
<1> QED
  BY <1>1, <1>2, PTL DEF OSSpec, OPSpec

(* What the create handler has come to, as a number that only falls.       *)
StepsLeft(s) ==
  IF s \in handled THEN 0
  ELSE [new |-> 4, hset |-> 3, expire |-> 2, active |-> 1, pending |-> 1,
        failed |-> 1][step[s]]

(* The safety half of SessionsAnswered: as long as the operator is up, and *)
(* the session is there, every step of its create handler brings it nearer *)
(* to its answer, whatever fails; and the answer, with its pod, is final:  *)
(* a session that was queued or has failed stays so.                       *)
AnswersAdvance ==
  [][\A s \in Session :
       sr[s] # "absent" /\ sr'[s] # "absent" =>
         /\ up' => \/ step'[s] = step[s] /\ (s \in handled' <=> s \in handled)
                   \/ StepsLeft(s)' < StepsLeft(s)
         /\ s \in handled =>
              s \in handled' /\ step'[s] = step[s] /\ target'[s] = target[s]]_osvars

LEMMA AnswerStep ==
  ASSUME OSInv, OSNext, NEW s \in Session, sr[s] # "absent", sr'[s] # "absent"
  PROVE  /\ up' => \/ step'[s] = step[s] /\ (s \in handled' <=> s \in handled)
                   \/ StepsLeft(s)' < StepsLeft(s)
         /\ s \in handled =>
              s \in handled' /\ step'[s] = step[s] /\ target'[s] = target[s]
<1> DEFINE Onward ==
       /\ up' => \/ step'[s] = step[s] /\ (s \in handled' <=> s \in handled)
                 \/ StepsLeft(s)' < StepsLeft(s)
       /\ s \in handled =>
            s \in handled' /\ step'[s] = step[s] /\ target'[s] = target[s]
<1> USE DEF OSInv, OSTypeOK, Returned, SessionSteps
<1>1. ASSUME UNCHANGED creating
      PROVE  Onward
  BY <1>1, SMT DEF creating
<1>2. ASSUME NEW u \in Session, Place(u)
      PROVE  Onward
  BY <1>2, SMT DEF Place, PlaceOn, PlaceNowhere, Called, Goes, StepsLeft
<1>3. ASSUME NEW u \in Session, AwaitsRedis(u)
      PROVE  Onward
  BY <1>3, SMT DEF AwaitsRedis, Hset, Expire, RedisFails, Goes, StepsLeft
<1>4. ASSUME NEW u \in Session, Noted(u)
      PROVE  Onward
  BY <1>4, SMT DEF Noted, StepsLeft
<1>5. ASSUME NEW u \in Session, DeleteHandled(u)
      PROVE  Onward
  BY <1>5, SMT DEF DeleteHandled
<1>6. ASSUME Crash, CutOff
      PROVE  Onward
  <2>1. ~up'
    BY <1>6 DEF Crash
  <2>2. s \in handled => s \in handled' /\ step'[s] = step[s] /\ target'[s] = target[s]
    BY <1>6, SMT DEF CutOff
  <2> QED
    BY <2>1, <2>2
<1> QED
  BY <1>1, <1>2, <1>3, <1>4, <1>5, <1>6
  DEF OSNext, SessionStep, CreateSession, DeleteSession, KeyExpires, PodStarts,
      PodStops, ssvars

(* A session's creation only advances to its answer, which stands.         *)
THEOREM AnswersOnlyAdvance == OSSpec => AnswersAdvance
<1> DEFINE Onward ==
       \A s \in Session :
         sr[s] # "absent" /\ sr'[s] # "absent" =>
           /\ up' => \/ step'[s] = step[s] /\ (s \in handled' <=> s \in handled)
                     \/ StepsLeft(s)' < StepsLeft(s)
           /\ s \in handled =>
                s \in handled' /\ step'[s] = step[s] /\ target'[s] = target[s]
<1>1. OSInv /\ [OSNext]_osvars => [Onward]_osvars
  BY AnswerStep
<1> QED
  BY <1>1, OSInvHolds, PTL DEF OSSpec, AnswersAdvance
=============================================================================
