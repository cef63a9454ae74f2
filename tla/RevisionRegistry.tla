-------------------------- MODULE RevisionRegistry --------------------------
(***************************************************************************)
(* What the policy registry promises, with no requests, no nodes that      *)
(* fail, no backlog, no temporary file and no crash: a publish stores a    *)
(* revision and makes it the active one at once, the log tells of stored   *)
(* revisions only, the registry in force is replaced as a whole, and its   *)
(* reader has the whole of some registry, or none before the first one.    *)
(* PolicyRegistry.tla implements this specification.                       *)
(***************************************************************************)
CONSTANTS
  Rev,        \* revision ids
  Registry,   \* what can be in force
  Nothing,    \* no registry is in force yet
  Baseline,   \* what the reader decides with while there is none
  NotLoaded   \* the reader has just started

VARIABLES
  stored,     \* revisions that were published
  active,     \* the active revision, as a set
  logged,     \* revisions the log tells of
  inForce,    \* the registry in force
  read        \* what the reader decides with

records == <<stored, active, logged>>
vars == <<records, inForce, read>>

Init ==
  /\ stored = {}
  /\ active = {}
  /\ logged = {}
  /\ inForce = Nothing
  /\ read = NotLoaded

(* v is published, perhaps again. *)
Publish(v) ==
  /\ stored' = stored \cup {v}
  /\ active' = {v}
  /\ UNCHANGED <<logged, inForce, read>>

Record(v) ==
  /\ v \in stored
  /\ logged' = logged \cup {v}
  /\ UNCHANGED <<stored, active, inForce, read>>

Replace(b) ==
  /\ inForce' = b
  /\ UNCHANGED <<records, read>>

Read ==
  /\ read' = IF inForce = Nothing THEN Baseline ELSE inForce
  /\ UNCHANGED <<records, inForce>>

ReaderRestarts ==
  /\ read' = NotLoaded
  /\ UNCHANGED <<records, inForce>>

Next ==
  \/ \E v \in Rev : Publish(v) \/ Record(v)
  \/ \E b \in Registry : Replace(b)
  \/ Read \/ ReaderRestarts

Spec == Init /\ [][Next]_vars
=============================================================================
