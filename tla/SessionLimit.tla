---------------------------- MODULE SessionLimit ----------------------------
(***************************************************************************)
(* What SessionManager promises about its sessions, with no lock, no       *)
(* semaphore, no container and no state store: at most MaxSessions are     *)
(* open or being opened, whoever opens one has a place reserved for it,    *)
(* several may be closed at once, and the id of a closed session never     *)
(* comes back.  SessionManager.tla implements this specification.          *)
(***************************************************************************)
EXTENDS Naturals, FiniteSets

CONSTANTS
  Caller,       \* threads that may open a session
  Sid,          \* session ids
  MaxSessions   \* SessionManager.max_sessions

VARIABLES
  opening,      \* callers a place is reserved for
  open,         \* ids of the open sessions
  used          \* ids of the sessions opened so far

vars == <<opening, open, used>>

Init ==
  /\ opening = {}
  /\ open = {}
  /\ used = {}

(* A caller gets a place: there must be one left. *)
Begin(t) ==
  /\ t \in Caller \ opening
  /\ Cardinality(opening) + Cardinality(open) < MaxSessions
  /\ opening' = opening \cup {t}
  /\ UNCHANGED <<open, used>>

(* The place becomes an open session, under an id never used before. *)
Commit(t, s) ==
  /\ t \in opening
  /\ s \notin used
  /\ opening' = opening \ {t}
  /\ open' = open \cup {s}
  /\ used' = used \cup {s}

(* The session could not be opened: the place is given back. *)
Abort(t) ==
  /\ t \in opening
  /\ opening' = opening \ {t}
  /\ UNCHANGED <<open, used>>

(* A batch of sessions is closed. *)
Close(S) ==
  /\ S # {}
  /\ open' = open \ S
  /\ UNCHANGED <<opening, used>>

Next ==
  \/ \E t \in Caller : Begin(t) \/ Abort(t)
  \/ \E t \in Caller, s \in Sid : Commit(t, s)
  \/ \E S \in SUBSET open : Close(S)

Spec == Init /\ [][Next]_vars

(* The limit: no interleaving of openers reserves or opens more than *)
(* MaxSessions places.                                               *)
Bounded == Cardinality(opening) + Cardinality(open) <= MaxSessions
=============================================================================
