---------------------------- MODULE SessionHandout ----------------------------
(***************************************************************************)
(* What SessionPool promises to its clients, with no lock, no manager and  *)
(* no expiry: a session is made for one client, passes through a bounded   *)
(* first-in first-out list from one client to another, and is gone for     *)
(* good once it is dropped.  SessionPool.tla implements this               *)
(* specification.                                                          *)
(***************************************************************************)
EXTENDS Naturals, Sequences

CONSTANTS
  Client,     \* threads that may have a session
  Session,    \* session ids
  NoSession,  \* "this client has no session"
  Capacity    \* how many sessions the list may have

VARIABLES
  free,       \* the list, oldest first
  given,      \* given[c]: the session client c has
  made        \* ids of the sessions made so far

vars == <<free, given, made>>

Init ==
  /\ free = <<>>
  /\ given = [c \in Client |-> NoSession]
  /\ made = {}

(* A session is made for c, under an id never used before. *)
Make(c, s) ==
  /\ given[c] = NoSession
  /\ s \notin made
  /\ made' = made \cup {s}
  /\ given' = [given EXCEPT ![c] = s]
  /\ UNCHANGED free

(* c is given the session that has been in the list for longest. *)
Take(c) ==
  /\ given[c] = NoSession
  /\ free # <<>>
  /\ given' = [given EXCEPT ![c] = Head(free)]
  /\ free' = Tail(free)
  /\ UNCHANGED made

(* That session turns out to be dead. *)
Discard ==
  /\ free # <<>>
  /\ free' = Tail(free)
  /\ UNCHANGED <<given, made>>

(* c gives its session back; there must be room for it. *)
GiveBack(c) ==
  /\ given[c] # NoSession
  /\ Len(free) < Capacity
  /\ free' = Append(free, given[c])
  /\ given' = [given EXCEPT ![c] = NoSession]
  /\ UNCHANGED made

(* The session of c is dropped. *)
Drop(c) ==
  /\ given[c] # NoSession
  /\ given' = [given EXCEPT ![c] = NoSession]
  /\ UNCHANGED <<free, made>>

Next ==
  \/ \E c \in Client : Take(c) \/ GiveBack(c) \/ Drop(c)
  \/ \E c \in Client, s \in Session : Make(c, s)
  \/ Discard

Spec == Init /\ [][Next]_vars

(* A session is in one place: in the list once, or with one client, *)
(* however often it changes hands.                                  *)
Exclusive ==
  /\ \A i, j \in 1 .. Len(free) : free[i] = free[j] => i = j
  /\ \A c \in Client : given[c] # NoSession =>
       /\ \A i \in 1 .. Len(free) : free[i] # given[c]
       /\ \A d \in Client : given[d] = given[c] => d = c
=============================================================================
