------------------------------- MODULE Limiter -------------------------------
(***************************************************************************)
(* What a concurrency limiter promises its callers, whatever it is made    *)
(* of: a client is let inside only while fewer than limit clients are, a   *)
(* client that waits stays until it is let in.                             *)
(***************************************************************************)
EXTENDS Integers, FiniteSets

CONSTANTS Client, Limits

VARIABLES limit, waiting, inside

vars == <<limit, waiting, inside>>

Init == limit \in Limits /\ waiting = {} /\ inside = {}

Arrive(c) ==
  /\ c \notin waiting \cup inside
  /\ waiting' = waiting \cup {c}
  /\ UNCHANGED <<limit, inside>>

Enter(c) ==
  /\ c \notin inside
  /\ Cardinality(inside) < limit
  /\ inside' = inside \cup {c}
  /\ waiting' = waiting \ {c}
  /\ UNCHANGED limit

Leave(c) ==
  /\ c \in inside
  /\ inside' = inside \ {c}
  /\ UNCHANGED <<limit, waiting>>

SetLimit(n) == limit' = n /\ UNCHANGED <<waiting, inside>>

Next ==
  \/ \E c \in Client : Arrive(c) \/ Enter(c) \/ Leave(c)
  \/ \E n \in Limits : SetLimit(n)

Spec == Init /\ [][Next]_vars
=============================================================================
