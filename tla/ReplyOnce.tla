------------------------------ MODULE ReplyOnce ------------------------------
(***************************************************************************)
(* What the Dart side relies on when it awaits invokeMethod: a call gets   *)
(* one reply, of a kind the channel knows, and never a second one.         *)
(***************************************************************************)
CONSTANTS Call, Reply, NoReply

VARIABLES asked, reply

vars == <<asked, reply>>

Init == asked = {} /\ reply = [c \in Call |-> NoReply]

Ask(c) ==
  /\ c \notin asked
  /\ asked' = asked \cup {c}
  /\ UNCHANGED reply

Answer(c) ==
  /\ c \in asked
  /\ reply[c] = NoReply
  /\ \E r \in Reply : reply' = [reply EXCEPT ![c] = r]
  /\ UNCHANGED asked

(* A call the handler refuses is answered before it returns.                  *)
AskAndAnswer(c) ==
  /\ c \notin asked
  /\ asked' = asked \cup {c}
  /\ \E r \in Reply : reply' = [reply EXCEPT ![c] = r]

Next == \E c \in Call : Ask(c) \/ Answer(c) \/ AskAndAnswer(c)

Spec == Init /\ [][Next]_vars
=============================================================================
