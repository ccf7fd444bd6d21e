---------------------------- MODULE MCDecodePool ----------------------------
(* Instances of DecodePool for TLC.                                          *)
EXTENDS DecodePool

CONSTANTS c1, c2, c3, c4, c5, c6, k1, k2, k3, k4, k5

Controlled4 == {c1, c2, c3, c4}
Calls5 == {c1, c2, c3, c4, c5}
Calls6 == {c1, c2, c3, c4, c5, c6}
Batch2 == {c5, c6}
Batch3 == {c3, c4, c5}
None == {}

Keys == {k1, k2, k3, k4, k5}

(* Two calls for the same input and directory, then two different ones.      *)
SharedKeys == [c \in Call |-> IF c \in {c1, c2} THEN k1 ELSE IF c = c3 THEN k2 ELSE k3]
SeparateKeys ==
  [c \in Call |-> IF c = c1 THEN k1 ELSE IF c = c2 THEN k2
                  ELSE IF c = c3 THEN k3 ELSE IF c = c4 THEN k4 ELSE k5]

(* Arguments outside 1..5 as well as inside.                                 *)
AnyMax == {0, 1, 3, 9}
=============================================================================
