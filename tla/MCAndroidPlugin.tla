--------------------------- MODULE MCAndroidPlugin ---------------------------
(* Instances of AndroidPlugin for TLC.                                       *)
EXTENDS AndroidPlugin

CONSTANTS c1, c2, c3, c4, c5, a, b, u, v, d1, d2

NoCall == {}
Calls2 == {c1, c2}
Calls5 == {c1, c2, c3, c4, c5}
C2 == {c2}
C4 == {c4}

Sources == {a, b, u, v}
Urls == {u, v}
OnlyB == {b}
Dirs == {d1, d2}

(* A download, a path with an image, and for the others one with no file.     *)
UrlThenPaths == [c \in Call |-> IF c = c1 THEN u ELSE IF c = c5 THEN a ELSE b]
TwoPaths == [c \in Call |-> IF c = c1 THEN a ELSE b]
TwoUrls == [c \in Call |-> IF c = c1 THEN u ELSE v]
SameDir == [c \in Call |-> d1]
OwnDirs == [c \in Call |-> IF c = c1 THEN d1 ELSE d2]
=============================================================================
