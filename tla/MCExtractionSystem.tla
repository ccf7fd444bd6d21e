-------------------------- MODULE MCExtractionSystem --------------------------
(* The instance of ExtractionSystem for TLC.                                  *)
EXTENDS ExtractionSystem

CONSTANTS c1, c2, c3, c4, message

(* Two URLs that cannot be parsed, as many as there are slots.                *)
Four == {c1, c2, c3, c4}
Unparsable == {c1, c2}
Urls == {c3}
None == {}

OwnKeys == [c \in Four |-> c]
===============================================================================
