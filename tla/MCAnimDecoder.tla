---------------------------- MODULE MCAnimDecoder -----------------------------
(* Instances of AnimDecoder for TLC.                                        *)
EXTENDS AnimDecoder

(* One paint that lets the canvas show through, one without alpha channel.    *)
TwoPaints == {f \in Frame : f.paint \in {"solid", "translucent"}}
===============================================================================
