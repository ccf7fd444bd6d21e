---------------------------- MODULE CanvasAssembly ----------------------------
(***************************************************************************)
(* The canvas a reader of an animation must show (Canvas Assembly in the   *)
(* container specification kept with libwebp): before a frame is rendered  *)
(* the disposal of the previous one is applied, then the frame goes over   *)
(* the canvas or replaces what is there.                                   *)
(***************************************************************************)
EXTENDS Animation

CONSTANT Numbers      (* the numbers the frames can have                       *)

VARIABLES shown,      (* the canvas after the last rendered frame              *)
          last        (* that frame                                            *)

vars == <<shown, last>>

Init == shown = Blank /\ last = NoFrame

Disposed == IF last.dispose = Background THEN ClearRect(shown, last) ELSE shown

Over(f, n, below) ==
  IF f.blend = NoBlend \/ f.paint \in {"solid", "opaque"} THEN Raw(f, n)
  ELSE below \o Raw(f, n)

Rendered(f, n) ==
  LET below == Disposed IN
  [p \in Pixel |-> IF p \in Rect(f) THEN Over(f, n, below[p]) ELSE below[p]]

Render ==
  /\ last' \in Frame
  /\ \E n \in Numbers : shown' = Rendered(last', n)

Spec == Init /\ [][Render]_vars

(* A player may start the animation again, on a blank canvas.                 *)
Restart == shown' = Blank /\ last' = NoFrame

LoopSpec == Init /\ [][Render \/ Restart]_vars
=============================================================================
