------------------------------ MODULE MCDemuxer ------------------------------
EXTENDS Demuxer

(* A canvas of 3 by 1; frames of width 1, at 0 or 2, and of width 3, so that  *)
(* a frame fills the canvas, lies in it or leaves it.                         *)
Image(id, size, w, sound, hasAlpha) ==
  [id |-> id, size |-> size, w |-> w, h |-> 1, sound |-> sound, hasAlpha |-> hasAlpha]

Vp8x(set, w) == [id |-> "VP8X", size |-> 1, flags |-> set, w |-> w, h |-> 1]
Anmf(size, x, w) ==
  [id |-> "ANMF", size |-> size, x |-> x, y |-> 0, w |-> w, h |-> 1]

MCChunk ==
  {Vp8x({}, 3), Vp8x({"animation"}, 3), Vp8x({"alpha"}, 3),
   Vp8x({"animation", "reserved"}, 3), Vp8x({}, 4)}
  \union {Image("VP8", 2, 1, TRUE, FALSE), Image("VP8", 1, 3, TRUE, FALSE),
          Image("VP8", 0, 3, TRUE, FALSE), Image("VP8", 1, 3, FALSE, FALSE),
          Image("VP8L", 1, 1, TRUE, TRUE)}
  \union {[id |-> "ALPH", size |-> 1]}
  \union {[id |-> "ANIM", size |-> n] : n \in 0..1}
  \union {Anmf(n, 0, 1) : n \in {0, 3, 5}} \union {Anmf(3, 1, 1), Anmf(3, 0, 4)}
  \union {[id |-> "other", size |-> 1]}
=============================================================================
