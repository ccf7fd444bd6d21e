------------------------------ MODULE Animation ------------------------------
(***************************************************************************)
(* What both compositors of this repository are given: the canvas and the  *)
(* frames of a WebP animation as the demuxer hands them over (the fields   *)
(* of WebPIterator).                                                       *)
(*                                                                         *)
(* Pixels are treated alike by all the code modelled here, so a frame is   *)
(* given one paint for all its pixels: what counts is whether alpha is     *)
(* 255, 0 or between.  The value of a canvas pixel is the stack of the     *)
(* frames that show in it, the bottom one first; <<>> is transparent.      *)
(***************************************************************************)
EXTENDS Integers, Sequences

CONSTANTS Width, Height, (* canvas_width, canvas_height                        *)
          Frames         (* the frames a file may contain                      *)

Pixel == (0..Width - 1) \X (0..Height - 1)

Background == "dispose background"   (* WEBP_MUX_DISPOSE_BACKGROUND            *)
Keep == "dispose none"               (* WEBP_MUX_DISPOSE_NONE                  *)
Dispose == {Background, Keep}

Blend == "blend"                     (* WEBP_MUX_BLEND                         *)
NoBlend == "no blend"                (* WEBP_MUX_NO_BLEND                      *)

(* "solid" has no alpha channel; "opaque" has one, of 255 everywhere.         *)
Paint == {"solid", "opaque", "translucent", "clear"}

Inside(f) == f.x + f.w <= Width /\ f.y + f.h <= Height

(* Offsets are stored halved in the file, and CheckFrameBounds refuses a      *)
(* frame that leaves the canvas.                                              *)
Frame ==
  {f \in [x : 0..Width - 1, y : 0..Height - 1, w : 1..Width, h : 1..Height,
          blend : {Blend, NoBlend}, dispose : Dispose, paint : Paint] :
     f.x % 2 = 0 /\ f.y % 2 = 0 /\ Inside(f)}

ASSUME AnimationAssumption ==
  Width \in Nat \ {0} /\ Height \in Nat \ {0} /\ Frames \subseteq Frame

(* A WebPIterator filled with zeros: no frame yet.                            *)
NoFrame ==
  [x |-> 0, y |-> 0, w |-> 0, h |-> 0, blend |-> Blend, dispose |-> Keep,
   paint |-> "solid"]

Rect(r) == (r.x..r.x + r.w - 1) \X (r.y..r.y + r.h - 1)

Transparent == <<>>
Blank == [p \in Pixel |-> Transparent]

ClearRect(canvas, r) ==
  [p \in Pixel |-> IF p \in Rect(r) THEN Transparent ELSE canvas[p]]

(* What a pixel of frame number n holds before any blending.                  *)
Raw(f, n) == IF f.paint = "clear" THEN Transparent ELSE <<n>>
=============================================================================
