------------------------------ MODULE Compositor ------------------------------
(***************************************************************************)
(* The frame loop of decodeWebPNative (webp_wrapper.cpp): one canvas, kept *)
(* from frame to frame, saved after each frame.  A step is one round of    *)
(* the loop.  The frames of the file are revealed as the loop gets to them.*)
(* NativeCall adds what happens around the loop and inside a round.        *)
(***************************************************************************)
EXTENDS Animation

CONSTANT FrameCount    (* frames in the file (bound)                           *)

ASSUME CountAssumption == FrameCount \in Nat \ {0}

VARIABLES
  i,        (* the loop's counter                                              *)
  canvas,   (* canvas_rgba                                                     *)
  prev,     (* prev_offset_x .. prev_height, prev_dispose                      *)
  picture,  (* the canvas last handed to saveBitmapAsPNG                       *)
  saved,    (* saved_frames, by the number of their file                       *)
  drawn     (* the frame in that picture: history, no step reads it            *)

canvasVars == <<i, canvas, prev, picture, saved, drawn>>

Remembered(r) == [x |-> r.x, y |-> r.y, w |-> r.w, h |-> r.h, dispose |-> r.dispose]

InitCanvas ==
  /\ i = 1
  /\ canvas = Blank
  /\ prev = Remembered(NoFrame)
  /\ picture = Blank
  /\ saved = <<>>
  /\ drawn = NoFrame

(* Both places that walk over a rectangle cut it off at the canvas first.     *)
Clip(r) ==
  [r EXCEPT !.w = IF r.x + r.w > Width THEN Width - r.x ELSE r.w,
            !.h = IF r.y + r.h > Height THEN Height - r.y ELSE r.h]

(* Mutant: the frame that is about to be drawn decides on the disposal.       *)
DisposedByCurrent(f) ==
  IF i > 1 /\ f.dispose = Background THEN ClearRect(canvas, Clip(prev)) ELSE canvas

(* What the previous frame leaves for this one.                               *)
Disposed(f) ==
  IF i > 1 /\ prev.dispose = Background THEN ClearRect(canvas, Clip(prev)) ELSE canvas

(* NO_BLEND clears the rectangle and copies the frame in; BLEND copies the    *)
(* opaque pixels and puts the others over the canvas.                         *)
Drawn(f, below) ==
  LET cleared == IF f.blend = NoBlend THEN ClearRect(below, Clip(f)) ELSE below
  IN [p \in Pixel |->
        IF p \notin Rect(Clip(f)) THEN cleared[p]
        ELSE IF f.blend = Blend /\ f.paint \notin {"solid", "opaque"}
        THEN cleared[p] \o Raw(f, i)
        ELSE Raw(f, i)]

(* WebPDemuxGetFrame fails: the loop goes on before it disposes of anything.  *)
FrameMissing ==
  /\ i <= FrameCount
  /\ i' = i + 1
  /\ UNCHANGED <<canvas, prev, picture, saved, drawn>>

(* Mutant: the frame that failed is taken for the previous one.               *)
FrameUndecodableBecomesPrev(f) ==
  /\ i <= FrameCount
  /\ canvas' = Disposed(f)
  /\ prev' = Remembered(f)
  /\ i' = i + 1
  /\ UNCHANGED <<picture, saved, drawn>>

(* WebPDecodeRGBA fails: the previous frame has been disposed of by then.     *)
FrameUndecodable(f) ==
  /\ i <= FrameCount
  /\ canvas' = Disposed(f)
  /\ i' = i + 1
  /\ UNCHANGED <<prev, picture, saved, drawn>>

(* Mutant: files are numbered like the demuxer's frames, from one.            *)
FrameDrawnFromOne(f, kept) ==
  /\ i <= FrameCount
  /\ canvas' = Drawn(f, Disposed(f))
  /\ picture' = canvas'
  /\ saved' = IF kept THEN Append(saved, i) ELSE saved
  /\ prev' = Remembered(Clip(f))
  /\ drawn' = f
  /\ i' = i + 1

(* Drawn, then listed if saveBitmapAsPNG succeeds (kept).                     *)
FrameDrawn(f, kept) ==
  /\ i <= FrameCount
  /\ canvas' = Drawn(f, Disposed(f))
  /\ picture' = canvas'
  /\ saved' = IF kept THEN Append(saved, i - 1) ELSE saved
  /\ prev' = Remembered(Clip(f))
  /\ drawn' = f
  /\ i' = i + 1

NextRound ==
  \/ FrameMissing
  \/ \E f \in Frames : FrameUndecodable(f) \/ \E kept \in BOOLEAN : FrameDrawn(f, kept)

CanvasSpec == InitCanvas /\ [][NextRound]_canvasVars

-----------------------------------------------------------------------------
CanvasTypeOK ==
  /\ i \in 1..FrameCount + 1
  /\ canvas \in [Pixel -> Seq(1..FrameCount)]
  /\ picture \in [Pixel -> Seq(1..FrameCount)]
  /\ prev \in [x : 0..Width - 1, y : 0..Height - 1, w : 0..Width, h : 0..Height,
               dispose : Dispose]
  /\ saved \in Seq(0..FrameCount - 1)
  /\ drawn \in Frame \cup {NoFrame}

(* Between two rounds the canvas is the last picture, or that picture with    *)
(* the disposal applied early by a frame that then failed to decode: nothing  *)
(* else ever touches it (lines 212-375).                                      *)
CanvasIsLastPicture ==
  \/ canvas = picture
  \/ prev.dispose = Background /\ canvas = ClearRect(picture, prev)

(* The pictures are those of Canvas Assembly; a frame that is missing or      *)
(* cannot be decoded is as if it were not in the file (lines 212-375).        *)
A == INSTANCE CanvasAssembly WITH
       Numbers <- 1..FrameCount, shown <- picture, last <- drawn
AssemblesCanvas == A!Spec
=============================================================================
