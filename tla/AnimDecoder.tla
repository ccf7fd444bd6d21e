------------------------------ MODULE AnimDecoder ------------------------------
(***************************************************************************)
(* libwebp's own compositor, WebPAnimDecoder (src/demux/anim_decode.c), in *)
(* its mode without premultiplied alpha: the behaviour the plugin's frame  *)
(* loop is a second implementation of.  It keeps two canvases, starts from *)
(* a blank one at key frames, and blends only where something can show     *)
(* through.                                                                *)
(***************************************************************************)
EXTENDS Animation

CONSTANT FrameCount    (* info_.frame_count (bound)                            *)

ASSUME CountAssumption == FrameCount \in Nat \ {0}

VARIABLES
  nextFrame,      (* next_frame_                                               *)
  currFrame,      (* curr_frame_                                               *)
  prevDisposed,   (* prev_frame_disposed_                                      *)
  prevIter,       (* prev_iter_: the last frame                                *)
  prevWasKey,     (* prev_frame_was_keyframe_                                  *)
  given           (* the canvas the caller was last given                      *)

vars == <<nextFrame, currFrame, prevDisposed, prevIter, prevWasKey, given>>

Init ==
  /\ nextFrame = 1
  /\ currFrame = Blank /\ prevDisposed = Blank
  /\ prevIter = NoFrame
  /\ prevWasKey = FALSE
  /\ given = Blank

(* Mutant: one call too many.                                                 *)
HasMoreFramesOffByOne == nextFrame <= FrameCount + 1

HasMoreFrames == nextFrame <= FrameCount

IsFullFrame(r) == r.w = Width /\ r.h = Height

(* The canvas before this frame is blank, or does not matter.                 *)
IsKeyFrame(f) ==
  \/ nextFrame = 1
  \/ (f.paint = "solid" \/ f.blend = NoBlend) /\ IsFullFrame(f)
  \/ prevIter.dispose = Background /\ (IsFullFrame(prevIter) \/ prevWasKey)

(* Mutant: the rows of dst are not looked at.                                 *)
BlendRangeAnyRow(src, dst, y) ==
  (IF src.x < dst.x THEN src.x..dst.x - 1 ELSE {})
    \cup (IF src.x + src.w > dst.x + dst.w THEN dst.x + dst.w..src.x + src.w - 1 ELSE {})

(* The columns of row y that belong to src but not to dst: at most two        *)
(* ranges, to the left and to the right of it.                                *)
BlendRange(src, dst, y) ==
  LET right == src.x + src.w
      dstRight == dst.x + dst.w
  IN IF \/ y < dst.y \/ y >= dst.y + dst.h
        \/ src.x >= dstRight \/ right <= dst.x
     THEN src.x..right - 1
     ELSE (IF src.x < dst.x THEN src.x..dst.x - 1 ELSE {})
          \cup (IF right > dstRight THEN dstRight..right - 1 ELSE {})

(* WebPDecode into the rectangle of the frame.                                *)
DecodedOver(f, base) ==
  [p \in Pixel |-> IF p \in Rect(f) THEN Raw(f, nextFrame) ELSE base[p]]

(* The pixels of the frame that are mixed with the disposed canvas.           *)
Blended(f) ==
  IF IsKeyFrame(f) \/ f.blend = NoBlend THEN {}
  ELSE IF prevIter.dispose = Keep THEN Rect(f)
  ELSE {p \in Rect(f) : p[1] \in BlendRange(f, prevIter, p[2])}

BlendPixel(f, src, dst) ==
  IF f.paint \in {"solid", "opaque"} THEN src ELSE dst \o src

(* Mutant: a key frame is decoded into whatever is there.                     *)
BaseNotCleared(f) == prevDisposed

Base(f) == IF IsKeyFrame(f) THEN Blank ELSE prevDisposed

(* WebPAnimDecoderGetNext, and the canvas it hands out.                       *)
GetNext(f) ==
  /\ HasMoreFrames
  /\ LET decoded == DecodedOver(f, Base(f))
         blended == Blended(f)
     IN currFrame' = [p \in Pixel |->
         IF p \in blended THEN BlendPixel(f, decoded[p], prevDisposed[p])
         ELSE decoded[p]]
  /\ prevIter' = f
  /\ prevWasKey' = IsKeyFrame(f)
  /\ prevDisposed' =
       IF f.dispose = Background THEN ClearRect(currFrame', f) ELSE currFrame'
  /\ nextFrame' = nextFrame + 1
  /\ given' = currFrame'

(* WebPDecode fails, as late as with the whole frame written: nothing but the *)
(* scratch canvas has changed, and the next call tries this frame again.      *)
GetNextFails(f) ==
  /\ HasMoreFrames
  /\ currFrame' = DecodedOver(f, Base(f))
  /\ UNCHANGED <<nextFrame, prevDisposed, prevIter, prevWasKey, given>>

(* WebPAnimDecoderReset keeps both canvases.                                  *)
Reset ==
  /\ nextFrame' = 1
  /\ prevIter' = NoFrame
  /\ prevWasKey' = FALSE
  /\ given' = Blank
  /\ UNCHANGED <<currFrame, prevDisposed>>

Next == Reset \/ \E f \in Frames : GetNext(f) \/ GetNextFails(f)

Spec == Init /\ [][Next]_vars

-----------------------------------------------------------------------------
TypeOK ==
  /\ nextFrame \in 1..FrameCount + 1
  /\ currFrame \in [Pixel -> Seq(1..FrameCount)]
  /\ prevDisposed \in [Pixel -> Seq(1..FrameCount)]
  /\ given \in [Pixel -> Seq(1..FrameCount)]
  /\ prevIter \in Frame \cup {NoFrame}
  /\ prevWasKey \in BOOLEAN

(* After a key frame that is disposed of, the canvas is blank whatever the    *)
(* frame covered: this is what the third case of IsKeyFrame (lines 206-211)   *)
(* takes for granted.                                                         *)
KeyFrameLeavesBlank ==
  prevWasKey /\ prevIter.dispose = Background => prevDisposed = Blank

(* Key frames, the second canvas and the partial blending are invisible: the  *)
(* caller gets the canvases of Canvas Assembly, also after a frame that failed*)
(* and after a Reset that leaves both canvases dirty (lines 329-464).         *)
A == INSTANCE CanvasAssembly WITH
       Numbers <- 1..FrameCount, shown <- given, last <- prevIter
AssemblesCanvas == A!LoopSpec
=============================================================================
