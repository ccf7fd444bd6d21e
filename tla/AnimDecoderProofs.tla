--------------------------- MODULE AnimDecoderProofs ---------------------------
(***************************************************************************)
(* WebPAnimDecoder assembles the canvas of the container specification,    *)
(* for canvases of any size, animations of any length and frames of any    *)
(* kind.                                                                   *)
(*                                                                         *)
(* The canvas that waits for the next frame is what Canvas Assembly leaves *)
(* of the one given to the caller (WaitsDisposed), except right after a    *)
(* Reset, when it is not read: the first frame is a key frame.  A later    *)
(* key frame starts from a blank canvas, and KeyFrameOnBlank is why that   *)
(* is what it would have found: outside its own rectangle, a key frame     *)
(* leaves nothing on the canvas.                                           *)
(***************************************************************************)
EXTENDS AnimDecoder, SequenceTheorems, TLAPS

Picture == [Pixel -> Seq(1..FrameCount)]

WaitsDisposed ==
  IF nextFrame = 1
  THEN given = Blank /\ prevIter = NoFrame /\ prevWasKey = FALSE
  ELSE prevDisposed = IF prevIter.dispose = Background
                      THEN ClearRect(given, prevIter) ELSE given

KeyFrameOnBlank == prevWasKey => ClearRect(given, prevIter) = Blank

DecoderInv == TypeOK /\ WaitsDisposed /\ KeyFrameOnBlank

-----------------------------------------------------------------------------
LEMMA BlankType == Blank \in Picture /\ Blank = [p \in Pixel |-> <<>>]
<1>1. <<>> \in Seq(1..FrameCount)
  OBVIOUS
<1> QED BY <1>1 DEF Blank, Picture, Transparent

LEMMA ClearType ==
  ASSUME NEW c \in Picture, NEW r
  PROVE  /\ ClearRect(c, r) \in Picture
         /\ \A p \in Pixel : ClearRect(c, r)[p] = IF p \in Rect(r) THEN <<>> ELSE c[p]
<1>1. <<>> \in Seq(1..FrameCount) /\ \A p \in Pixel : c[p] \in Seq(1..FrameCount)
  BY DEF Picture
<1> QED BY <1>1 DEF Picture, ClearRect, Transparent

LEMMA RawType ==
  ASSUME NEW f, NEW n \in 1..FrameCount
  PROVE  Raw(f, n) \in Seq(1..FrameCount)
<1>1. <<n>> \in Seq(1..FrameCount) /\ <<>> \in Seq(1..FrameCount)
  OBVIOUS
<1> QED BY <1>1 DEF Raw, Transparent

(* A frame or the zeros of no frame: the integers and methods in it.          *)
LEMMA FrameFields ==
  ASSUME NEW f \in Frame \cup {NoFrame}
  PROVE  /\ f.x \in 0..Width - 1 /\ f.y \in 0..Height - 1
         /\ f.w \in 0..Width /\ f.h \in 0..Height
         /\ f.x + f.w <= Width /\ f.y + f.h <= Height
         /\ f.dispose \in {Background, Keep}
         /\ f.blend \in {Blend, NoBlend}
BY AnimationAssumption DEF Frame, NoFrame, Inside, Dispose

(* A frame of the size of the canvas is the canvas.                           *)
LEMMA FullFrame ==
  ASSUME NEW f \in Frame \cup {NoFrame}, IsFullFrame(f)
  PROVE  Rect(f) = Pixel
<1>1. f.x = 0 /\ f.y = 0 /\ f.w = Width /\ f.h = Height
  BY FrameFields, AnimationAssumption DEF IsFullFrame
<1> QED BY <1>1, AnimationAssumption DEF Rect, Pixel

(* FindBlendRangeAtRow gives exactly the columns of the row that the previous *)
(* rectangle leaves, however the two rectangles lie to each other: no pixel   *)
(* outside the frame or under the disposed one is blended, and none of the    *)
(* others is left out (anim_decode.c, 298-327).                               *)
THEOREM BlendRangeIsDifference ==
  ASSUME NEW f \in Frame \cup {NoFrame}, NEW r \in Frame \cup {NoFrame}, NEW b \in Int
  PROVE  BlendRange(f, r, b) = {a \in f.x..f.x + f.w - 1 : <<a, b>> \notin Rect(r)}
<1>1. {f.x, f.y, f.w, f.h, r.x, r.y, r.w, r.h} \subseteq Int
  BY FrameFields, AnimationAssumption
<1>2. \A a : <<a, b>> \in Rect(r) <=> a \in r.x..r.x + r.w - 1 /\ b \in r.y..r.y + r.h - 1
  BY DEF Rect
<1>3. \A a : a \in BlendRange(f, r, b) <=>
             a \in f.x..f.x + f.w - 1
               /\ ~(a \in r.x..r.x + r.w - 1 /\ b \in r.y..r.y + r.h - 1)
  BY <1>1, FrameFields DEF BlendRange
<1> QED BY <1>2, <1>3

(* What the ranges leave of the rectangle of a frame is in the previous one.  *)
LEMMA BetweenRanges ==
  ASSUME NEW f \in Frame \cup {NoFrame}, NEW r \in Frame \cup {NoFrame},
         NEW p \in Rect(f), p[1] \notin BlendRange(f, r, p[2])
  PROVE  p \in Rect(r)
<1>1. {f.x, f.y, f.w, f.h} \subseteq Int
  BY FrameFields, AnimationAssumption
<1>2. PICK a \in f.x..f.x + f.w - 1, b \in f.y..f.y + f.h - 1 : p = <<a, b>>
  BY DEF Rect
<1>3. a \notin BlendRange(f, r, b) /\ b \in Int
  BY <1>1, <1>2
<1> QED BY <1>2, <1>3, BlendRangeIsDifference

-----------------------------------------------------------------------------
(* What GetNext puts on the canvas, pixel by pixel.                           *)
Composed(f, base, blended) ==
  [p \in Pixel |->
     IF p \in Rect(f)
     THEN IF p \in blended /\ f.paint \notin {"solid", "opaque"}
          THEN prevDisposed[p] \o Raw(f, nextFrame) ELSE Raw(f, nextFrame)
     ELSE base[p]]

LEMMA GetNextComposes ==
  ASSUME DecoderInv, NEW f \in Frame, GetNext(f)
  PROVE  /\ currFrame' = Composed(f, Base(f), Blended(f))
         /\ Blended(f) \subseteq Rect(f)
<1>1. Blended(f) \subseteq Rect(f)
  BY DEF Blended
<1> DEFINE d == DecodedOver(f, Base(f))
<1>2. currFrame' = [p \in Pixel |->
         IF p \in Blended(f) THEN BlendPixel(f, d[p], prevDisposed[p]) ELSE d[p]]
  BY DEF GetNext
<1>3. \A p \in Pixel : d[p] = IF p \in Rect(f) THEN Raw(f, nextFrame) ELSE Base(f)[p]
  BY DEF DecodedOver
<1> HIDE DEF d
<1>4. \A p \in Pixel :
        (IF p \in Blended(f) THEN BlendPixel(f, d[p], prevDisposed[p]) ELSE d[p])
          = IF p \in Rect(f)
            THEN IF p \in Blended(f) /\ f.paint \notin {"solid", "opaque"}
                 THEN prevDisposed[p] \o Raw(f, nextFrame) ELSE Raw(f, nextFrame)
            ELSE Base(f)[p]
  BY <1>1, <1>3 DEF BlendPixel
<1> QED BY <1>1, <1>2, <1>4 DEF Composed

(* The canvas a frame should find, as Canvas Assembly has it.                 *)
Below == IF prevIter.dispose = Background THEN ClearRect(given, prevIter) ELSE given

LEMMA BelowIs ==
  ASSUME DecoderInv
  PROVE  /\ Below \in Picture
         /\ nextFrame # 1 => prevDisposed = Below
         /\ nextFrame = 1 => Below = Blank
<1>1. given \in Picture
  BY DEF DecoderInv, TypeOK, Picture
<1>2. Below \in Picture
  BY <1>1, ClearType DEF Below
<1>3. nextFrame # 1 => prevDisposed = Below
  BY DEF DecoderInv, WaitsDisposed, Below
<1>4. ASSUME nextFrame = 1 PROVE Below = Blank
  <2>1. given = Blank /\ prevIter = NoFrame
    BY <1>4 DEF DecoderInv, WaitsDisposed
  <2>2. prevIter.dispose = Keep
    BY <2>1 DEF NoFrame
  <2> QED BY <2>1, <2>2 DEF Below, Keep, Background
<1> QED BY <1>2, <1>3, <1>4

(* A key frame finds a blank canvas, or covers all of it by itself.           *)
LEMMA KeyFrameBase ==
  ASSUME DecoderInv, NEW f \in Frame, IsKeyFrame(f)
  PROVE  \/ Below = Blank
         \/ Rect(f) = Pixel /\ (f.paint = "solid" \/ f.blend = NoBlend)
<1>1. prevIter \in Frame \cup {NoFrame} /\ given \in Picture
  BY DEF DecoderInv, TypeOK, Picture
<1>2. CASE nextFrame = 1
  BY <1>2, BelowIs
<1>3. CASE (f.paint = "solid" \/ f.blend = NoBlend) /\ IsFullFrame(f)
  BY <1>3, FullFrame
<1>4. CASE prevIter.dispose = Background /\ IsFullFrame(prevIter)
  <2>1. Rect(prevIter) = Pixel
    BY <1>1, <1>4, FullFrame
  <2>2. ClearRect(given, prevIter) = Blank
    BY <2>1 DEF ClearRect, Blank
  <2> QED BY <1>4, <2>2 DEF Below
<1>5. CASE prevIter.dispose = Background /\ prevWasKey
  BY <1>5 DEF DecoderInv, KeyFrameOnBlank, Below
<1> QED BY <1>2, <1>3, <1>4, <1>5 DEF IsKeyFrame

(* What comes out is what Canvas Assembly renders over that canvas.           *)
RenderedOver(f) ==
  [p \in Pixel |->
     IF p \in Rect(f)
     THEN IF f.blend = NoBlend \/ f.paint \in {"solid", "opaque"} THEN Raw(f, nextFrame)
          ELSE Below[p] \o Raw(f, nextFrame)
     ELSE Below[p]]

LEMMA GetNextRenders ==
  ASSUME DecoderInv, NEW f \in Frame, GetNext(f)
  PROVE  currFrame' = RenderedOver(f)
<1>1. nextFrame \in 1..FrameCount /\ prevIter \in Frame \cup {NoFrame}
  BY CountAssumption DEF GetNext, HasMoreFrames, DecoderInv, TypeOK
<1>2. Raw(f, nextFrame) \in Seq(1..FrameCount)
  BY <1>1, RawType
<1>3. <<>> \o Raw(f, nextFrame) = Raw(f, nextFrame)
  BY <1>2
<1>4. currFrame' = Composed(f, Base(f), Blended(f))
  BY GetNextComposes
<1>5. f.blend \in {Blend, NoBlend} /\ prevIter.dispose \in {Background, Keep}
      /\ Blend # NoBlend /\ Background # Keep
  BY <1>1, FrameFields DEF Blend, NoBlend, Background, Keep
<1>6. CASE IsKeyFrame(f)
  <2>1. Base(f) = Blank /\ Blended(f) = {}
    BY <1>6 DEF Base, Blended
  <2>2. \A p \in Pixel : Blank[p] = <<>>
    BY BlankType
  <2>3. CASE Below = Blank
    BY <1>3, <1>4, <2>1, <2>2, <2>3 DEF Composed, RenderedOver
  <2>4. CASE Rect(f) = Pixel /\ (f.paint = "solid" \/ f.blend = NoBlend)
    BY <1>4, <2>1, <2>4 DEF Composed, RenderedOver
  <2> QED BY <1>6, <2>3, <2>4, KeyFrameBase
<1>7. CASE ~IsKeyFrame(f)
  <2>1. nextFrame # 1 /\ Base(f) = prevDisposed
    BY <1>7 DEF Base, IsKeyFrame
  <2>2. prevDisposed = Below
    BY <2>1, BelowIs
  <2>3. CASE f.blend = NoBlend
    <3>1. Blended(f) = {}
      BY <2>3 DEF Blended
    <3> QED BY <1>4, <2>1, <2>2, <2>3, <3>1 DEF Composed, RenderedOver
  <2>4. CASE f.blend = Blend /\ prevIter.dispose = Keep
    <3>1. Blended(f) = Rect(f)
      BY <1>5, <1>7, <2>4 DEF Blended
    <3> QED BY <1>4, <1>5, <2>1, <2>2, <2>4, <3>1 DEF Composed, RenderedOver
  <2>5. CASE f.blend = Blend /\ prevIter.dispose = Background
    <3>1. Blended(f) = {p \in Rect(f) : p[1] \in BlendRange(f, prevIter, p[2])}
      BY <1>5, <1>7, <2>5 DEF Blended
    <3>2. \A p \in Rect(f) : p \notin Blended(f) => p \in Rect(prevIter)
      BY <1>1, <3>1, BetweenRanges
    <3>3. \A p \in Pixel : p \in Rect(prevIter) => Below[p] = <<>>
      BY <2>5, ClearType DEF Below, DecoderInv, TypeOK, Picture
    <3>4. \A p \in Pixel :
            p \in Rect(f) /\ p \notin Blended(f) =>
              Below[p] \o Raw(f, nextFrame) = Raw(f, nextFrame)
      BY <1>3, <3>2, <3>3
    <3> QED BY <1>4, <1>5, <2>1, <2>2, <2>5, <3>4 DEF Composed, RenderedOver
  <2> QED BY <1>5, <2>3, <2>4, <2>5
<1> QED BY <1>6, <1>7

LEMMA RenderedType ==
  ASSUME DecoderInv, NEW f \in Frame, nextFrame \in 1..FrameCount
  PROVE  RenderedOver(f) \in Picture
<1>1. /\ Raw(f, nextFrame) \in Seq(1..FrameCount)
      /\ \A p \in Pixel : Below[p] \in Seq(1..FrameCount)
  BY RawType, BelowIs DEF Picture
<1>2. \A p \in Pixel : Below[p] \o Raw(f, nextFrame) \in Seq(1..FrameCount)
  BY <1>1, ConcatProperties
<1> QED BY <1>1, <1>2 DEF RenderedOver, Picture

-----------------------------------------------------------------------------
LEMMA DecoderInit == Init => DecoderInv
<1> SUFFICES ASSUME Init PROVE DecoderInv
  OBVIOUS
<1>1. TypeOK
  <2>1. prevIter \in Frame \cup {NoFrame}
    BY DEF Init
  <2>2. nextFrame \in 1..FrameCount + 1
    BY CountAssumption DEF Init
  <2> QED BY <2>1, <2>2, BlankType DEF Init, TypeOK, Picture
<1> QED BY <1>1 DEF Init, DecoderInv, WaitsDisposed, KeyFrameOnBlank

(* The frame drawn keeps the invariant: its own disposal is applied to the    *)
(* second canvas, and a key frame has blank surroundings.                     *)
LEMMA GetNextKeeps ==
  ASSUME DecoderInv, NEW f \in Frame, GetNext(f)
  PROVE  DecoderInv'
<1>1. nextFrame \in 1..FrameCount /\ nextFrame' = nextFrame + 1
  BY CountAssumption DEF GetNext, HasMoreFrames, DecoderInv, TypeOK
<1>2. currFrame' = RenderedOver(f) /\ currFrame' \in Picture
  BY <1>1, GetNextRenders, RenderedType
<1>3. /\ given' = currFrame' /\ prevIter' = f /\ prevWasKey' = IsKeyFrame(f)
      /\ prevDisposed' = IF f.dispose = Background
                         THEN ClearRect(currFrame', f) ELSE currFrame'
  BY DEF GetNext
<1>4. prevDisposed' \in Picture
  BY <1>2, <1>3, ClearType
<1>5. TypeOK'
  <2>1. IsKeyFrame(f) \in BOOLEAN
    BY DEF IsKeyFrame
  <2> QED BY <1>1, <1>2, <1>3, <1>4, <2>1, CountAssumption DEF TypeOK, Picture
<1>6. WaitsDisposed'
  BY <1>1, <1>3 DEF WaitsDisposed
<1>7. KeyFrameOnBlank'
  <2> SUFFICES ASSUME IsKeyFrame(f) PROVE ClearRect(currFrame', f) = Blank
    BY <1>3 DEF KeyFrameOnBlank
  <2>1. \A p \in Pixel : p \notin Rect(f) => currFrame'[p] = <<>>
    <3>1. CASE Below = Blank
      BY <1>2, <3>1, BlankType DEF RenderedOver
    <3>2. CASE Rect(f) = Pixel
      BY <3>2
    <3> QED BY <3>1, <3>2, KeyFrameBase
  <2> QED BY <2>1 DEF ClearRect, Blank, Transparent
<1> QED BY <1>5, <1>6, <1>7 DEF DecoderInv

LEMMA GetNextFailsKeeps ==
  ASSUME DecoderInv, NEW f \in Frame, GetNextFails(f)
  PROVE  DecoderInv'
<1>1. nextFrame \in 1..FrameCount
  BY CountAssumption DEF GetNextFails, HasMoreFrames, DecoderInv, TypeOK
<1>2. Base(f) \in Picture
  BY BlankType DEF Base, DecoderInv, TypeOK, Picture
<1>3. currFrame' \in Picture
  <2>1. Raw(f, nextFrame) \in Seq(1..FrameCount)
    BY <1>1, RawType
  <2> QED BY <1>2, <2>1 DEF GetNextFails, DecodedOver, Picture
<1> QED BY <1>3
        DEF GetNextFails, DecoderInv, TypeOK, WaitsDisposed, KeyFrameOnBlank, Picture

LEMMA ResetKeeps == DecoderInv /\ Reset => DecoderInv'
<1> SUFFICES ASSUME DecoderInv, Reset PROVE DecoderInv'
  OBVIOUS
<1>1. TypeOK'
  <2>1. prevIter' \in Frame \cup {NoFrame}
    BY DEF Reset
  <2>2. nextFrame' \in 1..FrameCount + 1
    BY CountAssumption DEF Reset
  <2> QED BY <2>1, <2>2, BlankType DEF Reset, DecoderInv, TypeOK, Picture
<1> QED BY <1>1 DEF Reset, DecoderInv, WaitsDisposed, KeyFrameOnBlank

LEMMA DecoderNext == DecoderInv /\ [Next]_vars => DecoderInv'
<1> SUFFICES ASSUME DecoderInv, [Next]_vars PROVE DecoderInv'
  OBVIOUS
<1>1. CASE UNCHANGED vars
  BY <1>1 DEF vars, DecoderInv, TypeOK, WaitsDisposed, KeyFrameOnBlank
<1> QED BY <1>1, AnimationAssumption, ResetKeeps, GetNextKeeps, GetNextFailsKeeps DEF Next

LEMMA DecoderAlways == Spec => []DecoderInv
BY DecoderInit, DecoderNext, PTL DEF Spec

(* The decoder's state has the types of WebPAnimDecoder on every path, with   *)
(* failures, retries and resets, for any canvas and any number of frames.     *)
THEOREM DecoderTypeCorrect == Spec => []TypeOK
<1>1. DecoderInv => TypeOK
  BY DEF DecoderInv
<1> QED BY <1>1, DecoderAlways, PTL

(* After a disposed key frame the canvas is blank, whatever that frame        *)
(* covered: IsKeyFrame (anim_decode.c, 195-213) may look at the kind of the   *)
(* previous frame instead of the pixels.                                      *)
THEOREM DisposedKeyFrameIsBlank == Spec => []KeyFrameLeavesBlank
<1>1. DecoderInv => KeyFrameLeavesBlank
  <2> SUFFICES ASSUME DecoderInv, prevWasKey, prevIter.dispose = Background
               PROVE  prevDisposed = Blank
    BY DEF KeyFrameLeavesBlank
  <2>1. nextFrame # 1
    BY DEF DecoderInv, WaitsDisposed
  <2> QED BY <2>1 DEF DecoderInv, WaitsDisposed, KeyFrameOnBlank
<1> QED BY <1>1, DecoderAlways, PTL

-----------------------------------------------------------------------------
LEMMA AssemblyTerms ==
  /\ A!Blank = Blank /\ A!Disposed = Below /\ A!NoFrame = NoFrame /\ A!Frame = Frame
  /\ \A f : A!Rect(f) = Rect(f)
  /\ \A f, n : A!Raw(f, n) = Raw(f, n)
  /\ A!Pixel = Pixel /\ A!NoBlend = NoBlend
<1>1. A!Pixel = Pixel /\ A!Transparent = Transparent /\ A!NoBlend = NoBlend
      /\ A!Background = Background /\ A!Keep = Keep /\ A!Blend = Blend
  BY DEF A!Pixel, Pixel, A!Transparent, Transparent, A!NoBlend, NoBlend,
         A!Background, Background, A!Keep, Keep, A!Blend, Blend
<1>2. \A f : A!Rect(f) = Rect(f)
  BY DEF A!Rect, Rect
<1>3. \A f, n : A!Raw(f, n) = Raw(f, n)
  BY <1>1 DEF A!Raw, Raw
<1>4. A!Blank = Blank
  BY <1>1 DEF A!Blank, Blank
<1>5. A!Disposed = Below
  BY <1>1, <1>2 DEF A!Disposed, Below, A!ClearRect, ClearRect
<1>6. A!NoFrame = NoFrame
  BY <1>1 DEF A!NoFrame, NoFrame
<1>7. A!Frame = Frame
  BY <1>1 DEF A!Frame, Frame, A!Inside, Inside, A!Dispose, Dispose, A!Paint, Paint
<1> QED BY <1>1, <1>2, <1>3, <1>4, <1>5, <1>6, <1>7

LEMMA GetNextIsRender ==
  ASSUME DecoderInv, NEW f \in Frame, GetNext(f)
  PROVE  A!Render
<1>1. given' = RenderedOver(f) /\ prevIter' = f /\ nextFrame \in 1..FrameCount
  BY GetNextRenders, CountAssumption DEF GetNext, HasMoreFrames, DecoderInv, TypeOK
<1>2. A!Rendered(f, nextFrame) = RenderedOver(f)
  BY AssemblyTerms DEF A!Rendered, A!Over, RenderedOver
<1> QED BY <1>1, <1>2, AssemblyTerms DEF A!Render

LEMMA StepIsAssembly ==
  DecoderInv /\ [Next]_vars => [A!Render \/ A!Restart]_(A!vars)
<1> SUFFICES ASSUME DecoderInv, [Next]_vars
             PROVE  [A!Render \/ A!Restart]_(A!vars)
  OBVIOUS
<1>1. CASE Reset
  BY <1>1, AssemblyTerms DEF Reset, A!Restart
<1>2. ASSUME NEW f \in Frames, GetNext(f) PROVE A!Render
  BY <1>2, AnimationAssumption, GetNextIsRender
<1>3. ASSUME NEW f \in Frames, GetNextFails(f) PROVE UNCHANGED A!vars
  BY <1>3 DEF GetNextFails, A!vars
<1>4. CASE UNCHANGED vars
  BY <1>4 DEF vars, A!vars
<1> QED BY <1>1, <1>2, <1>3, <1>4 DEF Next

(* The caller of WebPAnimDecoderGetNext gets the canvases of Canvas Assembly: *)
(* key frames, the second canvas and the two blended ranges per row cannot be *)
(* told from drawing each frame over the whole disposed canvas.               *)
THEOREM DecoderAssemblesCanvas == Spec => AssemblesCanvas
<1>1. Init => A!Init
  BY AssemblyTerms DEF Init, A!Init
<1> QED BY <1>1, StepIsAssembly, DecoderAlways, PTL DEF Spec, AssemblesCanvas, A!LoopSpec
=============================================================================
