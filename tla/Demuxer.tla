------------------------------- MODULE Demuxer -------------------------------
(***************************************************************************)
(* The demuxer of libwebp (src/demux/demux.c): WebPDemux and               *)
(* WebPDemuxPartial over one buffer, and the iterator over its frames,     *)
(* which both compositors of the repository are fed from.                  *)
(*                                                                         *)
(* A file is read in units: a unit is a chunk header, the fixed part of an *)
(* ANIM, ANMF or VP8X payload, or as much of a bitstream as                *)
(* WebPGetFeatures needs.  The chunk at the reading position is next; it   *)
(* is chosen when the position moves there, so that the parser meets every *)
(* sequence of chunks of Chunk, cut at every unit.  The other chunks       *)
(* (ICCP, EXIF, XMP and unknown ones) are only skipped.                    *)
(***************************************************************************)
EXTENDS Integers, Sequences

CONSTANTS Chunk,       (* the chunks a file may contain                        *)
          MaxUnits,    (* the longest file                                     *)
          MaxArea      (* MAX_IMAGE_AREA                                       *)

VARIABLES mem,         (* start_, end_, riff_end_                              *)
          next,        (* the chunk at start_                                  *)
          pc,          (* the function that runs                               *)
          status,      (* the ParseStatus it ends with                         *)
          partial,     (* partial, once known; before that allow_partial       *)
          extended,    (* is_ext_format_                                       *)
          flags,       (* feature_flags_                                       *)
          canvas,      (* canvas_width_, canvas_height_                        *)
          state,       (* state_                                               *)
          anim,        (* anim_chunks > 0                                      *)
          frames,      (* frames_                                              *)
          numFrames,   (* num_frames_                                          *)
          frame,       (* the frame that is being stored                       *)
          room,        (* anmf_payload_size and start_offset of its ANMF       *)
          iter         (* the frame an iterator shows                          *)

vars == <<mem, next, pc, status, partial, extended, flags, canvas, state, anim,
          frames, numFrames, frame, room, iter>>

Images == {"VP8", "VP8L"}
Ids == Images \union {"ALPH", "ANIM", "ANMF", "VP8X", "other"}

(* A flag that is not one of ALL_VALID_FLAGS is "reserved".                   *)
Flag == {"animation", "alpha", "reserved"}

ASSUME DemuxerAssumption ==
  /\ MaxUnits \in Nat \ {0} /\ MaxArea \in Nat
  /\ \A c \in Chunk :
       /\ c.id \in Ids /\ c.size \in Nat
       /\ c.id \in Images =>
            /\ c.w \in Nat \ {0} /\ c.h \in Nat \ {0}
            /\ c.sound \in BOOLEAN /\ c.hasAlpha \in BOOLEAN
       /\ c.id = "ANMF" =>
            /\ c.x \in Nat /\ c.y \in Nat /\ c.w \in Nat \ {0} /\ c.h \in Nat \ {0}
       /\ c.id = "VP8X" =>
            c.flags \subseteq Flag /\ c.w \in Nat \ {0} /\ c.h \in Nat \ {0}

-----------------------------------------------------------------------------
(* What StoreFrame, ParseSingleImage and ParseAnimationFrame read and write.  *)

NoData == [offset |-> 0, size |-> 0]

(* A frame from calloc.                                                       *)
EmptyFrame ==
  [x |-> 0, y |-> 0, w |-> 0, h |-> 0, hasAlpha |-> FALSE, num |-> 0,
   complete |-> FALSE, image |-> NoData, alpha |-> NoData]

(* MemDataSize and SizeIsInvalid, at a position.                              *)
Left(at) == mem.end - at
SizeIsInvalid(size, at) == size > mem.riffEnd - at

(* Defect: the offset of the payload, with the size of the chunk.             *)
SetFrameInfoAtPayload(f, at, size, num, complete, c) ==
  [f EXCEPT !.image = [offset |-> at + 1, size |-> size], !.w = c.w, !.h = c.h,
            !.hasAlpha = @ \/ c.hasAlpha, !.num = num, !.complete = complete]

SetFrameInfo(f, at, size, num, complete, c) ==
  [f EXCEPT !.image = [offset |-> at, size |-> size], !.w = c.w, !.h = c.h,
            !.hasAlpha = @ \/ c.hasAlpha, !.num = num, !.complete = complete]

(* The reading position moves to at; a chunk that lies there, and that the    *)
(* parser is going to read, is new to it.                                     *)
MoveTo(at) ==
  /\ mem' = [mem EXCEPT !.start = at]
  /\ IF at # mem.start /\ Left(at) >= 1 /\ pc' # "WebPDemuxInternal"
     THEN next' \in Chunk ELSE next' = next

End(s) == pc' = "WebPDemuxInternal" /\ status' = s

NoFrameStored == UNCHANGED <<frame, room>>
NoFrameAdded == UNCHANGED <<frames, numFrames>>
HeaderKept == UNCHANGED <<extended, flags, canvas, state>>
Unmoved == UNCHANGED <<mem, next>>

(* Defect: the loop goes on whatever is left and whatever went wrong.         *)
AfterChunkKeepsGoing(s, at) ==
  IF at = mem.riffEnd THEN End(s)
  ELSE pc' = "ParseVP8XChunks" /\ status' = s

(* The end of an iteration of ParseVP8XChunks: too little data left           *)
(* overrides even an error.                                                   *)
AfterChunk(s, at) ==
  IF at = mem.riffEnd THEN End(s)
  ELSE IF Left(at) < 1 THEN End("more")
  ELSE IF s = "ok" THEN pc' = "ParseVP8XChunks" /\ status' = s
  ELSE End(s)

(* AddFrame; the tail it looks at is the empty next_ of the last frame, so    *)
(* it never refuses.                                                          *)
AddFrame(f) == frames' = Append(frames, f)

-----------------------------------------------------------------------------
(* WebPDemuxInternal up to the master chunk.                                  *)

NoDemuxer == pc' = "refused" /\ status' = "error"

(* Fewer bytes than a RIFF header and a chunk header.                         *)
ReadHeaderTooShort ==
  /\ mem.end < 2
  /\ NoDemuxer
  /\ UNCHANGED <<partial, numFrames, frames, canvas, state, flags, mem, next>>

(* Not a RIFF file: CreateRawImageDemuxer on the whole buffer.                *)
CreateRawImageDemuxer ==
  /\ mem.end >= 2
  /\ \/ NoDemuxer /\ UNCHANGED <<frames, numFrames, canvas, state, flags>>
     \/ \E c \in Chunk :
          /\ c.id \in Images /\ c.sound
          /\ AddFrame(SetFrameInfo(EmptyFrame, 0, mem.end, 1, TRUE, c))
          /\ numFrames' = 1
          /\ state' = "done"
          /\ canvas' = [w |-> c.w, h |-> c.h]
          /\ flags' = IF c.hasAlpha THEN {"alpha"} ELSE {}
          /\ pc' = "open" /\ status' = "ok"
  /\ partial' = FALSE
  /\ Unmoved

(* A cut file needs allow_partial; the calloc may fail.                       *)
ReadHeaderRiff ==
  LET end == IF mem.end > mem.riffEnd THEN mem.riffEnd ELSE mem.end IN
  /\ mem.end >= 2
  /\ mem' = [mem EXCEPT !.start = 1, !.end = end]
  /\ partial' = (end < mem.riffEnd)
  /\ \/ NoDemuxer
     \/ (partial' => partial) /\ pc' = "parse" /\ status' = "ok"
  /\ UNCHANGED <<next, frames, numFrames, canvas, state, flags>>

ReadHeader ==
  /\ pc = "ReadHeader"
  /\ ReadHeaderTooShort \/ CreateRawImageDemuxer \/ ReadHeaderRiff
  /\ NoFrameStored
  /\ UNCHANGED <<extended, anim, iter>>

-----------------------------------------------------------------------------
(* StoreFrame, one chunk at a time; Stored is what its caller makes of its    *)
(* result s, the frame f and the position at.                                 *)

(* Defect: alpha is kept although no flag announces it.                       *)
SingleImageStoredKeepsAlpha(s, f, at) ==
  /\ IF s = "error"
     THEN NoFrameAdded /\ HeaderKept
     ELSE /\ AddFrame(f)
          /\ numFrames' = 1
          /\ state' = IF ~extended /\ f.w > 0 THEN "header" ELSE state
          /\ canvas' = IF ~extended /\ f.w > 0 THEN [w |-> f.w, h |-> f.h] ELSE canvas
          /\ UNCHANGED <<flags, extended>>
  /\ IF extended THEN AfterChunk(s, at) ELSE End(s)

(* The rest of ParseSingleImage.                                              *)
SingleImageStored(s, f, at) ==
  LET cleared == IF "alpha" \notin flags /\ f.alpha.size > 0
                 THEN [f EXCEPT !.alpha = NoData, !.hasAlpha = FALSE] ELSE f
      sized == ~extended /\ cleared.w > 0 /\ cleared.h > 0
  IN /\ IF s = "error"
        THEN NoFrameAdded /\ HeaderKept
        ELSE /\ AddFrame(cleared)
             /\ numFrames' = 1
             /\ IF sized
                THEN /\ state' = "header"
                     /\ canvas' = [w |-> cleared.w, h |-> cleared.h]
                     /\ flags' = flags \union
                          (IF cleared.hasAlpha THEN {"alpha"} ELSE {})
                ELSE UNCHANGED <<state, canvas, flags>>
             /\ UNCHANGED extended
     /\ IF extended THEN AfterChunk(s, at) ELSE End(s)

(* Defect: frames that are not kept are counted.                              *)
AnimationFrameStoredCountsAll(s, f, at) ==
  LET result == IF at - room.from > room.size THEN "error" ELSE s IN
  /\ numFrames' = numFrames + 1
  /\ IF result # "error" /\ "animation" \in flags /\ f.num > 0
     THEN AddFrame(f) ELSE UNCHANGED frames
  /\ HeaderKept
  /\ AfterChunk(result, at)

(* The rest of ParseAnimationFrame.                                           *)
AnimationFrameStored(s, f, at) ==
  LET result == IF at - room.from > room.size THEN "error" ELSE s
  IN /\ IF result # "error" /\ "animation" \in flags /\ f.num > 0
        THEN AddFrame(f) /\ numFrames' = numFrames + 1
        ELSE NoFrameAdded
     /\ HeaderKept
     /\ AfterChunk(result, at)

Stored(s, f, at) ==
  /\ frame' = EmptyFrame
  /\ IF pc = "ParseAnimationFrame"
     THEN AnimationFrameStored(s, f, at)
     ELSE SingleImageStored(s, f, at)
  /\ MoveTo(at)

(* Defect: the loop does not look for room for another header.                *)
TakenWithoutLeft(f, at, cut) ==
  IF at = mem.riffEnd THEN Stored(IF cut THEN "more" ELSE "ok", f, at)
  ELSE IF cut THEN Stored("more", f, at)
  ELSE frame' = f /\ NoFrameAdded /\ HeaderKept /\ UNCHANGED <<pc, status>>
       /\ MoveTo(at)

(* The chunk has been taken into f; the loop goes on while there is more.     *)
Taken(f, at, cut) ==
  IF at = mem.riffEnd THEN Stored(IF cut THEN "more" ELSE "ok", f, at)
  ELSE IF cut \/ Left(at) < 1 THEN Stored("more", f, at)
  ELSE /\ frame' = f
       /\ NoFrameAdded /\ HeaderKept
       /\ UNCHANGED <<pc, status>>
       /\ MoveTo(at)

StoreFrame ==
  LET body == mem.start + 1
      cut == next.size > Left(body)
      available == IF cut THEN Left(body) ELSE next.size
      num == IF pc = "ParseAnimationFrame" THEN numFrames + 1 ELSE 1
      data == [offset |-> mem.start, size |-> 1 + available]
  IN /\ pc \in {"ParseSingleImage", "ParseAnimationFrame"}
     /\ IF SizeIsInvalid(next.size, body)
        THEN Stored("error", frame, body)
        ELSE IF next.id = "ALPH" /\ frame.alpha = NoData
        THEN Taken([frame EXCEPT !.alpha = data, !.hasAlpha = TRUE, !.num = num],
                   body + available, cut)
        ELSE IF next.id = "VP8L" /\ frame.alpha # NoData
        THEN Stored("error", frame, body)
        ELSE IF next.id \in Images /\ frame.image = NoData
        THEN IF available = 0
             THEN Stored(IF cut THEN "more" ELSE "error", frame, body)
             ELSE IF ~next.sound
             THEN Stored("error", frame, body)
             ELSE Taken(SetFrameInfo(frame, mem.start, 1 + available, num, ~cut, next),
                        body + available, cut)
        ELSE Stored(IF cut THEN "more" ELSE "ok", frame, mem.start)
     /\ UNCHANGED <<partial, anim, room, iter>>

-----------------------------------------------------------------------------
(* ParseSingleImage up to StoreFrame; a calloc may fail.                      *)
ParseSingleImage ==
  LET failed == IF extended THEN AfterChunk("error", mem.start) ELSE End("error")
  IN /\ \/ failed
        \/ /\ frames = <<>> /\ ~SizeIsInvalid(1, mem.start)
           /\ IF Left(mem.start) < 1
              THEN End("more")
              ELSE pc' = "ParseSingleImage" /\ UNCHANGED status
     /\ NoFrameAdded

SimpleFile ==
  /\ pc = "parse" /\ next.id \in Images
  /\ ParseSingleImage
  /\ Unmoved /\ HeaderKept /\ NoFrameStored
  /\ UNCHANGED <<partial, anim, iter>>

UnknownMaster ==
  /\ pc = "parse" /\ next.id \notin Images \union {"VP8X"}
  /\ NoDemuxer
  /\ Unmoved /\ HeaderKept /\ NoFrameStored /\ NoFrameAdded
  /\ UNCHANGED <<partial, anim, iter>>

(* ParseVP8X up to its chunks.                                                *)
ParseVP8X ==
  LET body == mem.start + 1
      after == body + next.size
  IN /\ pc = "parse" /\ next.id = "VP8X"
     /\ IF Left(mem.start) < 1
        THEN End("more") /\ Unmoved /\ HeaderKept
        ELSE /\ extended' = TRUE
             /\ IF next.size < 1 \/ SizeIsInvalid(next.size, body)
                THEN End("error") /\ Unmoved /\ UNCHANGED <<flags, canvas, state>>
                ELSE IF Left(body) < next.size
                THEN End("more") /\ Unmoved /\ UNCHANGED <<flags, canvas, state>>
                ELSE /\ flags' = next.flags
                     /\ canvas' = [w |-> next.w, h |-> next.h]
                     /\ IF next.w * next.h >= MaxArea
                        THEN End("error") /\ Unmoved /\ UNCHANGED state
                        ELSE /\ state' = "header"
                             /\ IF SizeIsInvalid(1, after) THEN End("error")
                                ELSE IF Left(after) < 1 THEN End("more")
                                ELSE pc' = "ParseVP8XChunks" /\ UNCHANGED status
                             /\ MoveTo(after)
     /\ NoFrameStored /\ NoFrameAdded
     /\ UNCHANGED <<partial, anim, iter>>

-----------------------------------------------------------------------------
(* The iterations of ParseVP8XChunks.                                         *)

AtChunk == pc = "ParseVP8XChunks"
Fits == ~SizeIsInvalid(next.size, mem.start + 1)

(* A chunk past the end of the RIFF, a second VP8X, a bare image in an        *)
(* animation or a frame before the ANIM.                                      *)
ChunkRefused ==
  /\ AtChunk
  /\ \/ ~Fits
     \/ next.id = "VP8X"
     \/ (next.id \in Images \union {"ALPH"} /\ (anim \/ "animation" \in flags))
     \/ (next.id = "ANIM" /\ next.size < 1)
     \/ (next.id = "ANMF" /\ ~anim)
  /\ End("error")
  /\ Unmoved /\ HeaderKept /\ NoFrameStored /\ NoFrameAdded
  /\ UNCHANGED <<partial, anim, iter>>

ImageChunk ==
  /\ AtChunk /\ Fits
  /\ next.id \in Images \union {"ALPH"} /\ ~anim /\ "animation" \notin flags
  /\ ParseSingleImage
  /\ Unmoved /\ HeaderKept /\ NoFrameStored
  /\ UNCHANGED <<partial, anim, iter>>

(* ANIM, and every chunk that is not about images: skipped when it is all     *)
(* there; StoreChunk's calloc may fail.                                       *)
SkippedChunk ==
  LET body == mem.start + 1 IN
  /\ AtChunk /\ Fits
  /\ next.id = "other" \/ (next.id = "ANIM" /\ next.size >= 1)
  /\ IF Left(body) < next.size
     THEN AfterChunk("more", body) /\ Unmoved /\ UNCHANGED anim
     ELSE \/ /\ anim' = (anim \/ next.id = "ANIM")
             /\ AfterChunk("ok", body + next.size)
             /\ MoveTo(body + next.size)
          \/ (next.id = "other" \/ anim) /\ End("error") /\ Unmoved /\ UNCHANGED anim
  /\ HeaderKept /\ NoFrameStored /\ NoFrameAdded
  /\ UNCHANGED <<partial, iter>>

(* ParseAnimationFrame up to StoreFrame, with NewFrame.                       *)
FrameChunk ==
  LET body == mem.start + 1
      from == mem.start + 2
      size == next.size - 1
      new == [EmptyFrame EXCEPT !.x = 2 * next.x, !.y = 2 * next.y,
                                !.w = next.w, !.h = next.h]
  IN /\ AtChunk /\ Fits /\ next.id = "ANMF" /\ anim
     /\ IF SizeIsInvalid(1, body) \/ next.size < 1
        THEN AfterChunk("error", body) /\ Unmoved /\ NoFrameStored
        ELSE IF Left(body) < 1
        THEN AfterChunk("more", body) /\ Unmoved /\ NoFrameStored
        ELSE \/ (* calloc fails                                               *)
                AfterChunk("error", body) /\ Unmoved /\ NoFrameStored
             \/ /\ IF next.w * next.h >= MaxArea
                   THEN AfterChunk("error", from) /\ NoFrameStored
                   ELSE IF Left(from) < 1 \/ Left(from) < size
                   THEN AfterChunk("more", from) /\ NoFrameStored
                   ELSE /\ frame' = new
                        /\ room' = [size |-> size, from |-> from]
                        /\ pc' = "ParseAnimationFrame" /\ UNCHANGED status
                /\ MoveTo(from)
     /\ HeaderKept /\ NoFrameAdded
     /\ UNCHANGED <<partial, anim, iter>>

-----------------------------------------------------------------------------
(* IsValidSimpleFormat and IsValidExtendedFormat; st is state_.               *)

(* Defect: a frame is held against the canvas by its offset alone.            *)
CheckFrameBoundsLoosely(f, exact) == f.x <= canvas.w /\ f.y <= canvas.h

CheckFrameBounds(f, exact) ==
  IF exact
  THEN f.x = 0 /\ f.y = 0 /\ f.w = canvas.w /\ f.h = canvas.h
  ELSE f.w + f.x <= canvas.w /\ f.h + f.y <= canvas.h

IsValidSimpleFormat(st) ==
  \/ st = "parsing"
  \/ /\ canvas.w > 0 /\ canvas.h > 0
     /\ frames # <<>> /\ Head(frames).w > 0 /\ Head(frames).h > 0

(* Defect: only the bounds of a frame are tested.                             *)
IsValidFrameBoundsOnly(i, st) ==
  LET f == frames[i] IN
  (f.w > 0 /\ f.h > 0) => CheckFrameBounds(f, "animation" \notin flags)

IsValidFrame(i, st) ==
  LET f == frames[i] IN
  /\ "animation" \in flags \/ f.num <= 1
  /\ IF f.complete
     THEN /\ f.alpha.size > 0 \/ f.image.size > 0
          /\ (f.alpha.size > 0) => f.alpha.offset <= f.image.offset
          /\ f.w > 0 /\ f.h > 0
     ELSE /\ st # "done"
          /\ (f.alpha.size > 0 /\ f.image.size > 0) =>
               f.alpha.offset <= f.image.offset
          /\ i = Len(frames)
  /\ (f.w > 0 /\ f.h > 0) => CheckFrameBounds(f, "animation" \notin flags)

IsValidExtendedFormat(st) ==
  \/ st = "parsing"
  \/ /\ canvas.w > 0 /\ canvas.h > 0
     /\ st = "done" => frames # <<>>
     /\ "reserved" \notin flags
     /\ \A i \in DOMAIN frames : IsValidFrame(i, st)

(* The rest of WebPDemuxInternal, and WebPDemuxDelete when it fails.          *)
Finish ==
  LET st == IF status = "ok" THEN "done" ELSE state
      kept == /\ status = "ok" \/ (status = "more" /\ partial)
              /\ IF extended THEN IsValidExtendedFormat(st)
                             ELSE IsValidSimpleFormat(st)
  IN /\ pc = "WebPDemuxInternal"
     /\ IF kept
        THEN pc' = "open" /\ state' = st /\ UNCHANGED <<status, frames, numFrames>>
        ELSE pc' = "refused" /\ state' = "error" /\ status' = "error"
             /\ frames' = <<>> /\ numFrames' = 0
     /\ Unmoved /\ NoFrameStored
     /\ UNCHANGED <<partial, extended, flags, canvas, anim, iter>>

-----------------------------------------------------------------------------
(* The iterator: WebPDemuxGetFrame, WebPDemuxNextFrame, WebPDemuxPrevFrame.   *)

GetFrame(n) == {i \in DOMAIN frames : frames[i].num = n}

(* Defect: past the last frame comes the first.                               *)
SetFrameWraps(n, otherwise) ==
  LET number == IF n > numFrames THEN 1 ELSE n
      found == GetFrame(number)
  IN iter' = IF found = {} THEN otherwise ELSE frames[CHOOSE i \in found : TRUE]

(* SetFrame and SynthesizeFrame; the iterator stays where it is when the      *)
(* frame does not exist.                                                      *)
SetFrame(n, otherwise) ==
  LET number == IF n = 0 THEN numFrames ELSE n
      found == GetFrame(number)
  IN iter' = IF n > numFrames \/ found = {} THEN otherwise
             ELSE frames[CHOOSE i \in found : \A j \in found : i <= j]

DemuxerKept ==
  UNCHANGED <<mem, next, pc, status, partial, extended, flags, canvas, state, anim,
              frames, numFrames, frame, room>>

GetFrameNumbered(n) ==
  pc = "open" /\ SetFrame(n, EmptyFrame) /\ DemuxerKept

NextFrame == pc = "open" /\ SetFrame(iter.num + 1, iter) /\ DemuxerKept

PrevFrame ==
  pc = "open" /\ iter.num > 1 /\ SetFrame(iter.num - 1, iter) /\ DemuxerKept

-----------------------------------------------------------------------------
Init ==
  /\ \E end, riffEnd \in 1..MaxUnits :
       mem = [start |-> 0, end |-> end, riffEnd |-> riffEnd]
  /\ next \in Chunk
  /\ partial \in BOOLEAN
  /\ pc = "ReadHeader" /\ status = "ok"
  /\ extended = FALSE /\ flags = {} /\ canvas = [w |-> -1, h |-> -1]
  /\ state = "parsing" /\ anim = FALSE
  /\ frames = <<>> /\ numFrames = 0
  /\ frame = EmptyFrame /\ room = [size |-> 0, from |-> 0]
  /\ iter = EmptyFrame

Parse ==
  \/ ReadHeader \/ SimpleFile \/ UnknownMaster \/ ParseVP8X
  \/ StoreFrame \/ ChunkRefused \/ ImageChunk \/ SkippedChunk \/ FrameChunk
  \/ Finish

Iterate ==
  \/ \E n \in 0..MaxUnits : GetFrameNumbered(n)
  \/ NextFrame \/ PrevFrame

Next == Parse \/ Iterate

Spec == Init /\ [][Next]_vars

(* The parser runs to its end on the thread that called it.                   *)
FairSpec == Spec /\ WF_vars(Parse)

-----------------------------------------------------------------------------
(* Properties.                                                                *)

(* What the compositors take a frame for, on this canvas.                     *)
A == INSTANCE Animation WITH Width <- canvas.w, Height <- canvas.h, Frames <- {}

Open == pc = "open"

IsFrame(f) ==
  /\ DOMAIN f = DOMAIN EmptyFrame
  /\ {f.x, f.y, f.w, f.h, f.num} \subseteq Nat
  /\ f.hasAlpha \in BOOLEAN /\ f.complete \in BOOLEAN
  /\ {f.image, f.alpha} \subseteq [offset : 0..MaxUnits, size : 0..MaxUnits]

(* The state has the types of the code, and a frame that is being stored has  *)
(* taken no more than lies before the reading position.                       *)
TypeOK ==
  /\ mem \in [start : 0..MaxUnits, end : 0..MaxUnits, riffEnd : 1..MaxUnits]
  /\ next \in Chunk
  /\ pc \in {"ReadHeader", "parse", "ParseVP8XChunks", "ParseSingleImage",
             "ParseAnimationFrame", "WebPDemuxInternal", "open", "refused"}
  /\ status \in {"ok", "more", "error"}
  /\ {partial, extended, anim} \subseteq BOOLEAN
  /\ flags \subseteq Flag
  /\ state \in {"parsing", "header", "done", "error"}
  /\ numFrames \in Nat
  /\ IsFrame(frame) /\ IsFrame(iter)
  /\ \A i \in DOMAIN frames : IsFrame(frames[i])
  /\ frame.image.offset + frame.image.size <= mem.start
  /\ frame.alpha.offset + frame.alpha.size <= mem.start

(* Whenever the loops of ParseVP8XChunks and StoreFrame read the header of a  *)
(* chunk, the buffer still holds one: their tests of MemDataSize at the end   *)
(* of an iteration cover every way into the next one.                         *)
HeaderIsThere ==
  pc \in {"ParseVP8XChunks", "ParseSingleImage", "ParseAnimationFrame"} =>
    mem.start + 1 <= mem.end /\ mem.end <= mem.riffEnd

(* The frames of a demuxer are numbered from 1 to WEBP_FF_FRAME_COUNT in the  *)
(* order of the file, as WebPDemuxGetFrame looks them up.  Only the single    *)
(* frame of a still image cut before its size is known has number 0.          *)
FramesNumbered ==
  Open =>
    /\ numFrames = Len(frames)
    /\ \/ \A i \in DOMAIN frames : frames[i].num = i
       \/ partial /\ numFrames = 1 /\ frames[1] = EmptyFrame

(* A frame is handed out incomplete only as the last one of a file that is    *)
(* cut and was opened with WebPDemuxPartial, even though AddFrame never       *)
(* refuses; a complete one has its image.                                     *)
OnlyLastIncomplete ==
  Open =>
    \A i \in DOMAIN frames :
      IF frames[i].complete THEN frames[i].image.size > 0
                            ELSE partial /\ i = Len(frames)

(* Every frame with an image lies in the canvas, and the frame of a still     *)
(* image fills it, although its size is taken from the bitstream and need not *)
(* be the one its ANMF announces.  Both compositors rely on it.               *)
FramesInCanvas ==
  Open =>
    \A i \in DOMAIN frames :
      LET f == frames[i] IN
      f.image.size > 0 =>
        /\ A!Inside(f)
        /\ f.x % 2 = 0 /\ f.y % 2 = 0 /\ f.w > 0 /\ f.h > 0
        /\ "animation" \notin flags => f.x = 0 /\ f.y = 0 /\ f.w = canvas.w
                                      /\ f.h = canvas.h

(* GetFramePayload subtracts the end of the alpha chunk from the start of the *)
(* image in size_t: the alpha of a frame must end before its image, and the   *)
(* payload must lie in the buffer.                                            *)
PayloadIsInOrder ==
  Open =>
    \A i \in DOMAIN frames :
      LET image == frames[i].image
          alpha == frames[i].alpha
      IN /\ image.offset + image.size <= mem.end
         /\ alpha.offset + alpha.size <= mem.end
         /\ (alpha.size > 0 /\ image.offset > 0) =>
              alpha.offset + alpha.size <= image.offset

(* One call of WebPDemuxNextFrame on a whole file goes to the frame after the *)
(* one it shows, or stays on the last.                                        *)
Follows ==
  (NextFrame /\ ~partial /\ iter.num > 0) =>
     \E i \in DOMAIN frames :
       /\ frames[i] = iter
       /\ iter' = IF i = Len(frames) THEN iter ELSE frames[i + 1]

(* WebPDemuxNextFrame shows the frames of a whole file one after the other,   *)
(* each once, and stays on the last.                                          *)
NextFrameFollows == [][Follows]_vars

(* Whatever the chunks are, the parser comes to an end: every iteration takes *)
(* a header, although StoreFrame hands one back.                              *)
ParseEnds == <>(pc \in {"open", "refused"})
=============================================================================
