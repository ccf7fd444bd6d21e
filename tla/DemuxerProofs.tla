----------------------------- MODULE DemuxerProofs -----------------------------
(***************************************************************************)
(* What libwebp's demuxer guarantees of the frames it hands out, for files *)
(* of any length, cut anywhere, and any set of chunks.                     *)
(*                                                                         *)
(* The invariant follows a file through the parser: Reading says where the *)
(* position may be, Storing what is known of the frame that is being       *)
(* stored, Listed of the frames that are, Plain of a file without VP8X,    *)
(* which the validation hardly looks at, and Checked what the validation   *)
(* of Finish adds.                                                         *)
(***************************************************************************)
EXTENDS Demuxer, TLAPS

Data == [offset : 0..MaxUnits, size : 0..MaxUnits]

FrameRecord ==
  [x : Nat, y : Nat, w : Nat, h : Nat, hasAlpha : BOOLEAN, num : Nat,
   complete : BOOLEAN, image : Data, alpha : Data]

DataEnd(d) == d.offset + d.size

(* A frame whose chunks lie before to, none over the other.                   *)
Sound(f, to) ==
  /\ f \in FrameRecord
  /\ f.x % 2 = 0 /\ f.y % 2 = 0
  /\ DataEnd(f.image) <= to /\ DataEnd(f.alpha) <= to
  /\ f.complete => f.image.size > 0
  /\ f.image.size > 0 => f.w > 0 /\ f.h > 0
  /\ f.image.size = 0 => f.image.offset = 0
  /\ f.alpha.size > 0 /\ f.image.size > 0 =>
       DataEnd(f.alpha) <= f.image.offset \/ DataEnd(f.image) <= f.alpha.offset

Stores == {"ParseSingleImage", "ParseAnimationFrame"}
Loops == Stores \cup {"ParseVP8XChunks"}
Before == {"ReadHeader", "parse"}
Ended == {"WebPDemuxInternal", "open", "refused"}

Memory == [start : 0..MaxUnits, end : 0..MaxUnits, riffEnd : 1..MaxUnits]

Kinds ==
  /\ next \in Chunk
  /\ pc \in Before \cup Loops \cup Ended
  /\ status \in {"ok", "more", "error"}
  /\ partial \in BOOLEAN /\ extended \in BOOLEAN /\ anim \in BOOLEAN
  /\ flags \subseteq Flag
  /\ state \in {"parsing", "header", "done", "error"}
  /\ canvas \in [w : Int, h : Int]
  /\ iter \in FrameRecord

Reading ==
  /\ mem \in Memory /\ mem.start <= mem.end
  /\ pc \in Loops \cup {"parse"} => mem.end <= mem.riffEnd
  /\ pc \in Loops => mem.start + 1 <= mem.end

(* What a still image's frame is before and after its first chunk.            *)
Single ==
  /\ frames = <<>> /\ frame.x = 0 /\ frame.y = 0
  /\ \/ /\ frame = EmptyFrame
        /\ next.id \in Images \cup {"ALPH"} /\ (~extended => next.id \in Images)
     \/ frame.num = 1 /\ (~extended => frame.complete)

Storing ==
  /\ Sound(frame, mem.start)
  /\ pc \notin Stores => frame = EmptyFrame
  /\ pc = "ParseSingleImage" => Single
  /\ pc = "ParseAnimationFrame" => frame.num \in {0, numFrames + 1}

NumberedFrom1 == \A j \in DOMAIN frames : frames[j].num = j

CutStill ==
  /\ numFrames = 1 /\ frames[1] = EmptyFrame
  /\ status = "more" /\ pc \in {"WebPDemuxInternal", "open"}

Listed ==
  /\ frames \in Seq(FrameRecord) /\ numFrames = Len(frames)
  /\ \A j \in DOMAIN frames : Sound(frames[j], mem.end)
  /\ NumberedFrom1 \/ CutStill \/ pc = "refused"
  /\ pc \in Before => frames = <<>> /\ state = "parsing" /\ ~extended /\ flags = {}
  /\ extended /\ state = "parsing" => frames = <<>>
  /\ extended /\ pc \in Loops => state = "header"
  /\ pc \in {"ParseVP8XChunks", "ParseAnimationFrame"} => extended

PlainFrame(f) ==
  /\ f.x = 0 /\ f.y = 0 /\ f.alpha.size = 0
  /\ f.image.size > 0 => canvas.w = f.w /\ canvas.h = f.h
  /\ f.complete \/ status = "more"

Plain ==
  ~extended =>
    /\ flags \subseteq {"alpha"}
    /\ pc \notin Ended => flags = {} /\ frames = <<>>
    /\ Len(frames) <= 1
    /\ frames # <<>> => PlainFrame(frames[1])

Checked ==
  /\ pc = "open" /\ status = "more" => partial
  /\ OnlyLastIncomplete /\ FramesInCanvas /\ PayloadIsInOrder

DemuxInv == Kinds /\ Reading /\ Storing /\ Listed /\ Plain /\ Checked

-----------------------------------------------------------------------------
LEMMA EmptyIsSound == EmptyFrame \in FrameRecord /\ \A to \in Nat : Sound(EmptyFrame, to)
<1>1. NoData \in Data
  BY DemuxerAssumption DEF NoData, Data
<1>2. EmptyFrame \in FrameRecord
  BY <1>1 DEF EmptyFrame, FrameRecord
<1> QED BY <1>2 DEF EmptyFrame, Sound, NoData, DataEnd

LEMMA SoundLater ==
  ASSUME NEW f, NEW a \in Nat, NEW b \in Nat, a <= b, Sound(f, a)
  PROVE  Sound(f, b)
<1>1. /\ f.image.offset \in Nat /\ f.image.size \in Nat
      /\ f.alpha.offset \in Nat /\ f.alpha.size \in Nat
  BY DemuxerAssumption DEF Sound, FrameRecord, Data
<1> QED BY <1>1 DEF Sound, DataEnd

LEMMA DemuxInit == Init => DemuxInv
<1> SUFFICES ASSUME Init PROVE DemuxInv
  OBVIOUS
<1>1. Kinds
  <2>1. canvas \in [w : Int, h : Int]
    BY DEF Init
  <2>2. iter \in FrameRecord
    BY EmptyIsSound DEF Init
  <2> QED BY <2>1, <2>2 DEF Init, Kinds, Before, Flag
<1>2. Reading
  BY DemuxerAssumption DEF Init, Reading, Memory, Loops, Stores
<1>3. Storing
  BY EmptyIsSound DEF Init, Storing, Stores
<1>4. Listed
  BY DEF Init, Listed, NumberedFrom1, Before, Loops, Stores
<1>5. Plain
  BY DEF Init, Plain, Ended
<1>6. Checked
  BY DEF Init, Checked, OnlyLastIncomplete, FramesInCanvas, PayloadIsInOrder, Open
<1> QED BY <1>1, <1>2, <1>3, <1>4, <1>5, <1>6 DEF DemuxInv

-----------------------------------------------------------------------------
(* Steps on which no frame is added: the position moves on, and the parser    *)
(* ends or comes to the next chunk of an extended file.                       *)
Parsing == Loops \cup {"parse"}

HeaderSet ==
  /\ pc = "parse" /\ extended' = TRUE /\ flags' \subseteq Flag
  /\ canvas' \in [w : Int, h : Int] /\ state' \in {"parsing", "header"}

MovesOn(at) ==
  /\ at \in Nat /\ mem.start <= at /\ at <= mem.end
  /\ mem' = [mem EXCEPT !.start = at] /\ next' \in Chunk
  /\ partial' = partial /\ anim' \in BOOLEAN /\ iter' = iter
  /\ status' \in {"ok", "more", "error"}

ComesTo(at) ==
  \/ pc' = "WebPDemuxInternal"
  \/ pc' = "ParseVP8XChunks" /\ at + 1 <= mem.end /\ extended' /\ state' = "header"

LEMMA ReadingMoves ==
  ASSUME DemuxInv, NEW at, MovesOn(at), pc \in Parsing,
         pc' \in Loops => at + 1 <= mem.end, pc' # "parse"
  PROVE  Reading'
<1>1. mem \in Memory /\ mem.end <= mem.riffEnd
  BY DEF DemuxInv, Reading, Parsing
<1>2. /\ mem' \in Memory /\ mem'.start = at /\ mem'.end = mem.end
      /\ mem'.riffEnd = mem.riffEnd
  <2>1. at \in 0..MaxUnits /\ mem' = [mem EXCEPT !.start = at]
    BY <1>1, DemuxerAssumption DEF MovesOn, Memory
  <2> QED BY <1>1, <2>1 DEF Memory
<1> QED BY <1>1, <1>2 DEF MovesOn, Reading

LEMMA QuietStep ==
  ASSUME DemuxInv, pc \in Parsing, NEW at, MovesOn(at), ComesTo(at),
         frame' = EmptyFrame, NoFrameAdded, HeaderKept \/ HeaderSet
  PROVE  DemuxInv'
<1>1. /\ pc' \in {"WebPDemuxInternal", "ParseVP8XChunks"}
      /\ pc' \notin Stores \cup Before \cup {"open", "refused"}
  BY DEF ComesTo, Stores, Before
<1>2. Kinds'
  <2>1. extended' \in BOOLEAN /\ flags' \subseteq Flag /\ canvas' \in [w : Int, h : Int]
        /\ state' \in {"parsing", "header", "done", "error"}
    BY DEF HeaderKept, HeaderSet, DemuxInv, Kinds
  <2> QED BY <1>1, <2>1 DEF MovesOn, DemuxInv, Kinds, Loops, Ended
<1>3. Reading'
  BY <1>1, ReadingMoves DEF ComesTo, Loops
<1>4. Storing'
  <2>1. mem'.start \in Nat
    BY <1>3, DemuxerAssumption DEF Reading, Memory
  <2> QED BY <1>1, <2>1, EmptyIsSound DEF Storing, Stores
<1>5. NumberedFrom1 /\ mem'.end = mem.end /\ frames' = frames /\ numFrames' = numFrames
  BY DEF DemuxInv, Reading, Memory, Listed, CutStill, MovesOn, NoFrameAdded, Parsing,
         Loops, Stores
<1>6. Listed'
  <2>1. frames = <<>> \/ HeaderKept
    BY DEF HeaderSet, DemuxInv, Listed, Before
  <2>2. extended' /\ state' = "parsing" => frames' = <<>>
    BY <1>5, <2>1 DEF HeaderKept, DemuxInv, Listed
  <2>3. NumberedFrom1'
    BY <1>5 DEF NumberedFrom1
  <2>4. pc' = "ParseVP8XChunks" => extended' /\ state' = "header"
    BY DEF ComesTo
  <2> QED BY <1>1, <1>5, <2>2, <2>3, <2>4 DEF DemuxInv, Listed, Loops, Stores, Before
<1>7. Plain'
  <2> SUFFICES ASSUME ~extended' PROVE Plain'
    BY DEF Plain
  <2>1. HeaderKept
    BY DEF HeaderSet
  <2>2. flags = {} /\ frames = <<>>
    BY <2>1 DEF HeaderKept, DemuxInv, Plain, Parsing, Loops, Stores, Ended
  <2> QED BY <1>5, <2>1, <2>2 DEF Plain, HeaderKept
<1>8. Checked'
  BY <1>1 DEF Checked, OnlyLastIncomplete, FramesInCanvas, PayloadIsInOrder, Open
<1> QED BY <1>2, <1>3, <1>4, <1>6, <1>7, <1>8 DEF DemuxInv

(* Where AfterChunk leads.                                                    *)
LEMMA AfterChunkLeads ==
  ASSUME mem \in Memory, NEW at \in Nat, NEW s \in {"ok", "more", "error"},
         at <= mem.end, mem.end <= mem.riffEnd, AfterChunk(s, at)
  PROVE  /\ status' \in {"ok", "more", "error"}
         /\ \/ pc' = "WebPDemuxInternal"
            \/ pc' = "ParseVP8XChunks" /\ at + 1 <= mem.end /\ s = "ok"
         /\ s = "more" => status' = "more"
BY DEF AfterChunk, End, Left, Memory

(* MoveTo, to a place in the buffer.                                          *)
LEMMA MoveToMoves ==
  ASSUME DemuxInv, NEW at \in Nat, mem.start <= at, at <= mem.end, MoveTo(at),
         UNCHANGED <<partial, iter>>, anim' \in BOOLEAN,
         status' \in {"ok", "more", "error"}
  PROVE  MovesOn(at)
BY DEF MoveTo, MovesOn, DemuxInv, Kinds

LEMMA UnmovedMoves ==
  ASSUME DemuxInv, Unmoved, UNCHANGED <<partial, iter>>, anim' \in BOOLEAN,
         status' \in {"ok", "more", "error"}
  PROVE  MovesOn(mem.start)
<1>1. mem \in Memory /\ mem.start <= mem.end /\ mem.start \in Nat /\ next \in Chunk
  BY DEF DemuxInv, Reading, Memory, Kinds
<1>2. [mem EXCEPT !.start = mem.start] = mem
  BY <1>1 DEF Memory
<1> QED BY <1>1, <1>2 DEF Unmoved, MovesOn

-----------------------------------------------------------------------------
(* The lookup of a frame, once the file is open: only the iterator changes.   *)
LEMMA IterateStep ==
  ASSUME DemuxInv, pc = "open", DemuxerKept, iter' \in FrameRecord
  PROVE  DemuxInv'
<1>1. Kinds' /\ Reading' /\ Storing' /\ Listed' /\ Plain'
  BY DEF DemuxerKept, DemuxInv, Kinds, Reading, Storing, Single, Listed, NumberedFrom1,
         CutStill, Plain, PlainFrame
<1>2. Checked'
  BY DEF DemuxerKept, DemuxInv, Checked, OnlyLastIncomplete, FramesInCanvas,
         PayloadIsInOrder, Open, A!Inside
<1> QED BY <1>1, <1>2 DEF DemuxInv

LEMMA SetFrameShows ==
  ASSUME DemuxInv, pc = "open", NEW n, NEW otherwise \in FrameRecord,
         SetFrame(n, otherwise)
  PROVE  iter' \in FrameRecord
<1>1. frames \in Seq(FrameRecord) /\ (NumberedFrom1 \/ DOMAIN frames = {1})
  BY DEF DemuxInv, Listed, CutStill
<1> DEFINE number == IF n = 0 THEN numFrames ELSE n
<1> DEFINE found == GetFrame(number)
<1>2. CASE n > numFrames \/ found = {}
  BY <1>2 DEF SetFrame
<1>3. CASE ~(n > numFrames \/ found = {})
  <2>1. iter' = frames[CHOOSE j \in found : \A k \in found : j <= k]
    BY <1>3 DEF SetFrame
  <2>2. PICK j \in DOMAIN frames : found = {j}
    BY <1>1, <1>3 DEF GetFrame, NumberedFrom1
  <2>3. j <= j
    BY <1>1
  <2> QED BY <1>1, <2>1, <2>2, <2>3
<1> QED BY <1>2, <1>3

LEMMA IterateNext == DemuxInv /\ Iterate => DemuxInv'
<1> SUFFICES ASSUME DemuxInv, Iterate PROVE DemuxInv'
  OBVIOUS
<1>1. iter \in FrameRecord /\ EmptyFrame \in FrameRecord
  BY EmptyIsSound DEF DemuxInv, Kinds
<1>2. pc = "open" /\ DemuxerKept
  BY DEF Iterate, GetFrameNumbered, NextFrame, PrevFrame
<1>3. iter' \in FrameRecord
  BY <1>1, SetFrameShows DEF Iterate, GetFrameNumbered, NextFrame, PrevFrame
<1> QED BY <1>2, <1>3, IterateStep

-----------------------------------------------------------------------------
(* Before the master chunk.                                                   *)

(* A file that is refused at once keeps nothing.                              *)
LEMMA RefusedStep ==
  ASSUME DemuxInv, pc \in Before, NoDemuxer, mem' \in Memory, mem'.start <= mem'.end,
         next' \in Chunk, partial' \in BOOLEAN,
         HeaderKept, NoFrameAdded, NoFrameStored, UNCHANGED <<anim, iter>>
  PROVE  DemuxInv'
<1>1. frames = <<>> /\ numFrames = 0 /\ frame = EmptyFrame
  BY DEF DemuxInv, Listed, Storing, Before, Stores
<1>2. mem'.start \in Nat
  BY DemuxerAssumption DEF Memory
<1>3. Kinds' /\ Reading'
  BY DEF NoDemuxer, HeaderKept, DemuxInv, Kinds, Reading, Ended, Loops, Stores
<1>4. Storing'
  BY <1>1, <1>2, EmptyIsSound DEF Storing, NoDemuxer, NoFrameStored, Stores
<1>5. Listed' /\ Plain'
  BY <1>1 DEF Listed, Plain, NoDemuxer, HeaderKept, NoFrameAdded, DemuxInv,
              NumberedFrom1, Before, Loops, Stores, Ended
<1>6. Checked'
  BY DEF Checked, NoDemuxer, OnlyLastIncomplete, FramesInCanvas, PayloadIsInOrder, Open
<1> QED BY <1>3, <1>4, <1>5, <1>6 DEF DemuxInv

(* The bitstream's size and place in a frame.                                 *)
LEMMA SetFrameInfoSound ==
  ASSUME NEW f \in FrameRecord, NEW at \in 0..MaxUnits, NEW size \in 0..MaxUnits,
         NEW num \in Nat, NEW complete \in BOOLEAN, NEW c \in Chunk, c.id \in Images,
         NEW to \in Nat, at + size <= to, size > 0, Sound(f, at),
         f.image = NoData
  PROVE  LET g == SetFrameInfo(f, at, size, num, complete, c)
         IN /\ Sound(g, to) /\ g.num = num /\ g.x = f.x /\ g.y = f.y
            /\ g.complete = complete /\ g.w = c.w /\ g.h = c.h
            /\ g.image = [offset |-> at, size |-> size] /\ g.alpha = f.alpha
<1> DEFINE g == SetFrameInfo(f, at, size, num, complete, c)
<1>1. c.w \in Nat \ {0} /\ c.h \in Nat \ {0} /\ c.hasAlpha \in BOOLEAN
  BY DemuxerAssumption
<1>2. (f.hasAlpha \/ c.hasAlpha) \in BOOLEAN
  OBVIOUS
<1>3. [offset |-> at, size |-> size] \in Data
  BY DEF Data
<1>4. g = [f EXCEPT !.image = [offset |-> at, size |-> size], !.w = c.w, !.h = c.h,
                    !.hasAlpha = (f.hasAlpha \/ c.hasAlpha), !.num = num,
                    !.complete = complete]
  BY DEF SetFrameInfo
<1>5. g \in FrameRecord
  BY <1>1, <1>2, <1>3, <1>4 DEF FrameRecord
<1>6. /\ g.num = num /\ g.x = f.x /\ g.y = f.y /\ g.complete = complete
      /\ g.w = c.w /\ g.h = c.h
      /\ g.image = [offset |-> at, size |-> size] /\ g.alpha = f.alpha
  BY <1>4 DEF FrameRecord
<1> HIDE DEF g
<1>7. Sound(g, to)
  <2>1. f.alpha.offset \in Nat /\ f.alpha.size \in Nat /\ at \in Nat /\ size \in Nat
    BY DemuxerAssumption DEF FrameRecord, Data
  <2>2. g.image.offset = at /\ g.image.size = size
    BY <1>6
  <2>3. DataEnd(f.alpha) <= at
    BY DEF Sound
  <2>4. /\ DataEnd(g.image) <= to /\ DataEnd(g.alpha) <= to
        /\ DataEnd(g.alpha) <= g.image.offset
    BY <1>6, <2>1, <2>2, <2>3 DEF DataEnd
  <2> QED BY <1>1, <1>5, <1>6, <2>2, <2>4 DEF Sound
<1> QED BY <1>6, <1>7 DEF g

(* The frame of a file without RIFF header: the whole buffer.                 *)
LEMMA RawFrameSound ==
  ASSUME NEW c \in Chunk, c.id \in Images, NEW size \in 1..MaxUnits
  PROVE  LET g == SetFrameInfo(EmptyFrame, 0, size, 1, TRUE, c)
         IN /\ Sound(g, size) /\ g.num = 1 /\ g.x = 0 /\ g.y = 0 /\ g.complete
            /\ g.w = c.w /\ g.h = c.h /\ g.alpha = NoData
            /\ g.image = [offset |-> 0, size |-> size]
<1> DEFINE whole == TRUE
<1> DEFINE g == SetFrameInfo(EmptyFrame, 0, size, 1, whole, c)
<1>1. c.w \in Nat \ {0} /\ c.h \in Nat \ {0} /\ c.hasAlpha \in BOOLEAN
  BY DemuxerAssumption
<1>2. (EmptyFrame.hasAlpha \/ c.hasAlpha) \in BOOLEAN
  OBVIOUS
<1>3. [offset |-> 0, size |-> size] \in Data /\ EmptyFrame \in FrameRecord
  BY EmptyIsSound, DemuxerAssumption DEF Data
<1>4. g = [EmptyFrame EXCEPT
             !.image = [offset |-> 0, size |-> size], !.w = c.w, !.h = c.h,
             !.hasAlpha = (EmptyFrame.hasAlpha \/ c.hasAlpha), !.num = 1,
             !.complete = whole]
  BY DEF SetFrameInfo
<1>9. whole \in BOOLEAN /\ whole
  OBVIOUS
<1> HIDE DEF whole, g
<1>8. g \in FrameRecord
  BY <1>1, <1>2, <1>3, <1>4, <1>9 DEF FrameRecord
<1>5. /\ g.num = 1 /\ g.x = 0 /\ g.y = 0 /\ g.complete /\ g.w = c.w /\ g.h = c.h
      /\ g.alpha = NoData /\ g.image = [offset |-> 0, size |-> size]
  <2>1. EmptyFrame.x = 0 /\ EmptyFrame.y = 0 /\ EmptyFrame.alpha = NoData
    BY DEF EmptyFrame
  <2> QED BY <1>3, <1>4, <1>9, <2>1 DEF FrameRecord
<1>6. /\ g.image.offset = 0 /\ g.image.size = size /\ g.alpha.offset = 0
      /\ g.alpha.size = 0 /\ size \in Nat /\ size > 0
  BY <1>5 DEF NoData
<1>7. Sound(g, size)
  BY <1>1, <1>5, <1>6, <1>8 DEF Sound, DataEnd
<1> QED BY <1>5, <1>7 DEF g, whole

RawImage(c) ==
  /\ c.id \in Images /\ c.sound
  /\ AddFrame(SetFrameInfo(EmptyFrame, 0, mem.end, 1, TRUE, c))
  /\ numFrames' = 1 /\ state' = "done"
  /\ canvas' = [w |-> c.w, h |-> c.h]
  /\ flags' = IF c.hasAlpha THEN {"alpha"} ELSE {}
  /\ pc' = "open" /\ status' = "ok"

LEMMA ReadHeaderNext == DemuxInv /\ ReadHeader => DemuxInv'
<1> SUFFICES ASSUME DemuxInv, ReadHeader PROVE DemuxInv'
  OBVIOUS
<1>1. /\ pc = "ReadHeader" /\ NoFrameStored /\ UNCHANGED <<extended, anim, iter>>
      /\ mem \in Memory /\ mem.start <= mem.end /\ next \in Chunk
      /\ partial \in BOOLEAN
      /\ frames = <<>> /\ numFrames = 0 /\ frame = EmptyFrame
      /\ ~extended /\ flags = {} /\ state = "parsing"
  BY DEF ReadHeader, DemuxInv, Listed, Before, Reading, Kinds, Storing, Stores
<1>2. CASE ReadHeaderTooShort
  BY <1>1, <1>2, RefusedStep
     DEF ReadHeaderTooShort, Before, HeaderKept, NoFrameAdded
<1>3. CASE /\ CreateRawImageDemuxer /\ NoDemuxer
           /\ UNCHANGED <<frames, numFrames, canvas, state, flags>>
  BY <1>1, <1>3, RefusedStep
     DEF CreateRawImageDemuxer, Before, HeaderKept, NoFrameAdded, Unmoved
<1>4. CASE CreateRawImageDemuxer
           /\ \E c \in Chunk : RawImage(c)
  <2>1. PICK c \in Chunk : RawImage(c)
    BY <1>4
  <2> DEFINE g == SetFrameInfo(EmptyFrame, 0, mem.end, 1, TRUE, c)
  <2>2. mem.end \in 0..MaxUnits /\ mem.end > 0 /\ partial' = FALSE /\ mem' = mem
        /\ next' = next /\ mem.start \in Nat
    BY <1>1, <1>4, DemuxerAssumption DEF CreateRawImageDemuxer, Memory, Unmoved
  <2>3. /\ Sound(g, mem.end) /\ g.num = 1 /\ g.x = 0 /\ g.y = 0 /\ g.complete
        /\ g.w = c.w /\ g.h = c.h /\ g.alpha = NoData
        /\ g.image = [offset |-> 0, size |-> mem.end]
    <3>1. c.id \in Images /\ mem.end \in 1..MaxUnits
      BY <2>1, <2>2 DEF RawImage
    <3> QED BY <2>1, <3>1, RawFrameSound
  <2>4. frames' = <<g>> /\ g \in FrameRecord
    <3>1. frames' = Append(frames, g)
      BY <2>1 DEF AddFrame, RawImage
    <3>2. g \in FrameRecord
      BY <2>3 DEF Sound
    <3> HIDE DEF g
    <3> QED BY <1>1, <3>1, <3>2
  <2> HIDE DEF g
  <2> USE DEF RawImage
  <2>5. /\ frames' \in Seq(FrameRecord) /\ Len(frames') = 1 /\ DOMAIN frames' = {1}
        /\ frames'[1] = g /\ frames' # <<>>
    BY <2>4
  <2>6. /\ c.w \in Nat \ {0} /\ c.h \in Nat \ {0}
        /\ canvas' \in [w : Int, h : Int] /\ canvas'.w = c.w /\ canvas'.h = c.h
    BY <2>1, DemuxerAssumption
  <2>7. Kinds'
    BY <1>1, <2>1, <2>2, <2>6 DEF Kinds, DemuxInv, Flag, Ended
  <2>8. Reading'
    BY <1>1, <2>1, <2>2 DEF Reading, Loops, Stores
  <2>9. Storing'
    BY <1>1, <2>1, <2>2, EmptyIsSound DEF Storing, NoFrameStored, Stores
  <2>10. Listed'
    BY <1>1, <2>1, <2>2, <2>3, <2>5 DEF Listed, NumberedFrom1, Before, Loops, Stores
  <2>11. Plain'
    <3>1. flags' \subseteq {"alpha"} /\ g.alpha.size = 0
      BY <2>1, <2>3 DEF NoData
    <3> QED BY <1>1, <2>1, <2>3, <2>5, <2>6, <3>1 DEF Plain, PlainFrame, Ended
  <2>12. Checked'
    <3>1. g.image.size = mem.end /\ g.image.offset = 0 /\ g.alpha.size = 0
          /\ g.alpha.offset = 0
      BY <2>3 DEF NoData
    <3>2. OnlyLastIncomplete'
      BY <2>2, <2>3, <2>5, <3>1 DEF OnlyLastIncomplete
    <3>3. FramesInCanvas'
      BY <2>3, <2>5, <2>6, <3>1 DEF FramesInCanvas, A!Inside
    <3>4. PayloadIsInOrder'
      BY <2>2, <2>5, <3>1 DEF PayloadIsInOrder
    <3> QED BY <2>1, <3>2, <3>3, <3>4 DEF Checked
  <2> QED BY <2>7, <2>8, <2>9, <2>10, <2>11, <2>12 DEF DemuxInv
<1>5. CASE ReadHeaderRiff
  <2> DEFINE end == IF mem.end > mem.riffEnd THEN mem.riffEnd ELSE mem.end
  <2>1. /\ end \in 1..MaxUnits /\ end <= mem.riffEnd
        /\ mem' = [mem EXCEPT !.start = 1, !.end = end]
        /\ partial' = (end < mem.riffEnd)
    BY <1>1, <1>5, DemuxerAssumption DEF ReadHeaderRiff, Memory
  <2> HIDE DEF end
  <2>2. /\ mem' \in Memory /\ mem'.start = 1 /\ mem'.end = end /\ mem'.riffEnd = mem.riffEnd
    <3>1. 1 \in 0..MaxUnits /\ end \in 0..MaxUnits
      BY <2>1, DemuxerAssumption
    <3> QED BY <1>1, <2>1, <3>1 DEF Memory
  <2>3. partial' \in BOOLEAN
    BY <2>1
  <2>4. UNCHANGED <<next, frames, numFrames, canvas, state, flags>>
    BY <1>5 DEF ReadHeaderRiff
  <2>5. CASE NoDemuxer
    BY <1>1, <2>1, <2>2, <2>3, <2>4, <2>5, RefusedStep DEF Before, HeaderKept, NoFrameAdded
  <2>6. CASE pc' = "parse" /\ status' = "ok"
    <3>1. Kinds' /\ Reading'
      BY <1>1, <2>1, <2>2, <2>3, <2>4, <2>6
         DEF Kinds, Reading, DemuxInv, Before, Loops, Stores
    <3>2. Storing'
      BY <1>1, <2>2, <2>6, EmptyIsSound DEF Storing, NoFrameStored, Stores
    <3>3. Listed' /\ Plain'
      BY <1>1, <2>4, <2>6 DEF Listed, Plain, NumberedFrom1, Before, Loops, Stores, Ended,
                              DemuxInv
    <3>4. Checked'
      BY <2>6 DEF Checked, OnlyLastIncomplete, FramesInCanvas, PayloadIsInOrder, Open
    <3> QED BY <3>1, <3>2, <3>3, <3>4 DEF DemuxInv
  <2> QED BY <1>5, <2>5, <2>6 DEF ReadHeaderRiff
<1>6. CreateRawImageDemuxer =>
        \/ NoDemuxer /\ UNCHANGED <<frames, numFrames, canvas, state, flags>>
        \/ \E c \in Chunk : RawImage(c)
  BY DEF CreateRawImageDemuxer, RawImage
<1> QED BY <1>2, <1>3, <1>4, <1>5, <1>6 DEF ReadHeader

-----------------------------------------------------------------------------
(* From the master chunk and from the chunks of an extended file.             *)

(* What holds between two chunks.                                             *)
LEMMA AtParsing ==
  ASSUME DemuxInv, pc \in {"parse", "ParseVP8XChunks"}
  PROVE  /\ pc \in Parsing /\ frame = EmptyFrame /\ next \in Chunk
         /\ mem \in Memory /\ mem.start <= mem.end /\ mem.end <= mem.riffEnd
         /\ mem.start \in Nat /\ mem.end \in Nat /\ mem.riffEnd \in Nat
         /\ next.size \in Nat /\ anim \in BOOLEAN /\ flags \subseteq Flag
         /\ canvas \in [w : Int, h : Int] /\ status \in {"ok", "more", "error"}
         /\ pc = "parse" => ~extended /\ state = "parsing" /\ frames = <<>>
         /\ pc = "ParseVP8XChunks" =>
              extended /\ state = "header" /\ mem.start + 1 <= mem.end
<1>1. mem \in Memory /\ next \in Chunk
  BY DEF DemuxInv, Reading, Kinds
<1>2. mem.start \in Nat /\ mem.end \in Nat /\ mem.riffEnd \in Nat /\ next.size \in Nat
  BY <1>1, DemuxerAssumption DEF Memory
<1>3. pc \in Parsing /\ pc \notin Stores
  BY DEF Parsing, Loops, Stores
<1> QED BY <1>1, <1>2, <1>3
        DEF DemuxInv, Reading, Kinds, Storing, Listed, Parsing, Loops, Stores, Before

(* The parser gives up, or waits for more data, where it is.                  *)
LEMMA StopsHere ==
  ASSUME DemuxInv, pc \in {"parse", "ParseVP8XChunks"}, NEW s \in {"ok", "more", "error"},
         End(s), Unmoved, HeaderKept \/ HeaderSet, NoFrameStored, NoFrameAdded,
         UNCHANGED <<partial, iter>>, anim' \in BOOLEAN
  PROVE  DemuxInv'
<1>1. status' \in {"ok", "more", "error"} /\ pc' = "WebPDemuxInternal"
  BY DEF End
<1>2. MovesOn(mem.start)
  BY <1>1, UnmovedMoves
<1> QED BY <1>1, <1>2, AtParsing, QuietStep DEF ComesTo, NoFrameStored

(* It goes on behind a chunk, or ends there.                                  *)
LEMMA GoesOn ==
  ASSUME DemuxInv, pc = "ParseVP8XChunks", NEW s \in {"ok", "more", "error"},
         NEW at \in Nat, mem.start <= at, at <= mem.end, AfterChunk(s, at),
         MoveTo(at) \/ (Unmoved /\ s # "ok"), HeaderKept, NoFrameStored, NoFrameAdded,
         UNCHANGED <<partial, iter>>, anim' \in BOOLEAN
  PROVE  DemuxInv'
<1>1. /\ status' \in {"ok", "more", "error"}
      /\ \/ pc' = "WebPDemuxInternal"
         \/ pc' = "ParseVP8XChunks" /\ at + 1 <= mem.end /\ s = "ok"
  BY AtParsing, AfterChunkLeads
<1>2. extended' /\ state' = "header"
  BY AtParsing DEF HeaderKept
<1>3. CASE MoveTo(at)
  <2>1. MovesOn(at)
    BY <1>1, <1>3, MoveToMoves
  <2> QED BY <1>1, <1>2, <2>1, AtParsing, QuietStep DEF ComesTo, NoFrameStored
<1>4. CASE Unmoved /\ s # "ok"
  <2>1. MovesOn(mem.start)
    BY <1>1, <1>4, UnmovedMoves
  <2> QED BY <1>1, <1>4, <2>1, AtParsing, QuietStep DEF ComesTo, NoFrameStored
<1> QED BY <1>3, <1>4

(* StoreFrame is entered for a still image.                                   *)
LEMMA SingleStarts ==
  ASSUME DemuxInv, pc \in {"parse", "ParseVP8XChunks"}, ParseSingleImage,
         next.id \in Images \cup {"ALPH"}, pc = "parse" => next.id \in Images,
         Unmoved, HeaderKept, NoFrameStored, UNCHANGED <<partial, anim, iter>>
  PROVE  DemuxInv'
<1>1. NoFrameAdded /\ anim' \in BOOLEAN
  BY AtParsing DEF ParseSingleImage
<1>2. CASE End("error")
  BY <1>1, <1>2, StopsHere
<1>3. CASE extended /\ AfterChunk("error", mem.start)
  <2>1. pc = "ParseVP8XChunks"
    BY <1>3, AtParsing
  <2> QED BY <1>1, <1>3, <2>1, AtParsing, GoesOn
<1>4. CASE End("more")
  BY <1>1, <1>4, StopsHere
<1>5. CASE frames = <<>> /\ ~(Left(mem.start) < 1) /\ pc' = "ParseSingleImage"
           /\ status' = status
  <2>1. mem.start + 1 <= mem.end
    BY <1>5, AtParsing DEF Left
  <2>2. Kinds' /\ Reading'
    BY <1>1, <1>5, <2>1, AtParsing
       DEF Kinds, Reading, DemuxInv, Unmoved, HeaderKept, Loops, Stores
  <2>3. Storing'
    <3>1. frame' = EmptyFrame /\ Sound(EmptyFrame, mem'.start)
      BY AtParsing, EmptyIsSound DEF NoFrameStored, Unmoved
    <3>2. EmptyFrame.x = 0 /\ EmptyFrame.y = 0
      BY DEF EmptyFrame
    <3>3. next' = next /\ (~extended' => next.id \in Images) /\ frames' = <<>>
      BY <1>1, <1>5, AtParsing DEF Unmoved, HeaderKept, NoFrameAdded
    <3>4. Single'
      BY <3>1, <3>2, <3>3 DEF Single
    <3> QED BY <1>5, <3>1, <3>4 DEF Storing
  <2>4. Listed'
    BY <1>1, <1>5, AtParsing
       DEF Listed, NumberedFrom1, DemuxInv, Unmoved, HeaderKept, NoFrameAdded, Before,
           Loops, Stores
  <2>5. Plain'
    BY <1>1, <1>5, AtParsing
       DEF Plain, DemuxInv, HeaderKept, NoFrameAdded, Ended
  <2>6. Checked'
    BY <1>5 DEF Checked, OnlyLastIncomplete, FramesInCanvas, PayloadIsInOrder, Open
  <2> QED BY <2>2, <2>3, <2>4, <2>5, <2>6 DEF DemuxInv
<1> QED BY <1>2, <1>3, <1>4, <1>5 DEF ParseSingleImage

LEMMA SimpleFileNext == DemuxInv /\ SimpleFile => DemuxInv'
BY SingleStarts DEF SimpleFile

LEMMA ImageChunkNext == DemuxInv /\ ImageChunk => DemuxInv'
BY SingleStarts DEF ImageChunk, AtChunk

LEMMA UnknownMasterNext == DemuxInv /\ UnknownMaster => DemuxInv'
<1> SUFFICES ASSUME DemuxInv, UnknownMaster PROVE DemuxInv'
  OBVIOUS
<1>1. mem' \in Memory /\ mem'.start <= mem'.end /\ next' \in Chunk /\ partial' \in BOOLEAN
  BY AtParsing DEF UnknownMaster, Unmoved, DemuxInv, Kinds
<1> QED BY <1>1, RefusedStep DEF UnknownMaster, Before

LEMMA ChunkRefusedNext == DemuxInv /\ ChunkRefused => DemuxInv'
<1> SUFFICES ASSUME DemuxInv, ChunkRefused PROVE DemuxInv'
  OBVIOUS
<1>1. anim' \in BOOLEAN /\ pc = "ParseVP8XChunks"
  BY AtParsing DEF ChunkRefused, AtChunk
<1> QED BY <1>1, StopsHere DEF ChunkRefused

LEMMA SkippedChunkNext == DemuxInv /\ SkippedChunk => DemuxInv'
<1> SUFFICES ASSUME DemuxInv, SkippedChunk PROVE DemuxInv'
  OBVIOUS
<1> DEFINE body == mem.start + 1
<1>1. /\ pc = "ParseVP8XChunks" /\ HeaderKept /\ NoFrameStored /\ NoFrameAdded
      /\ UNCHANGED <<partial, iter>>
  BY DEF SkippedChunk, AtChunk
<1>2. anim' \in BOOLEAN
  <2>1. anim' = anim \/ anim' = (anim \/ next.id = "ANIM")
    BY DEF SkippedChunk
  <2> QED BY <1>1, <2>1, AtParsing
<1>3. body \in Nat /\ mem.start <= body /\ body <= mem.end
  BY <1>1, AtParsing
<1>4. CASE Left(body) < next.size
  BY <1>1, <1>2, <1>3, <1>4, GoesOn DEF SkippedChunk
<1>5. CASE ~(Left(body) < next.size)
  <2>1. body + next.size \in Nat /\ mem.start <= body + next.size
        /\ body + next.size <= mem.end
    BY <1>1, <1>3, <1>5, AtParsing DEF Left
  <2>2. CASE AfterChunk("ok", body + next.size) /\ MoveTo(body + next.size)
    BY <1>1, <1>2, <2>1, <2>2, GoesOn
  <2>3. CASE End("error") /\ Unmoved
    BY <1>1, <1>2, <2>3, StopsHere
  <2> QED BY <1>5, <2>2, <2>3 DEF SkippedChunk
<1> QED BY <1>4, <1>5

LEMMA ParseVP8XNext == DemuxInv /\ ParseVP8X => DemuxInv'
<1> SUFFICES ASSUME DemuxInv, ParseVP8X PROVE DemuxInv'
  OBVIOUS
<1> DEFINE body == mem.start + 1
<1> DEFINE after == body + next.size
<1>1. /\ pc = "parse" /\ next.id = "VP8X" /\ NoFrameStored /\ NoFrameAdded
      /\ UNCHANGED <<partial, anim, iter>> /\ anim' \in BOOLEAN
  BY AtParsing DEF ParseVP8X
<1>2. next.flags \subseteq Flag /\ [w |-> next.w, h |-> next.h] \in [w : Int, h : Int]
  BY <1>1, AtParsing, DemuxerAssumption
<1>3. CASE Left(mem.start) < 1
  BY <1>1, <1>3, StopsHere DEF ParseVP8X
<1>4. CASE ~(Left(mem.start) < 1)
  <2>1. extended' = TRUE
    BY <1>4 DEF ParseVP8X
  <2>2. CASE /\ End("error") \/ End("more")
             /\ Unmoved /\ UNCHANGED <<flags, canvas, state>>
    <3>1. HeaderSet
      BY <1>1, <2>1, <2>2, AtParsing DEF HeaderSet
    <3> QED BY <1>1, <2>2, <3>1, StopsHere
  <2>3. CASE /\ flags' = next.flags /\ canvas' = [w |-> next.w, h |-> next.h]
             /\ End("error") /\ Unmoved /\ UNCHANGED state
    <3>1. HeaderSet
      BY <1>1, <1>2, <2>1, <2>3, AtParsing DEF HeaderSet
    <3> QED BY <1>1, <2>3, <3>1, StopsHere
  <2>4. CASE /\ flags' = next.flags /\ canvas' = [w |-> next.w, h |-> next.h]
             /\ state' = "header" /\ MoveTo(after) /\ ~(Left(body) < next.size)
             /\ IF SizeIsInvalid(1, after) THEN End("error")
                ELSE IF Left(after) < 1 THEN End("more")
                ELSE pc' = "ParseVP8XChunks" /\ UNCHANGED status
    <3>1. HeaderSet
      BY <1>1, <1>2, <2>1, <2>4 DEF HeaderSet
    <3>2. after \in Nat /\ mem.start <= after /\ after <= mem.end
      BY <1>1, <2>4, AtParsing DEF Left
    <3>3. status' \in {"ok", "more", "error"}
      BY <1>1, <2>4, AtParsing DEF End
    <3>4. ComesTo(after)
      BY <1>1, <2>1, <2>4, <3>2, AtParsing DEF ComesTo, End, Left
    <3>5. MovesOn(after)
      BY <1>1, <2>4, <3>2, <3>3, MoveToMoves
    <3> QED BY <1>1, <3>1, <3>4, <3>5, AtParsing, QuietStep DEF NoFrameStored
  <2> QED BY <1>4, <2>2, <2>3, <2>4 DEF ParseVP8X
<1> QED BY <1>3, <1>4

LEMMA FrameChunkNext == DemuxInv /\ FrameChunk => DemuxInv'
<1> SUFFICES ASSUME DemuxInv, FrameChunk PROVE DemuxInv'
  OBVIOUS
<1> DEFINE body == mem.start + 1
<1> DEFINE from == mem.start + 2
<1> DEFINE size == next.size - 1
<1> DEFINE new == [EmptyFrame EXCEPT !.x = 2 * next.x, !.y = 2 * next.y,
                                     !.w = next.w, !.h = next.h]
<1>1. /\ pc = "ParseVP8XChunks" /\ HeaderKept /\ NoFrameAdded /\ next.id = "ANMF"
      /\ UNCHANGED <<partial, iter>> /\ anim' \in BOOLEAN
  BY AtParsing DEF FrameChunk, AtChunk
<1>2. body \in Nat /\ from \in Nat /\ mem.start <= body /\ body <= mem.end
  BY <1>1, AtParsing
<1>3. CASE \/ AfterChunk("error", body) /\ Unmoved /\ NoFrameStored
           \/ AfterChunk("more", body) /\ Unmoved /\ NoFrameStored
  BY <1>1, <1>2, <1>3, GoesOn
<1>4. CASE /\ ~(Left(body) < 1) /\ MoveTo(from)
           /\ \/ AfterChunk("error", from) /\ NoFrameStored
              \/ AfterChunk("more", from) /\ NoFrameStored
  <2>1. mem.start <= from /\ from <= mem.end
    BY <1>1, <1>4, AtParsing DEF Left
  <2> QED BY <1>1, <1>2, <1>4, <2>1, GoesOn
<1>5. CASE /\ ~(Left(body) < 1) /\ MoveTo(from) /\ ~(Left(from) < 1) /\ frame' = new
           /\ pc' = "ParseAnimationFrame" /\ UNCHANGED status
  <2>1. mem.start <= from /\ from <= mem.end /\ from + 1 <= mem.end
    BY <1>1, <1>5, AtParsing DEF Left
  <2>2. status' \in {"ok", "more", "error"}
    BY <1>1, <1>5, AtParsing
  <2>3. MovesOn(from)
    BY <1>1, <1>2, <1>5, <2>1, <2>2, MoveToMoves
  <2>4. Reading'
    BY <1>1, <1>5, <2>1, <2>3, AtParsing, ReadingMoves DEF Loops, Stores
  <2>5. Kinds'
    BY <1>1, <1>5, <2>2, <2>3
       DEF MovesOn, Kinds, DemuxInv, HeaderKept, Loops, Stores
  <2>6. new \in FrameRecord /\ new.x = 2 * next.x /\ new.y = 2 * next.y /\ new.num = 0
        /\ new.w = next.w /\ new.h = next.h /\ new.image = NoData /\ new.alpha = NoData
        /\ ~new.complete /\ next.x \in Nat /\ next.y \in Nat
    <3>1. next.x \in Nat /\ next.y \in Nat /\ next.w \in Nat /\ next.h \in Nat
      BY <1>1, AtParsing, DemuxerAssumption
    <3>2. 2 * next.x \in Nat /\ 2 * next.y \in Nat
      BY <3>1
    <3>3. EmptyFrame \in FrameRecord /\ EmptyFrame.num = 0 /\ EmptyFrame.image = NoData
          /\ EmptyFrame.alpha = NoData /\ ~EmptyFrame.complete
      BY EmptyIsSound DEF EmptyFrame
    <3> QED BY <3>1, <3>2, <3>3 DEF FrameRecord
  <2> HIDE DEF new
  <2>7. \A n \in Nat : (2 * n) % 2 = 0
    OBVIOUS
  <2>8. Sound(new, from)
    <3>1. new.x % 2 = 0 /\ new.y % 2 = 0
      BY <2>6, <2>7
    <3>2. new.image.offset = 0 /\ new.image.size = 0 /\ new.alpha.offset = 0
          /\ new.alpha.size = 0
      BY <2>6 DEF NoData
    <3> QED BY <1>2, <2>6, <3>1, <3>2 DEF Sound, DataEnd
  <2>9. mem'.start = from /\ mem'.end = mem.end
    BY <1>1, <2>3, AtParsing DEF MovesOn, Memory
  <2>10. Storing'
    BY <1>5, <2>6, <2>8, <2>9 DEF Storing, Stores
  <2>11. Listed'
    BY <1>1, <1>5, <2>9, AtParsing
       DEF Listed, NumberedFrom1, CutStill, DemuxInv, HeaderKept, NoFrameAdded, Before,
           Loops, Stores
  <2>12. Plain'
    BY <1>1, AtParsing DEF Plain, HeaderKept
  <2>13. Checked'
    BY <1>5 DEF Checked, OnlyLastIncomplete, FramesInCanvas, PayloadIsInOrder, Open
  <2> QED BY <2>4, <2>5, <2>10, <2>11, <2>12, <2>13 DEF DemuxInv
<1> QED BY <1>3, <1>4, <1>5 DEF FrameChunk

-----------------------------------------------------------------------------
(* What Finish keeps has been validated.                                      *)

LEMMA FinishNext == DemuxInv /\ Finish => DemuxInv'
<1> SUFFICES ASSUME DemuxInv, Finish PROVE DemuxInv'
  OBVIOUS
<1> DEFINE st == IF status = "ok" THEN "done" ELSE state
<1>1. /\ pc = "WebPDemuxInternal" /\ Unmoved /\ NoFrameStored
      /\ UNCHANGED <<partial, extended, flags, canvas, anim, iter>>
  BY DEF Finish
<1>2. /\ next \in Chunk /\ mem \in Memory /\ mem.start <= mem.end /\ frame = EmptyFrame
      /\ mem.start \in Nat
      /\ partial \in BOOLEAN /\ extended \in BOOLEAN /\ anim \in BOOLEAN /\ flags \subseteq Flag
      /\ status \in {"ok", "more", "error"} /\ st \in {"parsing", "header", "done", "error"}
      /\ canvas \in [w : Int, h : Int] /\ iter \in FrameRecord
  BY <1>1 DEF DemuxInv, Kinds, Reading, Memory, Storing, Stores
<1>3. CASE /\ pc' = "refused" /\ state' = "error" /\ status' = "error"
           /\ frames' = <<>> /\ numFrames' = 0
  <2>1. Kinds' /\ Reading'
    BY <1>1, <1>2, <1>3 DEF Kinds, Reading, Unmoved, Ended, Loops, Stores
  <2>2. Storing'
    BY <1>1, <1>2, <1>3, EmptyIsSound DEF Storing, NoFrameStored, Unmoved, Stores
  <2>3. Listed' /\ Plain'
    BY <1>1, <1>2, <1>3 DEF Listed, Plain, NumberedFrom1, DemuxInv, Before, Loops, Stores,
                            Ended
  <2>4. Checked'
    BY <1>3 DEF Checked, OnlyLastIncomplete, FramesInCanvas, PayloadIsInOrder, Open
  <2> QED BY <2>1, <2>2, <2>3, <2>4 DEF DemuxInv
<1>4. CASE /\ pc' = "open" /\ state' = st /\ UNCHANGED <<status, frames, numFrames>>
           /\ status = "ok" \/ (status = "more" /\ partial)
           /\ IF extended THEN IsValidExtendedFormat(st) ELSE IsValidSimpleFormat(st)
  <2>1. Kinds' /\ Reading'
    BY <1>1, <1>2, <1>4 DEF Kinds, Reading, Unmoved, Ended, Loops, Stores
  <2>2. Storing'
    BY <1>1, <1>2, <1>4, EmptyIsSound DEF Storing, NoFrameStored, Unmoved, Stores
  <2>3. /\ frames \in Seq(FrameRecord) /\ numFrames = Len(frames)
        /\ \A j \in DOMAIN frames : Sound(frames[j], mem.end)
        /\ extended /\ state = "parsing" => frames = <<>>
        /\ NumberedFrom1 \/ CutStill
    BY <1>1 DEF DemuxInv, Listed
  <2>4. Listed'
    <3>1. st = "parsing" => state = "parsing"
      OBVIOUS
    <3> QED BY <1>1, <1>4, <2>3, <3>1
            DEF Listed, NumberedFrom1, CutStill, Unmoved, Before, Loops, Stores
  <2>5. Plain'
    BY <1>1, <1>4 DEF Plain, PlainFrame, DemuxInv, Ended
  <2>6. \A j \in DOMAIN frames :
          /\ {frames[j].x, frames[j].y, frames[j].w, frames[j].h} \subseteq Nat
          /\ {frames[j].image.offset, frames[j].image.size,
              frames[j].alpha.offset, frames[j].alpha.size} \subseteq Nat
    <3> SUFFICES ASSUME NEW j \in DOMAIN frames
                 PROVE  /\ {frames[j].x, frames[j].y, frames[j].w, frames[j].h} \subseteq Nat
                        /\ {frames[j].image.offset, frames[j].image.size,
                            frames[j].alpha.offset, frames[j].alpha.size} \subseteq Nat
      OBVIOUS
    <3>1. frames[j] \in FrameRecord
      BY <2>3 DEF Sound
    <3>2. frames[j].image \in Data /\ frames[j].alpha \in Data
      BY <3>1 DEF FrameRecord
    <3>3. /\ frames[j].x \in Nat /\ frames[j].y \in Nat
          /\ frames[j].w \in Nat /\ frames[j].h \in Nat
      BY <3>1 DEF FrameRecord
    <3>4. \A d \in Data : d.offset \in Nat /\ d.size \in Nat
      BY DemuxerAssumption DEF Data
    <3> QED BY <3>2, <3>3, <3>4
  <2>7. status' = "more" => partial'
    <3>1. status = "more" => partial
      BY <1>4
    <3>2. partial' = partial /\ status' = status
      BY <1>1, <1>4
    <3> QED BY <3>1, <3>2
  <2>8. CASE extended
    <3>1. \A j \in DOMAIN frames : IsValidFrame(j, st)
      BY <1>4, <2>3, <2>8 DEF IsValidExtendedFormat
    <3>2. OnlyLastIncomplete'
      BY <1>1, <1>4, <2>3, <3>1 DEF OnlyLastIncomplete, IsValidFrame, Sound
    <3>3. FramesInCanvas'
      <4> SUFFICES ASSUME NEW j \in DOMAIN frames, frames[j].image.size > 0
                   PROVE  /\ frames[j].x + frames[j].w <= canvas.w
                          /\ frames[j].y + frames[j].h <= canvas.h
                          /\ frames[j].x % 2 = 0 /\ frames[j].y % 2 = 0
                          /\ frames[j].w > 0 /\ frames[j].h > 0
                          /\ "animation" \notin flags =>
                               /\ frames[j].x = 0 /\ frames[j].y = 0
                               /\ frames[j].w = canvas.w /\ frames[j].h = canvas.h
        BY <1>1, <1>4 DEF FramesInCanvas, A!Inside
      <4>1. Sound(frames[j], mem.end)
        BY <2>3
      <4>2. frames[j].w > 0 /\ frames[j].h > 0
        BY <4>1 DEF Sound
      <4>3. CheckFrameBounds(frames[j], "animation" \notin flags)
        BY <3>1, <4>2 DEF IsValidFrame
      <4>4. canvas.w \in Int /\ canvas.h \in Int
        BY <1>2
      <4>5. CASE "animation" \notin flags
        BY <2>6, <4>1, <4>2, <4>3, <4>4, <4>5 DEF CheckFrameBounds, Sound
      <4>6. CASE "animation" \in flags
        BY <2>6, <4>1, <4>2, <4>3, <4>4, <4>6 DEF CheckFrameBounds, Sound
      <4> QED BY <4>5, <4>6
    <3>4. PayloadIsInOrder'
      <4> SUFFICES ASSUME NEW j \in DOMAIN frames
                   PROVE  /\ DataEnd(frames[j].image) <= mem.end
                          /\ DataEnd(frames[j].alpha) <= mem.end
                          /\ frames[j].alpha.size > 0 /\ frames[j].image.offset > 0 =>
                               DataEnd(frames[j].alpha) <= frames[j].image.offset
        BY <1>1, <1>4 DEF PayloadIsInOrder, DataEnd, Unmoved
      <4>1. Sound(frames[j], mem.end)
        BY <2>3
      <4>2. ASSUME frames[j].alpha.size > 0, frames[j].image.offset > 0
            PROVE  DataEnd(frames[j].alpha) <= frames[j].image.offset
        <5>1. frames[j].image.size > 0
          BY <2>6, <4>1, <4>2 DEF Sound
        <5>2. frames[j].alpha.offset <= frames[j].image.offset
          BY <3>1, <4>2, <5>1 DEF IsValidFrame
        <5>3. \/ DataEnd(frames[j].alpha) <= frames[j].image.offset
              \/ DataEnd(frames[j].image) <= frames[j].alpha.offset
          BY <4>1, <4>2, <5>1 DEF Sound
        <5> QED BY <2>6, <5>1, <5>2, <5>3 DEF DataEnd
      <4> QED BY <4>1, <4>2 DEF Sound
    <3> QED BY <2>1, <2>2, <2>4, <2>5, <2>7, <3>2, <3>3, <3>4 DEF Checked, DemuxInv
  <2>9. CASE ~extended
    <3>1. Len(frames) <= 1 /\ (frames # <<>> => PlainFrame(frames[1]))
      BY <2>9 DEF DemuxInv, Plain
    <3>2. \A j \in DOMAIN frames : j = 1 /\ Len(frames) = 1 /\ PlainFrame(frames[j])
      <4>1. Len(frames) \in Nat /\ DOMAIN frames = 1..Len(frames)
        BY <2>3
      <4> QED BY <2>3, <3>1, <4>1
    <3>3. OnlyLastIncomplete'
      BY <1>1, <1>4, <2>3, <3>2 DEF OnlyLastIncomplete, PlainFrame, Sound
    <3>4. FramesInCanvas'
      BY <1>1, <1>4, <2>3, <2>6, <3>2 DEF FramesInCanvas, A!Inside, PlainFrame, Sound
    <3>5. PayloadIsInOrder'
      BY <1>1, <1>4, <2>3, <2>6, <3>2
         DEF PayloadIsInOrder, PlainFrame, Sound, DataEnd, Unmoved
    <3> QED BY <2>1, <2>2, <2>4, <2>5, <2>7, <3>3, <3>4, <3>5 DEF Checked, DemuxInv
  <2> QED BY <1>2, <2>8, <2>9
<1> QED BY <1>3, <1>4 DEF Finish

-----------------------------------------------------------------------------
(* StoreFrame, one chunk at a time.                                           *)

(* A frame that is not added: as when a chunk is refused.                     *)
LEMMA NothingStored ==
  ASSUME DemuxInv, pc \in Stores, NEW at \in Nat, mem.start <= at, at <= mem.end,
         NEW s \in {"ok", "more", "error"}, IF extended THEN AfterChunk(s, at) ELSE End(s),
         MoveTo(at), frame' = EmptyFrame, NoFrameAdded, HeaderKept,
         UNCHANGED <<partial, anim, iter>>
  PROVE  DemuxInv'
<1>1. /\ mem \in Memory /\ mem.end <= mem.riffEnd /\ anim \in BOOLEAN /\ pc \in Parsing
      /\ extended => state = "header"
  BY DEF DemuxInv, Kinds, Reading, Listed, Loops, Parsing
<1>2. status' \in {"ok", "more", "error"} /\ ComesTo(at)
  <2>1. CASE extended
    BY <1>1, <2>1, AfterChunkLeads DEF ComesTo, HeaderKept
  <2>2. CASE ~extended
    BY <2>2 DEF ComesTo, End
  <2> QED BY <2>1, <2>2
<1>3. anim' \in BOOLEAN
  BY <1>1
<1>4. MovesOn(at)
  BY <1>2, <1>3, MoveToMoves
<1> QED BY <1>1, <1>2, <1>4, QuietStep

(* An alpha chunk that no flag announces is dropped from a still image.       *)
LEMMA ClearedSound ==
  ASSUME NEW f, NEW at \in Nat, Sound(f, at)
  PROVE  LET g == [f EXCEPT !.alpha = NoData, !.hasAlpha = FALSE]
         IN /\ Sound(g, at) /\ g.x = f.x /\ g.y = f.y /\ g.num = f.num
            /\ g.complete = f.complete /\ g.image = f.image /\ g.alpha = NoData
            /\ g.w = f.w /\ g.h = f.h
<1> DEFINE g == [f EXCEPT !.alpha = NoData, !.hasAlpha = FALSE]
<1>1. f \in FrameRecord /\ NoData \in Data
  BY DemuxerAssumption DEF Sound, NoData, Data
<1>2. g \in FrameRecord
  BY <1>1 DEF FrameRecord
<1>3. /\ g.x = f.x /\ g.y = f.y /\ g.num = f.num /\ g.complete = f.complete
      /\ g.image = f.image /\ g.alpha = NoData /\ g.w = f.w /\ g.h = f.h
  BY <1>1 DEF FrameRecord
<1> HIDE DEF g
<1>4. g.alpha.offset = 0 /\ g.alpha.size = 0
  BY <1>3 DEF NoData
<1>5. Sound(g, at)
  BY <1>2, <1>3, <1>4 DEF Sound, DataEnd
<1> QED BY <1>3, <1>5 DEF g

LEMMA SingleStoredKeeps ==
  ASSUME DemuxInv, pc = "ParseSingleImage", NEW at \in Nat, mem.start <= at,
         at <= mem.end, NEW s \in {"ok", "more", "error"}, NEW f, Sound(f, at),
         SingleImageStored(s, f, at), MoveTo(at), frame' = EmptyFrame,
         UNCHANGED <<partial, anim, iter>>,
         f.x = 0, f.y = 0,
         s # "error" => f.num = 1 \/ (f = EmptyFrame /\ s = "more"),
         ~extended /\ s = "ok" => f.complete
  PROVE  DemuxInv'
<1>1. IF extended THEN AfterChunk(s, at) ELSE End(s)
  BY DEF SingleImageStored
<1>2. CASE s = "error"
  <2>1. NoFrameAdded /\ HeaderKept
    BY <1>2 DEF SingleImageStored
  <2> QED BY <1>1, <2>1, NothingStored DEF Stores
<1>3. CASE s # "error"
  <2> DEFINE g == IF "alpha" \notin flags /\ f.alpha.size > 0
                  THEN [f EXCEPT !.alpha = NoData, !.hasAlpha = FALSE] ELSE f
  <2>1. /\ mem \in Memory /\ mem.end <= mem.riffEnd /\ mem.end \in Nat
        /\ anim \in BOOLEAN /\ frames = <<>> /\ f.alpha.size \in Nat
        /\ extended => state = "header"
        /\ ~extended => flags = {}
        /\ flags \subseteq Flag /\ canvas \in [w : Int, h : Int] /\ extended \in BOOLEAN
        /\ state \in {"parsing", "header", "done", "error"}
    <3>1. mem \in Memory /\ mem.end <= mem.riffEnd /\ mem.end \in Nat
      BY DemuxerAssumption DEF DemuxInv, Reading, Memory, Loops, Stores
    <3>2. frames = <<>>
      BY DEF DemuxInv, Storing, Single
    <3>3. (extended => state = "header") /\ (~extended => flags = {})
      BY DEF DemuxInv, Listed, Plain, Loops, Stores, Ended
    <3>4. f.alpha \in Data
      BY DEF Sound, FrameRecord
    <3>5. f.alpha.size \in Nat
      BY <3>4, DemuxerAssumption DEF Data
    <3> QED BY <3>1, <3>2, <3>3, <3>5 DEF DemuxInv, Kinds
  <2>2. /\ Sound(g, at) /\ g.x = 0 /\ g.y = 0 /\ g.num = f.num /\ g.complete = f.complete
        /\ "alpha" \notin flags => g.alpha.size = 0
    <3>1. CASE "alpha" \notin flags /\ f.alpha.size > 0
      <4>1. g = [f EXCEPT !.alpha = NoData, !.hasAlpha = FALSE]
        BY <3>1
      <4>2. NoData.size = 0
        BY DEF NoData
      <4> HIDE DEF g
      <4> QED BY <4>1, <4>2, ClearedSound
    <3>2. CASE ~("alpha" \notin flags /\ f.alpha.size > 0)
      BY <2>1, <3>2
    <3> QED BY <3>1, <3>2
  <2>3. f = EmptyFrame => g = EmptyFrame
    <3>1. ~(EmptyFrame.alpha.size > 0)
      BY DEF EmptyFrame, NoData
    <3> QED BY <3>1
  <2>4. /\ AddFrame(g) /\ numFrames' = 1 /\ UNCHANGED extended
        /\ IF ~extended /\ g.w > 0 /\ g.h > 0
           THEN /\ state' = "header" /\ canvas' = [w |-> g.w, h |-> g.h]
                /\ flags' = flags \cup (IF g.hasAlpha THEN {"alpha"} ELSE {})
           ELSE UNCHANGED <<state, canvas, flags>>
    BY <1>3 DEF SingleImageStored
  <2> HIDE DEF g
  <2>5. /\ g \in FrameRecord /\ g.w \in Nat /\ g.h \in Nat
        /\ g.image.size > 0 => g.w > 0 /\ g.h > 0
    BY <2>2 DEF Sound, FrameRecord
  <2>6. /\ frames' = <<g>> /\ frames' \in Seq(FrameRecord) /\ Len(frames') = 1
        /\ DOMAIN frames' = {1} /\ frames'[1] = g /\ frames' # <<>>
    <3>1. frames' = Append(<<>>, g)
      BY <2>1, <2>4 DEF AddFrame
    <3> QED BY <2>5, <3>1
  <2>7. /\ status' \in {"ok", "more", "error"}
        /\ pc' = "WebPDemuxInternal" \/ pc' = "ParseVP8XChunks"
        /\ pc' = "ParseVP8XChunks" => at + 1 <= mem.end /\ s = "ok" /\ extended
        /\ s = "more" => status' = "more" /\ pc' = "WebPDemuxInternal"
    <3>1. CASE extended
      BY <1>1, <2>1, <3>1, AfterChunkLeads
    <3>2. CASE ~extended
      BY <1>1, <3>2 DEF End
    <3> QED BY <3>1, <3>2
  <2>8. MovesOn(at)
    <3>1. anim' \in BOOLEAN
      BY <2>1
    <3> QED BY <2>7, <3>1, MoveToMoves
  <2>9. Reading'
    BY <2>7, <2>8, ReadingMoves DEF Parsing, Loops, Stores
  <2>10. flags' \subseteq Flag /\ canvas' \in [w : Int, h : Int]
         /\ state' \in {"parsing", "header", "done", "error"}
    <3>1. CASE ~extended /\ g.w > 0 /\ g.h > 0
      <4>1. flags' = flags \cup (IF g.hasAlpha THEN {"alpha"} ELSE {}) /\ state' = "header"
        BY <2>4, <3>1
      <4>2. canvas' \in [w : Int, h : Int]
        BY <2>4, <2>5, <3>1
      <4> QED BY <2>1, <4>1, <4>2 DEF Flag
    <3>2. CASE ~(~extended /\ g.w > 0 /\ g.h > 0)
      BY <2>1, <2>4, <3>2
    <3> QED BY <3>1, <3>2
  <2>11. Kinds'
    BY <2>4, <2>7, <2>8, <2>10 DEF MovesOn, Kinds, DemuxInv, Loops, Ended
  <2>12. mem'.start \in Nat /\ mem'.end = mem.end
    BY <2>1, <2>8, <2>9, DemuxerAssumption DEF MovesOn, Memory, Reading
  <2>13. Storing'
    BY <2>7, <2>12, EmptyIsSound DEF Storing, Stores
  <2>14. Listed'
    <3>1. Sound(g, mem'.end)
      BY <2>1, <2>2, <2>12, SoundLater
    <3>2. NumberedFrom1' \/ CutStill'
      BY <1>3, <2>2, <2>3, <2>4, <2>6, <2>7 DEF NumberedFrom1, CutStill
    <3>3. extended' => state' = "header"
      BY <2>1, <2>4
    <3> QED BY <2>4, <2>6, <2>7, <3>1, <3>2, <3>3 DEF Listed, Before, Loops, Stores
  <2>15. Plain'
    <3> SUFFICES ASSUME ~extended PROVE Plain'
      BY <2>4 DEF Plain
    <3>1. flags' \subseteq {"alpha"} /\ pc' = "WebPDemuxInternal"
      BY <2>1, <2>4, <2>7
    <3>2. g.alpha.size = 0 /\ (g.image.size > 0 => canvas'.w = g.w /\ canvas'.h = g.h)
      BY <2>1, <2>2, <2>4, <2>5
    <3>3. g.complete \/ status' = "more"
      BY <1>3, <2>2, <2>7
    <3> QED BY <2>2, <2>6, <3>1, <3>2, <3>3 DEF Plain, PlainFrame, Ended
  <2>16. Checked'
    BY <2>7 DEF Checked, OnlyLastIncomplete, FramesInCanvas, PayloadIsInOrder, Open
  <2> QED BY <2>9, <2>11, <2>13, <2>14, <2>15, <2>16 DEF DemuxInv
<1> QED BY <1>2, <1>3

LEMMA AnimationStoredKeeps ==
  ASSUME DemuxInv, pc = "ParseAnimationFrame", NEW at \in Nat, mem.start <= at,
         at <= mem.end, NEW s \in {"ok", "more", "error"}, NEW f, Sound(f, at),
         AnimationFrameStored(s, f, at), MoveTo(at), frame' = EmptyFrame,
         UNCHANGED <<partial, anim, iter>>, f.num \in {0, numFrames + 1}
  PROVE  DemuxInv'
<1> DEFINE result == IF at - room.from > room.size THEN "error" ELSE s
<1>1. result \in {"ok", "more", "error"}
  OBVIOUS
<1>2. HeaderKept /\ AfterChunk(result, at)
  BY DEF AnimationFrameStored
<1>3. \/ NoFrameAdded
      \/ f.num > 0 /\ AddFrame(f) /\ numFrames' = numFrames + 1
  BY DEF AnimationFrameStored
<1> HIDE DEF result
<1>4. extended
  BY DEF DemuxInv, Listed
<1>5. CASE NoFrameAdded
  BY <1>1, <1>2, <1>4, <1>5, NothingStored DEF Stores
<1>6. CASE f.num > 0 /\ AddFrame(f) /\ numFrames' = numFrames + 1
  <2>1. /\ mem \in Memory /\ mem.end <= mem.riffEnd /\ mem.end \in Nat
        /\ anim \in BOOLEAN /\ state = "header" /\ f \in FrameRecord
        /\ frames \in Seq(FrameRecord) /\ numFrames = Len(frames) /\ NumberedFrom1
        /\ \A j \in DOMAIN frames : Sound(frames[j], mem.end)
    BY DemuxerAssumption
       DEF DemuxInv, Kinds, Reading, Memory, Listed, CutStill, Loops, Stores, Sound
  <2>2. /\ status' \in {"ok", "more", "error"}
        /\ pc' = "WebPDemuxInternal" \/ (pc' = "ParseVP8XChunks" /\ at + 1 <= mem.end)
    BY <1>1, <1>2, <2>1, AfterChunkLeads
  <2>3. MovesOn(at)
    <3>1. anim' \in BOOLEAN
      BY <2>1
    <3> QED BY <2>2, <3>1, MoveToMoves
  <2>4. Reading'
    BY <2>2, <2>3, ReadingMoves DEF Parsing, Loops, Stores
  <2>5. Kinds'
    BY <1>2, <2>2, <2>3 DEF MovesOn, Kinds, DemuxInv, HeaderKept, Loops, Ended
  <2>6. mem'.start \in Nat /\ mem'.end = mem.end
    BY <2>1, <2>3, <2>4, DemuxerAssumption DEF MovesOn, Memory, Reading
  <2>7. Storing'
    BY <2>2, <2>6, EmptyIsSound DEF Storing, Stores
  <2>8. /\ frames' \in Seq(FrameRecord) /\ Len(frames') = Len(frames) + 1
        /\ DOMAIN frames' = 1..Len(frames) + 1
        /\ frames'[Len(frames) + 1] = f
        /\ \A j \in 1..Len(frames) : frames'[j] = frames[j] /\ j \in DOMAIN frames
    BY <1>6, <2>1 DEF AddFrame
  <2>9. Listed'
    <3>1. f.num = Len(frames) + 1 /\ Sound(f, mem.end)
      BY <1>6, <2>1, SoundLater
    <3>2. \A j \in DOMAIN frames' : j \in 1..Len(frames) \/ j = Len(frames) + 1
      BY <2>1, <2>8
    <3>3. \A j \in DOMAIN frames' : Sound(frames'[j], mem'.end) /\ frames'[j].num = j
      BY <2>1, <2>6, <2>8, <3>1, <3>2 DEF NumberedFrom1
    <3>4. extended' /\ state' = "header"
      BY <1>2, <1>4, <2>1 DEF HeaderKept
    <3> QED BY <1>6, <2>1, <2>2, <2>8, <3>3, <3>4
            DEF Listed, NumberedFrom1, Before, Loops, Stores
  <2>10. Plain'
    BY <1>2, <1>4 DEF Plain, HeaderKept
  <2>11. Checked'
    BY <2>2 DEF Checked, OnlyLastIncomplete, FramesInCanvas, PayloadIsInOrder, Open
  <2> QED BY <2>4, <2>5, <2>7, <2>9, <2>10, <2>11 DEF DemuxInv
<1> QED BY <1>3, <1>5, <1>6

(* What may be handed to the caller of StoreFrame, with the result s.         *)
Storable(f, s) ==
  /\ pc = "ParseSingleImage" =>
       /\ f.x = 0 /\ f.y = 0
       /\ s # "error" => f.num = 1 \/ (f = EmptyFrame /\ s = "more")
       /\ ~extended /\ s = "ok" => f.complete
  /\ pc = "ParseAnimationFrame" => f.num \in {0, numFrames + 1}

LEMMA StoredKeeps ==
  ASSUME DemuxInv, pc \in Stores, NEW at \in Nat, mem.start <= at, at <= mem.end,
         NEW s \in {"ok", "more", "error"}, NEW f, Sound(f, at), Storable(f, s),
         Stored(s, f, at), UNCHANGED <<partial, anim, iter>>
  PROVE  DemuxInv'
<1>1. frame' = EmptyFrame /\ MoveTo(at)
  BY DEF Stored
<1>2. CASE pc = "ParseSingleImage"
  BY <1>1, <1>2, SingleStoredKeeps DEF Stored, Storable
<1>3. CASE pc = "ParseAnimationFrame"
  BY <1>1, <1>3, AnimationStoredKeeps DEF Stored, Storable
<1> QED BY <1>2, <1>3 DEF Stores

(* A chunk was taken into the frame: it is stored, or the next chunk read.    *)
LEMMA TakenKeeps ==
  ASSUME DemuxInv, pc \in Stores, NEW at \in Nat, mem.start <= at, at <= mem.end,
         NEW cut \in BOOLEAN, NEW f, Sound(f, at), Taken(f, at, cut),
         Storable(f, IF cut THEN "more" ELSE "ok"), f # EmptyFrame,
         UNCHANGED <<partial, anim, iter>>
  PROVE  DemuxInv'
<1>1. /\ mem \in Memory /\ mem.end <= mem.riffEnd /\ mem.end \in Nat
      /\ anim \in BOOLEAN /\ status \in {"ok", "more", "error"}
  BY DemuxerAssumption DEF DemuxInv, Kinds, Reading, Memory, Loops
<1>2. Storable(f, "more")
  BY DEF Storable
<1>3. CASE Stored(IF cut THEN "more" ELSE "ok", f, at)
  BY <1>3, StoredKeeps
<1>4. CASE Stored("more", f, at)
  BY <1>2, <1>4, StoredKeeps
<1>5. CASE /\ ~cut /\ ~(Left(at) < 1) /\ frame' = f /\ NoFrameAdded /\ HeaderKept
           /\ UNCHANGED <<pc, status>> /\ MoveTo(at)
  <2>1. MovesOn(at)
    <3>1. anim' \in BOOLEAN /\ status' \in {"ok", "more", "error"}
      BY <1>1, <1>5
    <3> QED BY <1>5, <3>1, MoveToMoves
  <2>2. at + 1 <= mem.end
    BY <1>1, <1>5 DEF Left
  <2>3. Reading'
    BY <1>5, <2>1, <2>2, ReadingMoves DEF Parsing, Loops, Stores
  <2>4. Kinds'
    BY <1>5, <2>1 DEF MovesOn, Kinds, DemuxInv, HeaderKept
  <2>5. mem'.start = at /\ mem'.end = mem.end
    BY <1>1, <2>1 DEF MovesOn, Memory
  <2>6. Storing'
    <3>1. pc = "ParseSingleImage" => Single'
      <4> SUFFICES ASSUME pc = "ParseSingleImage" PROVE Single'
        OBVIOUS
      <4>1. frames = <<>> /\ f.x = 0 /\ f.y = 0 /\ f.num = 1 /\ (~extended => f.complete)
        BY <1>5 DEF DemuxInv, Storing, Single, Storable
      <4> QED BY <1>5, <4>1 DEF Single, NoFrameAdded, HeaderKept
    <3> QED BY <1>5, <2>5, <3>1 DEF Storing, Storable, NoFrameAdded, Stores
  <2>7. Listed'
    BY <1>5, <2>5
       DEF Listed, NumberedFrom1, CutStill, DemuxInv, NoFrameAdded, HeaderKept, Stores
  <2>8. Plain'
    BY <1>5 DEF Plain, PlainFrame, DemuxInv, NoFrameAdded, HeaderKept
  <2>9. Checked'
    BY <1>5 DEF Checked, OnlyLastIncomplete, FramesInCanvas, PayloadIsInOrder, Open, Stores
  <2> QED BY <2>3, <2>4, <2>6, <2>7, <2>8, <2>9 DEF DemuxInv
<1> QED BY <1>3, <1>4, <1>5 DEF Taken

(* The data of a chunk behind everything the frame has.                       *)
WithAlpha(f, at, size, num) ==
  [f EXCEPT !.alpha = [offset |-> at, size |-> size], !.hasAlpha = TRUE, !.num = num]

LEMMA AlphaSound ==
  ASSUME NEW f, NEW at \in 0..MaxUnits, NEW size \in 1..MaxUnits, NEW num \in Nat,
         Sound(f, at), NEW to \in Nat, at + size <= to
  PROVE  LET g == WithAlpha(f, at, size, num)
         IN /\ Sound(g, to) /\ g.x = f.x /\ g.y = f.y /\ g.num = num
            /\ g.complete = f.complete /\ g.alpha.size = size
<1> DEFINE g == WithAlpha(f, at, size, num)
<1>1. f \in FrameRecord /\ [offset |-> at, size |-> size] \in Data
  BY DemuxerAssumption DEF Sound, Data
<1>2. g \in FrameRecord
  BY <1>1 DEF FrameRecord, WithAlpha
<1>3. /\ g.x = f.x /\ g.y = f.y /\ g.num = num /\ g.complete = f.complete
      /\ g.image = f.image /\ g.alpha = [offset |-> at, size |-> size]
      /\ g.w = f.w /\ g.h = f.h
  BY <1>1 DEF FrameRecord, WithAlpha
<1> HIDE DEF g
<1>4. g.alpha.offset = at /\ g.alpha.size = size /\ at \in Nat /\ size \in Nat
  BY <1>3, DemuxerAssumption
<1>5. f.image \in Data /\ f.image.offset \in Nat /\ f.image.size \in Nat
  BY <1>1, DemuxerAssumption DEF FrameRecord, Data
<1>6. DataEnd(g.image) <= at /\ DataEnd(g.image) \in Nat
  BY <1>3, <1>5 DEF Sound, DataEnd
<1>7. /\ g.x % 2 = 0 /\ g.y % 2 = 0 /\ (g.complete => g.image.size > 0)
      /\ g.image.size > 0 => g.w > 0 /\ g.h > 0
      /\ g.image.size = 0 => g.image.offset = 0
  BY <1>3 DEF Sound
<1>8. DataEnd(g.alpha) <= to /\ DataEnd(g.image) <= to
  BY <1>4, <1>6 DEF DataEnd
<1>9. Sound(g, to)
  BY <1>2, <1>4, <1>6, <1>7, <1>8 DEF Sound
<1> QED BY <1>3, <1>4, <1>9 DEF g

LEMMA StoreFrameNext == DemuxInv /\ StoreFrame => DemuxInv'
<1> SUFFICES ASSUME DemuxInv, StoreFrame PROVE DemuxInv'
  OBVIOUS
<1> DEFINE body == mem.start + 1
<1> DEFINE cut == next.size > Left(body)
<1> DEFINE available == IF cut THEN Left(body) ELSE next.size
<1> DEFINE num == IF pc = "ParseAnimationFrame" THEN numFrames + 1 ELSE 1
<1> DEFINE data == [offset |-> mem.start, size |-> 1 + available]
<1> DEFINE withAlpha == [frame EXCEPT !.alpha = data, !.hasAlpha = TRUE, !.num = num]
<1> DEFINE withImage == SetFrameInfo(frame, mem.start, 1 + available, num, ~cut, next)
<1> DEFINE at == body + available
<1>1. /\ pc \in Stores /\ UNCHANGED <<partial, anim, iter>>
      /\ \/ Stored("error", frame, body)
         \/ next.id = "ALPH" /\ frame.alpha = NoData /\ Taken(withAlpha, at, cut)
         \/ /\ next.id \in Images /\ frame.image = NoData /\ available = 0
            /\ Stored(IF cut THEN "more" ELSE "error", frame, body)
         \/ /\ next.id \in Images /\ frame.image = NoData /\ available # 0
            /\ Taken(withImage, at, cut)
         \/ /\ ~(next.id = "ALPH" /\ frame.alpha = NoData)
            /\ ~(next.id \in Images /\ frame.image = NoData)
            /\ Stored(IF cut THEN "more" ELSE "ok", frame, mem.start)
  <2>1. /\ pc \in Stores /\ UNCHANGED <<partial, anim, iter>>
        /\ IF SizeIsInvalid(next.size, body)
           THEN Stored("error", frame, body)
           ELSE IF next.id = "ALPH" /\ frame.alpha = NoData
           THEN Taken(withAlpha, at, cut)
           ELSE IF next.id = "VP8L" /\ frame.alpha # NoData
           THEN Stored("error", frame, body)
           ELSE IF next.id \in Images /\ frame.image = NoData
           THEN IF available = 0
                THEN Stored(IF cut THEN "more" ELSE "error", frame, body)
                ELSE IF ~next.sound
                THEN Stored("error", frame, body)
                ELSE Taken(withImage, at, cut)
           ELSE Stored(IF cut THEN "more" ELSE "ok", frame, mem.start)
    BY DEF StoreFrame, Stores
  <2> HIDE DEF withImage, withAlpha, data, available, cut, num, at, body
  <2> QED BY <2>1
<1>2. /\ mem \in Memory /\ mem.start + 1 <= mem.end /\ next \in Chunk /\ next.size \in Nat
      /\ mem.start \in 0..MaxUnits /\ mem.start \in Nat /\ mem.end \in 0..MaxUnits
      /\ mem.end \in Nat
  BY <1>1, DemuxerAssumption DEF DemuxInv, Kinds, Reading, Memory, Loops
<1>3. /\ available \in Nat /\ body \in Nat /\ at \in Nat /\ at <= mem.end
      /\ mem.start <= body /\ body <= mem.end /\ mem.start <= at
      /\ 1 + available \in 1..MaxUnits /\ mem.start + (1 + available) <= at
  <2>1. available \in Nat /\ available <= mem.end - body /\ body <= mem.end
    BY <1>2 DEF Left
  <2> HIDE DEF available
  <2>2. mem.end <= MaxUnits /\ MaxUnits \in Nat
    BY <1>2, DemuxerAssumption
  <2> QED BY <1>2, <2>1, <2>2
<1>4. num \in Nat /\ (pc = "ParseSingleImage" => num = 1)
  <2>1. numFrames \in Nat
    BY DEF DemuxInv, Listed
  <2> QED BY <2>1
<1>5. /\ Sound(frame, mem.start) /\ frame \in FrameRecord
      /\ pc = "ParseSingleImage" => Single
      /\ pc = "ParseAnimationFrame" => frame.num \in {0, numFrames + 1}
  BY DEF DemuxInv, Storing, Sound
<1>6. Sound(frame, body)
  BY <1>2, <1>3, <1>5, SoundLater
<1>7. EmptyFrame.image = NoData /\ EmptyFrame.alpha = NoData /\ NoData.size = 0
  BY DEF EmptyFrame, NoData
<1>8. cut \in BOOLEAN
  OBVIOUS
<1>9. CASE Stored("error", frame, body)
  <2>1. Storable(frame, "error")
    BY <1>5 DEF Storable, Single
  <2> QED BY <1>1, <1>3, <1>6, <1>9, <2>1, StoredKeeps
<1>10. CASE next.id = "ALPH" /\ frame.alpha = NoData /\ Taken(withAlpha, at, cut)
  <2>1. /\ Sound(withAlpha, at) /\ withAlpha.x = frame.x /\ withAlpha.y = frame.y
        /\ withAlpha.num = num /\ withAlpha.complete = frame.complete
        /\ withAlpha.alpha.size = 1 + available
    <3>1. withAlpha = WithAlpha(frame, mem.start, 1 + available, num)
      BY DEF WithAlpha
    <3> HIDE DEF withAlpha, cut, available, num, at
    <3>2. LET g == WithAlpha(frame, mem.start, 1 + available, num)
          IN /\ Sound(g, at) /\ g.x = frame.x /\ g.y = frame.y /\ g.num = num
             /\ g.complete = frame.complete /\ g.alpha.size = 1 + available
      BY <1>2, <1>3, <1>4, <1>5, AlphaSound
    <3> QED BY <3>1, <3>2
  <2>2. "ALPH" \notin Images
    BY DEF Images
  <2> HIDE DEF withAlpha, cut, available, num, at
  <2>3. withAlpha # EmptyFrame
    BY <1>3, <1>7, <2>1
  <2>4. Storable(withAlpha, IF cut THEN "more" ELSE "ok")
    BY <1>4, <1>5, <1>10, <2>1, <2>2 DEF Storable, Single, num
  <2> QED BY <1>1, <1>3, <1>8, <1>10, <2>1, <2>3, <2>4, TakenKeeps
<1>11. CASE /\ next.id \in Images /\ frame.image = NoData /\ available = 0
            /\ Stored(IF cut THEN "more" ELSE "error", frame, body)
  <2> HIDE DEF cut
  <2>1. Storable(frame, IF cut THEN "more" ELSE "error")
    BY <1>5 DEF Storable, Single
  <2> QED BY <1>1, <1>3, <1>6, <1>8, <1>11, <2>1, StoredKeeps
<1>12. CASE /\ next.id \in Images /\ frame.image = NoData /\ available # 0
            /\ Taken(withImage, at, cut)
  <2> DEFINE whole == ~cut
  <2>1. whole \in BOOLEAN /\ (whole <=> ~cut)
    OBVIOUS
  <2>2. withImage = SetFrameInfo(frame, mem.start, 1 + available, num, whole, next)
    OBVIOUS
  <2> HIDE DEF whole, withImage, cut, available, num, at
  <2>3. 1 + available \in 0..MaxUnits /\ 1 + available > 0
    BY <1>3
  <2>4. /\ Sound(withImage, at) /\ withImage.num = num /\ withImage.x = frame.x
        /\ withImage.y = frame.y /\ withImage.complete = whole
        /\ withImage.image.size = 1 + available
    <3>1. next.id \in Images /\ frame.image = NoData
      BY <1>12
    <3>2. LET g == SetFrameInfo(frame, mem.start, 1 + available, num, whole, next)
          IN /\ Sound(g, at) /\ g.num = num /\ g.x = frame.x /\ g.y = frame.y
             /\ g.complete = whole
             /\ g.image = [offset |-> mem.start, size |-> 1 + available]
      BY <1>2, <1>3, <1>4, <1>5, <2>1, <2>3, <3>1, SetFrameInfoSound
    <3> QED BY <2>2, <3>2
  <2>5. withImage # EmptyFrame
    BY <1>3, <1>7, <2>4
  <2>6. Storable(withImage, IF cut THEN "more" ELSE "ok")
    BY <1>4, <1>5, <2>1, <2>4 DEF Storable, Single, num
  <2> QED BY <1>1, <1>3, <1>8, <1>12, <2>4, <2>5, <2>6, TakenKeeps
<1>13. CASE /\ ~(next.id = "ALPH" /\ frame.alpha = NoData)
            /\ ~(next.id \in Images /\ frame.image = NoData)
            /\ Stored(IF cut THEN "more" ELSE "ok", frame, mem.start)
  <2> HIDE DEF cut
  <2>1. Storable(frame, IF cut THEN "more" ELSE "ok")
    BY <1>5, <1>7, <1>13 DEF Storable, Single
  <2>2. mem.start <= mem.start /\ mem.start <= mem.end
    BY <1>2
  <2> QED BY <1>1, <1>2, <1>5, <1>8, <1>13, <2>1, <2>2, StoredKeeps
<1> QED BY <1>1, <1>9, <1>10, <1>11, <1>12, <1>13

-----------------------------------------------------------------------------
LEMMA DemuxNext == DemuxInv /\ [Next]_vars => DemuxInv'
<1> SUFFICES ASSUME DemuxInv, [Next]_vars PROVE DemuxInv'
  OBVIOUS
<1>1. CASE UNCHANGED vars
  <2>1. Kinds' /\ Reading' /\ Storing' /\ Listed' /\ Plain'
    BY <1>1 DEF vars, DemuxInv, Kinds, Reading, Storing, Single, Listed, NumberedFrom1,
                CutStill, Plain, PlainFrame
  <2>2. Checked'
    BY <1>1 DEF vars, DemuxInv, Checked, OnlyLastIncomplete, FramesInCanvas,
                PayloadIsInOrder, Open, A!Inside
  <2> QED BY <2>1, <2>2 DEF DemuxInv
<1>2. CASE Parse
  BY <1>2, ReadHeaderNext, SimpleFileNext, UnknownMasterNext, ParseVP8XNext,
     StoreFrameNext, ChunkRefusedNext, ImageChunkNext, SkippedChunkNext,
     FrameChunkNext, FinishNext DEF Parse
<1>3. CASE Iterate
  BY <1>3, IterateNext
<1> QED BY <1>1, <1>2, <1>3 DEF Next

LEMMA DemuxAlways == Spec => []DemuxInv
BY DemuxInit, DemuxNext, PTL DEF Spec

(* The loops over the chunks never read a header that is not in the buffer,   *)
(* wherever the file ends (demux.c, 220-291 and 453-537).                     *)
THEOREM HeadersAreThere == Spec => []HeaderIsThere
<1>1. DemuxInv => HeaderIsThere
  BY DEF DemuxInv, Reading, HeaderIsThere, Loops, Stores
<1> QED BY <1>1, DemuxAlways, PTL

(* WebPDemuxGetFrame(n) finds the n-th frame of the file, for every n up to   *)
(* the number of frames (demux.c, 801-807 and 872-878).                       *)
THEOREM FramesAreNumbered == Spec => []FramesNumbered
<1>1. DemuxInv => FramesNumbered
  BY DEF DemuxInv, Listed, Checked, CutStill, NumberedFrom1, FramesNumbered, Open
<1> QED BY <1>1, DemuxAlways, PTL

(* The frames of a demuxer that was opened have their image, except the last  *)
(* of a cut file, although AddFrame never refuses one (demux.c, 183-193).     *)
THEOREM FramesAreComplete == Spec => []OnlyLastIncomplete
<1>1. DemuxInv => OnlyLastIncomplete
  BY DEF DemuxInv, Checked
<1> QED BY <1>1, DemuxAlways, PTL

(* Frames with an image have a positive size and lie in the canvas at even    *)
(* offsets, and a still image fills it (demux.c, 587-652): what both          *)
(* compositors assume of them.                                                *)
THEOREM FramesFitCanvas == Spec => []FramesInCanvas
<1>1. DemuxInv => FramesInCanvas
  BY DEF DemuxInv, Checked
<1> QED BY <1>1, DemuxAlways, PTL

(* The subtraction of GetFramePayload never wraps and its result lies in the  *)
(* buffer (demux.c, 809-830).                                                 *)
THEOREM PayloadsAreInOrder == Spec => []PayloadIsInOrder
<1>1. DemuxInv => PayloadIsInOrder
  BY DEF DemuxInv, Checked
<1> QED BY <1>1, DemuxAlways, PTL

(* The demuxer's fields have the types of the C code on every path, and a     *)
(* frame in the making refers to nothing behind the reading position.         *)
THEOREM DemuxerTypeCorrect == Spec => []TypeOK
<1>1. ASSUME DemuxInv PROVE TypeOK
  <2>1. \A f \in FrameRecord : IsFrame(f)
    <3> SUFFICES ASSUME NEW f \in FrameRecord PROVE IsFrame(f)
      OBVIOUS
    <3>1. DOMAIN f = DOMAIN EmptyFrame
      BY DEF FrameRecord, EmptyFrame
    <3>2. /\ f.x \in Nat /\ f.y \in Nat /\ f.w \in Nat /\ f.h \in Nat /\ f.num \in Nat
          /\ f.hasAlpha \in BOOLEAN /\ f.complete \in BOOLEAN
          /\ f.image \in Data /\ f.alpha \in Data
      BY DEF FrameRecord
    <3> QED BY <3>1, <3>2 DEF IsFrame, Data
  <2>2. frame \in FrameRecord /\ iter \in FrameRecord
    BY <1>1 DEF DemuxInv, Storing, Sound, Kinds
  <2>3. \A j \in DOMAIN frames : IsFrame(frames[j])
    BY <1>1, <2>1 DEF DemuxInv, Listed, Sound
  <2>4. /\ frame.image.offset + frame.image.size <= mem.start
        /\ frame.alpha.offset + frame.alpha.size <= mem.start
    BY <1>1 DEF DemuxInv, Storing, Sound, DataEnd
  <2>5. numFrames \in Nat
    BY <1>1 DEF DemuxInv, Listed
  <2>6. /\ mem \in [start : 0..MaxUnits, end : 0..MaxUnits, riffEnd : 1..MaxUnits]
        /\ pc \in {"ReadHeader", "parse", "ParseVP8XChunks", "ParseSingleImage",
                   "ParseAnimationFrame", "WebPDemuxInternal", "open", "refused"}
    BY <1>1 DEF DemuxInv, Reading, Memory, Kinds, Before, Loops, Stores, Ended
  <2>7. {partial, extended, anim} \subseteq BOOLEAN
    BY <1>1 DEF DemuxInv, Kinds
  <2> QED BY <1>1, <2>1, <2>2, <2>3, <2>4, <2>5, <2>6, <2>7 DEF TypeOK, DemuxInv, Kinds
<1> QED BY <1>1, DemuxAlways, PTL

-----------------------------------------------------------------------------
(* The iterator.                                                              *)

(* An iterator that shows a frame shows one of the demuxer.                   *)
Shown == iter.num > 0 => pc = "open" /\ \E j \in DOMAIN frames : iter = frames[j]

LEMMA ShownNext == DemuxInv /\ Shown /\ [Next]_vars => Shown'
<1> SUFFICES ASSUME DemuxInv, Shown, [Next]_vars PROVE Shown'
  OBVIOUS
<1>1. CASE Parse
  <2>1. iter' = iter /\ pc # "open"
    BY <1>1 DEF Parse, ReadHeader, SimpleFile, UnknownMaster, ParseVP8X, StoreFrame,
                ChunkRefused, ImageChunk, SkippedChunk, FrameChunk, Finish, AtChunk, Stores
  <2> QED BY <2>1 DEF Shown
<1>2. CASE Iterate
  <2>1. pc = "open" /\ pc' = pc /\ frames' = frames
    BY <1>2 DEF Iterate, GetFrameNumbered, NextFrame, PrevFrame, DemuxerKept
  <2>2. PICK n, otherwise : SetFrame(n, otherwise) /\ otherwise \in {iter, EmptyFrame}
    BY <1>2 DEF Iterate, GetFrameNumbered, NextFrame, PrevFrame
  <2>3. ~(EmptyFrame.num > 0)
    BY DEF EmptyFrame
  <2>4. CASE iter' = otherwise
    BY <2>1, <2>2, <2>3, <2>4 DEF Shown
  <2>5. CASE iter' # otherwise
    <3> DEFINE number == IF n = 0 THEN numFrames ELSE n
    <3> DEFINE found == GetFrame(number)
    <3>1. /\ found # {}
          /\ iter' = frames[CHOOSE j \in found : \A k \in found : j <= k]
      BY <2>2, <2>5 DEF SetFrame
    <3>2. frames \in Seq(FrameRecord) /\ (NumberedFrom1 \/ DOMAIN frames = {1})
      BY <2>1 DEF DemuxInv, Listed, CutStill
    <3>3. PICK j \in DOMAIN frames : found = {j}
      BY <3>1, <3>2 DEF GetFrame, NumberedFrom1
    <3>4. j <= j
      BY <3>2
    <3> QED BY <2>1, <3>1, <3>3, <3>4 DEF Shown
  <2> QED BY <2>4, <2>5
<1>3. CASE UNCHANGED vars
  BY <1>3 DEF vars, Shown
<1> QED BY <1>1, <1>2, <1>3 DEF Next

(* The loop of WebPDemuxNextFrame that both compositors run (demux.c,         *)
(* 833-883) sees the frames of a whole file in order, each once.              *)
THEOREM NextFramesFollow == Spec => NextFrameFollows
<1>1. Init => Shown
  BY DEF Init, Shown, EmptyFrame
<1>2. ASSUME DemuxInv, Shown, NextFrame, ~partial, iter.num > 0
      PROVE  \E j \in DOMAIN frames :
               /\ frames[j] = iter
               /\ iter' = IF j = Len(frames) THEN iter ELSE frames[j + 1]
  <2>1. pc = "open" /\ SetFrame(iter.num + 1, iter)
    BY <1>2 DEF NextFrame
  <2>2. PICK j \in DOMAIN frames : iter = frames[j]
    BY <1>2 DEF Shown
  <2>3. frames \in Seq(FrameRecord) /\ numFrames = Len(frames) /\ NumberedFrom1
    BY <1>2, <2>1 DEF DemuxInv, Listed, CutStill, Checked
  <2>4. iter.num = j /\ j \in 1..Len(frames)
    BY <2>2, <2>3 DEF NumberedFrom1
  <2>5. CASE j = Len(frames)
    <3>1. iter' = iter
      BY <2>1, <2>3, <2>4, <2>5 DEF SetFrame
    <3> QED BY <2>2, <2>5, <3>1
  <2>6. CASE j # Len(frames)
    <3>1. j + 1 \in DOMAIN frames /\ j + 1 # 0 /\ ~(j + 1 > numFrames)
      BY <2>3, <2>4, <2>6
    <3>2. GetFrame(j + 1) = {j + 1}
      BY <2>3, <3>1 DEF GetFrame, NumberedFrom1
    <3>3. iter' = frames[CHOOSE k \in GetFrame(j + 1) : \A l \in GetFrame(j + 1) : k <= l]
      BY <2>1, <2>4, <3>1, <3>2 DEF SetFrame
    <3>4. j + 1 <= j + 1
      BY <2>3, <2>4
    <3>5. iter' = frames[j + 1]
      BY <3>2, <3>3, <3>4
    <3> QED BY <2>2, <2>6, <3>5
  <2> QED BY <2>5, <2>6
<1>3. DemuxInv /\ Shown /\ [Next]_vars => [Follows]_vars
  BY <1>2 DEF Follows
<1> QED BY <1>1, <1>3, DemuxAlways, ShownNext, PTL DEF Spec, NextFrameFollows

-----------------------------------------------------------------------------
(* How long the parser runs.                                                  *)

(* The functions at one position, in the order in which they can follow one   *)
(* another: StoreFrame hands a header back to ParseVP8XChunks only from a     *)
(* frame chunk, or when there is a frame that keeps it from coming again.     *)
Weight ==
  CASE pc = "ReadHeader" -> 7
    [] pc = "parse" -> 6
    [] pc = "ParseAnimationFrame" -> 5
    [] pc = "ParseVP8XChunks" -> IF frames = <<>> THEN 4 ELSE 2
    [] pc = "ParseSingleImage" -> 3
    [] OTHER -> 1

(* What is left of the file first, the functions at a position second.        *)
Rank ==
  IF pc \in {"open", "refused"} THEN 0 ELSE 8 * (MaxUnits - mem.start) + Weight

ParserAdvances ==
  /\ Parse => Rank' \in Nat /\ Rank' < Rank
  /\ Iterate => Rank' = Rank

WeightFacts ==
  /\ Weight \in 1..7
  /\ pc \in Parsing => Weight >= 2
  /\ pc \in Loops => Weight <= 5
  /\ pc = "WebPDemuxInternal" => Weight = 1
  /\ pc = "ReadHeader" => Weight = 7
  /\ pc = "parse" => Weight = 6
  /\ pc = "ParseAnimationFrame" => Weight = 5
  /\ pc = "ParseVP8XChunks" /\ frames = <<>> => Weight = 4
  /\ pc = "ParseVP8XChunks" /\ frames # <<>> => Weight = 2
  /\ pc = "ParseSingleImage" => Weight = 3

RankFacts ==
  /\ Rank \in Nat
  /\ pc \in {"open", "refused"} => Rank = 0
  /\ pc \notin {"open", "refused"} =>
       Rank = 8 * (MaxUnits - mem.start) + Weight /\ Rank > 0
  /\ mem.start \in Nat /\ mem.start <= MaxUnits

LEMMA WeightIs == DemuxInv => WeightFacts
<1> SUFFICES ASSUME DemuxInv PROVE WeightFacts
  OBVIOUS
<1>1. pc \in Before \cup Loops \cup Ended
  BY DEF DemuxInv, Kinds
<1> QED BY <1>1 DEF WeightFacts, Weight, Parsing, Before, Loops, Stores, Ended

LEMMA RankIs == DemuxInv => RankFacts
<1> SUFFICES ASSUME DemuxInv PROVE RankFacts
  OBVIOUS
<1>1. Weight \in 1..7
  BY WeightIs DEF WeightFacts
<1>2. mem.start \in Nat /\ mem.start <= MaxUnits /\ MaxUnits \in Nat
  BY DemuxerAssumption DEF DemuxInv, Reading, Memory
<1> HIDE DEF Weight
<1> QED BY <1>1, <1>2 DEF Rank, RankFacts

(* The same of the state after a step.                                        *)
LEMMA RanksAre ==
  ASSUME DemuxInv, DemuxInv'
  PROVE  WeightFacts /\ WeightFacts' /\ RankFacts /\ RankFacts'
<1>1. (DemuxInv => WeightFacts)' /\ (DemuxInv => RankFacts)'
  BY WeightIs, RankIs, PTL
<1> QED BY <1>1, WeightIs, RankIs

(* The parser ends, wherever it was.                                          *)
LEMMA EndingLowers ==
  ASSUME DemuxInv, DemuxInv', pc \in Parsing, pc' = "WebPDemuxInternal",
         mem'.start >= mem.start
  PROVE  Rank' < Rank
<1>1. pc \notin {"open", "refused"} /\ pc' \notin {"open", "refused"}
  BY DEF Parsing, Loops, Stores
<1>2. Weight >= 2 /\ Weight \in 1..7 /\ Weight' = 1
  BY RanksAre DEF WeightFacts
<1>3. Rank = 8 * (MaxUnits - mem.start) + Weight /\ mem.start \in Nat
  BY <1>1, RanksAre DEF RankFacts
<1>4. Rank' = 8 * (MaxUnits - mem'.start) + Weight' /\ mem'.start \in Nat
  BY <1>1, RanksAre DEF RankFacts
<1> QED BY <1>2, <1>3, <1>4, DemuxerAssumption

(* It goes on with a chunk further on.                                        *)
LEMMA MovingLowers ==
  ASSUME DemuxInv, DemuxInv', pc \in Parsing, pc' \in Loops, mem'.start > mem.start
  PROVE  Rank' < Rank
<1>1. pc \notin {"open", "refused"} /\ pc' \notin {"open", "refused"}
  BY DEF Parsing, Loops, Stores
<1>2. Weight >= 2 /\ Weight \in 1..7 /\ Weight' <= 5 /\ Weight' \in 1..7
  BY RanksAre DEF WeightFacts
<1>3. Rank = 8 * (MaxUnits - mem.start) + Weight /\ mem.start \in Nat
  BY <1>1, RanksAre DEF RankFacts
<1>4. Rank' = 8 * (MaxUnits - mem'.start) + Weight' /\ mem'.start \in Nat
  BY <1>1, RanksAre DEF RankFacts
<1> QED BY <1>2, <1>3, <1>4, DemuxerAssumption

(* It goes on with the same chunk, in a later function.                       *)
LEMMA StayingLowers ==
  ASSUME DemuxInv, DemuxInv', pc \in Parsing, pc' \in Loops, mem'.start = mem.start,
         Weight' < Weight
  PROVE  Rank' < Rank
<1>1. pc \notin {"open", "refused"} /\ pc' \notin {"open", "refused"}
  BY DEF Parsing, Loops, Stores
<1>2. Weight \in 1..7 /\ Weight' \in 1..7
  BY RanksAre DEF WeightFacts
<1>3. Rank = 8 * (MaxUnits - mem.start) + Weight /\ mem.start \in Nat
  BY <1>1, RanksAre DEF RankFacts
<1>4. Rank' = 8 * (MaxUnits - mem'.start) + Weight'
  BY <1>1, RanksAre DEF RankFacts
<1> QED BY <1>2, <1>3, <1>4, DemuxerAssumption

(* Where a chunk of an extended file leaves the position.                     *)
LEMMA MovedTo ==
  ASSUME DemuxInv, NEW at \in Nat, MoveTo(at)
  PROVE  mem'.start = at
BY DEF DemuxInv, Reading, Memory, MoveTo

(* An iteration of ParseVP8XChunks ends, or goes on behind its chunk.         *)
LEMMA IterationLowers ==
  ASSUME DemuxInv, DemuxInv', pc = "ParseVP8XChunks", NEW s \in {"ok", "more", "error"},
         NEW at \in Nat, mem.start < at, at <= mem.end, AfterChunk(s, at),
         MoveTo(at) \/ (Unmoved /\ s # "ok")
  PROVE  Rank' < Rank
<1>1. /\ mem \in Memory /\ mem.end <= mem.riffEnd /\ pc \in Parsing /\ mem.start \in Nat
  BY AtParsing
<1>2. \/ pc' = "WebPDemuxInternal"
      \/ pc' = "ParseVP8XChunks" /\ s = "ok"
  BY <1>1, AfterChunkLeads
<1>3. CASE pc' = "WebPDemuxInternal"
  <2>1. mem'.start >= mem.start
    BY <1>1, MovedTo DEF Unmoved
  <2> QED BY <1>1, <1>3, <2>1, EndingLowers
<1>4. CASE pc' = "ParseVP8XChunks" /\ s = "ok"
  <2>1. mem'.start > mem.start /\ pc' \in Loops
    BY <1>1, <1>4, MovedTo DEF Loops
  <2> QED BY <1>1, <2>1, MovingLowers
<1> QED BY <1>2, <1>3, <1>4

LEMMA StartingImageLowers ==
  ASSUME DemuxInv, DemuxInv', pc \in {"parse", "ParseVP8XChunks"}, ParseSingleImage, Unmoved
  PROVE  Rank' < Rank
<1>1. /\ pc \in Parsing /\ mem'.start = mem.start /\ mem.start \in Nat
      /\ mem \in Memory /\ mem.start <= mem.end /\ mem.end <= mem.riffEnd
  BY AtParsing DEF Unmoved
<1>2. CASE End("error") \/ End("more")
  BY <1>1, <1>2, EndingLowers DEF End
<1>3. CASE AfterChunk("error", mem.start)
  <2>1. pc' = "WebPDemuxInternal"
    BY <1>1, <1>3, AfterChunkLeads
  <2> QED BY <1>1, <2>1, EndingLowers
<1>4. CASE frames = <<>> /\ pc' = "ParseSingleImage"
  <2>1. pc' \in Loops
    BY <1>4 DEF Loops, Stores
  <2>2. (Weight = 4 \/ Weight = 6) /\ Weight' = 3
    BY <1>4, RanksAre DEF WeightFacts
  <2>3. Weight' < Weight
    BY <2>2
  <2> QED BY <1>1, <2>1, <2>3, StayingLowers
<1> QED BY <1>2, <1>3, <1>4 DEF ParseSingleImage

(* StoreFrame ends: a chunk was refused, the file is cut, or a chunk is       *)
(* handed back that does not belong to the frame.                             *)
LEMMA StoredLowers ==
  ASSUME DemuxInv, DemuxInv', pc \in Stores, NEW at \in Nat, mem.start <= at, at <= mem.end,
         NEW s \in {"ok", "more", "error"}, NEW f, Stored(s, f, at),
         s = "ok" /\ pc = "ParseSingleImage" => at > mem.start \/ frames' # <<>>
  PROVE  Rank' < Rank
<1>1. /\ pc \in Parsing /\ mem \in Memory /\ mem.end <= mem.riffEnd /\ mem.start \in Nat
      /\ mem'.start = at
  BY MovedTo, RanksAre DEF RankFacts, DemuxInv, Reading, Parsing, Loops, Stored
<1>2. CASE pc' = "WebPDemuxInternal"
  BY <1>1, <1>2, EndingLowers
<1>3. CASE pc' # "WebPDemuxInternal"
  <2>1. pc' = "ParseVP8XChunks" /\ (pc = "ParseSingleImage" => s = "ok")
    <3>1. CASE pc = "ParseSingleImage"
      <4>1. AfterChunk(s, at)
        BY <1>3, <3>1 DEF Stored, SingleImageStored, End
      <4> QED BY <1>1, <1>3, <4>1, AfterChunkLeads
    <3>2. CASE pc = "ParseAnimationFrame"
      <4>1. AfterChunk(s, at) \/ AfterChunk("error", at)
        BY <3>2 DEF Stored, AnimationFrameStored
      <4> QED BY <1>1, <1>3, <3>2, <4>1, AfterChunkLeads
    <3> QED BY <3>1, <3>2 DEF Stores
  <2>2. CASE at > mem.start
    BY <1>1, <2>1, <2>2, MovingLowers DEF Loops
  <2>3. CASE ~(at > mem.start)
    <3>1. mem'.start = mem.start
      BY <1>1, <2>3
    <3>2. pc = "ParseSingleImage" => frames' # <<>>
      BY <2>1, <2>3
    <3>3. Weight' < Weight
      <4>1. CASE pc = "ParseSingleImage"
        <5>1. Weight = 3 /\ Weight' = 2
          BY <2>1, <3>2, <4>1, RanksAre DEF WeightFacts
        <5> QED BY <5>1
      <4>2. CASE pc = "ParseAnimationFrame"
        <5>1. Weight = 5 /\ (Weight' = 4 \/ Weight' = 2)
          BY <2>1, <4>2, RanksAre DEF WeightFacts
        <5> QED BY <5>1
      <4> QED BY <4>1, <4>2 DEF Stores
    <3> QED BY <1>1, <2>1, <3>1, <3>3, StayingLowers DEF Loops
  <2> QED BY <2>2, <2>3
<1> QED BY <1>2, <1>3

LEMMA TakenLowers ==
  ASSUME DemuxInv, DemuxInv', pc \in Stores, NEW at \in Nat, mem.start < at, at <= mem.end,
         NEW cut \in BOOLEAN, NEW f, Taken(f, at, cut)
  PROVE  Rank' < Rank
<1>1. mem.start \in Nat /\ pc \in Parsing /\ pc \in Loops
  BY RanksAre DEF RankFacts, Parsing, Loops
<1>2. CASE Stored(IF cut THEN "more" ELSE "ok", f, at) \/ Stored("more", f, at)
  BY <1>1, <1>2, StoredLowers
<1>3. CASE UNCHANGED pc /\ MoveTo(at)
  <2>1. mem'.start > mem.start
    BY <1>1, <1>3, MovedTo
  <2> QED BY <1>1, <1>3, <2>1, MovingLowers
<1> QED BY <1>2, <1>3 DEF Taken

LEMMA StoreFrameLowers ==
  ASSUME DemuxInv, DemuxInv', StoreFrame
  PROVE  Rank' < Rank
<1> DEFINE body == mem.start + 1
<1> DEFINE cut == next.size > Left(body)
<1> DEFINE available == IF cut THEN Left(body) ELSE next.size
<1> DEFINE at == body + available
<1>1. /\ mem \in Memory /\ mem.start + 1 <= mem.end /\ next \in Chunk /\ next.size \in Nat
      /\ mem.start \in Nat /\ mem.end \in Nat /\ pc \in Stores
  BY DemuxerAssumption DEF DemuxInv, Kinds, Reading, Memory, Loops, Stores, StoreFrame
<1>2. /\ body \in Nat /\ mem.start < body /\ body <= mem.end
      /\ at \in Nat /\ mem.start < at /\ at <= mem.end /\ mem.start <= at
  <2>1. available \in Nat /\ available <= mem.end - body /\ body <= mem.end
    BY <1>1 DEF Left
  <2> HIDE DEF available
  <2> QED BY <1>1, <2>1
<1>3. cut \in BOOLEAN
  OBVIOUS
<1>4. \/ \E s \in {"more", "error"} : Stored(s, frame, body)
      \/ \E f : Taken(f, at, cut)
      \/ /\ ~(next.id = "ALPH" /\ frame.alpha = NoData)
         /\ ~(next.id \in Images /\ frame.image = NoData)
         /\ Stored(IF cut THEN "more" ELSE "ok", frame, mem.start)
  BY DEF StoreFrame
<1> HIDE DEF cut, available, at, body
<1>5. CASE \E s \in {"more", "error"} : Stored(s, frame, body)
  BY <1>1, <1>2, <1>5, StoredLowers
<1>6. CASE \E f : Taken(f, at, cut)
  BY <1>1, <1>2, <1>3, <1>6, TakenLowers
<1>7. CASE /\ ~(next.id = "ALPH" /\ frame.alpha = NoData)
           /\ ~(next.id \in Images /\ frame.image = NoData)
           /\ Stored(IF cut THEN "more" ELSE "ok", frame, mem.start)
  <2>1. pc = "ParseSingleImage" /\ ~cut => frames' # <<>>
    <3> SUFFICES ASSUME pc = "ParseSingleImage", ~cut PROVE frames' # <<>>
      OBVIOUS
    <3>1. frames \in Seq(FrameRecord)
      BY DEF DemuxInv, Listed
    <3>2. SingleImageStored("ok", frame, mem.start)
      BY <1>7 DEF Stored
    <3>3. \E f : frames' = Append(frames, f)
      BY <3>2 DEF SingleImageStored, AddFrame
    <3>4. frames = <<>> /\ \A f : Append(<<>>, f) # <<>>
      BY DEF DemuxInv, Storing, Single
    <3> QED BY <3>3, <3>4
  <2>2. CASE cut
    BY <1>1, <1>7, <2>2, StoredLowers
  <2>3. CASE ~cut
    <3>1. Stored("ok", frame, mem.start)
      BY <1>7, <2>3
    <3> QED BY <1>1, <2>1, <2>3, <3>1, StoredLowers
  <2> QED BY <2>2, <2>3
<1> QED BY <1>4, <1>5, <1>6, <1>7

LEMMA FrameChunkLowers ==
  ASSUME DemuxInv, DemuxInv', FrameChunk
  PROVE  Rank' < Rank
<1> DEFINE body == mem.start + 1
<1> DEFINE from == mem.start + 2
<1>1. /\ pc = "ParseVP8XChunks" /\ mem.start \in Nat /\ mem.end \in Nat
      /\ mem.start + 1 <= mem.end /\ pc \in Parsing
  BY AtParsing DEF FrameChunk, AtChunk
<1>2. /\ body \in Nat /\ mem.start < body /\ body <= mem.end
      /\ from \in Nat /\ mem.start < from
  BY <1>1
<1>3. \/ AfterChunk("error", body) /\ Unmoved
      \/ AfterChunk("more", body) /\ Unmoved
      \/ /\ ~(Left(body) < 1) /\ MoveTo(from)
         /\ \/ AfterChunk("error", from)
            \/ AfterChunk("more", from)
            \/ pc' = "ParseAnimationFrame"
  BY DEF FrameChunk
<1>4. CASE (AfterChunk("error", body) \/ AfterChunk("more", body)) /\ Unmoved
  BY <1>1, <1>2, <1>4, IterationLowers
<1>5. CASE ~(Left(body) < 1) /\ MoveTo(from)
           /\ (AfterChunk("error", from) \/ AfterChunk("more", from))
  <2>1. from <= mem.end
    BY <1>1, <1>5 DEF Left
  <2> QED BY <1>1, <1>2, <1>5, <2>1, IterationLowers
<1>6. CASE MoveTo(from) /\ pc' = "ParseAnimationFrame"
  <2>1. mem'.start > mem.start /\ pc' \in Loops
    BY <1>1, <1>2, <1>6, MovedTo DEF Loops, Stores
  <2> QED BY <1>1, <2>1, MovingLowers
<1> QED BY <1>3, <1>4, <1>5, <1>6

LEMMA SkippedChunkLowers ==
  ASSUME DemuxInv, DemuxInv', SkippedChunk
  PROVE  Rank' < Rank
<1> DEFINE body == mem.start + 1
<1>1. /\ pc = "ParseVP8XChunks" /\ mem.start \in Nat /\ mem.end \in Nat
      /\ mem.start + 1 <= mem.end /\ pc \in Parsing /\ next.size \in Nat
  BY AtParsing DEF SkippedChunk, AtChunk
<1>2. body \in Nat /\ mem.start < body /\ body <= mem.end
  BY <1>1
<1>3. \/ AfterChunk("more", body) /\ Unmoved
      \/ /\ ~(Left(body) < next.size) /\ AfterChunk("ok", body + next.size)
         /\ MoveTo(body + next.size)
      \/ End("error") /\ Unmoved
  BY DEF SkippedChunk
<1>4. CASE AfterChunk("more", body) /\ Unmoved
  BY <1>1, <1>2, <1>4, IterationLowers
<1>5. CASE /\ ~(Left(body) < next.size) /\ AfterChunk("ok", body + next.size)
           /\ MoveTo(body + next.size)
  <2>1. body + next.size \in Nat /\ mem.start < body + next.size
        /\ body + next.size <= mem.end
    BY <1>1, <1>5 DEF Left
  <2> QED BY <1>1, <1>5, <2>1, IterationLowers
<1>6. CASE End("error") /\ Unmoved
  <2>1. mem'.start >= mem.start
    BY <1>1, <1>6 DEF Unmoved
  <2> QED BY <1>1, <1>6, <2>1, EndingLowers DEF End
<1> QED BY <1>3, <1>4, <1>5, <1>6

LEMMA ParseVP8XLowers ==
  ASSUME DemuxInv, DemuxInv', ParseVP8X
  PROVE  Rank' < Rank
<1> DEFINE after == mem.start + 1 + next.size
<1>1. pc = "parse" /\ mem.start \in Nat /\ pc \in Parsing /\ next.size \in Nat
  BY AtParsing DEF ParseVP8X
<1>2. \/ (End("more") \/ End("error")) /\ Unmoved
      \/ (End("more") \/ End("error") \/ pc' = "ParseVP8XChunks") /\ MoveTo(after)
  BY DEF ParseVP8X
<1>3. mem'.start >= mem.start
  BY <1>1, <1>2, MovedTo DEF Unmoved
<1>4. CASE pc' = "WebPDemuxInternal"
  BY <1>1, <1>3, <1>4, EndingLowers
<1>5. CASE pc' = "ParseVP8XChunks" /\ MoveTo(after)
  <2>1. mem'.start > mem.start /\ pc' \in Loops
    BY <1>1, <1>5, MovedTo DEF Loops
  <2> QED BY <1>1, <2>1, MovingLowers
<1> QED BY <1>2, <1>4, <1>5 DEF End

(* WebPDemuxInternal starts to read at the start of the buffer.               *)
AtStart == pc = "ReadHeader" => mem.start = 0

LEMMA AtStartNext == AtStart /\ [Next]_vars => AtStart'
<1> SUFFICES ASSUME AtStart, [Next]_vars PROVE AtStart'
  OBVIOUS
<1>1. CASE UNCHANGED vars
  BY <1>1 DEF AtStart, vars
<1>2. CASE Iterate
  BY <1>2 DEF AtStart, Iterate, GetFrameNumbered, NextFrame, PrevFrame, DemuxerKept
<1>3. CASE Parse
  <2>1. CASE ReadHeader
    BY <2>1 DEF AtStart, ReadHeader, ReadHeaderTooShort, CreateRawImageDemuxer,
                ReadHeaderRiff, NoDemuxer
  <2>2. CASE SimpleFile \/ ImageChunk
    BY <2>2 DEF AtStart, SimpleFile, ImageChunk, ParseSingleImage, AfterChunk, End
  <2>3. CASE UnknownMaster \/ ParseVP8X \/ ChunkRefused
    BY <2>3 DEF AtStart, UnknownMaster, ParseVP8X, ChunkRefused, NoDemuxer, End
  <2>4. CASE SkippedChunk \/ FrameChunk \/ Finish
    BY <2>4 DEF AtStart, SkippedChunk, FrameChunk, Finish, AfterChunk, End
  <2>5. CASE StoreFrame
    BY <2>5 DEF AtStart, StoreFrame, Taken, Stored, SingleImageStored,
                AnimationFrameStored, AfterChunk, End
  <2> QED BY <1>3, <2>1, <2>2, <2>3, <2>4, <2>5 DEF Parse
<1> QED BY <1>1, <1>2, <1>3 DEF Next

LEMMA ReadHeaderLowers ==
  ASSUME DemuxInv, DemuxInv', AtStart, ReadHeader
  PROVE  Rank' < Rank
<1>1. pc = "ReadHeader" /\ mem \in Memory /\ mem.start = 0
  BY DEF ReadHeader, DemuxInv, Reading, AtStart
<1>2. Rank = 8 * MaxUnits + 7 /\ Rank > 0
  <2>1. Weight = 7 /\ Rank = 8 * (MaxUnits - mem.start) + Weight /\ Rank > 0
    BY <1>1, RanksAre DEF WeightFacts, RankFacts
  <2> QED BY <1>1, <2>1, DemuxerAssumption
<1>3. CASE pc' \in {"refused", "open"}
  BY <1>2, <1>3, RanksAre DEF RankFacts
<1>4. CASE ReadHeaderRiff /\ pc' = "parse"
  <2>1. mem'.start = 1
    BY <1>1, <1>4 DEF ReadHeaderRiff, Memory
  <2>2. Weight' = 6
    BY <1>4, RanksAre DEF WeightFacts
  <2>3. Rank' = 8 * (MaxUnits - mem'.start) + Weight'
    BY <1>4, RanksAre DEF RankFacts
  <2> QED BY <1>2, <2>1, <2>2, <2>3, DemuxerAssumption
<1> QED BY <1>3, <1>4 DEF ReadHeader, ReadHeaderTooShort, CreateRawImageDemuxer,
                          ReadHeaderRiff, NoDemuxer

LEMMA ParseLowers ==
  ASSUME DemuxInv, DemuxInv', AtStart, Parse
  PROVE  Rank' < Rank
<1>1. CASE ReadHeader
  BY <1>1, ReadHeaderLowers
<1>2. CASE SimpleFile \/ ImageChunk
  BY <1>2, StartingImageLowers DEF SimpleFile, ImageChunk, AtChunk
<1>3. CASE UnknownMaster
  <2>1. pc = "parse" /\ pc' = "refused"
    BY <1>3 DEF UnknownMaster, NoDemuxer
  <2> QED BY <2>1, RanksAre DEF RankFacts
<1>4. CASE ChunkRefused
  <2>1. pc = "ParseVP8XChunks" /\ pc' = "WebPDemuxInternal" /\ mem' = mem
    BY <1>4 DEF ChunkRefused, AtChunk, End, Unmoved
  <2>2. pc \in Parsing /\ mem'.start >= mem.start
    BY <2>1, AtParsing
  <2> QED BY <2>1, <2>2, EndingLowers
<1>5. CASE Finish
  <2>1. pc = "WebPDemuxInternal" /\ pc' \in {"open", "refused"}
    BY <1>5 DEF Finish
  <2> QED BY <2>1, RanksAre DEF RankFacts
<1> QED BY <1>1, <1>2, <1>3, <1>4, <1>5, ParseVP8XLowers, StoreFrameLowers,
           SkippedChunkLowers, FrameChunkLowers DEF Parse

(* Whatever the chunks of a file are and wherever it is cut, every step of    *)
(* WebPDemuxInternal lowers the same natural number, although StoreFrame may  *)
(* hand a chunk back to ParseVP8XChunks unread (demux.c, 276-281 and 447-538):*)
(* the parser cannot take more than 8 * MaxUnits + 7 steps.                   *)
THEOREM ParserRunsOut == Spec => [][ParserAdvances]_vars
<1>1. Init => AtStart
  BY DEF Init, AtStart
<1>2. ASSUME DemuxInv, DemuxInv', AtStart PROVE [ParserAdvances]_vars
  <2>1. Parse => Rank' \in Nat /\ Rank' < Rank
    BY <1>2, ParseLowers, RanksAre DEF RankFacts
  <2>2. Iterate => pc' = pc /\ pc = "open"
    BY DEF Iterate, GetFrameNumbered, NextFrame, PrevFrame, DemuxerKept
  <2>3. Iterate => Rank' = Rank
    BY <2>2 DEF Rank
  <2> QED BY <2>1, <2>3 DEF ParserAdvances
<1>3. Spec => []AtStart
  BY <1>1, AtStartNext, PTL DEF Spec
<1> QED BY <1>2, <1>3, DemuxAlways, PTL

=============================================================================
