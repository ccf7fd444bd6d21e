------------------------------ MODULE NativeCall ------------------------------
(***************************************************************************)
(* One call of decodeWebPNative (webp_wrapper.cpp): the frame loop of      *)
(* Compositor with all that the call acquires and gives back on every path *)
(* around it: the JNI strings, the file, the buffers, the demuxer, and for *)
(* each frame the iterator, the pixels, the locked bitmap and the output   *)
(* stream.  A step is one acquisition with its check, or one release.      *)
(***************************************************************************)
EXTENDS Compositor

Chars == <<"input_chars", "output_chars">>
Resource ==
  {"input_chars", "output_chars", "file", "data", "demux", "canvas",
   "iterator", "pixels", "locked_bitmap", "stream"}

VARIABLES
  pc,      (* the next acquisition                                             *)
  held,    (* how many of each resource are held: acquired minus released      *)
  todo,    (* what this path still releases, in order                          *)
  result   (* "null", "array", or "none" while the call runs                   *)

vars == <<pc, held, todo, result, canvasVars>>

Init ==
  /\ pc = "strings"
  /\ held = [r \in Resource |-> 0]
  /\ todo = <<>>
  /\ result = "none"
  /\ InitCanvas

-----------------------------------------------------------------------------
(* All but the end of a round leaves the canvas to itself.                    *)
Acquire(r, next) ==
  /\ held' = [held EXCEPT ![r] = @ + 1]
  /\ pc' = next
  /\ UNCHANGED <<todo, result, canvasVars>>

Proceed(next) == pc' = next /\ UNCHANGED <<held, todo, result, canvasVars>>

Free(releases, next) ==
  /\ todo' = releases
  /\ pc' = next
  /\ UNCHANGED <<held, result, canvasVars>>

(* An early return: these releases, then return nullptr.                      *)
Abandon(releases) ==
  /\ todo' = releases
  /\ pc' = "releasing"
  /\ result' = "null"
  /\ UNCHANGED <<held, canvasVars>>

Ready(place) == pc = place /\ todo = <<>>

Release ==
  /\ todo # <<>>
  /\ held' = [held EXCEPT ![Head(todo)] = @ - 1]
  /\ todo' = Tail(todo)
  /\ UNCHANGED <<pc, result, canvasVars>>

Return ==
  /\ Ready("releasing")
  /\ Proceed("returned")

(* Either string may be missing; the other one is given back.                 *)
GetStrings ==
  /\ Ready("strings")
  /\ \E got \in SUBSET {"input_chars", "output_chars"} :
       held' = [r \in Resource |-> IF r \in got THEN 1 ELSE 0]
  /\ pc' = "check_strings"
  /\ UNCHANGED <<todo, result, canvasVars>>

CheckStrings ==
  /\ Ready("check_strings")
  /\ IF \A r \in {"input_chars", "output_chars"} : held[r] = 1
     THEN Proceed("open")
     ELSE Abandon(IF held["input_chars"] = 1 THEN <<"input_chars">>
                  ELSE IF held["output_chars"] = 1 THEN <<"output_chars">> ELSE <<>>)

OpenFile == Ready("open") /\ (Acquire("file", "measure") \/ Abandon(Chars))

MeasureFile == Ready("measure") /\ (Proceed("allocate") \/ Abandon(<<"file">> \o Chars))

(* Mutant: the path without memory leaves the file open.                      *)
AllocateDataLeavesFile ==
  Ready("allocate") /\ (Acquire("data", "read") \/ Abandon(Chars))

AllocateData ==
  Ready("allocate") /\ (Acquire("data", "read") \/ Abandon(<<"file">> \o Chars))

(* The file is closed before the length that was read is looked at.           *)
ReadData == Ready("read") /\ Free(<<"file">>, "check_read")

(* Mutant: a short read closes the file again.                                *)
CheckReadClosesTwice ==
  Ready("check_read") /\ (Proceed("demux") \/ Abandon(<<"file", "data">> \o Chars))

CheckRead == Ready("check_read") /\ (Proceed("demux") \/ Abandon(<<"data">> \o Chars))

Demux == Ready("demux") /\ (Acquire("demux", "count") \/ Abandon(<<"data">> \o Chars))

CountFrames ==
  Ready("count") /\ (Proceed("size") \/ Abandon(<<"demux", "data">> \o Chars))

(* The canvas has a size, or the first frame lends it one.                    *)
SizeCanvas ==
  /\ Ready("size")
  /\ \/ Proceed("canvas")
     \/ Acquire("iterator", "borrow_size")
     \/ Abandon(<<"demux", "data">> \o Chars)

BorrowSize == Ready("borrow_size") /\ Free(<<"iterator">>, "canvas")

AllocateCanvas ==
  Ready("canvas") /\ (Acquire("canvas", "loop") \/ Abandon(<<"demux", "data">> \o Chars))

-----------------------------------------------------------------------------
(* continue, or the end of the loop's body.                                   *)
EndRound(releases) ==
  /\ todo' = releases
  /\ pc' = "loop"
  /\ UNCHANGED <<held, result>>

GetFrame ==
  /\ Ready("loop") /\ i <= FrameCount
  /\ Acquire("iterator", "decode") \/ (FrameMissing /\ EndRound(<<>>))

(* The frame has no size or does not decode: its iterator is released.        *)
DecodeFrame ==
  /\ Ready("decode")
  /\ \/ Acquire("pixels", "bitmap")
     \/ /\ \E f \in Frames : FrameUndecodable(f)
        /\ EndRound(<<"iterator">>)

(* saveBitmapAsPNG fails to create or to lock the bitmap, or fills it.        *)
LockBitmap ==
  /\ Ready("bitmap")
  /\ \/ Acquire("locked_bitmap", "unlock")
     \/ /\ \E f \in Frames : FrameDrawn(f, FALSE)
        /\ EndRound(<<"pixels", "iterator">>)

UnlockBitmap == Ready("unlock") /\ Free(<<"locked_bitmap">>, "stream")

(* The constructor may also throw, and leave an exception pending for the     *)
(* calls of Compress: see the README on pending exceptions.                   *)
OpenStream == Ready("stream") /\ Acquire("stream", "compress")

(* Compressed or not, the stream is closed and the caller frees the frame.    *)
Compress ==
  /\ Ready("compress")
  /\ \E f \in Frames, kept \in BOOLEAN : FrameDrawn(f, kept)
  /\ EndRound(<<"stream", "pixels", "iterator">>)

(* Mutant: the file's bytes go before the demuxer that points into them.      *)
CleanUpDataFirst ==
  /\ Ready("loop") /\ i > FrameCount
  /\ Free(<<"data", "demux", "canvas">> \o Chars, "array")

CleanUp ==
  /\ Ready("loop") /\ i > FrameCount
  /\ Free(<<"demux", "data", "canvas">> \o Chars, "array")

(* The class, its constructor or the array is missing, or the array is made.  *)
BuildArray ==
  /\ Ready("array")
  /\ result' \in {"null", "array"}
  /\ pc' = "returned"
  /\ UNCHANGED <<held, todo, canvasVars>>

Next ==
  \/ Release \/ Return
  \/ GetStrings \/ CheckStrings \/ OpenFile \/ MeasureFile \/ AllocateData
  \/ ReadData \/ CheckRead \/ Demux \/ CountFrames \/ SizeCanvas \/ AllocateCanvas
  \/ BorrowSize \/ GetFrame \/ DecodeFrame \/ LockBitmap \/ UnlockBitmap
  \/ OpenStream \/ Compress \/ CleanUp \/ BuildArray

Spec == Init /\ [][Next]_vars

-----------------------------------------------------------------------------
Place ==
  {"strings", "check_strings", "open", "measure", "allocate", "read", "check_read",
   "demux", "count", "size", "borrow_size", "canvas", "loop", "decode", "bitmap",
   "unlock", "stream", "compress", "array", "releasing", "returned"}

(* No path releases what it does not hold, or acquires what it still holds:   *)
(* held stays within 0..1.                                                    *)
TypeOK ==
  /\ CanvasTypeOK
  /\ pc \in Place
  /\ held \in [Resource -> 0..1]
  /\ todo \in Seq(Resource)
  /\ result \in {"none", "null", "array"}

(* All of the returns, the early ones and the last one, leave nothing behind  *)
(* (lines 88-193, 243-260, 373-381).                                          *)
ReleasedOnReturn == pc = "returned" => \A r \in Resource : held[r] = 0

(* The demuxer and the frames' fragments point into the file's bytes, which   *)
(* therefore outlive it, as it outlives the iterators, on every path (lines   *)
(* 137-141, 170-260, 373-378).                                                *)
DataOutlivesDemuxer ==
  /\ held["iterator"] = 1 => held["demux"] = 1
  /\ held["demux"] = 1 => held["data"] = 1
==============================================================================
