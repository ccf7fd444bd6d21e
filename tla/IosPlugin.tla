------------------------------ MODULE IosPlugin ------------------------------
(***************************************************************************)
(* The iOS side (ios/Classes/WebpExtractorPlugin.swift): the method        *)
(* handler on the main thread, a download on the URLSession queue, the     *)
(* decoding on a global queue, and the reply.  A step is what one queue    *)
(* runs of one call without giving another a chance to be seen.            *)
(***************************************************************************)
EXTENDS Integers, Sequences

CONSTANTS
  Call,        (* the calls that reach the handler                            *)
  Request,     (* what each of them asks for                                  *)
  FrameCount   (* animatedImageFrameCount (bound)                             *)

(* A foreign method or missing arguments; a URL that Foundation parses, one   *)
(* that it does not; a path in the file system.                               *)
Requests == {"other", "url", "unparsable_url", "path"}

VARIABLES
  at,         (* where each call is                                           *)
  listed,     (* frames: the numbers of the frames written so far             *)
  number,     (* i of the loop over the frames                                *)
  mainQueue,  (* the blocks on the main queue: a call and its reply           *)
  reply       (* what result() was called with                                *)

iosVars == <<at, listed, number, mainQueue, reply>>

Success(numbers) == [kind |-> "frames", numbers |-> numbers]
Failure(error) == [kind |-> error, numbers |-> <<>>]
NoReply == Failure("none")
Errors == {"INVALID_ARGS", "DOWNLOAD_FAILED", "FILE_NOT_FOUND", "DECODE_ERROR"}

InitIos ==
  /\ at = [c \in Call |-> "idle"]
  /\ listed = [c \in Call |-> <<>>]
  /\ number = [c \in Call |-> 0]
  /\ mainQueue = <<>>
  /\ reply = [c \in Call |-> NoReply]

-----------------------------------------------------------------------------
Goto(c, place) ==
  /\ at' = [at EXCEPT ![c] = place]
  /\ UNCHANGED <<listed, number, mainQueue, reply>>

(* result() is called, on whatever thread.                                    *)
Result(c, r) ==
  /\ at' = [at EXCEPT ![c] = "answered"]
  /\ reply' = [reply EXCEPT ![c] = r]
  /\ UNCHANGED <<listed, number, mainQueue>>

(* DispatchQueue.main.async                                                   *)
Post(c, r) ==
  /\ at' = [at EXCEPT ![c] = "posted"]
  /\ mainQueue' = Append(mainQueue, <<c, r>>)
  /\ UNCHANGED <<listed, number, reply>>

(* handle(): what it refuses is answered at once, a file is read at once; a   *)
(* URL that cannot be parsed is given up without a word.                      *)
Handle(c) ==
  /\ at[c] = "idle"
  /\ \/ Request[c] = "other" /\ Result(c, Failure("INVALID_ARGS"))
     \/ Request[c] = "unparsable_url" /\ Goto(c, "given_up")
     \/ Request[c] = "url" /\ Goto(c, "downloading")
     \/ Request[c] = "path" /\ (Goto(c, "queued") \/ Result(c, Failure("FILE_NOT_FOUND")))

(* Mutant: the error of a download is left to the decoder, which is called.   *)
DownloadAnswersAndDecodes(c) ==
  /\ at[c] = "downloading"
  /\ \/ Goto(c, "queued")
     \/ /\ at' = [at EXCEPT ![c] = "queued"]
        /\ reply' = [reply EXCEPT ![c] = Failure("DOWNLOAD_FAILED")]
        /\ UNCHANGED <<listed, number, mainQueue>>

(* The completion handler of the data task: no data is answered from its      *)
(* queue.                                                                     *)
DownloadEnds(c) ==
  /\ at[c] = "downloading"
  /\ Goto(c, "queued") \/ Result(c, Failure("DOWNLOAD_FAILED"))

(* Mutant: an image that does not decode is not answered.                     *)
OpenImageSilently(c) ==
  /\ at[c] = "queued"
  /\ Goto(c, "decoding") \/ Goto(c, "given_up")

OpenImage(c) ==
  /\ at[c] = "queued"
  /\ Goto(c, "decoding") \/ Post(c, Failure("DECODE_ERROR"))

(* A frame without picture or PNG data, or whose file cannot be created, is   *)
(* left out.                                                                  *)
SaveFrame(c) ==
  /\ at[c] = "decoding" /\ number[c] < FrameCount
  /\ number' = [number EXCEPT ![c] = @ + 1]
  /\ listed' \in {listed, [listed EXCEPT ![c] = Append(@, number[c])]}
  /\ UNCHANGED <<at, mainQueue, reply>>

PostFrames(c) ==
  /\ at[c] = "decoding" /\ number[c] = FrameCount
  /\ Post(c, Success(listed[c]))

RunOnMain ==
  /\ mainQueue # <<>>
  /\ LET c == Head(mainQueue)[1] IN
     /\ at' = [at EXCEPT ![c] = "answered"]
     /\ reply' = [reply EXCEPT ![c] = Head(mainQueue)[2]]
  /\ mainQueue' = Tail(mainQueue)
  /\ UNCHANGED <<listed, number>>

(* What the queues do for a call once the handler has returned.               *)
QueueStep(c) == DownloadEnds(c) \/ OpenImage(c) \/ SaveFrame(c) \/ PostFrames(c)

-----------------------------------------------------------------------------
(* The replies the plugin can give.                                           *)
Numbers == UNION {[1..n -> 0..FrameCount - 1] : n \in 0..FrameCount}
Reply == {Success(s) : s \in Numbers} \cup {Failure(e) : e \in Errors}

(* What the plugin has started and not finished.                              *)
AtWork == {c \in Call : at[c] \in {"downloading", "queued", "decoding", "posted"}}
==============================================================================
