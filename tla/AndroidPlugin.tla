---------------------------- MODULE AndroidPlugin ----------------------------
(***************************************************************************)
(* WebpExtractorPlugin.kt: one thread per decodeWebP call, the cache file  *)
(* a download goes through, the output files of the native decoder and of  *)
(* the SDK fallback, and the replies posted to the main looper.            *)
(*                                                                         *)
(* The library call decodeWebPNative is seen from outside: the frames it   *)
(* saves one after the other, an exception, or an Error that no handler    *)
(* catches.  Module Compositor models what is in the frames.               *)
(***************************************************************************)
EXTENDS Integers, Sequences, FiniteSets

CONSTANTS
  Call,       (* the calls that reach the channel                              *)
  Foreign,    (* the calls of another method than decodeWebP                   *)
  Malformed,  (* the decodeWebP calls without "input" or without "output"      *)
  Source,     (* the images that exist, by path or by URL                      *)
  Url,        (* the ones that must be downloaded                              *)
  Missing,    (* paths with no file behind them                                *)
  Dir,        (* output directories                                            *)
  Input,      (* the input argument of each call                               *)
  Output,     (* the output argument of each call                              *)
  Frames,     (* frames per animation (bound)                                  *)
  Chunks,     (* blocks that copyTo moves per download (bound)                 *)
  Millis,     (* readings of currentTimeMillis (bound)                         *)
  None        (* no file, no data, no reply                                    *)

ASSUME PluginAssumption ==
  /\ Foreign \cup Malformed \subseteq Call
  /\ Url \cup Missing \subseteq Source
  /\ Url \cap Missing = {}
  /\ Input \in [Call -> Source] /\ Output \in [Call -> Dir]
  /\ Frames \in Nat \ {0} /\ Chunks \in Nat \ {0} /\ Millis \in Nat \ {0}
  /\ None \notin Source \cup Dir \cup (1..Millis)

VARIABLES
  attached,       (* the engine has the handler: "no", "yes", "detached"       *)
  libraryLoaded,  (* System.loadLibrary succeeded                              *)
  alive,          (* the process has not been killed by an uncaught Error      *)
  now,            (* System.currentTimeMillis()                                *)
  pc,             (* where each call's thread is                               *)
  step,           (* blocks copied, then frames decoded, by each thread        *)
  cacheName,      (* the millisecond in the name of each call's download       *)
  cache,          (* the blocks of every cache file                            *)
  decoding,       (* the image each thread has read                            *)
  saved,          (* the frames each thread will report                        *)
  files,          (* what each file of each output directory holds             *)
  mainQueue,      (* runnables posted to the main looper                       *)
  reply           (* what each call's Result was given                         *)

channelVars == <<attached, libraryLoaded, alive, reply>>
threadVars == <<pc, step, cacheName, decoding, saved, mainQueue>>
diskVars == <<cache, files>>
vars == <<channelVars, threadVars, diskVars, now>>

Block == 1..Chunks
Native == 1..Frames         (* frame_%08d.png, by the decoder's frame number    *)
SdkFrame == 0               (* frame_0.png, the fallback's only file            *)
File == Native \cup {SdkFrame}

Broken == "broken"          (* a file that holds no decodable image             *)
Garbled == "garbled"        (* blocks of two downloads, or a hole               *)

Frame == [file : File, sized : BOOLEAN]
Success(frames) == [kind |-> "success", frames |-> frames]
Failure == [kind |-> "error", frames |-> {}]
NotImplemented == [kind |-> "notImplemented", frames |-> {}]
Reply == {Failure, NotImplemented} \cup {Success(fs) : fs \in SUBSET Frame}

ASSUME NoneAssumption == None \notin {Broken, Garbled} /\ None \notin Reply

Thread == {"resolving", "copying", "checking", "native", "fallback", "reporting"}

Init ==
  /\ attached = "no" /\ libraryLoaded = FALSE /\ alive = TRUE
  /\ now = 1
  /\ pc = [c \in Call |-> "idle"]
  /\ step = [c \in Call |-> 0]
  /\ cacheName = [c \in Call |-> None]
  /\ cache = [t \in 1..Millis |-> [b \in Block |-> None]]
  /\ decoding = [c \in Call |-> None]
  /\ saved = [c \in Call |-> {}]
  /\ files = [d \in Dir |-> [f \in File |-> None]]
  /\ mainQueue = <<>>
  /\ reply = [c \in Call |-> None]

-----------------------------------------------------------------------------
OnAttachedToEngine ==
  /\ alive /\ attached = "no"
  /\ attached' = "yes"
  /\ libraryLoaded' \in BOOLEAN
  /\ UNCHANGED <<alive, reply, threadVars, diskVars, now>>

OnDetachedFromEngine ==
  /\ alive /\ attached = "yes"
  /\ attached' = "detached"
  /\ UNCHANGED <<libraryLoaded, alive, reply, threadVars, diskVars, now>>

(* The wall clock moves on, or is set back.                                   *)
Tick ==
  /\ alive
  /\ now' \in (1..Millis) \ {now}
  /\ UNCHANGED <<channelVars, threadVars, diskVars>>

(* The platform thread refuses a call at once or hands it to a thread.        *)
OnMethodCall(c) ==
  /\ alive /\ attached = "yes" /\ pc[c] = "idle"
  /\ pc' = [pc EXCEPT ![c] = IF c \in Foreign \cup Malformed THEN "done" ELSE "resolving"]
  /\ reply' = [reply EXCEPT ![c] =
       IF c \in Foreign THEN NotImplemented ELSE IF c \in Malformed THEN Failure ELSE @]
  /\ UNCHANGED <<attached, libraryLoaded, alive, step, cacheName, decoding, saved,
                 mainQueue, diskVars, now>>

-----------------------------------------------------------------------------
At(c, places) == alive /\ pc[c] \in places
Goto(c, place) == pc' = [pc EXCEPT ![c] = place]

(* postSuccess and postError: the thread's last act.                          *)
Post(c, r) ==
  /\ mainQueue' = Append(mainQueue, [call |-> c, result |-> r])
  /\ Goto(c, "done")

(* resolveInput of a path; the check that it exists comes next.               *)
ResolvePath(c) ==
  /\ At(c, {"resolving"}) /\ Input[c] \notin Url
  /\ Goto(c, "checking")
  /\ UNCHANGED <<channelVars, diskVars, now, step, cacheName, decoding, saved, mainQueue>>

(* downloadToCache names the file by the clock, and opening it truncates it.  *)
OpenDownload(c) ==
  /\ At(c, {"resolving"}) /\ Input[c] \in Url
  /\ cacheName' = [cacheName EXCEPT ![c] = now]
  /\ cache' = [cache EXCEPT ![now] = [b \in Block |-> None]]
  /\ Goto(c, "copying")
  /\ UNCHANGED <<channelVars, now, files, step, decoding, saved, mainQueue>>

CopyBlock(c) ==
  /\ At(c, {"copying"}) /\ step[c] < Chunks
  /\ step' = [step EXCEPT ![c] = @ + 1]
  /\ cache' = [cache EXCEPT ![cacheName[c]][step[c] + 1] = Input[c]]
  /\ UNCHANGED <<channelVars, now, files, pc, cacheName, decoding, saved, mainQueue>>

(* The stream ends.  A body without a declared length that is cut short ends  *)
(* the same way, and is then all that this server has sent of its image.      *)
CloseDownload(c) ==
  /\ At(c, {"copying"}) /\ step[c] = Chunks
  /\ step' = [step EXCEPT ![c] = 0]
  /\ Goto(c, "checking")
  /\ UNCHANGED <<channelVars, diskVars, now, cacheName, decoding, saved, mainQueue>>

(* Any exception of the download ends the call; the partial file stays.       *)
DownloadFails(c) ==
  /\ At(c, {"resolving", "copying"}) /\ Input[c] \in Url
  /\ Post(c, Failure)
  /\ UNCHANGED <<channelVars, diskVars, now, step, cacheName, decoding, saved>>

(* The image a thread finds at its local path.                                *)
ImageAt(c) ==
  IF Input[c] \notin Url THEN Input[c]
  ELSE LET blocks == cache[cacheName[c]] IN
       IF \A b \in Block : blocks[b] = blocks[1] /\ blocks[1] # None
       THEN blocks[1] ELSE Garbled

(* Mutant: the error of an input that does not exist is only logged.          *)
CheckInputSilently(c) ==
  /\ At(c, {"checking"})
  /\ Goto(c, IF Input[c] \in Missing THEN "done" ELSE
             IF libraryLoaded THEN "native" ELSE "fallback")
  /\ UNCHANGED <<channelVars, diskVars, now, step, cacheName, decoding, saved, mainQueue>>

CheckInput(c) ==
  /\ At(c, {"checking"})
  /\ IF Input[c] \in Missing
     THEN Post(c, Failure)
     ELSE Goto(c, IF libraryLoaded THEN "native" ELSE "fallback") /\ UNCHANGED mainQueue
  /\ UNCHANGED <<channelVars, diskVars, now, step, cacheName, decoding, saved>>

-----------------------------------------------------------------------------
(* decodeWebPNative reads the whole input before the first frame.             *)
NativeRead(c) ==
  /\ At(c, {"native"}) /\ decoding[c] = None
  /\ decoding' = [decoding EXCEPT ![c] = ImageAt(c)]
  /\ UNCHANGED <<channelVars, diskVars, now, pc, step, cacheName, saved, mainQueue>>

(* Mutant: a frame is listed even when it could not be saved.                 *)
NativeFrameListed(c) ==
  /\ At(c, {"native"}) /\ decoding[c] # None /\ step[c] < Frames
  /\ step' = [step EXCEPT ![c] = @ + 1]
  /\ \E holds \in {decoding[c], Broken} :
       files' = [files EXCEPT ![Output[c]][step[c] + 1] = holds]
  /\ saved' = [saved EXCEPT ![c] = @ \cup {[file |-> step[c] + 1, sized |-> TRUE]}]
  /\ UNCHANGED <<channelVars, now, cache, pc, cacheName, decoding, mainQueue>>

(* Mutant: the frame is numbered one too high.                                *)
NativeFrameOffByOne(c) ==
  /\ At(c, {"native"}) /\ decoding[c] # None /\ step[c] < Frames
  /\ step' = [step EXCEPT ![c] = @ + 1]
  /\ saved' = [saved EXCEPT ![c] = @ \cup {[file |-> step[c] + 2, sized |-> TRUE]}]
  /\ UNCHANGED <<channelVars, now, diskVars, pc, cacheName, decoding, mainQueue>>

(* One round of its loop: the frame is saved and listed, or fails to save and *)
(* leaves a broken file, or fails to decode and leaves no file.               *)
NativeFrame(c) ==
  /\ At(c, {"native"}) /\ decoding[c] # None /\ step[c] < Frames
  /\ step' = [step EXCEPT ![c] = @ + 1]
  /\ LET i == step[c] + 1 IN
     \/ /\ files' = [files EXCEPT ![Output[c]][i] = decoding[c]]
        /\ saved' = [saved EXCEPT ![c] = @ \cup {[file |-> i, sized |-> TRUE]}]
     \/ /\ files' = [files EXCEPT ![Output[c]][i] = Broken]
        /\ UNCHANGED saved
     \/ UNCHANGED <<files, saved>>
  /\ UNCHANGED <<channelVars, now, cache, pc, cacheName, decoding, mainQueue>>

(* Mutant: no return after the post, so the fallback replies as well.         *)
NativeReturnsAndFallsThrough(c) ==
  /\ At(c, {"native"}) /\ decoding[c] # None /\ step[c] = Frames
  /\ IF saved[c] # {}
     THEN mainQueue' = Append(mainQueue, [call |-> c, result |-> Success(saved[c])])
     ELSE UNCHANGED mainQueue
  /\ Goto(c, "fallback")
  /\ UNCHANGED <<channelVars, diskVars, now, step, cacheName, decoding, saved>>

NativeReturns(c) ==
  /\ At(c, {"native"}) /\ decoding[c] # None /\ step[c] = Frames
  /\ IF saved[c] # {}
     THEN Post(c, Success(saved[c]))
     ELSE Goto(c, "fallback") /\ UNCHANGED mainQueue
  /\ UNCHANGED <<channelVars, diskVars, now, step, cacheName, decoding, saved>>

(* It finds no animation in the input, or an Exception is pending when it     *)
(* returns: frames it has saved are not reported.                             *)
NativeGivesUp(c) ==
  /\ At(c, {"native"}) /\ decoding[c] # None
  /\ Goto(c, "fallback")
  /\ saved' = [saved EXCEPT ![c] = {}]
  /\ UNCHANGED <<channelVars, diskVars, now, step, cacheName, decoding, mainQueue>>

-----------------------------------------------------------------------------
(* decodeWebPWithAndroidSDK: the first frame only.  The result of compress is *)
(* ignored, so the file may hold nothing and is listed all the same.          *)
FallbackSaves(c) ==
  /\ At(c, {"fallback"})
  /\ \E holds \in {ImageAt(c), Broken} :
       files' = [files EXCEPT ![Output[c]][SdkFrame] = holds]
  /\ Goto(c, "reporting")
  /\ UNCHANGED <<channelVars, cache, now, step, cacheName, decoding, saved, mainQueue>>

(* The input or the output file cannot be opened, or the SDK reads no image.  *)
FallbackFails(c) ==
  /\ At(c, {"fallback"})
  /\ Post(c, Failure)
  /\ UNCHANGED <<channelVars, diskVars, now, step, cacheName, decoding, saved>>

(* The width and the height are read back from the file, 0 if that fails.     *)
FallbackReports(c) ==
  /\ At(c, {"reporting"})
  /\ Post(c, Success({[file |-> SdkFrame,
                       sized |-> files[Output[c]][SdkFrame] # Broken]}))
  /\ UNCHANGED <<channelVars, diskVars, now, step, cacheName, decoding, saved>>

(* catch (e: Exception) lets an Error through (a missing native symbol, no    *)
(* memory for a buffer or a bitmap), and the process dies.                    *)
UncaughtError(c) ==
  /\ At(c, Thread)
  /\ alive' = FALSE
  /\ UNCHANGED <<attached, libraryLoaded, reply, threadVars, diskVars, now>>

(* What a thread does when the server lets it: connect, read, see the end, or *)
(* get an exception.  Nothing bounds the wait for it.                         *)
NetworkStep(c) ==
  OpenDownload(c) \/ CopyBlock(c) \/ CloseDownload(c) \/ DownloadFails(c)

(* What a thread does by itself.                                              *)
LocalStep(c) ==
  \/ ResolvePath(c) \/ CheckInput(c)
  \/ NativeRead(c) \/ NativeFrame(c) \/ NativeReturns(c) \/ NativeGivesUp(c)
  \/ FallbackSaves(c) \/ FallbackFails(c) \/ FallbackReports(c)

ThreadStep(c) == NetworkStep(c) \/ LocalStep(c) \/ UncaughtError(c)

(* The main looper runs the oldest runnable.  After a detach nobody listens   *)
(* at the other end of the messenger.                                         *)
RunOnMain ==
  /\ alive /\ mainQueue # <<>>
  /\ mainQueue' = Tail(mainQueue)
  /\ reply' = IF attached = "yes"
              THEN [reply EXCEPT ![Head(mainQueue).call] = Head(mainQueue).result]
              ELSE reply
  /\ UNCHANGED <<attached, libraryLoaded, alive, pc, step, cacheName, decoding, saved,
                 diskVars, now>>

Next ==
  \/ OnAttachedToEngine \/ OnDetachedFromEngine \/ Tick \/ RunOnMain
  \/ \E c \in Call : OnMethodCall(c) \/ ThreadStep(c)

Spec == Init /\ [][Next]_vars

(* Threads are scheduled and the main looper runs.  Nothing is promised of a  *)
(* server: the connection has no timeout, so connect and each read may wait   *)
(* for ever.                                                                  *)
Fairness ==
  /\ \A c \in Call : WF_vars(LocalStep(c))
  /\ WF_vars(RunOnMain)

FairSpec == Spec /\ Fairness

-----------------------------------------------------------------------------
TypeOK ==
  /\ attached \in {"no", "yes", "detached"}
  /\ libraryLoaded \in BOOLEAN /\ alive \in BOOLEAN
  /\ now \in 1..Millis
  /\ pc \in [Call -> {"idle", "done"} \cup Thread]
  /\ step \in [Call -> Nat]
  /\ cacheName \in [Call -> 1..Millis \cup {None}]
  /\ cache \in [1..Millis -> [Block -> Url \cup {None}]]
  /\ decoding \in [Call -> Source \cup {None, Garbled}]
  /\ \A c \in Call : saved[c] \subseteq Frame /\ reply[c] \in Reply \cup {None}
  /\ files \in [Dir -> [File -> Source \cup {None, Garbled, Broken}]]
  /\ \A i \in 1..Len(mainQueue) : mainQueue[i] \in [call : Call, result : Reply]

(* invokeMethod gets one reply to each call and no second one, whichever way  *)
(* the thread ends: native frames, fallback, error (lines 61-127).            *)
R == INSTANCE ReplyOnce WITH asked <- {c \in Call : pc[c] # "idle"}, NoReply <- None
AnsweredOnce == R!Spec

Decoded(c) == reply[c] # None /\ reply[c].kind = "success"

(* Only the output directory and the name of the cache file can be shared.    *)
Alone(c) ==
  \A d \in Call \ {c} :
    /\ Output[d] # Output[c]
    /\ cacheName[d] # None => cacheName[d] # cacheName[c]

(* What a listed frame promises of its file: the image of the call's own      *)
(* input, or, if it is listed without a size, a file that holds none.         *)
HoldsOwn(c, f) == files[Output[c]][f.file] = IF f.sized THEN Input[c] ELSE Broken

(* A call that shares neither its directory nor the millisecond of its        *)
(* download is never answered with another call's image or with none at all:  *)
(* each listed file holds its own input, now and ever after.  The one         *)
(* exception is frame_0.png after a compress that failed (line 176), which is *)
(* listed alone and with sizes of 0 (lines 61-127 and 145-187).               *)
OwnFrames ==
  \A c \in Call : Decoded(c) /\ Alone(c) =>
    /\ reply[c].frames # {}
    /\ \A f \in reply[c].frames : HoldsOwn(c, f)
    /\ \/ \A f \in reply[c].frames : f.sized
       \/ reply[c].frames = {[file |-> SdkFrame, sized |-> FALSE]}

(* The thread waits for its server, before or after the first byte.           *)
WaitsForServer(c) == pc[c] \in {"resolving", "copying"} /\ Input[c] \in Url

(* Every call is answered, whatever becomes of the other calls and their      *)
(* servers, unless its own server keeps it waiting for ever, the process dies *)
(* or the engine goes away (lines 61-127 and 189-199).                        *)
EveryCallIsAnswered ==
  \A c \in Call :
    pc[c] # "idle" ~>
      reply[c] # None \/ []WaitsForServer(c) \/ ~alive \/ attached = "detached"

(* "the frame lists, in the order of the inputs" (webp_extractor.dart, line   *)
(* 107): the files listed for an input hold that input.                       *)
ListedForItsInput ==
  \A c \in Call : Decoded(c) => \A f \in reply[c].frames : HoldsOwn(c, f)

(* "download the network WebP to the cache and return the local path" (line   *)
(* 144): what is at that path when the thread goes on is what it downloaded.  *)
DownloadIsOwn ==
  \A c \in Call : pc[c] = "checking" /\ Input[c] \in Url => ImageAt(c) = Input[c]
=============================================================================
