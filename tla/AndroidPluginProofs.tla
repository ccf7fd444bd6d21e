------------------------- MODULE AndroidPluginProofs -------------------------
(***************************************************************************)
(* The Android plugin for any calls, images, directories and clock: it     *)
(* keeps the contract of the method channel, and a call that shares no     *)
(* file with another one gets its own image.                               *)
(***************************************************************************)
EXTENDS AndroidPlugin, SequenceTheorems, TLAPS

Posted == [call : Call, result : Reply]

Types ==
  /\ attached \in {"no", "yes", "detached"}
  /\ libraryLoaded \in BOOLEAN /\ alive \in BOOLEAN
  /\ now \in 1..Millis
  /\ pc \in [Call -> {"idle", "done"} \cup Thread]
  /\ step \in [Call -> Nat]
  /\ cacheName \in [Call -> 1..Millis \cup {None}]
  /\ cache \in [1..Millis -> [Block -> Url \cup {None}]]
  /\ decoding \in [Call -> Source \cup {None, Garbled}]
  /\ saved \in [Call -> SUBSET Frame]
  /\ reply \in [Call -> Reply \cup {None}]
  /\ files \in [Dir -> [File -> Source \cup {None, Garbled, Broken}]]
  /\ mainQueue \in Seq(Posted)

(* What a thread has done by the time it is at a place.                       *)
ThreadAt(c) ==
  /\ pc[c] \in {"idle", "resolving"} => cacheName[c] = None
  /\ pc[c] \in {"idle", "resolving", "checking"} => step[c] = 0
  /\ pc[c] \in {"idle", "resolving", "copying", "checking"} =>
       saved[c] = {} /\ decoding[c] = None
  /\ pc[c] = "copying" => Input[c] \in Url /\ step[c] <= Chunks
  /\ pc[c] \in {"copying", "checking", "native", "fallback", "reporting"} =>
       (Input[c] \in Url => cacheName[c] \in 1..Millis)
  /\ pc[c] = "native" =>
       /\ step[c] <= Frames
       /\ \A f \in saved[c] : f.file \in 1..step[c] /\ f.sized
  /\ pc[c] \in {"fallback", "reporting"} => saved[c] = {}

(* A reply is on its way at most once, to a call that has none yet and whose  *)
(* thread has ended.                                                          *)
OneReply ==
  /\ \A c \in Call : pc[c] # "done" => reply[c] = None
  /\ \A i \in 1..Len(mainQueue) :
       pc[mainQueue[i].call] = "done" /\ reply[mainQueue[i].call] = None
  /\ \A i, j \in 1..Len(mainQueue) : mainQueue[i].call = mainQueue[j].call => i = j

PluginInv == Types /\ (\A c \in Call : ThreadAt(c)) /\ OneReply

USE DEF channelVars, threadVars, diskVars, vars

-----------------------------------------------------------------------------
LEMMA PluginInit == Init => PluginInv
<1> SUFFICES ASSUME Init PROVE PluginInv
  OBVIOUS
<1>1. Types
  <2>1. mainQueue \in Seq(Posted) /\ now \in 1..Millis /\ pc \in [Call -> {"idle"}]
    BY PluginAssumption DEF Init
  <2> QED BY <2>1 DEF Init, Types
<1>2. mainQueue = <<>> /\ Len(mainQueue) = 0
  BY DEF Init
<1>3. OneReply
  BY <1>2 DEF Init, OneReply
<1>4. \A c \in Call : ThreadAt(c)
  BY DEF Init, ThreadAt
<1> QED BY <1>1, <1>3, <1>4 DEF PluginInv

(* A call's thread ends by posting one reply.                                 *)
LEMMA PostStep ==
  ASSUME PluginInv, NEW c \in Call, NEW r \in Reply, pc[c] # "done", pc[c] # "idle",
         Post(c, r), UNCHANGED reply
  PROVE  /\ pc' = [pc EXCEPT ![c] = "done"] /\ mainQueue' \in Seq(Posted)
         /\ OneReply'
<1>1. [call |-> c, result |-> r] \in Posted
  BY DEF Posted
<1>2. /\ mainQueue \in Seq(Posted) /\ pc \in [Call -> {"idle", "done"} \cup Thread]
      /\ \A i \in 1..Len(mainQueue) : mainQueue[i] \in Posted
  BY DEF PluginInv, Types
<1>3. pc' = [pc EXCEPT ![c] = "done"] /\ mainQueue' \in Seq(Posted)
  BY <1>1, <1>2 DEF Post, Goto
<1>4. /\ Len(mainQueue') = Len(mainQueue) + 1
      /\ \A i \in 1..Len(mainQueue) : mainQueue'[i] = mainQueue[i]
      /\ mainQueue'[Len(mainQueue) + 1].call = c
  BY <1>1, <1>2 DEF Post
<1>5. \A i \in 1..Len(mainQueue) : mainQueue[i].call # c /\ mainQueue[i].call \in Call
  BY <1>2 DEF PluginInv, OneReply, Posted
<1>6. reply[c] = None
  BY DEF PluginInv, OneReply
<1>7. \A i \in 1..Len(mainQueue') :
        \/ i \in 1..Len(mainQueue)
        \/ i = Len(mainQueue) + 1
  BY <1>2, <1>4
<1>8. \A d \in Call : pc'[d] # "done" => reply'[d] = None
  BY <1>2, <1>3 DEF PluginInv, OneReply
<1>9. \A i \in 1..Len(mainQueue') :
        pc'[mainQueue'[i].call] = "done" /\ reply'[mainQueue'[i].call] = None
  BY <1>2, <1>3, <1>4, <1>5, <1>6, <1>7 DEF PluginInv, OneReply
<1>10. \A i, j \in 1..Len(mainQueue') : mainQueue'[i].call = mainQueue'[j].call => i = j
  BY <1>2, <1>4, <1>5, <1>7 DEF PluginInv, OneReply
<1> QED BY <1>3, <1>8, <1>9, <1>10 DEF OneReply

-----------------------------------------------------------------------------
(* A step of thread c that stays within the thread: nothing is posted, and    *)
(* the other threads are where they were.                                     *)
LEMMA WorkStep ==
  ASSUME PluginInv, NEW c \in Call, NEW place \in Thread, pc[c] \in Thread,
         pc' = [pc EXCEPT ![c] = place], UNCHANGED <<channelVars, mainQueue, now>>,
         step' \in [Call -> Nat], cacheName' \in [Call -> 1..Millis \cup {None}],
         cache' \in [1..Millis -> [Block -> Url \cup {None}]],
         decoding' \in [Call -> Source \cup {None, Garbled}],
         saved' \in [Call -> SUBSET Frame],
         files' \in [Dir -> [File -> Source \cup {None, Garbled, Broken}]],
         \A d \in Call \ {c} : /\ step'[d] = step[d] /\ cacheName'[d] = cacheName[d]
                               /\ decoding'[d] = decoding[d] /\ saved'[d] = saved[d],
         ThreadAt(c)'
  PROVE  PluginInv'
<1>1. pc \in [Call -> {"idle", "done"} \cup Thread] /\ pc[c] # "done" /\ place # "done"
  BY DEF PluginInv, Types, Thread
<1>2. Types'
  BY <1>1 DEF PluginInv, Types
<1>3. \A i \in 1..Len(mainQueue) : mainQueue[i].call \in Call /\ mainQueue[i].call # c
  <2>1. \A i \in 1..Len(mainQueue) : mainQueue[i] \in Posted
    BY DEF PluginInv, Types
  <2> QED BY <1>1, <2>1 DEF PluginInv, Posted, OneReply
<1>4. OneReply'
  BY <1>1, <1>3 DEF PluginInv, OneReply
<1>5. \A d \in Call \ {c} : ThreadAt(d)'
  BY <1>1 DEF PluginInv, ThreadAt
<1> QED BY <1>2, <1>4, <1>5 DEF PluginInv

(* A step of thread c that ends it.                                           *)
LEMMA EndStep ==
  ASSUME PluginInv, NEW c \in Call, pc[c] \in Thread, NEW r \in Reply, Post(c, r),
         UNCHANGED <<channelVars, diskVars, now, step, cacheName, decoding, saved>>
  PROVE  PluginInv'
<1>1. pc \in [Call -> {"idle", "done"} \cup Thread] /\ pc[c] \notin {"idle", "done"}
  BY DEF PluginInv, Types, Thread
<1>2. pc' = [pc EXCEPT ![c] = "done"] /\ mainQueue' \in Seq(Posted) /\ OneReply'
  BY <1>1, PostStep
<1>3. Types'
  BY <1>1, <1>2 DEF PluginInv, Types
<1>4. \A d \in Call : ThreadAt(d)'
  BY <1>1, <1>2 DEF PluginInv, ThreadAt
<1> QED BY <1>2, <1>3, <1>4 DEF PluginInv

-----------------------------------------------------------------------------
(* The image at a thread's path, once it has one.                             *)
LEMMA ImageThere ==
  ASSUME PluginInv, NEW c \in Call, pc[c] \in {"checking", "native", "fallback"}
  PROVE  ImageAt(c) \in Source \cup {Garbled}
<1>1. CASE Input[c] \notin Url
  BY <1>1, PluginAssumption DEF ImageAt
<1>2. CASE Input[c] \in Url
  <2>1. cacheName[c] \in 1..Millis /\ 1 \in Block
    BY <1>2, PluginAssumption DEF PluginInv, ThreadAt, Block
  <2>2. cache[cacheName[c]][1] \in Url \cup {None}
    BY <2>1 DEF PluginInv, Types
  <2> QED BY <1>2, <2>1, <2>2, PluginAssumption DEF ImageAt
<1> QED BY <1>1, <1>2

LEMMA NetworkNext ==
  ASSUME PluginInv, NEW c \in Call, ResolvePath(c) \/ NetworkStep(c)
  PROVE  PluginInv'
<1> USE DEF PluginInv, Types, ThreadAt, At, Goto
<1>1. CASE ResolvePath(c)
  <2>1. pc' = [pc EXCEPT ![c] = "checking"] /\ pc[c] = "resolving" /\ Input[c] \notin Url
    BY <1>1 DEF ResolvePath
  <2>2. ThreadAt(c)'
    BY <1>1, <2>1 DEF ResolvePath
  <2> QED BY <1>1, <2>1, <2>2, WorkStep DEF ResolvePath, Thread
<1>2. CASE OpenDownload(c)
  <2>1. pc' = [pc EXCEPT ![c] = "copying"] /\ pc[c] = "resolving" /\ Input[c] \in Url
    BY <1>2 DEF OpenDownload
  <2>2. cacheName' = [cacheName EXCEPT ![c] = now] /\ now \in 1..Millis
    BY <1>2 DEF OpenDownload
  <2>3. cache' \in [1..Millis -> [Block -> Url \cup {None}]]
    BY <1>2 DEF OpenDownload
  <2>4. ThreadAt(c)'
    BY <1>2, <2>1, <2>2, PluginAssumption DEF OpenDownload
  <2>5. cacheName' \in [Call -> 1..Millis \cup {None}]
    BY <2>2
  <2> HIDE DEF PluginInv, Types, ThreadAt
  <2>6. UNCHANGED <<channelVars, mainQueue, now, files, step, decoding, saved>>
    BY <1>2 DEF OpenDownload
  <2>7. \A d \in Call \ {c} : cacheName'[d] = cacheName[d]
    BY <2>2 DEF PluginInv, Types
  <2> QED BY <2>1, <2>3, <2>4, <2>5, <2>6, <2>7, WorkStep DEF PluginInv, Types, Thread
<1>3. CASE CopyBlock(c)
  <2>1. pc' = [pc EXCEPT ![c] = "copying"] /\ pc[c] = "copying" /\ Input[c] \in Url
    BY <1>3 DEF CopyBlock
  <2>2. /\ step[c] + 1 \in Block /\ step[c] + 1 <= Chunks
        /\ step' = [step EXCEPT ![c] = @ + 1]
    BY <1>3, PluginAssumption DEF CopyBlock, Block
  <2>3. cache' \in [1..Millis -> [Block -> Url \cup {None}]]
    BY <1>3, <2>1, <2>2 DEF CopyBlock
  <2>4. ThreadAt(c)'
    BY <1>3, <2>1, <2>2 DEF CopyBlock
  <2> HIDE DEF PluginInv, Types, ThreadAt
  <2>5. step' \in [Call -> Nat] /\ \A d \in Call \ {c} : step'[d] = step[d]
    BY <2>2 DEF PluginInv, Types
  <2>6. UNCHANGED <<channelVars, mainQueue, now, files, cacheName, decoding, saved>>
    BY <1>3 DEF CopyBlock
  <2>7. pc' = [pc EXCEPT ![c] = "copying"]
    BY <1>3, <2>1 DEF CopyBlock, PluginInv, Types
  <2> QED BY <2>1, <2>3, <2>4, <2>5, <2>6, <2>7, WorkStep DEF PluginInv, Types, Thread
<1>4. CASE CloseDownload(c)
  <2>1. pc' = [pc EXCEPT ![c] = "checking"] /\ pc[c] = "copying"
    BY <1>4 DEF CloseDownload
  <2>2. ThreadAt(c)'
    BY <1>4, <2>1 DEF CloseDownload
  <2> QED BY <1>4, <2>1, <2>2, WorkStep DEF CloseDownload, Thread
<1>5. CASE DownloadFails(c)
  BY <1>5, EndStep DEF DownloadFails, Thread, Reply
<1> QED BY <1>1, <1>2, <1>3, <1>4, <1>5 DEF NetworkStep

LEMMA CheckNext == ASSUME PluginInv, NEW c \in Call, CheckInput(c) PROVE PluginInv'
<1>1. pc[c] = "checking"
  BY DEF CheckInput, At
<1>2. CASE Input[c] \in Missing
  BY <1>1, <1>2, EndStep DEF CheckInput, Thread, Reply
<1>3. CASE Input[c] \notin Missing
  <2>1. PICK place \in {"native", "fallback"} : pc' = [pc EXCEPT ![c] = place]
    BY <1>3 DEF CheckInput, Goto
  <2>2. UNCHANGED <<channelVars, diskVars, now, step, cacheName, decoding, saved,
                    mainQueue>>
    BY <1>3 DEF CheckInput
  <2>3. ThreadAt(c)'
    BY <1>1, <2>1, <2>2, PluginAssumption DEF PluginInv, Types, ThreadAt
  <2> QED BY <1>1, <2>1, <2>2, <2>3, WorkStep DEF PluginInv, Types, Thread
<1> QED BY <1>2, <1>3

LEMMA NativeNext ==
  ASSUME PluginInv, NEW c \in Call,
         NativeRead(c) \/ NativeFrame(c) \/ NativeReturns(c) \/ NativeGivesUp(c)
  PROVE  PluginInv'
<1>1. /\ pc[c] = "native" /\ pc \in [Call -> {"idle", "done"} \cup Thread]
      /\ pc = [pc EXCEPT ![c] = "native"]
  BY DEF NativeRead, NativeFrame, NativeReturns, NativeGivesUp, At, PluginInv, Types
<1>2. CASE NativeRead(c)
  <2>1. decoding' \in [Call -> Source \cup {None, Garbled}]
    BY <1>1, <1>2, ImageThere DEF NativeRead, PluginInv, Types
  <2>2. \A d \in Call \ {c} : decoding'[d] = decoding[d]
    BY <1>2 DEF NativeRead, PluginInv, Types
  <2>3. UNCHANGED <<channelVars, diskVars, now, pc, step, cacheName, saved, mainQueue>>
    BY <1>2 DEF NativeRead
  <2>4. ThreadAt(c)'
    BY <1>1, <2>3 DEF PluginInv, ThreadAt
  <2> QED BY <1>1, <2>1, <2>2, <2>3, <2>4, WorkStep DEF PluginInv, Types, Thread
<1>3. CASE NativeFrame(c)
  <2> DEFINE i == step[c] + 1
  <2> DEFINE listed == [file |-> i, sized |-> TRUE]
  <2>1. i \in Nat /\ i \in File /\ i <= Frames /\ listed \in Frame
    <3>1. step[c] \in Nat /\ step[c] < Frames /\ Frames \in Nat
      BY <1>3, PluginAssumption DEF NativeFrame, PluginInv, Types
    <3>2. i \in Nat /\ i \in 1..Frames /\ i <= Frames
      BY <3>1
    <3> QED BY <3>2 DEF File, Native, Frame
  <2>2. step' = [step EXCEPT ![c] = i] /\ step' \in [Call -> Nat]
    BY <1>3 DEF NativeFrame, PluginInv, Types
  <2>3. UNCHANGED <<channelVars, now, cache, pc, cacheName, decoding, mainQueue>>
    BY <1>3 DEF NativeFrame
  <2>4. files' \in [Dir -> [File -> Source \cup {None, Garbled, Broken}]]
    <3>1. decoding[c] \in Source \cup {None, Garbled} /\ Output[c] \in Dir
      BY PluginAssumption DEF PluginInv, Types
    <3>2. PICK holds \in {decoding[c], Broken} :
            files' = files \/ files' = [files EXCEPT ![Output[c]][i] = holds]
      BY <1>3 DEF NativeFrame
    <3>3. holds \in Source \cup {None, Garbled, Broken}
      BY <3>1, <3>2
    <3> HIDE DEF i
    <3>4. files \in [Dir -> [File -> Source \cup {None, Garbled, Broken}]]
      BY DEF PluginInv, Types
    <3> QED BY <2>1, <3>1, <3>2, <3>3, <3>4
  <2>5. \/ saved' = saved
        \/ saved' = [saved EXCEPT ![c] = @ \cup {listed}]
    BY <1>3 DEF NativeFrame
  <2>6. /\ saved' \in [Call -> SUBSET Frame]
        /\ saved'[c] \subseteq saved[c] \cup {listed}
        /\ \A d \in Call \ {c} : saved'[d] = saved[d] /\ step'[d] = step[d]
    <3> HIDE DEF i, listed
    <3>1. saved \in [Call -> SUBSET Frame] /\ step \in [Call -> Nat]
      BY DEF PluginInv, Types
    <3>2. \A d \in Call \ {c} : step'[d] = step[d]
      BY <2>2, <3>1
    <3>3. CASE saved' = saved
      BY <3>1, <3>2, <3>3
    <3>4. CASE saved' = [saved EXCEPT ![c] = @ \cup {listed}]
      BY <2>1, <3>1, <3>2, <3>4
    <3> QED BY <2>5, <3>3, <3>4
  <2>7. ThreadAt(c)'
    <3>1. \A f \in saved[c] : f.file \in 1..step[c] /\ f.sized
      BY <1>1 DEF PluginInv, ThreadAt
    <3>2. step'[c] = i /\ step[c] \in Nat
      BY <2>2 DEF PluginInv, Types
    <3>3. \A f \in saved'[c] : f.file \in 1..step'[c] /\ f.sized
      BY <2>6, <3>1, <3>2
    <3> QED BY <1>1, <2>1, <2>3, <3>2, <3>3 DEF PluginInv, ThreadAt
  <2> QED BY <1>1, <2>2, <2>3, <2>4, <2>6, <2>7, WorkStep DEF PluginInv, Types, Thread
<1>4. CASE NativeReturns(c)
  <2>1. CASE saved[c] # {}
    <3>1. Success(saved[c]) \in Reply
      BY DEF Reply, PluginInv, Types
    <3> QED BY <1>1, <1>4, <2>1, <3>1, EndStep DEF NativeReturns, Thread
  <2>2. CASE saved[c] = {}
    <3>1. /\ pc' = [pc EXCEPT ![c] = "fallback"]
          /\ UNCHANGED <<channelVars, diskVars, now, step, cacheName, decoding, saved,
                         mainQueue>>
      BY <1>4, <2>2 DEF NativeReturns, Goto
    <3>2. ThreadAt(c)'
      BY <1>1, <2>2, <3>1 DEF PluginInv, Types, ThreadAt
    <3> QED BY <1>1, <3>1, <3>2, WorkStep DEF PluginInv, Types, Thread
  <2> QED BY <2>1, <2>2
<1>5. CASE NativeGivesUp(c)
  <2>1. /\ pc' = [pc EXCEPT ![c] = "fallback"] /\ saved' = [saved EXCEPT ![c] = {}]
        /\ UNCHANGED <<channelVars, diskVars, now, step, cacheName, decoding, mainQueue>>
    BY <1>5 DEF NativeGivesUp, Goto
  <2>2. saved' \in [Call -> SUBSET Frame] /\ \A d \in Call \ {c} : saved'[d] = saved[d]
    BY <2>1 DEF PluginInv, Types
  <2>3. ThreadAt(c)'
    BY <1>1, <2>1 DEF PluginInv, Types, ThreadAt
  <2> QED BY <1>1, <2>1, <2>2, <2>3, WorkStep DEF PluginInv, Types, Thread
<1> QED BY <1>2, <1>3, <1>4, <1>5

LEMMA FallbackNext ==
  ASSUME PluginInv, NEW c \in Call,
         FallbackSaves(c) \/ FallbackFails(c) \/ FallbackReports(c)
  PROVE  PluginInv'
<1>1. pc[c] \in {"fallback", "reporting"}
  BY DEF FallbackSaves, FallbackFails, FallbackReports, At
<1>2. CASE FallbackSaves(c)
  <2>1. PICK holds \in {ImageAt(c), Broken} :
          files' = [files EXCEPT ![Output[c]][SdkFrame] = holds]
    BY <1>2 DEF FallbackSaves
  <2>2. /\ pc' = [pc EXCEPT ![c] = "reporting"] /\ pc[c] = "fallback"
        /\ UNCHANGED <<channelVars, cache, now, step, cacheName, decoding, saved, mainQueue>>
    BY <1>2 DEF FallbackSaves, Goto, At
  <2>3. files' \in [Dir -> [File -> Source \cup {None, Garbled, Broken}]]
    <3>1. /\ holds \in Source \cup {Garbled, Broken}
          /\ Output[c] \in Dir /\ SdkFrame \in File
      BY <2>1, <2>2, ImageThere, PluginAssumption DEF File
    <3> QED BY <2>1, <3>1 DEF PluginInv, Types
  <2>4. ThreadAt(c)'
    BY <2>2 DEF PluginInv, Types, ThreadAt
  <2> QED BY <2>2, <2>3, <2>4, WorkStep DEF PluginInv, Types, Thread
<1>3. CASE FallbackFails(c)
  BY <1>1, <1>3, EndStep DEF FallbackFails, Thread, Reply
<1>4. CASE FallbackReports(c)
  <2> DEFINE r == Success({[file |-> SdkFrame, sized |-> files[Output[c]][SdkFrame] # Broken]})
  <2>1. r \in Reply
    <3> DEFINE shown == [file |-> SdkFrame, sized |-> files[Output[c]][SdkFrame] # Broken]
    <3>1. shown \in Frame
      BY DEF Frame, File
    <3> HIDE DEF shown
    <3>2. Success({shown}) \in Reply
      BY <3>1 DEF Reply
    <3> QED BY <3>2 DEF shown
  <2> QED BY <1>1, <1>4, <2>1, EndStep DEF FallbackReports, Thread
<1> QED BY <1>2, <1>3, <1>4

-----------------------------------------------------------------------------
LEMMA MethodCallNext == ASSUME PluginInv, NEW c \in Call, OnMethodCall(c) PROVE PluginInv'
<1>1. /\ pc[c] = "idle" /\ reply[c] = None /\ mainQueue' = mainQueue
      /\ UNCHANGED <<step, cacheName, decoding, saved>>
  BY DEF OnMethodCall, PluginInv, OneReply
<1>2. PICK place \in {"done", "resolving"} : pc' = [pc EXCEPT ![c] = place]
  BY DEF OnMethodCall
<1>3. PICK r \in Reply \cup {None} :
        reply' = [reply EXCEPT ![c] = r] /\ (place = "resolving" => r = None)
  <2>1. NotImplemented \in Reply /\ Failure \in Reply
    BY DEF Reply
  <2>2. reply' = [reply EXCEPT ![c] = IF c \in Foreign THEN NotImplemented
                                      ELSE IF c \in Malformed THEN Failure ELSE reply[c]]
    BY DEF OnMethodCall
  <2>3. CASE c \in Foreign
    BY <2>1, <2>2, <2>3, <1>2 DEF OnMethodCall, PluginInv, Types, Thread
  <2>4. CASE c \notin Foreign /\ c \in Malformed
    BY <2>1, <2>2, <2>4, <1>2 DEF OnMethodCall, PluginInv, Types, Thread
  <2>5. CASE c \notin Foreign /\ c \notin Malformed
    BY <1>1, <2>2, <2>5 DEF PluginInv, Types
  <2> QED BY <2>3, <2>4, <2>5
<1>4. Types'
  BY <1>2, <1>3 DEF OnMethodCall, PluginInv, Types, Thread
<1>5. \A d \in Call : ThreadAt(d)'
  BY <1>1, <1>2 DEF PluginInv, Types, ThreadAt
<1>6. OneReply'
  <2>1. \A i \in 1..Len(mainQueue) : mainQueue[i].call \in Call /\ mainQueue[i].call # c
    <3>1. \A i \in 1..Len(mainQueue) : mainQueue[i] \in Posted
      BY DEF PluginInv, Types
    <3> QED BY <1>1, <3>1 DEF PluginInv, Posted, OneReply
  <2>2. /\ pc \in [Call -> {"idle", "done"} \cup Thread]
        /\ reply \in [Call -> Reply \cup {None}]
    BY DEF PluginInv, Types
  <2> QED BY <1>1, <1>2, <1>3, <2>1, <2>2 DEF PluginInv, OneReply
<1> QED BY <1>4, <1>5, <1>6 DEF PluginInv

(* The looper takes the oldest reply.                                         *)
LEMMA OldestPosted ==
  ASSUME PluginInv, mainQueue # <<>>
  PROVE  /\ Head(mainQueue) \in Posted /\ Head(mainQueue) = mainQueue[1]
         /\ Tail(mainQueue) \in Seq(Posted)
         /\ Len(Tail(mainQueue)) = Len(mainQueue) - 1 /\ Len(mainQueue) \in Nat \ {0}
         /\ \A i \in 1..Len(Tail(mainQueue)) :
              /\ i + 1 \in 1..Len(mainQueue) /\ i + 1 # 1
              /\ Tail(mainQueue)[i] = mainQueue[i + 1]
              /\ mainQueue[i + 1] \in Posted
<1>1. mainQueue \in Seq(Posted)
  BY DEF PluginInv, Types
<1> QED BY <1>1

LEMMA RunOnMainNext == PluginInv /\ RunOnMain => PluginInv'
<1> SUFFICES ASSUME PluginInv, RunOnMain PROVE PluginInv'
  OBVIOUS
<1> DEFINE c == Head(mainQueue).call
<1>1. mainQueue # <<>> /\ mainQueue' = Tail(mainQueue)
  BY DEF RunOnMain
<1>2. c \in Call /\ Head(mainQueue).result \in Reply /\ c = mainQueue[1].call
  BY <1>1, OldestPosted DEF Posted
<1>3. /\ pc[c] = "done" /\ reply[c] = None /\ 1 \in 1..Len(mainQueue)
      /\ \A i \in 1..Len(mainQueue) : i # 1 => mainQueue[i].call # c
  BY <1>1, <1>2, OldestPosted DEF PluginInv, OneReply
<1>4. \/ reply' = reply
      \/ reply' = [reply EXCEPT ![c] = Head(mainQueue).result]
  BY DEF RunOnMain
<1> HIDE DEF c
<1>5. UNCHANGED <<attached, libraryLoaded, alive, pc, step, cacheName, decoding, saved,
                  diskVars, now>>
  BY DEF RunOnMain
<1>6. Types'
  BY <1>1, <1>2, <1>4, <1>5, OldestPosted DEF PluginInv, Types
<1>7. \A d \in Call : ThreadAt(d)'
  BY <1>5 DEF PluginInv, ThreadAt
<1>8. OneReply'
  <2>1. \A i \in 1..Len(mainQueue') :
          /\ i + 1 \in 1..Len(mainQueue)
          /\ mainQueue'[i] = mainQueue[i + 1] /\ mainQueue'[i].call # c
          /\ mainQueue'[i].call \in Call
    BY <1>1, <1>3, OldestPosted DEF Posted
  <2>2. \A d \in Call : pc'[d] = pc[d] /\ (d # c => reply'[d] = reply[d])
    BY <1>4, <1>5 DEF PluginInv, Types
  <2>3. \A d \in Call : pc'[d] # "done" => reply'[d] = None
    BY <1>3, <2>2 DEF PluginInv, OneReply
  <2>4. \A i \in 1..Len(mainQueue') :
          pc'[mainQueue'[i].call] = "done" /\ reply'[mainQueue'[i].call] = None
    BY <2>1, <2>2 DEF PluginInv, OneReply
  <2>5. \A i, j \in 1..Len(mainQueue') : mainQueue'[i].call = mainQueue'[j].call => i = j
    <3> SUFFICES ASSUME NEW i \in 1..Len(mainQueue'), NEW j \in 1..Len(mainQueue'),
                        mainQueue'[i].call = mainQueue'[j].call
                 PROVE  i = j
      OBVIOUS
    <3>1. i + 1 = j + 1
      BY <2>1 DEF PluginInv, OneReply
    <3> QED BY <3>1
  <2> QED BY <2>3, <2>4, <2>5 DEF OneReply
<1> QED BY <1>6, <1>7, <1>8 DEF PluginInv

LEMMA PluginNext == PluginInv /\ [Next]_vars => PluginInv'
<1> SUFFICES ASSUME PluginInv, [Next]_vars PROVE PluginInv'
  OBVIOUS
<1>1. CASE OnAttachedToEngine \/ OnDetachedFromEngine \/ Tick
  <2>1. /\ UNCHANGED <<reply, threadVars, diskVars>> /\ alive' \in BOOLEAN
        /\ libraryLoaded' \in BOOLEAN /\ now' \in 1..Millis
        /\ attached' \in {"no", "yes", "detached"}
    BY <1>1 DEF OnAttachedToEngine, OnDetachedFromEngine, Tick, PluginInv, Types
  <2> QED BY <2>1 DEF PluginInv, Types, ThreadAt, OneReply
<1>2. ASSUME NEW c \in Call, ThreadStep(c) PROVE PluginInv'
  <2>1. CASE UncaughtError(c)
    BY <2>1 DEF UncaughtError, PluginInv, Types, ThreadAt, OneReply
  <2> QED BY <1>2, <2>1, NetworkNext, CheckNext, NativeNext, FallbackNext
          DEF ThreadStep, LocalStep
<1>3. CASE UNCHANGED vars
  BY <1>3 DEF PluginInv, Types, ThreadAt, OneReply
<1> QED BY <1>1, <1>2, <1>3, MethodCallNext, RunOnMainNext DEF Next

LEMMA PluginAlways == Spec => []PluginInv
BY PluginInit, PluginNext, PTL DEF Spec

(* Every variable has its type: a thread's block and frame numbers never pass *)
(* the ends of the download and of the animation (lines 61-187).              *)
THEOREM PluginTypeCorrect == Spec => []TypeOK
<1>1. PluginInv => TypeOK
  <2> SUFFICES ASSUME PluginInv PROVE TypeOK
    OBVIOUS
  <2>1. \A i \in 1..Len(mainQueue) : mainQueue[i] \in [call : Call, result : Reply]
    <3>1. \A i \in 1..Len(mainQueue) : mainQueue[i] \in Posted
      BY DEF PluginInv, Types
    <3> QED BY <3>1 DEF Posted
  <2> QED BY <2>1 DEF TypeOK, PluginInv, Types
<1> QED BY <1>1, PluginAlways, PTL

-----------------------------------------------------------------------------
Asked == {c \in Call : pc[c] # "idle"}

(* A step of a thread asks nothing and answers nothing.                       *)
LEMMA ThreadAsksNothing ==
  ASSUME PluginInv, NEW c \in Call, ThreadStep(c)
  PROVE  Asked' = Asked /\ reply' = reply
<1>1. reply' = reply
  BY DEF ThreadStep, NetworkStep, LocalStep, ResolvePath, OpenDownload, CopyBlock,
         CloseDownload, DownloadFails, CheckInput, NativeRead, NativeFrame,
         NativeReturns, NativeGivesUp, FallbackSaves, FallbackFails,
         FallbackReports, UncaughtError
<1>2. pc[c] # "idle" /\ \E place \in Thread \cup {"done"} :
        pc' = pc \/ pc' = [pc EXCEPT ![c] = place]
  BY DEF ThreadStep, NetworkStep, LocalStep, ResolvePath, OpenDownload, CopyBlock,
         CloseDownload, DownloadFails, CheckInput, NativeRead, NativeFrame,
         NativeReturns, NativeGivesUp, FallbackSaves, FallbackFails,
         FallbackReports, UncaughtError, At, Goto, Post, Thread
<1>3. Asked' = Asked
  BY <1>2 DEF Asked, PluginInv, Types, Thread
<1> QED BY <1>1, <1>3

(* invokeMethod gets one reply to each call and no second one, whichever way  *)
(* the thread ends: native frames, fallback, error (lines 61-127).            *)
THEOREM PluginAnswersOnce == Spec => AnsweredOnce
<1>1. Init => R!Init
  BY DEF Init, R!Init
<1>2. ASSUME PluginInv, [Next]_vars PROVE [R!Next]_(R!vars)
  <2>1. CASE OnAttachedToEngine \/ OnDetachedFromEngine \/ Tick \/ UNCHANGED vars
    BY <2>1 DEF OnAttachedToEngine, OnDetachedFromEngine, Tick, R!vars
  <2>2. ASSUME NEW c \in Call, ThreadStep(c) PROVE UNCHANGED R!vars
    BY <1>2, <2>2, ThreadAsksNothing DEF Asked, R!vars
  <2>3. ASSUME NEW c \in Call, OnMethodCall(c) PROVE R!Next
    <3>1. c \notin Asked /\ Asked' = Asked \cup {c} /\ reply[c] = None
      BY <1>2, <2>3 DEF OnMethodCall, Asked, PluginInv, Types, OneReply
    <3>2. NotImplemented \in Reply /\ Failure \in Reply
      BY DEF Reply
    <3>3. CASE c \in Foreign \cup Malformed
      <4>1. PICK r \in Reply : reply' = [reply EXCEPT ![c] = r]
        BY <2>3, <3>2, <3>3 DEF OnMethodCall
      <4> QED BY <3>1, <4>1 DEF Asked, R!Next, R!AskAndAnswer
    <3>4. CASE c \notin Foreign \cup Malformed
      <4>1. reply' = reply
        BY <1>2, <2>3, <3>4 DEF OnMethodCall, PluginInv, Types
      <4> QED BY <3>1, <4>1 DEF Asked, R!Next, R!Ask
    <3> QED BY <3>3, <3>4
  <2>4. CASE RunOnMain
    <3> DEFINE c == Head(mainQueue).call
    <3>1. /\ c \in Call /\ Head(mainQueue).result \in Reply
          /\ pc[c] = "done" /\ reply[c] = None
      BY <1>2, <2>4, OldestPosted DEF RunOnMain, Posted, PluginInv, OneReply
    <3>2. c \in Asked /\ Asked' = Asked
      BY <2>4, <3>1 DEF RunOnMain, Asked
    <3> QED BY <2>4, <3>1, <3>2 DEF RunOnMain, Asked, R!vars, R!Next, R!Answer
  <2> QED BY <1>2, <2>1, <2>2, <2>3, <2>4 DEF Next
<1> QED BY <1>1, <1>2, PluginAlways, PTL DEF Spec, AnsweredOnce, R!Spec

-----------------------------------------------------------------------------
(* A call that shares nothing.                                                *)

(* A reply whose frames are the call's own, when its directory holds dir.     *)
Genuine(c, r, dir) ==
  r.kind = "success" =>
    /\ r.frames # {}
    /\ \A f \in r.frames : dir[f.file] = IF f.sized THEN Input[c] ELSE Broken
    /\ \/ \A f \in r.frames : f.sized
       \/ r.frames = {[file |-> SdkFrame, sized |-> FALSE]}

(* All that is on its way from the input to the reply is the call's own.      *)
Own(c) ==
  /\ pc[c] = "copying" => \A b \in 1..step[c] : cache[cacheName[c]][b] = Input[c]
  /\ pc[c] \in {"checking", "native", "fallback"} /\ Input[c] \in Url =>
       \A b \in Block : cache[cacheName[c]][b] = Input[c]
  /\ decoding[c] \in {None, Input[c]}
  /\ \A f \in saved[c] : files[Output[c]][f.file] = Input[c]
  /\ pc[c] = "reporting" => files[Output[c]][SdkFrame] \in {Input[c], Broken}
  /\ \A i \in 1..Len(mainQueue) :
       mainQueue[i].call = c => Genuine(c, mainQueue[i].result, files[Output[c]])
  /\ reply[c] # None => Genuine(c, reply[c], files[Output[c]])

OwnInv == \A c \in Call : Alone(c) => Own(c)

(* Names of cache files are chosen once, so a call that is alone has always   *)
(* been alone.                                                                *)
LEMMA NamedOnce ==
  ASSUME PluginInv, NEW c \in Call, ThreadStep(c)
  PROVE  \/ cacheName' = cacheName
         \/ cacheName' = [cacheName EXCEPT ![c] = now] /\ cacheName[c] = None
BY DEF ThreadStep, NetworkStep, LocalStep, ResolvePath, OpenDownload, CopyBlock,
       CloseDownload, DownloadFails, CheckInput, NativeRead, NativeFrame,
       NativeReturns, NativeGivesUp, FallbackSaves, FallbackFails,
       FallbackReports, UncaughtError, PluginInv, ThreadAt, At

LEMMA AlwaysAlone ==
  ASSUME PluginInv, [Next]_vars, NEW c \in Call, Alone(c)'
  PROVE  Alone(c)
<1>1. \A d \in Call : cacheName[d] # None => cacheName'[d] = cacheName[d]
  <2>1. CASE \E e \in Call : ThreadStep(e)
    BY <2>1, NamedOnce DEF PluginInv, Types
  <2>2. CASE ~\E e \in Call : ThreadStep(e)
    BY <2>2 DEF Next, OnAttachedToEngine, OnDetachedFromEngine, Tick, RunOnMain,
                OnMethodCall
  <2> QED BY <2>1, <2>2
<1>2. \A d \in Call \ {c} :
        Output[d] # Output[c] /\ (cacheName'[d] # None => cacheName'[d] # cacheName'[c])
  BY DEF Alone
<1>3. \A d \in Call \ {c} : cacheName[d] # None => cacheName[d] # cacheName[c]
  BY <1>1, <1>2
<1> QED BY <1>2, <1>3 DEF Alone

(* What a thread posts.                                                       *)
LEMMA PostsOnce ==
  ASSUME PluginInv, NEW c \in Call, ThreadStep(c)
  PROVE  \/ mainQueue' = mainQueue
         \/ \E r : mainQueue' = Append(mainQueue, [call |-> c, result |-> r])
BY DEF ThreadStep, NetworkStep, LocalStep, ResolvePath, OpenDownload, CopyBlock,
       CloseDownload, DownloadFails, CheckInput, NativeRead, NativeFrame,
       NativeReturns, NativeGivesUp, FallbackSaves, FallbackFails,
       FallbackReports, UncaughtError, Post

LEMMA QueueGrows ==
  ASSUME PluginInv, NEW c, NEW r,
         mainQueue' = Append(mainQueue, [call |-> c, result |-> r])
  PROVE  \A i \in 1..Len(mainQueue') :
           \/ i \in 1..Len(mainQueue) /\ mainQueue'[i] = mainQueue[i]
           \/ mainQueue'[i] = [call |-> c, result |-> r]
BY DEF PluginInv, Types

(* Another thread's step touches nothing of a call that is alone.             *)
LEMMA OthersKeep ==
  ASSUME PluginInv, NEW c \in Call, NEW d \in Call \ {c}, ThreadStep(d), Alone(c)'
  PROVE  /\ pc'[c] = pc[c] /\ step'[c] = step[c] /\ cacheName'[c] = cacheName[c]
         /\ decoding'[c] = decoding[c] /\ saved'[c] = saved[c] /\ reply'[c] = reply[c]
         /\ files'[Output[c]] = files[Output[c]]
         /\ cacheName[c] # None => cache'[cacheName[c]] = cache[cacheName[c]]
<1>1. /\ Output[d] # Output[c] /\ Output[c] \in Dir /\ Output[d] \in Dir
      /\ cacheName'[d] # None => cacheName'[d] # cacheName'[c]
  BY PluginAssumption DEF Alone
<1>2. reply'[c] = reply[c]
  BY ThreadAsksNothing
<1>3. pc'[c] = pc[c] /\ step'[c] = step[c] /\ decoding'[c] = decoding[c]
  BY DEF ThreadStep, NetworkStep, LocalStep, ResolvePath, OpenDownload, CopyBlock,
         CloseDownload, DownloadFails, CheckInput, NativeRead, NativeFrame,
         NativeReturns, NativeGivesUp, FallbackSaves, FallbackFails,
         FallbackReports, UncaughtError, Goto, Post, PluginInv, Types
<1>4. saved'[c] = saved[c]
  BY DEF ThreadStep, NetworkStep, LocalStep, ResolvePath, OpenDownload, CopyBlock,
         CloseDownload, DownloadFails, CheckInput, NativeRead, NativeFrame,
         NativeReturns, NativeGivesUp, FallbackSaves, FallbackFails,
         FallbackReports, UncaughtError, PluginInv, Types
<1>5. cacheName'[c] = cacheName[c]
  BY NamedOnce DEF PluginInv, Types
<1>6. files'[Output[c]] = files[Output[c]]
  BY <1>1 DEF ThreadStep, NetworkStep, LocalStep, ResolvePath, OpenDownload,
              CopyBlock, CloseDownload, DownloadFails, CheckInput, NativeRead,
              NativeFrame, NativeReturns, NativeGivesUp, FallbackSaves,
              FallbackFails, FallbackReports, UncaughtError, PluginInv, Types
<1>7. ASSUME cacheName[c] # None PROVE cache'[cacheName[c]] = cache[cacheName[c]]
  <2>1. CASE OpenDownload(d)
    <3>1. /\ cacheName'[d] = now /\ now # None
          /\ cache' = [cache EXCEPT ![now] = [b \in Block |-> None]]
      BY <2>1, PluginAssumption DEF OpenDownload, PluginInv, Types
    <3> QED BY <1>1, <1>5, <1>7, <3>1 DEF PluginInv, Types
  <2>2. CASE CopyBlock(d)
    <3>1. cacheName' = cacheName /\ cacheName[d] # None
      BY <2>2, PluginAssumption DEF CopyBlock, At, PluginInv, ThreadAt
    <3>2. cache' = [cache EXCEPT ![cacheName[d]][step[d] + 1] = Input[d]]
      BY <2>2 DEF CopyBlock
    <3> QED BY <1>1, <1>5, <1>7, <3>1, <3>2 DEF PluginInv, Types
  <2>3. CASE ~OpenDownload(d) /\ ~CopyBlock(d)
    BY <2>3 DEF ThreadStep, NetworkStep, LocalStep, ResolvePath, CloseDownload,
                DownloadFails, CheckInput, NativeRead, NativeFrame, NativeReturns,
                NativeGivesUp, FallbackSaves, FallbackFails, FallbackReports,
                UncaughtError
  <2> QED BY <2>1, <2>2, <2>3
<1> QED BY <1>2, <1>3, <1>4, <1>5, <1>6, <1>7

LEMMA OwnByOthers ==
  ASSUME PluginInv, NEW c \in Call, NEW d \in Call \ {c}, ThreadStep(d), Alone(c)', Own(c)
  PROVE  Own(c)'
<1>1. /\ pc'[c] = pc[c] /\ step'[c] = step[c] /\ cacheName'[c] = cacheName[c]
      /\ decoding'[c] = decoding[c] /\ saved'[c] = saved[c] /\ reply'[c] = reply[c]
      /\ files'[Output[c]] = files[Output[c]]
      /\ cacheName[c] # None => cache'[cacheName[c]] = cache[cacheName[c]]
  BY OthersKeep
<1>2. \A i \in 1..Len(mainQueue') :
        mainQueue'[i].call = c => i \in 1..Len(mainQueue) /\ mainQueue'[i] = mainQueue[i]
  <2>1. CASE mainQueue' = mainQueue
    BY <2>1
  <2>2. ASSUME NEW r, mainQueue' = Append(mainQueue, [call |-> d, result |-> r])
        PROVE  \A i \in 1..Len(mainQueue') :
                 \/ i \in 1..Len(mainQueue) /\ mainQueue'[i] = mainQueue[i]
                 \/ mainQueue'[i].call = d
    BY <2>2, QueueGrows
  <2> QED BY <2>1, <2>2, PostsOnce
<1>3. pc[c] \in {"copying", "checking", "native", "fallback"} /\ Input[c] \in Url =>
        cacheName[c] # None
  BY PluginAssumption DEF PluginInv, ThreadAt
<1>4. pc[c] = "copying" => Input[c] \in Url
  BY DEF PluginInv, ThreadAt
<1>5. \A i \in 1..Len(mainQueue') : mainQueue'[i].call = c =>
        Genuine(c, mainQueue'[i].result, files'[Output[c]])
  BY <1>1, <1>2 DEF Own
<1> QED BY <1>1, <1>3, <1>4, <1>5 DEF Own

(* The thread's last act, with a reply of its own.                            *)
LEMMA OwnEnd ==
  ASSUME PluginInv, NEW c \in Call, pc[c] \in Thread, NEW r, Post(c, r),
         UNCHANGED <<channelVars, diskVars, now, step, cacheName, decoding, saved>>,
         Own(c), Genuine(c, r, files[Output[c]])
  PROVE  Own(c)'
<1>1. pc'[c] = "done"
  BY DEF Post, Goto, PluginInv, Types
<1>2. \A i \in 1..Len(mainQueue') : mainQueue'[i].call = c =>
        Genuine(c, mainQueue'[i].result, files[Output[c]])
  BY QueueGrows DEF Post, Own
<1> QED BY <1>1, <1>2 DEF Own

(* The image of a call that is alone is the one it asked for.                 *)
LEMMA OwnImage ==
  ASSUME PluginInv, NEW c \in Call, Own(c), pc[c] \in {"checking", "native", "fallback"}
  PROVE  ImageAt(c) = Input[c]
<1>1. CASE Input[c] \notin Url
  BY <1>1 DEF ImageAt
<1>2. CASE Input[c] \in Url
  <2>1. Input[c] # None /\ 1 \in Block
    BY <1>2, PluginAssumption DEF Block
  <2>2. \A b \in Block : cache[cacheName[c]][b] = Input[c]
    BY <1>2 DEF Own
  <2> QED BY <1>2, <2>1, <2>2 DEF ImageAt
<1> QED BY <1>1, <1>2

LEMMA OwnDownload ==
  ASSUME PluginInv, NEW c \in Call, Own(c),
         ResolvePath(c) \/ NetworkStep(c)
  PROVE  Own(c)'
<1>1. CASE ResolvePath(c)
  <2>1. pc'[c] = "checking" /\ Input[c] \notin Url
    BY <1>1 DEF ResolvePath, Goto, At, PluginInv, Types
  <2> QED BY <1>1, <2>1 DEF ResolvePath, Own
<1>2. CASE OpenDownload(c)
  <2>1. pc'[c] = "copying" /\ step'[c] = 0
    BY <1>2 DEF OpenDownload, Goto, At, PluginInv, Types, ThreadAt
  <2>2. \A b \in 1..step'[c] : FALSE
    BY <2>1
  <2> QED BY <1>2, <2>1, <2>2 DEF OpenDownload, Own
<1>3. CASE CopyBlock(c)
  <2>1. /\ pc[c] = "copying" /\ pc' = pc /\ step[c] \in Nat /\ step'[c] = step[c] + 1
        /\ cacheName' = cacheName
    BY <1>3 DEF CopyBlock, At, PluginInv, Types
  <2>2. cacheName[c] \in 1..Millis /\ step[c] + 1 \in Block
    BY <1>3, <2>1, PluginAssumption DEF CopyBlock, PluginInv, ThreadAt, Block
  <2>3. cache' = [cache EXCEPT ![cacheName[c]][step[c] + 1] = Input[c]]
    BY <1>3 DEF CopyBlock
  <2>4. /\ cache'[cacheName[c]][step[c] + 1] = Input[c]
        /\ \A b \in Block \ {step[c] + 1} :
              cache'[cacheName[c]][b] = cache[cacheName[c]][b]
    BY <2>2, <2>3 DEF PluginInv, Types
  <2>5. \A b \in 1..step'[c] :
          b = step[c] + 1 \/ (b \in 1..step[c] /\ b \in Block \ {step[c] + 1})
    BY <2>1, <2>2, PluginAssumption DEF Block
  <2>6. \A b \in 1..step'[c] : cache'[cacheName'[c]][b] = Input[c]
    BY <2>1, <2>4, <2>5 DEF Own
  <2> QED BY <1>3, <2>1, <2>6 DEF CopyBlock, Own
<1>4. CASE CloseDownload(c)
  <2>1. pc[c] = "copying" /\ pc'[c] = "checking" /\ 1..step[c] = Block
    BY <1>4 DEF CloseDownload, Goto, At, PluginInv, Types, Block
  <2> QED BY <1>4, <2>1 DEF CloseDownload, Own
<1>5. CASE DownloadFails(c)
  BY <1>5, OwnEnd DEF DownloadFails, At, Thread, Genuine, Failure
<1> QED BY <1>1, <1>2, <1>3, <1>4, <1>5 DEF NetworkStep

LEMMA OwnCheck == ASSUME PluginInv, NEW c \in Call, Own(c), CheckInput(c) PROVE Own(c)'
<1>1. pc[c] = "checking"
  BY DEF CheckInput, At
<1>2. CASE Input[c] \in Missing
  BY <1>1, <1>2, OwnEnd DEF CheckInput, Thread, Genuine, Failure
<1>3. CASE Input[c] \notin Missing
  <2>1. pc'[c] \in {"native", "fallback"}
    BY <1>3 DEF CheckInput, Goto, PluginInv, Types
  <2> QED BY <1>1, <1>3, <2>1 DEF CheckInput, Own
<1> QED BY <1>2, <1>3

LEMMA OwnNative ==
  ASSUME PluginInv, NEW c \in Call, Own(c),
         NativeRead(c) \/ NativeFrame(c) \/ NativeReturns(c) \/ NativeGivesUp(c)
  PROVE  Own(c)'
<1>1. pc[c] = "native" /\ reply[c] = None /\ Output[c] \in Dir
  BY PluginAssumption
     DEF NativeRead, NativeFrame, NativeReturns, NativeGivesUp, At, PluginInv, OneReply
<1>2. \A i \in 1..Len(mainQueue) : mainQueue[i].call # c
  BY <1>1 DEF PluginInv, OneReply
<1>3. CASE NativeRead(c)
  <2>1. decoding'[c] = Input[c]
    BY <1>1, <1>3, OwnImage DEF NativeRead, PluginInv, Types
  <2> QED BY <1>3, <2>1 DEF NativeRead, Own
<1>4. CASE NativeFrame(c)
  <2> DEFINE i == step[c] + 1
  <2> DEFINE dir == files'[Output[c]]
  <2>1. step[c] \in Nat /\ i \in File /\ \A f \in saved[c] : f.file \in 1..step[c]
    BY <1>1, <1>4, PluginAssumption
       DEF NativeFrame, PluginInv, Types, ThreadAt, File, Native
  <2>2. decoding[c] = Input[c]
    BY <1>4 DEF NativeFrame, Own
  <2>3. \A f \in saved[c] : f.file # i /\ f.file \in File
    BY <2>1 DEF PluginInv, Types, Frame
  <2>4. \A n \in File \ {i} : dir[n] = files[Output[c]][n]
    BY <1>1, <1>4 DEF NativeFrame, PluginInv, Types
  <2>5. \/ saved'[c] = saved[c]
        \/ /\ saved'[c] = saved[c] \cup {[file |-> i, sized |-> TRUE]}
           /\ dir[i] = Input[c]
    BY <1>1, <1>4, <2>1, <2>2 DEF NativeFrame, PluginInv, Types
  <2>6. \A f \in saved'[c] : dir[f.file] = Input[c]
    BY <2>3, <2>4, <2>5 DEF Own
  <2> QED BY <1>1, <1>2, <1>4, <2>6 DEF NativeFrame, Own
<1>5. CASE NativeReturns(c)
  <2>1. CASE saved[c] # {}
    <3>1. \A f \in saved[c] : f.sized
      BY <1>1 DEF PluginInv, ThreadAt
    <3>2. Genuine(c, Success(saved[c]), files[Output[c]])
      BY <2>1, <3>1 DEF Genuine, Success, Own
    <3> QED BY <1>1, <1>5, <2>1, <3>2, OwnEnd DEF NativeReturns, Thread
  <2>2. CASE saved[c] = {}
    <3>1. pc'[c] = "fallback" /\ mainQueue' = mainQueue
      BY <1>5, <2>2 DEF NativeReturns, Goto, PluginInv, Types
    <3> QED BY <1>1, <1>5, <3>1 DEF NativeReturns, Own
  <2> QED BY <2>1, <2>2
<1>6. CASE NativeGivesUp(c)
  <2>1. pc'[c] = "fallback" /\ saved'[c] = {}
    BY <1>6 DEF NativeGivesUp, Goto, PluginInv, Types
  <2> QED BY <1>1, <1>6, <2>1 DEF NativeGivesUp, Own
<1> QED BY <1>3, <1>4, <1>5, <1>6

LEMMA OwnFallback ==
  ASSUME PluginInv, NEW c \in Call, Own(c),
         FallbackSaves(c) \/ FallbackFails(c) \/ FallbackReports(c)
  PROVE  Own(c)'
<1>1. /\ pc[c] \in {"fallback", "reporting"} /\ reply[c] = None /\ Output[c] \in Dir
      /\ saved[c] = {}
  BY PluginAssumption
     DEF FallbackSaves, FallbackFails, FallbackReports, At, PluginInv, ThreadAt, OneReply
<1>2. \A i \in 1..Len(mainQueue) : mainQueue[i].call # c
  BY <1>1 DEF PluginInv, OneReply
<1>3. CASE FallbackSaves(c)
  <2>1. ImageAt(c) = Input[c] /\ pc'[c] = "reporting"
    BY <1>3, OwnImage DEF FallbackSaves, Goto, At, PluginInv, Types
  <2>2. files'[Output[c]][SdkFrame] \in {Input[c], Broken}
    BY <1>1, <1>3, <2>1 DEF FallbackSaves, PluginInv, Types, File
  <2> QED BY <1>1, <1>2, <1>3, <2>1, <2>2 DEF FallbackSaves, Own
<1>4. CASE FallbackFails(c)
  BY <1>1, <1>4, OwnEnd DEF FallbackFails, Thread, Genuine, Failure
<1>5. CASE FallbackReports(c)
  <2> DEFINE shown == [file |-> SdkFrame, sized |-> files[Output[c]][SdkFrame] # Broken]
  <2>1. pc[c] = "reporting" /\ files[Output[c]][SdkFrame] \in {Input[c], Broken}
    BY <1>5 DEF FallbackReports, At, Own
  <2>2. Genuine(c, Success({shown}), files[Output[c]])
    <3>1. files[Output[c]][shown.file] = IF shown.sized THEN Input[c] ELSE Broken
      BY <2>1
    <3>2. shown.sized \/ shown = [file |-> SdkFrame, sized |-> FALSE]
      BY DEF SdkFrame
    <3> HIDE DEF shown
    <3> QED BY <3>1, <3>2 DEF Genuine, Success
  <2> QED BY <1>5, <2>1, <2>2, OwnEnd DEF FallbackReports, Thread
<1> QED BY <1>3, <1>4, <1>5

LEMMA OwnNext == PluginInv /\ OwnInv /\ [Next]_vars => OwnInv'
<1> SUFFICES ASSUME PluginInv, OwnInv, [Next]_vars, NEW c \in Call, Alone(c)'
             PROVE  Own(c)'
  BY DEF OwnInv
<1>1. Own(c)
  BY AlwaysAlone DEF OwnInv
<1>2. CASE OnAttachedToEngine \/ OnDetachedFromEngine \/ Tick \/ UNCHANGED vars
  BY <1>1, <1>2 DEF OnAttachedToEngine, OnDetachedFromEngine, Tick, Own
<1>3. ASSUME NEW d \in Call, ThreadStep(d) PROVE Own(c)'
  <2>1. CASE d # c
    BY <1>1, <1>3, <2>1, OwnByOthers
  <2>2. CASE d = c /\ UncaughtError(c)
    BY <1>1, <2>2 DEF UncaughtError, Own
  <2> QED BY <1>1, <1>3, <2>1, <2>2, OwnDownload, OwnCheck, OwnNative, OwnFallback
          DEF ThreadStep, LocalStep
<1>4. ASSUME NEW d \in Call, OnMethodCall(d) PROVE Own(c)'
  <2>1. /\ pc'[c] = pc[c] \/ pc'[c] \in {"done", "resolving"}
        /\ reply'[c] \in {reply[c], Failure, NotImplemented}
    BY <1>4 DEF OnMethodCall, PluginInv, Types
  <2>2. reply'[c] # None => Genuine(c, reply'[c], files[Output[c]])
    BY <1>1, <2>1 DEF Own, Genuine, Failure, NotImplemented
  <2> QED BY <1>1, <1>4, <2>1, <2>2 DEF OnMethodCall, Own
<1>5. CASE RunOnMain
  <2>1. /\ \A i \in 1..Len(mainQueue') : i + 1 \in 1..Len(mainQueue)
                                         /\ mainQueue'[i] = mainQueue[i + 1]
        /\ Head(mainQueue) = mainQueue[1] /\ 1 \in 1..Len(mainQueue)
    <3>1. mainQueue # <<>> /\ mainQueue' = Tail(mainQueue)
      BY <1>5 DEF RunOnMain
    <3>2. Len(mainQueue) \in Nat \ {0} /\ Head(mainQueue) = mainQueue[1]
      BY <3>1, OldestPosted
    <3>3. 1 \in 1..Len(mainQueue)
      BY <3>2
    <3>4. \A i \in 1..Len(Tail(mainQueue)) :
            i + 1 \in 1..Len(mainQueue) /\ Tail(mainQueue)[i] = mainQueue[i + 1]
      BY <3>1, OldestPosted
    <3> QED BY <3>1, <3>2, <3>3, <3>4
  <2>2. \A i \in 1..Len(mainQueue') : mainQueue'[i].call = c =>
          Genuine(c, mainQueue'[i].result, files[Output[c]])
    BY <1>1, <2>1 DEF Own
  <2>3. \/ reply'[c] = reply[c]
        \/ Head(mainQueue).call = c /\ reply'[c] = Head(mainQueue).result
    BY <1>5 DEF RunOnMain, PluginInv, Types
  <2>4. reply'[c] # None => Genuine(c, reply'[c], files[Output[c]])
    BY <1>1, <2>1, <2>3 DEF Own
  <2> QED BY <1>1, <1>5, <2>2, <2>4 DEF RunOnMain, Own
<1> QED BY <1>2, <1>3, <1>4, <1>5 DEF Next

LEMMA OwnAlways == Spec => [](PluginInv /\ OwnInv)
<1>1. Init => OwnInv
  <2> SUFFICES ASSUME Init, NEW c \in Call PROVE Own(c)
    BY DEF OwnInv
  <2>1. Len(mainQueue) = 0
    BY DEF Init
  <2> QED BY <2>1 DEF Init, Own
<1> QED BY <1>1, OwnNext, PluginAlways, PTL DEF Spec

(* A call that shares neither its directory nor the millisecond of its        *)
(* download is never answered with another call's image or with none at all:  *)
(* each listed file still holds its own input, but for frame_0.png after a    *)
(* compress that failed (line 176), which holds no image and is listed alone  *)
(* and with sizes of 0 (lines 61-127 and 145-187).                            *)
THEOREM OwnFramesOnly == Spec => []OwnFrames
<1>1. OwnInv => OwnFrames
  BY DEF OwnInv, Own, Genuine, OwnFrames, HoldsOwn, Decoded
<1> QED BY <1>1, OwnAlways, PTL

-----------------------------------------------------------------------------
(* When no two calls share anything: another directory for each call, and at  *)
(* most one call that downloads.                                              *)
OwnPlaces ==
  \A c, d \in Call : c # d =>
    Output[c] # Output[d] /\ ~(Input[c] \in Url /\ Input[d] \in Url)

NamedForUrl == \A c \in Call : cacheName[c] # None => Input[c] \in Url

LEMMA NamedForUrlNext == PluginInv /\ NamedForUrl /\ [Next]_vars => NamedForUrl'
<1> SUFFICES ASSUME PluginInv, NamedForUrl, [Next]_vars PROVE NamedForUrl'
  OBVIOUS
<1>1. ASSUME NEW c \in Call, OpenDownload(c) PROVE NamedForUrl'
  BY <1>1 DEF OpenDownload, NamedForUrl, PluginInv, Types
<1>2. ASSUME NEW c \in Call, ThreadStep(c), ~OpenDownload(c) PROVE NamedForUrl'
  BY <1>2 DEF ThreadStep, NetworkStep, LocalStep, ResolvePath, CopyBlock,
              CloseDownload, DownloadFails, CheckInput, NativeRead, NativeFrame,
              NativeReturns, NativeGivesUp, FallbackSaves, FallbackFails,
              FallbackReports, UncaughtError, NamedForUrl
<1>3. CASE ~\E c \in Call : ThreadStep(c)
  BY <1>3 DEF Next, OnAttachedToEngine, OnDetachedFromEngine, Tick, RunOnMain,
              OnMethodCall, NamedForUrl
<1> QED BY <1>1, <1>2, <1>3

LEMMA AllAlone ==
  ASSUME OwnPlaces
  PROVE  Spec => []((\A c \in Call : Alone(c)) /\ PluginInv /\ OwnInv)
<1>1. Init => NamedForUrl
  BY DEF Init, NamedForUrl
<1>2. NamedForUrl => \A c \in Call : Alone(c)
  BY DEF OwnPlaces, NamedForUrl, Alone
<1> QED BY <1>1, <1>2, NamedForUrlNext, OwnAlways, PluginAlways, PTL DEF Spec

(* No list names a file with another input's image when each call has an      *)
(* output directory of its own and at most one of them downloads: the run     *)
(* that refutes this property shares a directory (lines 61-127 and 145-187).  *)
THEOREM ListedWhenApart ==
  ASSUME OwnPlaces
  PROVE  Spec => []ListedForItsInput
<1>1. (\A c \in Call : Alone(c)) /\ PluginInv /\ OwnInv => ListedForItsInput
  BY DEF OwnInv, Own, Genuine, ListedForItsInput, HoldsOwn, Decoded
<1> QED BY <1>1, AllAlone, PTL

(* A thread that goes on with a download finds what it downloaded, unless     *)
(* another call has downloaded to a file named by the same millisecond (lines *)
(* 145-161).                                                                  *)
THEOREM DownloadIsOwnWhenAlone ==
  Spec => [](\A c \in Call :
               Alone(c) /\ pc[c] = "checking" /\ Input[c] \in Url => ImageAt(c) = Input[c])
<1>1. PluginInv /\ OwnInv =>
        \A c \in Call :
          Alone(c) /\ pc[c] = "checking" /\ Input[c] \in Url => ImageAt(c) = Input[c]
  BY OwnImage DEF OwnInv
<1> QED BY <1>1, OwnAlways, PTL

(* The cache file of a lone download is its own (lines 145-161): the run that *)
(* refutes this property downloads twice.                                     *)
THEOREM DownloadWhenApart ==
  ASSUME OwnPlaces
  PROVE  Spec => []DownloadIsOwn
<1>1. (\A c \in Call : Alone(c)) /\ PluginInv /\ OwnInv => DownloadIsOwn
  BY OwnImage DEF OwnInv, DownloadIsOwn
<1> QED BY <1>1, AllAlone, PTL

-----------------------------------------------------------------------------
(* How long a thread runs, and what becomes of its reply.                     *)

(* The steps a call's thread has before it at most.                           *)
StepsLeft(c) ==
  CASE pc[c] = "idle"      -> Frames + Chunks + 8
    [] pc[c] = "resolving" -> Frames + Chunks + 7
    [] pc[c] = "copying"   -> Frames + Chunks + 6 - step[c]
    [] pc[c] = "checking"  -> Frames + 5
    [] pc[c] = "native"    -> Frames + 3 - step[c] + (IF decoding[c] = None THEN 1 ELSE 0)
    [] pc[c] = "fallback"  -> 2
    [] pc[c] = "reporting" -> 1
    [] pc[c] = "done"      -> 0

ThreadsAdvance ==
  \A c \in Call :
    /\ StepsLeft(c)' \in Nat /\ StepsLeft(c)' <= StepsLeft(c)
    /\ ThreadStep(c) => ~alive' \/ StepsLeft(c)' < StepsLeft(c)

StepsLeftByPlace(c) ==
  /\ StepsLeft(c) \in Nat /\ step[c] \in Nat
  /\ pc[c] = "idle"      => StepsLeft(c) = Frames + Chunks + 8
  /\ pc[c] = "resolving" => StepsLeft(c) = Frames + Chunks + 7
  /\ pc[c] = "copying"   => /\ step[c] <= Chunks
                            /\ StepsLeft(c) = Frames + Chunks + 6 - step[c]
  /\ pc[c] = "checking"  => StepsLeft(c) = Frames + 5
  /\ pc[c] = "native" =>
       /\ step[c] <= Frames
       /\ decoding[c] = None => StepsLeft(c) = Frames + 4 - step[c]
       /\ decoding[c] # None => StepsLeft(c) = Frames + 3 - step[c]
  /\ pc[c] = "fallback"  => StepsLeft(c) = 2
  /\ pc[c] = "reporting" => StepsLeft(c) = 1
  /\ pc[c] = "done"      => StepsLeft(c) = 0

LEMMA StepsLeftAre == PluginInv => \A c \in Call : StepsLeftByPlace(c)
<1> SUFFICES ASSUME PluginInv, NEW c \in Call PROVE StepsLeftByPlace(c)
  OBVIOUS
<1>1. /\ Frames \in Nat /\ Chunks \in Nat /\ step[c] \in Nat
      /\ pc[c] \in {"idle", "done", "resolving", "copying", "checking", "native",
                    "fallback", "reporting"}
      /\ pc[c] = "copying" => step[c] <= Chunks
      /\ pc[c] = "native" => step[c] <= Frames
  BY PluginAssumption DEF PluginInv, Types, Thread, ThreadAt
<1> QED BY <1>1 DEF StepsLeft, StepsLeftByPlace

(* A step of thread c, each kind of which goes to a later place or counts on. *)
LEMMA ThreadStepLowers ==
  ASSUME PluginInv, PluginInv', NEW c \in Call, ThreadStep(c), alive',
         StepsLeftByPlace(c), StepsLeftByPlace(c)'
  PROVE  StepsLeft(c)' < StepsLeft(c)
<1> USE PluginAssumption DEF At, Goto, Post, StepsLeftByPlace
<1>1. /\ pc \in [Call -> {"idle", "done"} \cup Thread] /\ step \in [Call -> Nat]
      /\ Frames \in Nat /\ Chunks \in Nat
      /\ decoding \in [Call -> Source \cup {None, Garbled}]
      /\ pc[c] = "checking" => step[c] = 0
      /\ pc[c] \in {"resolving", "copying", "checking"} => decoding[c] = None
      /\ pc[c] = "resolving" => step[c] = 0
  BY DEF PluginInv, Types, ThreadAt
<1>2. CASE ResolvePath(c)
  <2>1. pc[c] = "resolving" /\ pc'[c] = "checking"
    BY <1>1, <1>2 DEF ResolvePath
  <2> QED BY <1>1, <2>1
<1>3. CASE OpenDownload(c)
  <2>1. pc[c] = "resolving" /\ pc'[c] = "copying" /\ step'[c] = 0
    BY <1>1, <1>3 DEF OpenDownload
  <2> QED BY <1>1, <2>1
<1>4. CASE CopyBlock(c)
  <2>1. pc[c] = "copying" /\ pc'[c] = "copying" /\ step'[c] = step[c] + 1
    BY <1>1, <1>4 DEF CopyBlock
  <2> QED BY <1>1, <2>1
<1>5. CASE CloseDownload(c)
  <2>1. pc[c] = "copying" /\ pc'[c] = "checking"
    BY <1>1, <1>5 DEF CloseDownload
  <2> QED BY <1>1, <2>1
<1>6. CASE DownloadFails(c)
  <2>1. pc[c] \in {"resolving", "copying"} /\ pc'[c] = "done"
    BY <1>1, <1>6 DEF DownloadFails
  <2> QED BY <1>1, <2>1
<1>7. CASE CheckInput(c)
  <2>1. /\ pc[c] = "checking" /\ pc'[c] \in {"done", "native", "fallback"}
        /\ step'[c] = 0 /\ decoding'[c] = None
    BY <1>1, <1>7 DEF CheckInput
  <2> QED BY <1>1, <2>1
<1>8. CASE NativeRead(c)
  <2>1. ImageAt(c) # None
    <3>1. pc[c] = "native"
      BY <1>8 DEF NativeRead
    <3>2. ImageAt(c) \in Source \cup {Garbled}
      BY <3>1, ImageThere
    <3> QED BY <3>2, NoneAssumption
  <2>2. pc[c] = "native" /\ pc'[c] = "native" /\ step'[c] = step[c] /\ decoding[c] = None
        /\ decoding'[c] # None
    BY <1>1, <1>8, <2>1 DEF NativeRead
  <2> QED BY <1>1, <2>2
<1>9. CASE NativeFrame(c)
  <2>1. /\ pc[c] = "native" /\ pc'[c] = "native" /\ step'[c] = step[c] + 1
        /\ decoding[c] # None /\ decoding'[c] # None
    BY <1>1, <1>9 DEF NativeFrame
  <2> QED BY <1>1, <2>1
<1>10. CASE NativeReturns(c)
  <2>1. pc[c] = "native" /\ decoding[c] # None /\ pc'[c] \in {"done", "fallback"}
    BY <1>1, <1>10 DEF NativeReturns
  <2> QED BY <1>1, <2>1
<1>11. CASE NativeGivesUp(c)
  <2>1. pc[c] = "native" /\ decoding[c] # None /\ pc'[c] = "fallback"
    BY <1>1, <1>11 DEF NativeGivesUp
  <2> QED BY <1>1, <2>1
<1>12. CASE FallbackSaves(c)
  <2>1. pc[c] = "fallback" /\ pc'[c] = "reporting"
    BY <1>1, <1>12 DEF FallbackSaves
  <2> QED BY <2>1
<1>13. CASE FallbackFails(c)
  <2>1. pc[c] = "fallback" /\ pc'[c] = "done"
    BY <1>1, <1>13 DEF FallbackFails
  <2> QED BY <2>1
<1>14. CASE FallbackReports(c)
  <2>1. pc[c] = "reporting" /\ pc'[c] = "done"
    BY <1>1, <1>14 DEF FallbackReports
  <2> QED BY <2>1
<1>15. ~UncaughtError(c)
  BY DEF UncaughtError
<1> QED BY <1>2, <1>3, <1>4, <1>5, <1>6, <1>7, <1>8, <1>9, <1>10, <1>11, <1>12, <1>13,
           <1>14, <1>15 DEF ThreadStep, NetworkStep, LocalStep

(* A step of another thread, or of none.                                      *)
LEMMA OthersKeepPlace ==
  ASSUME PluginInv, NEW c \in Call, NEW d \in Call \ {c}, ThreadStep(d)
  PROVE  pc'[c] = pc[c] /\ step'[c] = step[c] /\ decoding'[c] = decoding[c]
BY DEF ThreadStep, NetworkStep, LocalStep, ResolvePath, OpenDownload, CopyBlock,
       CloseDownload, DownloadFails, CheckInput, NativeRead, NativeFrame,
       NativeReturns, NativeGivesUp, FallbackSaves, FallbackFails,
       FallbackReports, UncaughtError, Goto, Post, PluginInv, Types

LEMMA PlaceKeepsSteps ==
  ASSUME NEW c \in Call, pc'[c] = pc[c], step'[c] = step[c], decoding'[c] = decoding[c]
  PROVE  StepsLeft(c)' = StepsLeft(c)
BY DEF StepsLeft

LEMMA ThreadsAdvanceNext ==
  ASSUME PluginInv, PluginInv', [Next]_vars, \A c \in Call : StepsLeftByPlace(c),
         \A c \in Call : StepsLeftByPlace(c)'
  PROVE  ThreadsAdvance
<1>1. ASSUME NEW c \in Call, ThreadStep(c) PROVE ~alive' \/ StepsLeft(c)' < StepsLeft(c)
  BY <1>1, ThreadStepLowers
<1>2. ASSUME NEW c \in Call PROVE StepsLeft(c)' <= StepsLeft(c)
  <2>0. StepsLeft(c) \in Nat /\ StepsLeft(c)' \in Nat
    BY DEF StepsLeftByPlace
  <2>1. CASE OnAttachedToEngine \/ OnDetachedFromEngine \/ Tick \/ RunOnMain \/ UNCHANGED vars
    <3>1. pc'[c] = pc[c] /\ step'[c] = step[c] /\ decoding'[c] = decoding[c]
      BY <2>1 DEF OnAttachedToEngine, OnDetachedFromEngine, Tick, RunOnMain
    <3> QED BY <2>0, <3>1, PlaceKeepsSteps
  <2>2. ASSUME NEW d \in Call, OnMethodCall(d) PROVE StepsLeft(c)' <= StepsLeft(c)
    <3>1. CASE d = c
      <4>1. pc[c] = "idle" /\ pc'[c] \in {"done", "resolving"}
        BY <2>2, <3>1 DEF OnMethodCall, PluginInv, Types
      <4> QED BY <4>1, PluginAssumption DEF StepsLeftByPlace
    <3>2. CASE d # c
      <4>1. pc'[c] = pc[c] /\ step'[c] = step[c] /\ decoding'[c] = decoding[c]
        BY <2>2, <3>2 DEF OnMethodCall, PluginInv, Types
      <4> QED BY <2>0, <4>1, PlaceKeepsSteps
    <3> QED BY <3>1, <3>2
  <2>3. ASSUME NEW d \in Call, ThreadStep(d) PROVE StepsLeft(c)' <= StepsLeft(c)
    <3>1. CASE d = c /\ ~UncaughtError(c)
      <4>1. alive'
        BY <2>3, <3>1
           DEF ThreadStep, NetworkStep, LocalStep, ResolvePath, OpenDownload,
               CopyBlock, CloseDownload, DownloadFails, CheckInput, NativeRead,
               NativeFrame, NativeReturns, NativeGivesUp, FallbackSaves,
               FallbackFails, FallbackReports, At
      <4> QED BY <1>1, <2>0, <2>3, <3>1, <4>1
    <3>2. CASE UncaughtError(d)
      <4>1. pc'[c] = pc[c] /\ step'[c] = step[c] /\ decoding'[c] = decoding[c]
        BY <3>2 DEF UncaughtError
      <4> QED BY <2>0, <4>1, PlaceKeepsSteps
    <3>3. CASE d # c
      <4>1. pc'[c] = pc[c] /\ step'[c] = step[c] /\ decoding'[c] = decoding[c]
        BY <2>3, <3>3, OthersKeepPlace
      <4> QED BY <2>0, <4>1, PlaceKeepsSteps
    <3> QED BY <2>3, <3>1, <3>2, <3>3
  <2> QED BY <2>1, <2>2, <2>3 DEF Next
<1>3. \A c \in Call : StepsLeft(c)' \in Nat
  BY DEF StepsLeftByPlace
<1> QED BY <1>1, <1>2, <1>3 DEF ThreadsAdvance

(* Whichever way a thread goes (download, native frames, fallback, error),    *)
(* each of its steps brings it nearer to its end and nothing another thread   *)
(* or the platform does takes it back: a thread takes at most Frames + Chunks *)
(* + 7 steps, fewer if the process dies (lines 61-187).                       *)
THEOREM ThreadRunsOut == Spec => [][ThreadsAdvance]_vars
<1>1. PluginInv /\ (\A c \in Call : StepsLeftByPlace(c)) /\
      PluginInv' /\ (\A c \in Call : StepsLeftByPlace(c))' /\ [Next]_vars => ThreadsAdvance
  BY ThreadsAdvanceNext
<1> QED BY <1>1, StepsLeftAre, PluginAlways, PTL DEF Spec

NoneForgotten ==
  \A c \in Call : pc[c] = "done" =>
    \/ reply[c] # None
    \/ \E i \in 1..Len(mainQueue) : mainQueue[i].call = c
    \/ attached = "detached"

AttachedFirst == attached = "no" => \A c \in Call : pc[c] = "idle"

LEMMA AttachedFirstNext == PluginInv /\ AttachedFirst /\ [Next]_vars => AttachedFirst'
<1> SUFFICES ASSUME PluginInv, AttachedFirst, [Next]_vars PROVE AttachedFirst'
  OBVIOUS
<1>1. ASSUME NEW c \in Call, ThreadStep(c) PROVE AttachedFirst'
  <2>1. pc[c] # "idle" /\ attached' = attached
    BY <1>1 DEF ThreadStep, NetworkStep, LocalStep, ResolvePath, OpenDownload,
                CopyBlock, CloseDownload, DownloadFails, CheckInput, NativeRead,
                NativeFrame, NativeReturns, NativeGivesUp, FallbackSaves,
                FallbackFails, FallbackReports, UncaughtError, At, Thread
  <2> QED BY <2>1 DEF AttachedFirst
<1>2. CASE ~\E c \in Call : ThreadStep(c)
  BY <1>2 DEF Next, OnAttachedToEngine, OnDetachedFromEngine, Tick, RunOnMain,
              OnMethodCall, AttachedFirst
<1> QED BY <1>1, <1>2

(* A thread that comes to its end posts; the queue only grows.                *)
LEMMA EndPosts ==
  ASSUME PluginInv, NEW d \in Call, ThreadStep(d)
  PROVE  /\ attached' = attached /\ reply' = reply
         /\ \/ mainQueue' = mainQueue /\ \A c \in Call : pc'[c] = "done" => pc[c] = "done"
            \/ /\ \E r : mainQueue' = Append(mainQueue, [call |-> d, result |-> r])
               /\ pc' = [pc EXCEPT ![d] = "done"]
BY DEF ThreadStep, NetworkStep, LocalStep, ResolvePath, OpenDownload, CopyBlock,
       CloseDownload, DownloadFails, CheckInput, NativeRead, NativeFrame,
       NativeReturns, NativeGivesUp, FallbackSaves, FallbackFails,
       FallbackReports, UncaughtError, Goto, Post, PluginInv, Types

LEMMA NoneForgottenNext ==
  PluginInv /\ AttachedFirst /\ NoneForgotten /\ [Next]_vars => NoneForgotten'
<1> SUFFICES ASSUME PluginInv, AttachedFirst, NoneForgotten, [Next]_vars,
                    NEW c \in Call, pc'[c] = "done", reply'[c] = None, attached' # "detached"
             PROVE  \E i \in 1..Len(mainQueue') : mainQueue'[i].call = c
  BY DEF NoneForgotten
<1>1. CASE OnAttachedToEngine \/ OnDetachedFromEngine \/ Tick \/ UNCHANGED vars
  BY <1>1 DEF OnAttachedToEngine, OnDetachedFromEngine, Tick, NoneForgotten
<1>2. ASSUME NEW d \in Call, ThreadStep(d)
      PROVE  \E i \in 1..Len(mainQueue') : mainQueue'[i].call = c
  <2>1. CASE mainQueue' = mainQueue /\ \A e \in Call : pc'[e] = "done" => pc[e] = "done"
    BY <1>2, <2>1, EndPosts DEF NoneForgotten
  <2>2. ASSUME NEW r, mainQueue' = Append(mainQueue, [call |-> d, result |-> r]),
               pc' = [pc EXCEPT ![d] = "done"]
        PROVE  \E i \in 1..Len(mainQueue') : mainQueue'[i].call = c
    <3>1. /\ Len(mainQueue) \in Nat /\ Len(mainQueue') = Len(mainQueue) + 1
          /\ \A i \in 1..Len(mainQueue) : mainQueue'[i] = mainQueue[i]
          /\ mainQueue'[Len(mainQueue) + 1].call = d
      BY <2>2 DEF PluginInv, Types
    <3>2. CASE c = d
      BY <3>1, <3>2
    <3>3. CASE c # d
      <4>1. pc[c] = "done" /\ reply[c] = None /\ attached # "detached"
        BY <1>2, <2>2, <3>3, EndPosts DEF PluginInv, Types
      <4>2. PICK i \in 1..Len(mainQueue) : mainQueue[i].call = c
        BY <4>1 DEF NoneForgotten
      <4>3. i \in 1..Len(mainQueue')
        BY <3>1
      <4> QED BY <3>1, <4>2, <4>3
    <3> QED BY <3>2, <3>3
  <2> QED BY <1>2, <2>1, <2>2, EndPosts
<1>3. ASSUME NEW d \in Call, OnMethodCall(d)
      PROVE  \E i \in 1..Len(mainQueue') : mainQueue'[i].call = c
  <2>1. CASE d = c
    <3>1. c \in Foreign \cup Malformed
      BY <1>3, <2>1 DEF OnMethodCall, PluginInv, Types
    <3>2. reply'[c] \in {NotImplemented, Failure}
      BY <1>3, <2>1, <3>1 DEF OnMethodCall, PluginInv, Types
    <3> QED BY <3>2, NoneAssumption DEF Reply
  <2>2. CASE d # c
    BY <1>3, <2>2 DEF OnMethodCall, PluginInv, Types, NoneForgotten
  <2> QED BY <2>1, <2>2
<1>4. CASE RunOnMain
  <2>1. pc[c] = "done" /\ attached' = attached /\ mainQueue # <<>>
        /\ mainQueue' = Tail(mainQueue)
    BY <1>4 DEF RunOnMain
  <2>2. attached = "yes"
    BY <2>1 DEF PluginInv, Types, AttachedFirst
  <2>3. Len(mainQueue) \in Nat \ {0} /\ Head(mainQueue) = mainQueue[1]
    BY <2>1, OldestPosted
  <2>4. Head(mainQueue).call \in Call /\ Head(mainQueue).result \in Reply
    <3>1. Head(mainQueue) \in Posted
      BY <2>1, OldestPosted
    <3> QED BY <3>1 DEF Posted
  <2>5. Head(mainQueue).call # c /\ reply[c] = None
    <3>1. reply' = [reply EXCEPT ![Head(mainQueue).call] = Head(mainQueue).result]
      BY <1>4, <2>2 DEF RunOnMain
    <3>2. reply \in [Call -> Reply \cup {None}]
      BY DEF PluginInv, Types
    <3> QED BY <2>4, <3>1, <3>2, NoneAssumption
  <2>6. PICK i \in 1..Len(mainQueue) : mainQueue[i].call = c
    BY <2>1, <2>2, <2>5 DEF NoneForgotten
  <2>7. i # 1
    BY <2>3, <2>5, <2>6
  <2>8. i - 1 \in 1..Len(mainQueue') /\ mainQueue'[i - 1] = mainQueue[(i - 1) + 1]
    <3>1. Len(mainQueue') = Len(mainQueue) - 1
      BY <2>1, OldestPosted
    <3>2. i - 1 \in 1..Len(mainQueue')
      BY <2>3, <2>6, <2>7, <3>1
    <3>3. i - 1 \in 1..Len(Tail(mainQueue))
      BY <2>1, <3>2
    <3> QED BY <2>1, <3>2, <3>3, OldestPosted
  <2>9. (i - 1) + 1 = i
    OBVIOUS
  <2> QED BY <2>6, <2>8, <2>9
<1> QED BY <1>1, <1>2, <1>3, <1>4 DEF Next

(* No thread ends without its reply: it has been given, or it is queued on    *)
(* the main looper, or the engine has gone away (lines 61-127, 189-199).      *)
THEOREM NoneIsForgotten == Spec => []NoneForgotten
<1>1. Init => AttachedFirst /\ NoneForgotten
  BY DEF Init, AttachedFirst, NoneForgotten
<1> QED BY <1>1, AttachedFirstNext, NoneForgottenNext, PluginAlways, PTL DEF Spec
=============================================================================
