--------------------------- MODULE ExtractionSystem ---------------------------
(***************************************************************************)
(* The concurrency control of the Dart library over the iOS plugin: a call *)
(* that decodes has sent its message over the method channel, and ends     *)
(* when the plugin's reply comes back.  Unlike in DecodePool alone, the    *)
(* platform may stay silent, for good.                                     *)
(***************************************************************************)
EXTENDS DecodePool

CONSTANTS
  Others,      (* messages of another method                                  *)
  UrlCalls,    (* the calls whose input is a URL Foundation can parse         *)
  BadUrlCalls, (* the calls whose input it cannot parse                       *)
  FrameCount   (* frames in an image (bound)                                  *)

ASSUME SystemAssumption == FrameCount \in Nat

VARIABLES at, listed, number, mainQueue, reply      (* those of IosPlugin     *)

iosVars == <<at, listed, number, mainQueue, reply>>

Message == Call \cup Others

I == INSTANCE IosPlugin WITH
       Call <- Message,
       Request <- [c \in Message |->
                     IF c \in Others THEN "other" ELSE IF c \in UrlCalls THEN "url"
                     ELSE IF c \in BadUrlCalls THEN "unparsable_url" ELSE "path"]

systemVars == <<vars, iosVars>>

InitSystem == Init /\ I!InitIos

PoolStep ==
  /\ Resume \/ \E c \in Call : ExtractFrames(c)
  /\ UNCHANGED iosVars

(* The message reaches the handler, some time after invokeMethod sent it.     *)
Receive(c) ==
  /\ c \in Call => pc[c] = "decoding"
  /\ I!Handle(c)
  /\ UNCHANGED vars

(* Replies sent from different threads may overtake each other on their way.  *)
Answered(c) ==
  /\ reply[c] # I!NoReply
  /\ Finish(c, IF reply[c].kind = "frames" THEN "returned" ELSE "threw")
  /\ UNCHANGED iosVars

MainStep == I!RunOnMain /\ UNCHANGED vars
QueueStep(c) == I!QueueStep(c) /\ UNCHANGED vars

NextSystem ==
  \/ PoolStep
  \/ MainStep
  \/ \E c \in Message : Receive(c) \/ QueueStep(c)
  \/ \E c \in Call : Answered(c)

SystemSpec == InitSystem /\ [][NextSystem]_systemVars

(* No microtask, message, reply or block of a queue is dropped, and downloads *)
(* end (URLSession has a timeout); nobody need call anything.                 *)
FairSystem ==
  /\ SystemSpec
  /\ WF_systemVars(Resume /\ UNCHANGED iosVars)
  /\ WF_systemVars(MainStep)
  /\ \A c \in Message : WF_systemVars(QueueStep(c))
  /\ \A c \in Call : WF_systemVars(Receive(c)) /\ WF_systemVars(Answered(c))

-----------------------------------------------------------------------------
(* The calls that wait for a reply that will never come.                      *)
Silenced == {c \in BadUrlCalls : pc[c] = "decoding" /\ at[c] = "given_up"}

(* The handler and the queues reply at most once to each call, through each   *)
(* of the handler's and the queues' exits (IosPlugin, lines 18-108).          *)
R == INSTANCE ReplyOnce WITH
       Call <- Message, Reply <- I!Reply, NoReply <- I!NoReply,
       asked <- {c \in Message : at[c] # "idle"}
AnsweredOnce == R!Spec

(* The limit of the Dart side bounds what the plugin has in hand: nothing is  *)
(* under way on the platform for a call whose slot is free again, and silent  *)
(* calls count (extractFrames, lines 59-80; decodeWebP, lines 49-110).        *)
PlatformWorkBounded ==
  /\ \A c \in I!AtWork \cap Call : pc[c] = "decoding"
  /\ Cardinality((I!AtWork \cap Controlled) \cup (Silenced \cap Controlled))
       <= maxConcurrent

(* Every call gets its reply and every waiting call its turn; only a URL that *)
(* Foundation does not parse goes unanswered (line 30), and it keeps a slot:  *)
(* a call waits in vain only if there are as many of them as slots.           *)
ServedUnlessSilenced ==
  \A c \in Call :
    /\ pc[c] = "decoding" ~> pc[c] \in Settled \/ c \in Silenced
    /\ pc[c] = "waiting" ~>
         pc[c] = "decoding" \/ Cardinality(Silenced \cap Controlled) >= maxConcurrent
==============================================================================
