------------------------ MODULE ExtractionSystemProofs ------------------------
(***************************************************************************)
(* The Dart library over the iOS plugin, for any calls, any requests and   *)
(* any animations: the pool's guarantees hold in the composed system, and  *)
(* they bound what the plugin has under way.                               *)
(***************************************************************************)
EXTENDS ExtractionSystem, DecodePoolProofs

Underway == {"downloading", "queued", "decoding", "posted"}

(* Where a call is, and what has been said of it: a reply is on the main      *)
(* queue only while its call is "posted", and each call once.                 *)
Told ==
  /\ at \in [Message -> {"idle", "given_up", "answered"} \cup Underway]
  /\ reply \in [Message -> I!Reply \cup {I!NoReply}]
  /\ \A c \in Message : reply[c] = I!NoReply <=> at[c] # "answered"
  /\ mainQueue \in Seq(Message \X I!Reply)
  /\ \A i \in 1..Len(mainQueue) : at[mainQueue[i][1]] = "posted"
  /\ \A i, j \in 1..Len(mainQueue) : mainQueue[i][1] = mainQueue[j][1] => i = j

(* The frames listed so far.                                                  *)
Counted ==
  /\ number \in [Message -> Nat]
  /\ listed \in [Message -> Seq(Nat)]
  /\ \A c \in Message :
       /\ number[c] <= FrameCount
       /\ Len(listed[c]) <= number[c]
       /\ \A i \in 1..Len(listed[c]) : listed[c][i] < number[c]

(* The plugin works only for calls that wait for it.                          *)
Awaited ==
  \A c \in Call : at[c] \in Underway \cup {"given_up"} => pc[c] = "decoding"

SystemInv == Told /\ Counted /\ Awaited

-----------------------------------------------------------------------------
(* The composed system makes no step that the pool alone could not make.      *)
LEMMA SystemStepIsPoolStep ==
  [NextSystem]_systemVars => [Next /\ UNCHANGED maxConcurrent]_vars
<1> SUFFICES ASSUME [NextSystem]_systemVars PROVE [Next /\ UNCHANGED maxConcurrent]_vars
  OBVIOUS
<1>1. CASE PoolStep
  BY <1>1 DEF PoolStep, Next, Resume, ExtractFrames
<1>2. ASSUME NEW c \in Call, Answered(c) PROVE Next /\ UNCHANGED maxConcurrent
  <2>1. \E outcome \in Settled : Finish(c, outcome)
    <3>1. CASE reply[c].kind = "frames"
      BY <1>2, <3>1 DEF Answered, Settled
    <3>2. CASE reply[c].kind # "frames"
      BY <1>2, <3>2 DEF Answered, Settled
    <3> QED BY <3>1, <3>2
  <2> QED BY <2>1 DEF Next, Finish
<1>3. CASE UNCHANGED vars
  BY <1>3
<1> QED BY <1>1, <1>2, <1>3 DEF NextSystem, MainStep, Receive, QueueStep, systemVars

THEOREM SystemUsesPool == SystemSpec => FixedSpec
<1>1. InitSystem => Init
  BY DEF InitSystem
<1> QED BY <1>1, SystemStepIsPoolStep, PTL DEF SystemSpec, FixedSpec

(* In the whole system, too, the pool is a limiter (lines 59-80).             *)
THEOREM SystemIsLimiter == DistinctKeys /\ SystemSpec => IsLimiter
<1>1. FixedSpec => Spec
  <2>1. [Next /\ UNCHANGED maxConcurrent]_vars => [Next]_vars
    BY DEF vars
  <2> QED BY <2>1, PTL DEF FixedSpec, Spec
<1> QED BY <1>1, SystemUsesPool, PoolIsLimiter, PTL

-----------------------------------------------------------------------------
(* How a step of the plugin moves a call on.                                  *)

LEMMA Elements == ASSUME NEW S, NEW s \in Seq(S) PROVE \A i \in 1..Len(s) : s[i] \in S
OBVIOUS

LEMMA QueuedMessages ==
  ASSUME Told
  PROVE  \A i \in 1..Len(mainQueue) :
           mainQueue[i][1] \in Message /\ mainQueue[i][2] \in I!Reply
<1>1. \A i \in 1..Len(mainQueue) : mainQueue[i] \in Message \X I!Reply
  BY Elements DEF Told
<1> QED BY <1>1

LEMMA GoesOn ==
  ASSUME Told, NEW c \in Message, at[c] \notin {"posted", "answered"},
         NEW place \in {"given_up", "downloading", "queued", "decoding"}, I!Goto(c, place)
  PROVE  Told'
<1>1. /\ at' = [at EXCEPT ![c] = place] /\ UNCHANGED <<reply, mainQueue>>
      /\ place \in {"idle", "given_up", "answered"} \cup Underway
  BY DEF I!Goto, Underway
<1>2. \A i \in 1..Len(mainQueue) : mainQueue[i][1] \in Message /\ mainQueue[i][1] # c
  BY QueuedMessages DEF Told
<1> QED BY <1>1, <1>2 DEF Told

LEMMA GetsResult ==
  ASSUME Told, NEW c \in Message, at[c] \notin {"posted", "answered"},
         NEW r \in I!Reply, r # I!NoReply, I!Result(c, r)
  PROVE  Told'
<1>1. /\ at' = [at EXCEPT ![c] = "answered"] /\ reply' = [reply EXCEPT ![c] = r]
      /\ mainQueue' = mainQueue
  BY DEF I!Result
<1>2. \A i \in 1..Len(mainQueue) : mainQueue[i][1] \in Message /\ mainQueue[i][1] # c
  BY QueuedMessages DEF Told
<1> QED BY <1>1, <1>2 DEF Told

LEMMA GetsPosted ==
  ASSUME Told, NEW c \in Message, at[c] \notin {"posted", "answered"},
         NEW r \in I!Reply, I!Post(c, r)
  PROVE  Told'
<1>1. /\ at' = [at EXCEPT ![c] = "posted"] /\ reply' = reply
      /\ mainQueue' = Append(mainQueue, <<c, r>>) /\ "posted" \in Underway
  BY DEF I!Post, Underway
<1>2. mainQueue \in Seq(Message \X I!Reply) /\ <<c, r>> \in Message \X I!Reply
  BY DEF Told
<1>3. /\ mainQueue' \in Seq(Message \X I!Reply)
      /\ \A i \in 1..Len(mainQueue') :
           \/ i \in 1..Len(mainQueue) /\ mainQueue'[i] = mainQueue[i]
           \/ i = Len(mainQueue) + 1 /\ mainQueue'[i] = <<c, r>>
  BY <1>1, <1>2
<1>4. <<c, r>>[1] = c
  OBVIOUS
<1>5. \A i \in 1..Len(mainQueue) : mainQueue[i][1] \in Message /\ mainQueue[i][1] # c
  BY QueuedMessages DEF Told
<1>6. \A i \in 1..Len(mainQueue') : at'[mainQueue'[i][1]] = "posted"
  <2>1. at'[c] = "posted" /\ \A d \in Message : d # c => at'[d] = at[d]
    BY <1>1 DEF Told
  <2> SUFFICES ASSUME NEW i \in 1..Len(mainQueue') PROVE at'[mainQueue'[i][1]] = "posted"
    OBVIOUS
  <2>2. CASE i \in 1..Len(mainQueue) /\ mainQueue'[i] = mainQueue[i]
    <3>1. at[mainQueue[i][1]] = "posted"
      BY <2>2 DEF Told
    <3> QED BY <1>5, <2>1, <2>2, <3>1
  <2>3. CASE mainQueue'[i] = <<c, r>>
    BY <1>4, <2>1, <2>3
  <2> QED BY <1>3, <2>2, <2>3
<1>7. \A i, j \in 1..Len(mainQueue') : mainQueue'[i][1] = mainQueue'[j][1] => i = j
  BY <1>3, <1>4, <1>5 DEF Told
<1>8. /\ at' \in [Message -> {"idle", "given_up", "answered"} \cup Underway]
      /\ \A d \in Message : reply'[d] = I!NoReply <=> at'[d] # "answered"
  BY <1>1 DEF Told
<1> QED BY <1>1, <1>3, <1>6, <1>7, <1>8 DEF Told

(* The replies the plugin gives are replies, and no reply is one of them.     *)
LEMMA RepliesAreReplies ==
  /\ I!NoReply \notin I!Reply
  /\ \A e \in I!Errors : I!Failure(e) \in I!Reply /\ I!Failure(e) # I!NoReply
<1>1. \A r \in I!Reply : r.kind # "none"
  BY DEF I!Reply, I!Success, I!Failure, I!Errors
<1>2. I!NoReply.kind = "none"
  BY DEF I!NoReply, I!Failure
<1>3. \A e \in I!Errors : I!Failure(e) \in I!Reply
  BY DEF I!Reply
<1> QED BY <1>1, <1>2, <1>3

LEMMA FramesAreReply ==
  ASSUME Counted, NEW c \in Message
  PROVE  I!Success(listed[c]) \in I!Reply
<1> DEFINE n == Len(listed[c])
<1>1. n \in 0..FrameCount /\ listed[c] \in Seq(Nat) /\ number[c] \in Nat
  BY SystemAssumption DEF Counted
<1>2. listed[c] = [i \in 1..n |-> listed[c][i]]
  BY <1>1
<1>3. \A i \in 1..n : listed[c][i] \in 0..FrameCount - 1
  BY <1>1, SystemAssumption DEF Counted
<1>4. listed[c] \in [1..n -> 0..FrameCount - 1]
  BY <1>2, <1>3
<1>5. listed[c] \in I!Numbers
  BY <1>1, <1>4 DEF I!Numbers
<1> QED BY <1>5 DEF I!Reply

LEMMA OldestBlock ==
  ASSUME Told, mainQueue # <<>>
  PROVE  /\ Head(mainQueue) = mainQueue[1] /\ 1 \in 1..Len(mainQueue)
         /\ Tail(mainQueue) \in Seq(Message \X I!Reply)
         /\ \A i \in 1..Len(Tail(mainQueue)) :
              /\ i + 1 \in 1..Len(mainQueue) /\ i + 1 # 1
              /\ Tail(mainQueue)[i] = mainQueue[i + 1]
<1> DEFINE S == Message \X I!Reply
<1>1. mainQueue \in Seq(S)
  BY DEF Told
<1> HIDE DEF S
<1>2. /\ Head(mainQueue) = mainQueue[1] /\ 1 \in 1..Len(mainQueue)
      /\ Tail(mainQueue) \in Seq(S)
      /\ \A i \in 1..Len(Tail(mainQueue)) :
           /\ i + 1 \in 1..Len(mainQueue) /\ i + 1 # 1
           /\ Tail(mainQueue)[i] = mainQueue[i + 1]
  BY <1>1
<1> QED BY <1>2 DEF S

LEMMA MainTold == Told /\ I!RunOnMain => Told'
<1> SUFFICES ASSUME Told, I!RunOnMain PROVE Told'
  OBVIOUS
<1> DEFINE c == mainQueue[1][1]
<1>1. mainQueue # <<>> /\ mainQueue' = Tail(mainQueue)
  BY DEF I!RunOnMain
<1>2. /\ at' = [at EXCEPT ![c] = "answered"]
      /\ reply' = [reply EXCEPT ![c] = mainQueue[1][2]]
  BY <1>1, OldestBlock DEF I!RunOnMain
<1>3. /\ c \in Message /\ mainQueue[1][2] \in I!Reply /\ mainQueue[1][2] # I!NoReply
      /\ 1 \in 1..Len(mainQueue)
  BY <1>1, OldestBlock, QueuedMessages, RepliesAreReplies
<1>4. \A i \in 1..Len(mainQueue) : i # 1 => mainQueue[i][1] # c
  BY <1>3 DEF Told
<1>5. \A i \in 1..Len(mainQueue') :
        /\ i + 1 \in 1..Len(mainQueue) /\ mainQueue'[i] = mainQueue[i + 1]
        /\ mainQueue'[i][1] \in Message /\ mainQueue'[i][1] # c
  BY <1>1, <1>4, OldestBlock, QueuedMessages
<1> HIDE DEF c
<1>6. /\ at' \in [Message -> {"idle", "given_up", "answered"} \cup Underway]
      /\ reply' \in [Message -> I!Reply \cup {I!NoReply}]
      /\ \A d \in Message : d # c => at'[d] = at[d] /\ reply'[d] = reply[d]
      /\ at'[c] = "answered" /\ reply'[c] # I!NoReply
  BY <1>2, <1>3 DEF Told
<1>7. \A d \in Message : reply'[d] = I!NoReply <=> at'[d] # "answered"
  BY <1>6 DEF Told
<1>8. mainQueue' \in Seq(Message \X I!Reply)
  BY <1>1, OldestBlock
<1>9. \A i \in 1..Len(mainQueue') : at'[mainQueue'[i][1]] = "posted"
  <2> SUFFICES ASSUME NEW i \in 1..Len(mainQueue') PROVE at'[mainQueue'[i][1]] = "posted"
    OBVIOUS
  <2>1. at[mainQueue[i + 1][1]] = "posted"
    BY <1>5 DEF Told
  <2> QED BY <1>5, <1>6, <2>1
<1>10. \A i, j \in 1..Len(mainQueue') : mainQueue'[i][1] = mainQueue'[j][1] => i = j
  <2> SUFFICES ASSUME NEW i \in 1..Len(mainQueue'), NEW j \in 1..Len(mainQueue'),
                      mainQueue'[i][1] = mainQueue'[j][1]
               PROVE  i = j
    OBVIOUS
  <2>1. i + 1 = j + 1
    BY <1>5 DEF Told
  <2> QED BY <2>1
<1> QED BY <1>6, <1>7, <1>8, <1>9, <1>10 DEF Told

(* The handler takes a message.                                               *)
LEMMA HandleTold ==
  ASSUME Told, NEW c \in Message, I!Handle(c)
  PROVE  Told' /\ UNCHANGED <<listed, number>>
<1>1. at[c] = "idle"
  BY DEF I!Handle
<1>2. \/ \E place \in {"given_up", "downloading", "queued", "decoding"} : I!Goto(c, place)
      \/ \E e \in I!Errors : I!Result(c, I!Failure(e))
  BY DEF I!Handle, I!Errors
<1>3. Told'
  BY <1>1, <1>2, GoesOn, GetsResult, RepliesAreReplies
<1> QED BY <1>2, <1>3 DEF I!Goto, I!Result

(* The queues work on it.                                                     *)
LEMMA QueueTold ==
  ASSUME Told, Counted, NEW c \in Message, I!QueueStep(c)
  PROVE  Told'
<1>1. at[c] \in {"downloading", "queued", "decoding"}
  BY DEF I!QueueStep, I!DownloadEnds, I!OpenImage, I!SaveFrame, I!PostFrames
<1>2. CASE I!DownloadEnds(c)
  <2>1. \/ I!Goto(c, "queued")
        \/ \E e \in I!Errors : I!Result(c, I!Failure(e))
    BY <1>2 DEF I!DownloadEnds, I!Errors
  <2> QED BY <1>1, <2>1, GoesOn, GetsResult, RepliesAreReplies
<1>3. CASE I!OpenImage(c)
  <2>1. \/ I!Goto(c, "decoding")
        \/ \E e \in I!Errors : I!Post(c, I!Failure(e))
    BY <1>3 DEF I!OpenImage, I!Errors
  <2> QED BY <1>1, <2>1, GoesOn, GetsPosted, RepliesAreReplies
<1>4. CASE I!SaveFrame(c)
  BY <1>4 DEF I!SaveFrame, Told
<1>5. CASE I!PostFrames(c)
  BY <1>1, <1>5, GetsPosted, FramesAreReply DEF I!PostFrames
<1> QED BY <1>2, <1>3, <1>4, <1>5 DEF I!QueueStep

LEMMA QueueCounted ==
  ASSUME Counted, NEW c \in Message, I!QueueStep(c)
  PROVE  Counted'
<1>1. CASE I!SaveFrame(c)
  <2>1. /\ number[c] \in Nat /\ number[c] < FrameCount /\ listed[c] \in Seq(Nat)
        /\ number' = [number EXCEPT ![c] = number[c] + 1]
    BY <1>1, SystemAssumption DEF I!SaveFrame, Counted
  <2>2. \A d \in Message : number'[d] \in Nat /\ number'[d] <= FrameCount
                           /\ number'[d] = IF d = c THEN number[c] + 1 ELSE number[d]
    BY <2>1, SystemAssumption DEF Counted
  <2>3. number' \in [Message -> Nat]
    BY <2>1 DEF Counted
  <2>4. CASE listed' = listed
    BY <2>1, <2>2, <2>3, <2>4 DEF Counted
  <2>5. CASE listed' = [listed EXCEPT ![c] = Append(@, number[c])]
    <3> DEFINE longer == Append(listed[c], number[c])
    <3>1. /\ longer \in Seq(Nat) /\ Len(longer) = Len(listed[c]) + 1
          /\ \A i \in 1..Len(longer) :
               \/ i \in 1..Len(listed[c]) /\ longer[i] = listed[c][i]
               \/ longer[i] = number[c]
      BY <2>1
    <3> HIDE DEF longer
    <3>2. listed' = [listed EXCEPT ![c] = longer] /\ listed \in [Message -> Seq(Nat)]
      BY <2>5 DEF longer, Counted
    <3>3. /\ listed' \in [Message -> Seq(Nat)] /\ listed'[c] = longer
          /\ \A d \in Message : d # c => listed'[d] = listed[d]
      BY <3>1, <3>2
    <3>4. Len(longer) <= number'[c] /\ \A i \in 1..Len(longer) : longer[i] < number'[c]
      <4>1. \A i \in 1..Len(listed[c]) : listed[c][i] \in Nat /\ listed[c][i] < number[c]
        BY <2>1, Elements DEF Counted
      <4>2. Len(listed[c]) \in Nat /\ Len(listed[c]) <= number[c]
        BY <2>1 DEF Counted
      <4> QED BY <2>1, <2>2, <3>1, <4>1, <4>2
    <3>5. \A d \in Message : d # c =>
            /\ Len(listed'[d]) <= number'[d]
            /\ \A i \in 1..Len(listed'[d]) : listed'[d][i] < number'[d]
      BY <2>2, <3>3 DEF Counted
    <3> QED BY <2>2, <2>3, <3>3, <3>4, <3>5 DEF Counted
  <2> QED BY <1>1, <2>4, <2>5 DEF I!SaveFrame
<1>2. CASE ~I!SaveFrame(c)
  <2>1. UNCHANGED <<listed, number>>
    BY <1>2 DEF I!QueueStep, I!DownloadEnds, I!OpenImage, I!PostFrames, I!Goto, I!Result,
                I!Post
  <2> QED BY <2>1 DEF Counted
<1> QED BY <1>1, <1>2

-----------------------------------------------------------------------------
(* The pool's steps leave a call that decodes alone until it is answered.     *)
LEMMA PoolKeepsDecoding ==
  ASSUME IInv, PoolStep, NEW c \in Call, pc[c] = "decoding"
  PROVE  pc'[c] = "decoding"
<1>1. pc \in [Call -> CallState]
  BY DEF IInv, TypeOK
<1>2. CASE Resume
  <2>1. pc[Head(microtasks)] = "waiting"
    BY <1>2, ResumedCallWaits DEF Resume, IInv
  <2> QED BY <1>1, <1>2, <2>1 DEF Resume, AcquireSlot, WaitForSlot, TakeSlot
<1>3. ASSUME NEW d \in Call, ExtractFrames(d) PROVE pc'[c] = "decoding"
  <2>1. CASE d \in Controlled
    BY <1>1, <1>3, <2>1 DEF ExtractFrames, AcquireSlot, WaitForSlot, TakeSlot
  <2>2. CASE d \notin Controlled
    BY <1>1, <1>3, <2>2 DEF ExtractFrames, CallDirectly
  <2> QED BY <2>1, <2>2
<1> QED BY <1>2, <1>3 DEF PoolStep

LEMMA AwaitedNext ==
  ASSUME IInv, SystemInv, [NextSystem]_systemVars
  PROVE  Awaited'
<1> USE DEF SystemInv, Underway
<1>1. Call \subseteq Message /\ pc \in [Call -> CallState]
  BY DEF Message, IInv, TypeOK
<1>2. CASE PoolStep
  <2>1. at' = at
    BY <1>2 DEF PoolStep, iosVars
  <2> QED BY <1>2, <2>1, PoolKeepsDecoding DEF Awaited
<1>3. ASSUME NEW c \in Message, Receive(c) \/ QueueStep(c) PROVE Awaited'
  <2>1. pc' = pc /\ (c \in Call => pc[c] = "decoding")
    <3>1. CASE Receive(c)
      BY <3>1 DEF Receive, vars
    <3>2. CASE QueueStep(c)
      BY <3>2 DEF QueueStep, vars, Awaited, I!QueueStep, I!DownloadEnds, I!OpenImage,
                  I!SaveFrame, I!PostFrames
    <3> QED BY <1>3, <3>1, <3>2
  <2>2. \A d \in Message : d # c => at'[d] = at[d]
    BY <1>3 DEF Receive, QueueStep, I!QueueStep, I!Handle, I!DownloadEnds, I!OpenImage,
                I!SaveFrame, I!PostFrames, I!Goto, I!Result, I!Post, Told
  <2> QED BY <1>1, <2>1, <2>2 DEF Awaited
<1>4. CASE MainStep
  <2>1. pc' = pc /\ \A d \in Message : at'[d] \in {at[d], "answered"}
    BY <1>4 DEF MainStep, vars, I!RunOnMain, Told
  <2> QED BY <1>1, <2>1 DEF Awaited
<1>5. ASSUME NEW c \in Call, Answered(c) PROVE Awaited'
  <2>1. at' = at /\ at[c] = "answered"
    BY <1>1, <1>5 DEF Answered, iosVars, Told
  <2>2. \A d \in Call : d # c => pc'[d] = pc[d]
    BY <1>1, <1>5 DEF Answered, Finish
  <2> QED BY <2>1, <2>2 DEF Awaited
<1>6. CASE UNCHANGED systemVars
  BY <1>6 DEF systemVars, vars, iosVars, Awaited
<1> QED BY <1>2, <1>3, <1>4, <1>5, <1>6 DEF NextSystem

LEMMA SystemInvNext ==
  ASSUME IInv, SystemInv, [NextSystem]_systemVars
  PROVE  SystemInv'
<1>1. Awaited'
  BY AwaitedNext
<1>2. ASSUME UNCHANGED iosVars PROVE Told' /\ Counted'
  BY <1>2 DEF iosVars, SystemInv, Told, Counted
<1>3. ASSUME NEW c \in Message, I!Handle(c) PROVE Told' /\ Counted'
  BY <1>3, HandleTold DEF SystemInv, Counted
<1>4. ASSUME NEW c \in Message, I!QueueStep(c) PROVE Told' /\ Counted'
  BY <1>4, QueueTold, QueueCounted DEF SystemInv
<1>5. ASSUME I!RunOnMain PROVE Told' /\ Counted'
  <2>1. UNCHANGED <<listed, number>>
    BY <1>5 DEF I!RunOnMain
  <2> QED BY <1>5, <2>1, MainTold DEF SystemInv, Counted
<1>6. Told' /\ Counted'
  BY <1>2, <1>3, <1>4, <1>5
     DEF NextSystem, PoolStep, MainStep, Receive, QueueStep, Answered, systemVars, SystemInv
<1> QED BY <1>1, <1>6 DEF SystemInv

LEMMA SystemInvInit == InitSystem => SystemInv
<1> SUFFICES ASSUME InitSystem PROVE SystemInv
  OBVIOUS
<1>1. /\ at = [c \in Message |-> "idle"] /\ reply = [c \in Message |-> I!NoReply]
      /\ mainQueue = <<>> /\ listed = [c \in Message |-> <<>>]
      /\ number = [c \in Message |-> 0]
  BY DEF InitSystem, I!InitIos
<1>2. mainQueue \in Seq(Message \X I!Reply) /\ Len(mainQueue) = 0
  BY <1>1
<1>3. Told
  BY <1>1, <1>2 DEF Told
<1>4. Counted
  <2>1. listed \in [Message -> Seq(Nat)] /\ \A c \in Message : Len(listed[c]) = 0
    BY <1>1
  <2> QED BY <1>1, <2>1, SystemAssumption DEF Counted
<1>5. Awaited
  BY <1>1 DEF Awaited, Underway, Message
<1> QED BY <1>3, <1>4, <1>5 DEF SystemInv

LEMMA SystemAlways == SystemSpec => [](IInv /\ SystemInv)
<1>1. [Next /\ UNCHANGED maxConcurrent]_vars => [Next]_vars
  BY DEF vars
<1>2. InitSystem => Init
  BY DEF InitSystem
<1>3. IInv /\ SystemInv /\ [NextSystem]_systemVars => IInv' /\ SystemInv'
  BY <1>1, SystemStepIsPoolStep, IInvNext, SystemInvNext
<1> QED BY <1>2, <1>3, IInvInit, SystemInvInit, PTL DEF SystemSpec

-----------------------------------------------------------------------------
Handled == {c \in Message : at[c] # "idle"}

(* The plugin keeps the contract of the channel: no call gets two replies,    *)
(* whichever thread gives them (IosPlugin, lines 18-108).                     *)
THEOREM SystemAnswersOnce == SystemSpec => AnsweredOnce
<1>1. InitSystem => R!Init
  BY DEF InitSystem, I!InitIos, R!Init
<1>2. ASSUME SystemInv, NEW c \in Message, NEW r \in I!Reply, at[c] # "answered",
             at' = [at EXCEPT ![c] = "answered"], reply' = [reply EXCEPT ![c] = r]
      PROVE  R!Next
  <2>1. reply[c] = I!NoReply /\ Handled' = Handled \cup {c}
    BY <1>2 DEF SystemInv, Told, Handled
  <2>2. CASE c \in Handled
    <3>1. Handled' = Handled
      BY <2>1, <2>2
    <3> QED BY <1>2, <2>1, <2>2, <3>1 DEF R!Next, R!Answer, Handled
  <2>3. CASE c \notin Handled
    BY <1>2, <2>1, <2>3 DEF R!Next, R!AskAndAnswer, Handled
  <2> QED BY <2>2, <2>3
<1>3. ASSUME SystemInv, NEW c \in Message, NEW place, place # "idle",
             at' = [at EXCEPT ![c] = place], reply' = reply
      PROVE  [R!Next]_(R!vars)
  <2>1. Handled' = Handled \cup {c}
    BY <1>3 DEF SystemInv, Told, Handled
  <2>2. CASE c \in Handled
    <3>1. Handled' = Handled
      BY <2>1, <2>2
    <3> QED BY <1>3, <3>1 DEF R!vars, Handled
  <2>3. CASE c \notin Handled
    BY <1>3, <2>1, <2>3 DEF R!Next, R!Ask, Handled
  <2> QED BY <2>2, <2>3
<1>4. ASSUME SystemInv, NEW c \in Message, I!Handle(c) \/ I!QueueStep(c)
      PROVE  [R!Next]_(R!vars)
  <2>1. at[c] # "answered"
    BY <1>4 DEF I!QueueStep, I!Handle, I!DownloadEnds, I!OpenImage, I!SaveFrame, I!PostFrames
  <2>2. CASE \E e \in I!Errors : I!Result(c, I!Failure(e))
    BY <1>2, <1>4, <2>1, <2>2, RepliesAreReplies DEF I!Result
  <2>3. CASE \E place \in {"given_up", "downloading", "queued", "decoding"} : I!Goto(c, place)
    BY <1>3, <1>4, <2>3 DEF I!Goto
  <2>4. CASE \E r : I!Post(c, r)
    BY <1>3, <1>4, <2>4 DEF I!Post
  <2>5. CASE I!SaveFrame(c)
    BY <2>5 DEF I!SaveFrame, R!vars
  <2> QED BY <1>4, <2>2, <2>3, <2>4, <2>5
          DEF I!QueueStep, I!Handle, I!DownloadEnds, I!OpenImage, I!PostFrames, I!Errors
<1>5. ASSUME SystemInv, I!RunOnMain PROVE R!Next
  <2> DEFINE c == mainQueue[1][1]
  <2>1. mainQueue # <<>> /\ 1 \in 1..Len(mainQueue)
    BY <1>5, OldestBlock DEF I!RunOnMain, SystemInv
  <2>2. /\ at' = [at EXCEPT ![c] = "answered"]
        /\ reply' = [reply EXCEPT ![c] = mainQueue[1][2]]
    BY <1>5, <2>1, OldestBlock DEF I!RunOnMain, SystemInv
  <2>3. c \in Message /\ mainQueue[1][2] \in I!Reply /\ at[c] = "posted"
    BY <1>5, <2>1, QueuedMessages DEF SystemInv, Told
  <2> QED BY <1>2, <1>5, <2>2, <2>3
<1>6. ASSUME UNCHANGED iosVars PROVE UNCHANGED R!vars
  BY <1>6 DEF iosVars, R!vars, Handled
<1>7. ASSUME SystemInv, [NextSystem]_systemVars PROVE [R!Next]_(R!vars)
  BY <1>4, <1>5, <1>6, <1>7
     DEF NextSystem, PoolStep, MainStep, Receive, QueueStep, Answered, systemVars
<1> QED BY <1>1, <1>7, SystemAlways, PTL DEF SystemSpec, AnsweredOnce, R!Spec

(* Nothing is under way on the platform for a call that has no slot any more, *)
(* and the limit bounds what the plugin works on and what it left unanswered  *)
(* (lines 59-80 and IosPlugin, lines 49-110).                                 *)
THEOREM PlatformIsBounded == DistinctKeys /\ SystemSpec => []PlatformWorkBounded
<1>1. SystemInv /\ ConcurrencyBound /\ IInv => PlatformWorkBounded
  <2> SUFFICES ASSUME SystemInv, ConcurrencyBound, IInv PROVE PlatformWorkBounded
    OBVIOUS
  <2> DEFINE held == (I!AtWork \cap Controlled) \cup (Silenced \cap Controlled)
  <2>1. \A c \in I!AtWork \cap Call : pc[c] = "decoding"
    BY DEF SystemInv, Awaited, Underway, I!AtWork
  <2>2. held \subseteq Running
    BY <2>1, PoolAssumption DEF Running, Silenced
  <2>3. IsFiniteSet(Running)
    BY PoolAssumption, FS_Subset DEF Running
  <2>4. /\ Cardinality(held) <= Cardinality(Running)
        /\ Cardinality(held) \in Nat /\ Cardinality(Running) \in Nat
    BY <2>2, <2>3, FS_Subset, FS_CardinalityType
  <2>5. Cardinality(held) <= maxConcurrent
    BY <2>4 DEF ConcurrencyBound, IInv, TypeOK
  <2> QED BY <2>1, <2>5 DEF PlatformWorkBounded
<1> QED BY <1>1, SystemAlways, SystemUsesPool, LimitHolds, PTL

(* As long as a call waits for a slot, every slot is taken or promised in the *)
(* whole system as well (lines 59-80).                                        *)
THEOREM SystemConserves == DistinctKeys /\ SystemSpec => []WorkConserving
BY SystemUsesPool, SlotsNeverIdle, PTL

(* If platform events wait for the microtasks, calls get to the plugin in the *)
(* order in which they asked (lines 62-66 and 74-79).                         *)
THEOREM SystemServesInOrder ==
  DistinctKeys /\ ~Barging /\ SystemSpec => FirstComeFirstServed
BY SystemUsesPool, FirstComeIsServedFirst

-----------------------------------------------------------------------------
(* What becomes of a call that decodes.                                       *)

(* A posted reply stays on the main queue until it is given; only what cannot *)
(* be parsed is given up.                                                     *)
Kept ==
  \A c \in Message :
    /\ at[c] = "given_up" => c \in BadUrlCalls
    /\ at[c] = "posted" => \E i \in 1..Len(mainQueue) : mainQueue[i][1] = c

LEMMA KeptByCall ==
  ASSUME SystemInv, Kept, NEW c \in Message, I!Handle(c) \/ I!QueueStep(c)
  PROVE  Kept'
<1>1. /\ at \in [Message -> {"idle", "given_up", "answered"} \cup Underway]
      /\ mainQueue \in Seq(Message \X I!Reply)
  BY DEF SystemInv, Told
<1>2. CASE \E r : I!Post(c, r)
  <2>1. PICK r : at' = [at EXCEPT ![c] = "posted"] /\ mainQueue' = Append(mainQueue, <<c, r>>)
    BY <1>2 DEF I!Post
  <2>2. /\ Len(mainQueue) \in Nat /\ Len(mainQueue') = Len(mainQueue) + 1
        /\ \A i \in 1..Len(mainQueue) : mainQueue'[i] = mainQueue[i]
        /\ mainQueue'[Len(mainQueue) + 1] = <<c, r>>
    <3> DEFINE S == Message \X I!Reply
    <3> DEFINE e == <<c, r>>
    <3>1. mainQueue \in Seq(S) /\ mainQueue' = Append(mainQueue, e)
      BY <1>1, <2>1
    <3> HIDE DEF S, e
    <3>2. /\ Len(mainQueue) \in Nat /\ Len(mainQueue') = Len(mainQueue) + 1
          /\ \A i \in 1..Len(mainQueue) : mainQueue'[i] = mainQueue[i]
          /\ mainQueue'[Len(mainQueue) + 1] = e
      BY <3>1
    <3> QED BY <3>2 DEF e
  <2>3. \A i \in 1..Len(mainQueue) : i \in 1..Len(mainQueue')
    BY <2>2
  <2>4. Len(mainQueue) + 1 \in 1..Len(mainQueue') /\ <<c, r>>[1] = c
    BY <2>2
  <2>5. \E i \in 1..Len(mainQueue') : mainQueue'[i][1] = c
    BY <2>2, <2>4
  <2>6. \A d \in Message : d # c /\ at[d] = "posted" =>
          \E i \in 1..Len(mainQueue') : mainQueue'[i][1] = d
    BY <2>2, <2>3 DEF Kept
  <2>7. \A d \in Message : d # c => at'[d] = at[d]
    BY <1>1, <2>1
  <2>8. at'[c] = "posted"
    BY <1>1, <2>1
  <2> QED BY <2>5, <2>6, <2>7, <2>8 DEF Kept
<1>3. ASSUME NEW place, place # "posted", place = "given_up" => c \in BadUrlCalls,
             at' = [at EXCEPT ![c] = place], mainQueue' = mainQueue
      PROVE  Kept'
  BY <1>1, <1>3 DEF Kept
<1>4. CASE I!Handle(c)
  <2>1. CASE I!Goto(c, "given_up")
    <3>1. c \in BadUrlCalls
      BY <1>4, <2>1, <1>1 DEF I!Handle, I!Goto, I!Result
    <3> QED BY <1>3, <2>1, <3>1 DEF I!Goto
  <2>2. CASE \E place \in {"downloading", "queued"} : I!Goto(c, place)
    BY <1>3, <2>2 DEF I!Goto
  <2>3. CASE \E r : I!Result(c, r)
    BY <1>3, <2>3 DEF I!Result
  <2> QED BY <1>4, <2>1, <2>2, <2>3 DEF I!Handle
<1>5. CASE I!DownloadEnds(c) \/ I!OpenImage(c) \/ I!PostFrames(c)
  <2>1. CASE \E place \in {"queued", "decoding"} : I!Goto(c, place)
    BY <1>3, <2>1 DEF I!Goto
  <2>2. CASE \E r : I!Result(c, r)
    BY <1>3, <2>2 DEF I!Result
  <2> QED BY <1>2, <1>5, <2>1, <2>2 DEF I!DownloadEnds, I!OpenImage, I!PostFrames
<1>6. CASE I!SaveFrame(c)
  BY <1>6 DEF I!SaveFrame, Kept
<1> QED BY <1>4, <1>5, <1>6 DEF I!QueueStep

LEMMA KeptByMain == ASSUME SystemInv, Kept, I!RunOnMain PROVE Kept'
<1> DEFINE c == mainQueue[1][1]
<1>1. Told /\ mainQueue # <<>> /\ mainQueue' = Tail(mainQueue)
  BY DEF I!RunOnMain, SystemInv
<1>2. at' = [at EXCEPT ![c] = "answered"]
  BY <1>1, OldestBlock DEF I!RunOnMain
<1>3. \A i \in 1..Len(mainQueue) : i # 1 => i - 1 \in 1..Len(mainQueue')
  <2> DEFINE S == Message \X I!Reply
  <2>1. mainQueue \in Seq(S)
    BY <1>1 DEF Told
  <2> HIDE DEF S
  <2>2. Len(mainQueue') = Len(mainQueue) - 1 /\ Len(mainQueue) \in Nat
    BY <1>1, <2>1
  <2> QED BY <2>2
<1>4. \A j \in 1..Len(mainQueue') : mainQueue'[j] = mainQueue[j + 1]
  BY <1>1, OldestBlock
<1> HIDE DEF c
<1>5. \A d \in Message :
        /\ d # c => at'[d] = at[d]
        /\ d = c => at'[d] = "answered"
  <2>1. at \in [Message -> {"idle", "given_up", "answered"} \cup Underway]
    BY <1>1 DEF Told
  <2> QED BY <1>2, <2>1
<1>6. ASSUME NEW d \in Message, d # c, at[d] = "posted"
      PROVE  \E i \in 1..Len(mainQueue') : mainQueue'[i][1] = d
  <2>1. PICK i \in 1..Len(mainQueue) : mainQueue[i][1] = d
    BY <1>6 DEF Kept
  <2>2. i # 1 /\ (i - 1) + 1 = i
    BY <1>6, <2>1 DEF c
  <2>3. i - 1 \in 1..Len(mainQueue') /\ mainQueue'[i - 1] = mainQueue[i]
    BY <1>3, <1>4, <2>2
  <2> QED BY <2>1, <2>3
<1> QED BY <1>5, <1>6 DEF Kept

LEMMA KeptNext == ASSUME SystemInv, Kept, [NextSystem]_systemVars PROVE Kept'
<1>1. ASSUME UNCHANGED iosVars PROVE Kept'
  BY <1>1 DEF iosVars, Kept
<1> QED BY <1>1, KeptByCall, KeptByMain
        DEF NextSystem, PoolStep, MainStep, Receive, QueueStep, Answered, systemVars

(* Something is left to happen that answers the call.                         *)
StillComing(c) ==
  \/ at[c] \in {"idle", "downloading", "queued", "decoding"}
  \/ \E i \in 1..Len(mainQueue) : mainQueue[i][1] = c
  \/ reply[c] # I!NoReply

NobodyWaitsInVain ==
  /\ \A c \in Call : pc[c] = "decoding" => StillComing(c) \/ c \in Silenced
  /\ waitingQueue # <<>> =>
       \/ microtasks # <<>>
       \/ \E c \in Running : StillComing(c)
       \/ Cardinality(Silenced \cap Controlled) >= maxConcurrent

LEMMA KeptIsNotInVain ==
  ASSUME IInv, SystemInv, Kept, WorkConserving
  PROVE  NobodyWaitsInVain
<1>1. ASSUME NEW c \in Call, pc[c] = "decoding" PROVE StillComing(c) \/ c \in Silenced
  <2>1. /\ c \in Message /\ at[c] \in {"idle", "given_up", "answered"} \cup Underway
        /\ at[c] = "answered" => reply[c] # I!NoReply
    BY DEF SystemInv, Told, Message
  <2> QED BY <1>1, <2>1 DEF Underway, Kept, StillComing, Silenced
<1>2. ASSUME waitingQueue # <<>>, microtasks = <<>>, ~\E c \in Running : StillComing(c)
      PROVE  Cardinality(Silenced \cap Controlled) >= maxConcurrent
  <2>1. Running \subseteq Silenced \cap Controlled
    BY <1>1, <1>2, PoolAssumption DEF Running
  <2>2. IsFiniteSet(Silenced \cap Controlled)
    BY PoolAssumption, FS_Subset
  <2>3. /\ Cardinality(Running) <= Cardinality(Silenced \cap Controlled)
        /\ Cardinality(Running) \in Nat /\ Cardinality(Silenced \cap Controlled) \in Nat
    BY <2>1, <2>2, FS_Subset, FS_CardinalityType
  <2>4. Len(microtasks) = 0 /\ maxConcurrent \in Nat
    BY <1>2 DEF IInv, TypeOK
  <2> QED BY <1>2, <2>3, <2>4 DEF WorkConserving
<1> QED BY <1>1, <1>2 DEF NobodyWaitsInVain

(* A call that decodes has its message or its reply on the way, or is worked  *)
(* on, or Foundation could not parse its URL (line 30 of the plugin); and a   *)
(* call waits without any of that going on for a slot only if such URLs hold  *)
(* all the slots (lines 59-80).                                               *)
THEOREM NobodyIsKeptWaiting == DistinctKeys /\ SystemSpec => []NobodyWaitsInVain
<1>1. InitSystem => Kept
  BY DEF InitSystem, I!InitIos, Kept
<1> QED BY <1>1, KeptNext, KeptIsNotInVain, SystemAlways, SystemConserves, PTL DEF SystemSpec

-----------------------------------------------------------------------------
(* How long the plugin is at work for a message.                              *)
MessageStepsLeft(c) ==
  CASE at[c] = "idle"        -> FrameCount + 5
    [] at[c] = "downloading" -> FrameCount + 4
    [] at[c] = "queued"      -> FrameCount + 3
    [] at[c] = "decoding"    -> FrameCount + 2 - number[c]
    [] at[c] = "posted"      -> 1
    [] at[c] = "answered"    -> 0
    [] at[c] = "given_up"    -> 0

PluginAdvances ==
  \A c \in Message :
    /\ MessageStepsLeft(c)' \in Nat /\ MessageStepsLeft(c)' <= MessageStepsLeft(c)
    /\ Receive(c) \/ QueueStep(c) \/ (MainStep /\ Head(mainQueue)[1] = c) =>
         MessageStepsLeft(c)' < MessageStepsLeft(c)

MessageStepsByPlace(c) ==
  /\ MessageStepsLeft(c) \in Nat /\ number[c] \in Nat
  /\ at[c] = "idle"        => MessageStepsLeft(c) = FrameCount + 5
  /\ at[c] = "downloading" => MessageStepsLeft(c) = FrameCount + 4
  /\ at[c] = "queued"      => MessageStepsLeft(c) = FrameCount + 3
  /\ at[c] = "decoding"    => /\ number[c] <= FrameCount
                              /\ MessageStepsLeft(c) = FrameCount + 2 - number[c]
  /\ at[c] = "posted"      => MessageStepsLeft(c) = 1
  /\ at[c] = "answered"    => MessageStepsLeft(c) = 0
  /\ at[c] = "given_up"    => MessageStepsLeft(c) = 0

LEMMA MessageStepsAre == SystemInv => \A c \in Message : MessageStepsByPlace(c)
<1> SUFFICES ASSUME SystemInv, NEW c \in Message PROVE MessageStepsByPlace(c)
  OBVIOUS
<1>1. /\ at[c] \in {"idle", "given_up", "answered", "downloading", "queued", "decoding",
                    "posted"}
      /\ number[c] \in Nat /\ number[c] <= FrameCount /\ FrameCount \in Nat
  BY SystemAssumption DEF SystemInv, Told, Counted, Underway
<1> QED BY <1>1 DEF MessageStepsLeft, MessageStepsByPlace

LEMMA MessageStepLowers ==
  ASSUME SystemInv, SystemInv', NEW c \in Message, MessageStepsByPlace(c),
         MessageStepsByPlace(c)', I!Handle(c) \/ I!QueueStep(c)
  PROVE  MessageStepsLeft(c)' < MessageStepsLeft(c)
<1> USE SystemAssumption DEF MessageStepsByPlace
<1>1. /\ at \in [Message -> {"idle", "given_up", "answered"} \cup Underway]
      /\ number \in [Message -> Nat]
  BY DEF SystemInv, Told, Counted
<1>2. CASE I!Handle(c)
  <2>1. at[c] = "idle" /\ at'[c] \in {"given_up", "downloading", "queued", "answered"}
    BY <1>1, <1>2 DEF I!Handle, I!Goto, I!Result
  <2> QED BY <2>1
<1>3. CASE I!DownloadEnds(c)
  <2>1. at[c] = "downloading" /\ at'[c] \in {"queued", "answered"}
    BY <1>1, <1>3 DEF I!DownloadEnds, I!Goto, I!Result
  <2> QED BY <2>1
<1>4. CASE I!OpenImage(c)
  <2>1. at[c] = "queued" /\ at'[c] \in {"decoding", "posted"}
    BY <1>1, <1>4 DEF I!OpenImage, I!Goto, I!Post
  <2> QED BY <2>1
<1>5. CASE I!SaveFrame(c)
  <2>1. at[c] = "decoding" /\ at'[c] = "decoding" /\ number'[c] = number[c] + 1
    BY <1>1, <1>5 DEF I!SaveFrame
  <2> QED BY <1>1, <2>1
<1>6. CASE I!PostFrames(c)
  <2>1. at[c] = "decoding" /\ at'[c] = "posted"
    BY <1>1, <1>6 DEF I!PostFrames, I!Post
  <2> QED BY <2>1
<1> QED BY <1>2, <1>3, <1>4, <1>5, <1>6 DEF I!QueueStep

LEMMA OtherMessagesStay ==
  ASSUME SystemInv, NEW c \in Message, NEW d \in Message \ {c},
         I!Handle(d) \/ I!QueueStep(d)
  PROVE  at'[c] = at[c] /\ number'[c] = number[c]
BY DEF I!QueueStep, I!Handle, I!DownloadEnds, I!OpenImage, I!SaveFrame, I!PostFrames,
       I!Goto, I!Result, I!Post, SystemInv, Told, Counted

LEMMA SamePlaceSameSteps ==
  ASSUME NEW c \in Message, at'[c] = at[c], number'[c] = number[c]
  PROVE  MessageStepsLeft(c)' = MessageStepsLeft(c)
BY DEF MessageStepsLeft

LEMMA MainStepLowers ==
  ASSUME SystemInv, SystemInv', NEW c \in Message, MessageStepsByPlace(c),
         MessageStepsByPlace(c)', I!RunOnMain
  PROVE  /\ Head(mainQueue)[1] = c => MessageStepsLeft(c)' < MessageStepsLeft(c)
         /\ Head(mainQueue)[1] # c => MessageStepsLeft(c)' = MessageStepsLeft(c)
<1>1. /\ mainQueue # <<>> /\ number' = number
      /\ at' = [at EXCEPT ![Head(mainQueue)[1]] = "answered"]
  BY DEF I!RunOnMain
<1>2. at \in [Message -> {"idle", "given_up", "answered"} \cup Underway]
  BY DEF SystemInv, Told
<1>3. at[Head(mainQueue)[1]] = "posted"
  BY <1>1, OldestBlock DEF SystemInv, Told
<1>4. CASE Head(mainQueue)[1] = c
  <2>1. at[c] = "posted" /\ at'[c] = "answered"
    BY <1>1, <1>2, <1>3, <1>4
  <2> QED BY <1>4, <2>1 DEF MessageStepsByPlace
<1>5. CASE Head(mainQueue)[1] # c
  <2>1. at'[c] = at[c] /\ number'[c] = number[c]
    BY <1>1, <1>2, <1>5
  <2> QED BY <1>5, <2>1, SamePlaceSameSteps
<1> QED BY <1>4, <1>5

LEMMA PluginAdvancesNext ==
  ASSUME SystemInv, SystemInv', [NextSystem]_systemVars,
         \A c \in Message : MessageStepsByPlace(c),
         \A c \in Message : MessageStepsByPlace(c)'
  PROVE  PluginAdvances
<1> SUFFICES ASSUME NEW c \in Message
             PROVE  /\ MessageStepsLeft(c)' \in Nat
                    /\ MessageStepsLeft(c)' <= MessageStepsLeft(c)
                    /\ Receive(c) \/ QueueStep(c) \/ (MainStep /\ Head(mainQueue)[1] = c) =>
                         MessageStepsLeft(c)' < MessageStepsLeft(c)
  BY DEF PluginAdvances
<1>1. MessageStepsLeft(c) \in Nat /\ MessageStepsLeft(c)' \in Nat
  BY DEF MessageStepsByPlace
<1>2. Receive(c) \/ QueueStep(c) => MessageStepsLeft(c)' < MessageStepsLeft(c)
  BY MessageStepLowers DEF Receive, QueueStep
<1>3. MainStep => /\ Head(mainQueue)[1] = c => MessageStepsLeft(c)' < MessageStepsLeft(c)
                  /\ Head(mainQueue)[1] # c => MessageStepsLeft(c)' = MessageStepsLeft(c)
  BY MainStepLowers DEF MainStep
<1>4. ASSUME NEW d \in Message, d # c, Receive(d) \/ QueueStep(d)
      PROVE  MessageStepsLeft(c)' = MessageStepsLeft(c)
  BY <1>4, OtherMessagesStay, SamePlaceSameSteps DEF Receive, QueueStep
<1>5. ASSUME UNCHANGED iosVars PROVE MessageStepsLeft(c)' = MessageStepsLeft(c)
  BY <1>5, SamePlaceSameSteps DEF iosVars
<1>6. MessageStepsLeft(c)' <= MessageStepsLeft(c)
  BY <1>1, <1>2, <1>3, <1>4, <1>5 DEF NextSystem, PoolStep, Answered, systemVars
<1> QED BY <1>1, <1>2, <1>3, <1>6

(* Each thing the handler, a queue or the main thread does for a message      *)
(* brings it nearer to its end, and nothing that is done for another message, *)
(* or by the Dart side, takes it back: FrameCount + 5 steps at most from the  *)
(* message to its reply (IosPlugin, lines 18-108).                            *)
THEOREM MessageRunsOut == SystemSpec => [][PluginAdvances]_systemVars
<1>1. SystemInv /\ (\A c \in Message : MessageStepsByPlace(c)) /\
      SystemInv' /\ (\A c \in Message : MessageStepsByPlace(c))' /\ [NextSystem]_systemVars
        => PluginAdvances
  BY PluginAdvancesNext
<1> QED BY <1>1, MessageStepsAre, SystemAlways, PTL DEF SystemSpec
===============================================================================
