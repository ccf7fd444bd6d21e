-------------------------- MODULE DecodePoolProofs --------------------------
(* Theorems about DecodePool for any set of calls, any keys and any sequence *)
(* of limits.                                                                *)
EXTENDS DecodePool, SequenceTheorems, FiniteSetTheorems, TLAPS

USE DEF Settled, CallState, BatchState

(* Queues of waiting calls: moving the head of one to the end of the other    *)
(* leaves their concatenation as it is, and so do the two ends of it.         *)
LEMMA MoveHead ==
  ASSUME NEW S, NEW s \in Seq(S), NEW t \in Seq(S), t # <<>>
  PROVE  Append(s, Head(t)) \o Tail(t) = s \o t
<1>1. t = <<Head(t)>> \o Tail(t) /\ Head(t) \in S /\ Tail(t) \in Seq(S)
  OBVIOUS
<1>2. Append(s, Head(t)) = s \o <<Head(t)>>
  BY <1>1, AppendIsConcat
<1>3. (s \o <<Head(t)>>) \o Tail(t) = s \o (<<Head(t)>> \o Tail(t))
  BY <1>1, ConcatAssociative
<1> QED BY <1>1, <1>2, <1>3

LEMMA AppendToSecond ==
  ASSUME NEW S, NEW s \in Seq(S), NEW t \in Seq(S), NEW e \in S
  PROVE  s \o Append(t, e) = Append(s \o t, e)
<1>1. Append(t, e) = t \o <<e>> /\ Append(s \o t, e) = (s \o t) \o <<e>>
  BY AppendIsConcat, ConcatProperties
<1>2. (s \o t) \o <<e>> = s \o (t \o <<e>>)
  BY ConcatAssociative
<1> QED BY <1>1, <1>2

LEMMA TailOfFirst ==
  ASSUME NEW S, NEW s \in Seq(S), NEW t \in Seq(S), s # <<>>
  PROVE  /\ s \o t \in Seq(S) /\ s \o t # <<>>
         /\ Head(s \o t) = Head(s)
         /\ Tail(s \o t) = Tail(s) \o t
OBVIOUS

-----------------------------------------------------------------------------
(* Every state has its type: above all, the limit stays within 1..5 whatever  *)
(* setMaxConcurrent is given (lines 49-51).                                   *)
LEMMA TypeInit == Init => TypeOK
BY PoolAssumption DEF Init, TypeOK

LEMMA TypeNext == TypeOK /\ [Next]_vars => TypeOK'
<1> SUFFICES ASSUME TypeOK, [Next]_vars PROVE TypeOK'
  OBVIOUS
<1> USE PoolAssumption DEF TypeOK
<1>1. ASSUME NEW m \in MaxArgs, SetMaxConcurrent(m) PROVE TypeOK'
  BY <1>1 DEF SetMaxConcurrent, Clamp
<1>2. ASSUME NEW c \in Controlled, AcquireSlot(c)
      PROVE  activeDecodes' \subseteq Key /\ waitingQueue' \in Seq(Controlled)
             /\ pc' \in [Call -> CallState]
  <2>1. c \in Call /\ DecodeKey[c] \in Key
    OBVIOUS
  <2>2. CASE WaitForSlot(c)
    BY <2>1, <2>2 DEF WaitForSlot
  <2>3. CASE TakeSlot(c)
    BY <2>1, <2>3 DEF TakeSlot
  <2> QED BY <1>2, <2>2, <2>3 DEF AcquireSlot
<1>3. ASSUME NEW c \in Call, ExtractFrames(c) PROVE TypeOK'
  <2>1. CASE c \in Controlled
    BY <2>1, <1>2, <1>3 DEF ExtractFrames
  <2>2. CASE c \notin Controlled
    BY <2>2, <1>3 DEF ExtractFrames, CallDirectly
  <2> QED BY <2>1, <2>2
<1>4. CASE ExtractFramesBatch
  BY <1>4 DEF ExtractFramesBatch, CallDirectly
<1>5. CASE Resume
  <2>1. Head(microtasks) \in Controlled /\ Tail(microtasks) \in Seq(Controlled)
    BY <1>5 DEF Resume
  <2> QED BY <2>1, <1>2, <1>5 DEF Resume
<1>6. ASSUME NEW c \in Controlled, ReleaseSlot(c)
      PROVE  /\ activeDecodes' \subseteq Key
             /\ waitingQueue' \in Seq(Controlled) /\ microtasks' \in Seq(Controlled)
  <2>1. CASE waitingQueue = <<>>
    BY <1>6, <2>1 DEF ReleaseSlot
  <2>2. CASE waitingQueue # <<>>
    <3>1. Head(waitingQueue) \in Controlled /\ Tail(waitingQueue) \in Seq(Controlled)
      BY <2>2
    <3>2. Append(microtasks, Head(waitingQueue)) \in Seq(Controlled)
      BY <3>1, AppendProperties
    <3> HIDE PoolAssumption
    <3> QED BY <1>6, <2>2, <3>1, <3>2 DEF ReleaseSlot
  <2> QED BY <2>1, <2>2
<1>7. ASSUME NEW c \in Call, NEW outcome \in Settled, Finish(c, outcome) PROVE TypeOK'
  BY <1>6, <1>7 DEF Finish
<1>8. CASE SettleBatch
  BY <1>8 DEF SettleBatch
<1>9. CASE UNCHANGED vars
  BY <1>9 DEF vars
<1> QED BY <1>1, <1>3, <1>4, <1>5, <1>7, <1>8, <1>9 DEF Next

(* Whatever setMaxConcurrent is given, the limit stays within 1..5, and the   *)
(* queue, the microtasks and activeDecodes keep their types (lines 43-51).    *)
THEOREM TypeCorrect == Spec => []TypeOK
<1> QED BY TypeInit, TypeNext, PTL DEF Spec

-----------------------------------------------------------------------------
(* s lists the calls of W, each once.                                         *)
Lists(s, W) ==
  /\ \A c \in Call : c \in W <=> \E i \in 1..Len(s) : s[i] = c
  /\ \A i, j \in 1..Len(s) : s[i] = s[j] => i = j

Waiting == {c \in Call : pc[c] = "waiting"}

LEMMA ListMore ==
  ASSUME NEW s \in Seq(Controlled), NEW W, Lists(s, W), NEW c \in Controlled, c \notin W
  PROVE  Lists(Append(s, c), W \cup {c})
<1>1. /\ Len(Append(s, c)) = Len(s) + 1 /\ Len(s) \in Nat
      /\ \A i \in 1..Len(s) : Append(s, c)[i] = s[i]
      /\ Append(s, c)[Len(s) + 1] = c
  BY AppendProperties
<1>2. c \in Call /\ \A i \in 1..Len(s) : s[i] # c
  BY PoolAssumption DEF Lists
<1>3. \A d \in Call : d \in W \cup {c} <=> \E i \in 1..Len(s) + 1 : Append(s, c)[i] = d
  BY <1>1, <1>2 DEF Lists
<1>4. \A i, j \in 1..Len(s) + 1 : Append(s, c)[i] = Append(s, c)[j] => i = j
  BY <1>1, <1>2 DEF Lists
<1> QED BY <1>1, <1>3, <1>4 DEF Lists

LEMMA ListLess ==
  ASSUME NEW s \in Seq(Controlled), NEW W, Lists(s, W), s # <<>>
  PROVE  /\ Head(s) \in W \cap Controlled
         /\ Tail(s) \in Seq(Controlled)
         /\ Lists(Tail(s), W \ {Head(s)})
<1>1. /\ Len(Tail(s)) = Len(s) - 1 /\ Len(s) \in Nat /\ Len(s) > 0
      /\ \A i \in 1..Len(s) - 1 : Tail(s)[i] = s[i + 1]
      /\ Head(s) = s[1] /\ Head(s) \in Controlled /\ Tail(s) \in Seq(Controlled)
  BY HeadTailProperties
<1>2. Head(s) \in W
  BY <1>1, PoolAssumption DEF Lists
<1>3. ASSUME NEW d \in Call
      PROVE  d \in W \ {Head(s)} <=> \E i \in 1..Len(s) - 1 : Tail(s)[i] = d
  <2>1. ASSUME NEW i \in 1..Len(s) - 1, Tail(s)[i] = d PROVE d \in W \ {Head(s)}
    <3>1. i + 1 \in 1..Len(s) /\ s[i + 1] = d /\ i + 1 # 1
      BY <1>1, <2>1
    <3> QED BY <1>1, <3>1 DEF Lists
  <2>2. ASSUME d \in W \ {Head(s)} PROVE \E i \in 1..Len(s) - 1 : Tail(s)[i] = d
    <3>1. PICK k \in 1..Len(s) : s[k] = d
      BY <2>2 DEF Lists
    <3>2. k - 1 \in 1..Len(s) - 1 /\ Tail(s)[k - 1] = d
      BY <1>1, <2>2, <3>1
    <3> QED BY <3>2
  <2> QED BY <2>1, <2>2
<1>4. ASSUME NEW i \in 1..Len(s) - 1, NEW j \in 1..Len(s) - 1, Tail(s)[i] = Tail(s)[j]
      PROVE  i = j
  <2>1. i + 1 \in 1..Len(s) /\ j + 1 \in 1..Len(s) /\ s[i + 1] = s[j + 1]
    BY <1>1, <1>4
  <2> QED BY <2>1 DEF Lists
<1> QED BY <1>1, <1>2, <1>3, <1>4 DEF Lists

(* How the pool's three moves change the line of waiting calls.               *)
LEMMA PendingMoves ==
  ASSUME TypeOK
  PROVE  /\ Pending \in Seq(Controlled)
         /\ \A c \in Controlled :
              /\ WaitForSlot(c) /\ microtasks' = microtasks => Pending' = Append(Pending, c)
              /\ ReleaseSlot(c) => Pending' = Pending
         /\ microtasks # <<>> => /\ Pending # <<>> /\ Head(Pending) = Head(microtasks)
                                 /\ Tail(Pending) = Tail(microtasks) \o waitingQueue
<1> USE DEF TypeOK, Pending
<1>1. Pending \in Seq(Controlled)
  BY ConcatProperties
<1>2. ASSUME NEW c \in Controlled, WaitForSlot(c), microtasks' = microtasks
      PROVE  Pending' = Append(Pending, c)
  BY <1>2, AppendToSecond DEF WaitForSlot
<1>3. ASSUME NEW c \in Controlled, ReleaseSlot(c) PROVE Pending' = Pending
  BY <1>3, MoveHead DEF ReleaseSlot
<1>4. ASSUME microtasks # <<>>
      PROVE  /\ Pending # <<>> /\ Head(Pending) = Head(microtasks)
             /\ Tail(Pending) = Tail(microtasks) \o waitingQueue
  BY <1>4, TailOfFirst
<1> QED BY <1>1, <1>2, <1>3, <1>4

LEMMA WaitersAreListed == WaitersAccounted <=> Lists(Pending, Waiting)
BY DEF WaitersAccounted, Lists, Waiting

LEMMA WaitersNext == TypeOK /\ WaitersAccounted /\ [Next]_vars => WaitersAccounted'
<1> SUFFICES ASSUME TypeOK, Lists(Pending, Waiting), [Next]_vars
             PROVE  Lists(Pending', Waiting')
  BY DEF WaitersAccounted, Lists, Waiting
<1> USE PoolAssumption
<1>0. pc \in [Call -> CallState] /\ Pending \in Seq(Controlled)
  BY PendingMoves DEF TypeOK
<1>1. ASSUME NEW m \in MaxArgs, SetMaxConcurrent(m) PROVE Pending' = Pending /\ Waiting' = Waiting
  BY <1>1 DEF SetMaxConcurrent, Pending, Waiting
<1>2. ASSUME NEW c \in Call, ExtractFrames(c) PROVE Lists(Pending', Waiting')
  <2>1. CASE c \in Controlled /\ WaitForSlot(c)
    <3>1. Waiting' = Waiting \cup {c} /\ c \notin Waiting
      BY <1>0, <1>2, <2>1 DEF ExtractFrames, WaitForSlot, Waiting
    <3>2. Pending' = Append(Pending, c)
      BY <1>2, <2>1, PendingMoves DEF ExtractFrames
    <3> QED BY <1>0, <2>1, <3>1, <3>2, ListMore
  <2>2. CASE c \in Controlled /\ TakeSlot(c)
    <3>1. Pending' = Pending /\ Waiting' = Waiting
      BY <1>0, <1>2, <2>2 DEF ExtractFrames, TakeSlot, Pending, Waiting
    <3> QED BY <3>1
  <2>3. CASE c \notin Controlled
    <3>1. Pending' = Pending /\ Waiting' = Waiting
      BY <1>0, <1>2, <2>3 DEF ExtractFrames, CallDirectly, Pending, Waiting
    <3> QED BY <3>1
  <2> QED BY <1>2, <2>1, <2>2, <2>3 DEF ExtractFrames, AcquireSlot
<1>3. CASE ExtractFramesBatch
  <2>1. Pending' = Pending /\ Waiting' = Waiting \ Batch /\ Waiting \cap Batch = {}
    BY <1>0, <1>3 DEF ExtractFramesBatch, CallDirectly, Pending, Waiting, Lists
  <2> QED BY <2>1
<1>4. CASE Resume
  <2> DEFINE c == Head(microtasks)
  <2>1. /\ c \in Waiting \cap Controlled
        /\ Tail(microtasks) \o waitingQueue \in Seq(Controlled)
        /\ Lists(Tail(microtasks) \o waitingQueue, Waiting \ {c})
    BY <1>0, <1>4, ListLess, PendingMoves DEF Resume
  <2>2. CASE WaitForSlot(c)
    <3>1. Waiting' = (Waiting \ {c}) \cup {c}
      BY <1>0, <2>1, <2>2 DEF WaitForSlot, Waiting
    <3>2. Pending' = Append(Tail(microtasks) \o waitingQueue, c)
      <4>1. Pending' = Tail(microtasks) \o Append(waitingQueue, c)
        BY <1>4, <2>2 DEF Resume, WaitForSlot, Pending
      <4>2. Tail(microtasks) \in Seq(Controlled) /\ waitingQueue \in Seq(Controlled)
        BY <1>4 DEF Resume, TypeOK
      <4> QED BY <2>1, <4>1, <4>2, AppendToSecond
    <3> QED BY <2>1, <3>1, <3>2, ListMore
  <2>3. CASE TakeSlot(c)
    <3>1. Waiting' = Waiting \ {c} /\ Pending' = Tail(microtasks) \o waitingQueue
      BY <1>0, <1>4, <2>1, <2>3 DEF Resume, TakeSlot, Pending, Waiting
    <3> QED BY <2>1, <3>1
  <2> QED BY <1>4, <2>2, <2>3 DEF Resume, AcquireSlot
<1>5. ASSUME NEW c \in Call, NEW outcome \in Settled, Finish(c, outcome)
      PROVE  Pending' = Pending /\ Waiting' = Waiting
  <2>1. Waiting' = Waiting
    BY <1>0, <1>5 DEF Finish, Waiting
  <2>2. CASE c \in Controlled
    BY <1>5, <2>1, <2>2, PendingMoves DEF Finish
  <2>3. CASE c \notin Controlled
    BY <1>5, <2>1, <2>3 DEF Finish, Pending
  <2> QED BY <2>2, <2>3
<1>6. CASE SettleBatch \/ UNCHANGED vars
  <2>1. Pending' = Pending /\ Waiting' = Waiting
    BY <1>6 DEF SettleBatch, vars, Pending, Waiting
  <2> QED BY <2>1
<1> QED BY <1>1, <1>2, <1>3, <1>4, <1>5, <1>6 DEF Next

-----------------------------------------------------------------------------
(* The head of the line is not decoding, so resuming it takes no slot away    *)
(* from a call that owns one.                                                 *)
LEMMA ResumedCallWaits ==
  ASSUME TypeOK, WaitersAccounted, microtasks # <<>>
  PROVE  Head(microtasks) \in Controlled /\ pc[Head(microtasks)] = "waiting"
<1>1. Head(microtasks) \in Waiting \cap Controlled
  BY ListLess, PendingMoves, WaitersAreListed
<1> QED BY <1>1 DEF Waiting

LEMMA AcquireKeepsOwners ==
  ASSUME TypeOK, SlotsHaveOwners,
         NEW c \in Controlled, pc[c] # "decoding", AcquireSlot(c)
  PROVE  SlotsHaveOwners'
<1> USE PoolAssumption
<1>1. c \in Call /\ pc \in [Call -> CallState]
  BY DEF TypeOK
<1>2. CASE WaitForSlot(c)
  <2>1. Running' = Running /\ activeDecodes' = activeDecodes
    BY <1>1, <1>2 DEF WaitForSlot, Running
  <2> QED BY <2>1 DEF SlotsHaveOwners
<1>3. CASE TakeSlot(c)
  <2>1. Running' = Running \cup {c} /\ activeDecodes' = activeDecodes \cup {DecodeKey[c]}
    BY <1>1, <1>3 DEF TakeSlot, Running
  <2> QED BY <2>1 DEF SlotsHaveOwners
<1> QED BY <1>2, <1>3 DEF AcquireSlot

LEMMA SlotsNext ==
  TypeOK /\ WaitersAccounted /\ SlotsHaveOwners /\ [Next]_vars => SlotsHaveOwners'
<1> SUFFICES ASSUME TypeOK, WaitersAccounted, SlotsHaveOwners, [Next]_vars
             PROVE  SlotsHaveOwners'
  OBVIOUS
<1> USE PoolAssumption
<1>0. pc \in [Call -> CallState]
  BY DEF TypeOK
<1>1. ASSUME Running \subseteq Running', activeDecodes' = activeDecodes PROVE SlotsHaveOwners'
  BY <1>1 DEF SlotsHaveOwners
<1>2. ASSUME NEW m \in MaxArgs, SetMaxConcurrent(m) PROVE SlotsHaveOwners'
  BY <1>1, <1>2 DEF SetMaxConcurrent, Running
<1>3. ASSUME NEW c \in Call, ExtractFrames(c) PROVE SlotsHaveOwners'
  <2>1. CASE c \in Controlled
    <3>1. pc[c] # "decoding" /\ AcquireSlot(c)
      BY <1>3, <2>1 DEF ExtractFrames
    <3> QED BY <2>1, <3>1, AcquireKeepsOwners
  <2>2. CASE c \notin Controlled
    BY <1>0, <1>1, <1>3, <2>2 DEF ExtractFrames, CallDirectly, Running
  <2> QED BY <2>1, <2>2
<1>4. CASE ExtractFramesBatch
  BY <1>0, <1>1, <1>4 DEF ExtractFramesBatch, CallDirectly, Running
<1>5. CASE Resume
  <2>1. /\ Head(microtasks) \in Controlled /\ pc[Head(microtasks)] # "decoding"
        /\ AcquireSlot(Head(microtasks))
    BY <1>5, ResumedCallWaits DEF Resume
  <2> QED BY <2>1, AcquireKeepsOwners
<1>6. ASSUME NEW c \in Call, NEW outcome \in Settled, Finish(c, outcome) PROVE SlotsHaveOwners'
  <2>1. Running' = Running \ {c}
    BY <1>0, <1>6 DEF Finish, Running
  <2>2. CASE c \in Controlled
    <3>1. activeDecodes' = activeDecodes \ {DecodeKey[c]}
      BY <1>6, <2>2 DEF Finish, ReleaseSlot
    <3> QED BY <2>1, <3>1 DEF SlotsHaveOwners
  <2>3. CASE c \notin Controlled
    <3>1. activeDecodes' = activeDecodes /\ Running' = Running
      BY <1>6, <2>1, <2>3 DEF Finish, Running
    <3> QED BY <1>1, <3>1
  <2> QED BY <2>2, <2>3
<1>7. CASE SettleBatch \/ UNCHANGED vars
  BY <1>1, <1>7 DEF SettleBatch, vars, Running
<1> QED BY <1>2, <1>3, <1>4, <1>5, <1>6, <1>7 DEF Next

-----------------------------------------------------------------------------
(* A call waits only because the limit is reached, and the limit is at least  *)
(* one: so some key is active, and its owner is running.                      *)
LEMMA AcquireLeavesWaker ==
  ASSUME TypeOK, SlotsHaveOwners,
         NEW c \in Controlled, pc[c] # "decoding", AcquireSlot(c)
  PROVE  Running' # {}
<1> USE PoolAssumption
<1>1. c \in Call /\ pc \in [Call -> CallState] /\ maxConcurrent \in 1..5
  BY DEF TypeOK
<1>2. CASE WaitForSlot(c)
  <2>1. activeDecodes # {}
    <3>1. Cardinality({}) = 0 /\ ~(0 >= maxConcurrent)
      BY <1>1, FS_EmptySet
    <3> QED BY <1>2, <3>1 DEF WaitForSlot
  <2>2. PICK k \in activeDecodes : TRUE
    BY <2>1
  <2>3. PICK d \in Running : DecodeKey[d] = k
    BY <2>2 DEF SlotsHaveOwners
  <2>4. d \in Running'
    BY <1>1, <1>2, <2>3 DEF WaitForSlot, Running
  <2> QED BY <2>4
<1>3. CASE TakeSlot(c)
  <2>1. c \in Running'
    BY <1>1, <1>3 DEF TakeSlot, Running
  <2> QED BY <2>1
<1> QED BY <1>2, <1>3 DEF AcquireSlot

LEMMA WakeupNext ==
  TypeOK /\ WaitersAccounted /\ SlotsHaveOwners /\ NoLostWakeup /\ [Next]_vars
    => NoLostWakeup'
<1> SUFFICES ASSUME TypeOK, WaitersAccounted, SlotsHaveOwners, NoLostWakeup, [Next]_vars
             PROVE  NoLostWakeup'
  OBVIOUS
<1> USE PoolAssumption
<1>0. pc \in [Call -> CallState] /\ waitingQueue \in Seq(Controlled) /\ microtasks \in Seq(Controlled)
  BY DEF TypeOK
<1>1. ASSUME Running \subseteq Running', UNCHANGED <<waitingQueue, microtasks>>
      PROVE  NoLostWakeup'
  BY <1>1 DEF NoLostWakeup
<1>2. ASSUME NEW m \in MaxArgs, SetMaxConcurrent(m) PROVE NoLostWakeup'
  BY <1>1, <1>2 DEF SetMaxConcurrent, Running
<1>3. ASSUME NEW c \in Call, ExtractFrames(c) PROVE NoLostWakeup'
  <2>1. CASE c \in Controlled
    <3>1. pc[c] # "decoding" /\ AcquireSlot(c)
      BY <1>3, <2>1 DEF ExtractFrames
    <3> QED BY <2>1, <3>1, AcquireLeavesWaker DEF NoLostWakeup
  <2>2. CASE c \notin Controlled
    BY <1>0, <1>1, <1>3, <2>2 DEF ExtractFrames, CallDirectly, Running
  <2> QED BY <2>1, <2>2
<1>4. CASE ExtractFramesBatch
  BY <1>0, <1>1, <1>4 DEF ExtractFramesBatch, CallDirectly, Running
<1>5. CASE Resume
  <2>1. /\ Head(microtasks) \in Controlled /\ pc[Head(microtasks)] # "decoding"
        /\ AcquireSlot(Head(microtasks))
    BY <1>5, ResumedCallWaits DEF Resume
  <2> QED BY <2>1, AcquireLeavesWaker DEF NoLostWakeup
<1>6. ASSUME NEW c \in Call, NEW outcome \in Settled, Finish(c, outcome) PROVE NoLostWakeup'
  <2>1. CASE c \in Controlled /\ waitingQueue = <<>>
    BY <1>6, <2>1 DEF Finish, ReleaseSlot, NoLostWakeup
  <2>2. CASE c \in Controlled /\ waitingQueue # <<>>
    <3>1. Head(waitingQueue) \in Controlled
      BY <1>0, <2>2
    <3>2. microtasks' # <<>>
      BY <1>0, <1>6, <2>2, <3>1, AppendProperties DEF Finish, ReleaseSlot
    <3> QED BY <3>2 DEF NoLostWakeup
  <2>3. CASE c \notin Controlled
    BY <1>0, <1>1, <1>6, <2>3 DEF Finish, Running
  <2> QED BY <2>1, <2>2, <2>3
<1>7. CASE SettleBatch \/ UNCHANGED vars
  BY <1>1, <1>7 DEF SettleBatch, vars, Running
<1> QED BY <1>2, <1>3, <1>4, <1>5, <1>6, <1>7 DEF Next

-----------------------------------------------------------------------------
(* The inductive invariant: who waits, who holds a slot, who wakes the queue. *)
IInv == TypeOK /\ WaitersAccounted /\ SlotsHaveOwners /\ NoLostWakeup

LEMMA IInvInit == Init => IInv
<1> SUFFICES ASSUME Init PROVE IInv
  OBVIOUS
<1>1. TypeOK
  BY TypeInit
<1>2. Pending = <<>>
  BY DEF Init, Pending
<1>3. WaitersAccounted
  BY <1>2 DEF Init, WaitersAccounted
<1> QED BY <1>1, <1>3 DEF Init, IInv, SlotsHaveOwners, NoLostWakeup

LEMMA IInvNext == IInv /\ [Next]_vars => IInv'
BY TypeNext, WaitersNext, SlotsNext, WakeupNext DEF IInv

LEMMA Invariant == Spec => []IInv
BY IInvInit, IInvNext, PTL DEF Spec

(* Every suspended call owns exactly one Completer, in the queue or already   *)
(* completed (lines 62-66 and 74-79).                                         *)
THEOREM WaitersNeverLost == Spec => []WaitersAccounted
<1>1. IInv => WaitersAccounted
  BY DEF IInv
<1> QED BY <1>1, Invariant, PTL

(* The finally block leaks no slot: an active key has a call that decodes     *)
(* (lines 68-72).                                                             *)
THEOREM SlotsNeverLeak == Spec => []SlotsHaveOwners
<1>1. IInv => SlotsHaveOwners
  BY DEF IInv
<1> QED BY <1>1, Invariant, PTL

(* The queue never sleeps alone: while a call waits in it, another one will   *)
(* wake it (lines 62-66 and 71-80).                                           *)
THEOREM WakeupNeverLost == Spec => []NoLostWakeup
<1>1. IInv => NoLostWakeup
  BY DEF IInv
<1> QED BY <1>1, Invariant, PTL

-----------------------------------------------------------------------------
(* Without two calls on the same input and output, a slot is a call.          *)
SlotsAreCalls == activeDecodes = {DecodeKey[c] : c \in Running}

LEMMA SlotsAreCallsNext ==
  DistinctKeys /\ IInv /\ SlotsAreCalls /\ [Next]_vars => SlotsAreCalls'
<1> SUFFICES ASSUME DistinctKeys, IInv, SlotsAreCalls, [Next]_vars PROVE SlotsAreCalls'
  OBVIOUS
<1> USE PoolAssumption
<1>0. pc \in [Call -> CallState]
  BY DEF IInv, TypeOK
<1>1. ASSUME Running' = Running, activeDecodes' = activeDecodes PROVE SlotsAreCalls'
  BY <1>1 DEF SlotsAreCalls
<1>2. ASSUME NEW c \in Controlled, AcquireSlot(c), pc[c] # "decoding" PROVE SlotsAreCalls'
  <2>1. CASE WaitForSlot(c)
    BY <1>0, <1>1, <1>2, <2>1 DEF WaitForSlot, Running
  <2>2. CASE TakeSlot(c)
    <3>1. Running' = Running \cup {c} /\ activeDecodes' = activeDecodes \cup {DecodeKey[c]}
      BY <1>0, <2>2 DEF TakeSlot, Running
    <3> QED BY <3>1 DEF SlotsAreCalls
  <2> QED BY <1>2, <2>1, <2>2 DEF AcquireSlot
<1>3. ASSUME NEW m \in MaxArgs, SetMaxConcurrent(m) PROVE SlotsAreCalls'
  BY <1>1, <1>3 DEF SetMaxConcurrent, Running
<1>4. ASSUME NEW c \in Call, ExtractFrames(c) PROVE SlotsAreCalls'
  <2>1. CASE c \in Controlled
    BY <1>2, <1>4, <2>1 DEF ExtractFrames
  <2>2. CASE c \notin Controlled
    BY <1>0, <1>1, <1>4, <2>2 DEF ExtractFrames, CallDirectly, Running
  <2> QED BY <2>1, <2>2
<1>5. CASE ExtractFramesBatch
  BY <1>0, <1>1, <1>5 DEF ExtractFramesBatch, CallDirectly, Running
<1>6. CASE Resume
  <2>1. /\ Head(microtasks) \in Controlled /\ pc[Head(microtasks)] # "decoding"
        /\ AcquireSlot(Head(microtasks))
    BY <1>6, ResumedCallWaits DEF Resume, IInv
  <2> QED BY <1>2, <2>1
<1>7. ASSUME NEW c \in Call, NEW outcome \in Settled, Finish(c, outcome) PROVE SlotsAreCalls'
  <2>1. Running' = Running \ {c}
    BY <1>0, <1>7 DEF Finish, Running
  <2>2. CASE c \in Controlled
    <3>1. activeDecodes' = activeDecodes \ {DecodeKey[c]}
      BY <1>7, <2>2 DEF Finish, ReleaseSlot
    <3>2. \A d \in Running : DecodeKey[d] = DecodeKey[c] <=> d = c
      BY <2>2 DEF DistinctKeys, Running
    <3> QED BY <2>1, <3>1, <3>2 DEF SlotsAreCalls
  <2>3. CASE c \notin Controlled
    <3>1. activeDecodes' = activeDecodes /\ Running' = Running
      BY <1>7, <2>1, <2>3 DEF Finish, Running
    <3> QED BY <1>1, <3>1
  <2> QED BY <2>2, <2>3
<1>8. CASE SettleBatch \/ UNCHANGED vars
  BY <1>1, <1>8 DEF SettleBatch, vars, Running
<1> QED BY <1>3, <1>4, <1>5, <1>6, <1>7, <1>8 DEF Next

LEMMA SlotsCountCalls ==
  DistinctKeys /\ SlotsAreCalls => Cardinality(activeDecodes) = Cardinality(Running)
<1> SUFFICES ASSUME DistinctKeys, SlotsAreCalls
             PROVE  Cardinality(activeDecodes) = Cardinality(Running)
  OBVIOUS
<1> DEFINE key == [c \in Running |-> DecodeKey[c]]
<1>1. IsFiniteSet(Running)
  BY PoolAssumption, FS_Subset DEF Running
<1>2. key \in Bijection(Running, activeDecodes)
  BY DEF SlotsAreCalls, DistinctKeys, Running, Bijection, Injection, Surjection, IsInjective
<1> QED BY <1>1, <1>2, FS_Bijection DEF ExistsBijection

(* Each step of the pool is a step of the limiter, or none at all.            *)
LEMMA StepIsLimiterStep ==
  DistinctKeys /\ IInv /\ SlotsAreCalls /\ [Next]_vars => [L!Next]_(L!vars)
<1> DEFINE queued == {c \in Controlled : pc[c] = "waiting"}
<1> SUFFICES ASSUME DistinctKeys, IInv, SlotsAreCalls, [Next]_vars
             PROVE  [L!Next]_(L!vars)
  OBVIOUS
<1> USE PoolAssumption
<1>0. pc \in [Call -> CallState]
  BY DEF IInv, TypeOK
<1>1. ASSUME UNCHANGED maxConcurrent, Running' = Running, queued' = queued
      PROVE  UNCHANGED L!vars
  BY <1>1 DEF L!vars
<1>2. ASSUME NEW c \in Controlled, TakeSlot(c), pc[c] # "decoding", UNCHANGED maxConcurrent
      PROVE  L!Next
  <2>1. c \notin Running /\ Running' = Running \cup {c} /\ queued' = queued \ {c}
    BY <1>0, <1>2 DEF TakeSlot, Running
  <2>2. L!Cardinality(Running) < maxConcurrent
    <3>1. L!Cardinality(Running) = Cardinality(Running)
      BY DEF L!Cardinality, Cardinality
    <3> QED BY <1>2, <3>1, SlotsCountCalls DEF TakeSlot
  <2>3. L!Enter(c)
    BY <1>2, <2>1, <2>2 DEF L!Enter
  <2> QED BY <2>3 DEF L!Next
<1>3. ASSUME NEW m \in MaxArgs, SetMaxConcurrent(m) PROVE L!Next
  <2>1. maxConcurrent' \in 1..5
    BY <1>3 DEF SetMaxConcurrent, Clamp
  <2>2. L!SetLimit(maxConcurrent')
    BY <1>3 DEF SetMaxConcurrent, L!SetLimit, Running
  <2> QED BY <2>1, <2>2 DEF L!Next
<1>4. ASSUME NEW c \in Call, ExtractFrames(c) PROVE [L!Next]_(L!vars)
  <2>1. CASE c \in Controlled /\ WaitForSlot(c)
    <3>1. /\ c \notin queued \cup Running /\ queued' = queued \cup {c}
          /\ Running' = Running /\ UNCHANGED maxConcurrent
      BY <1>0, <1>4, <2>1 DEF ExtractFrames, WaitForSlot, Running
    <3>2. L!Arrive(c)
      BY <3>1 DEF L!Arrive
    <3> QED BY <2>1, <3>2 DEF L!Next
  <2>2. CASE c \in Controlled /\ TakeSlot(c)
    BY <1>2, <1>4, <2>2 DEF ExtractFrames
  <2>3. CASE c \notin Controlled
    BY <1>0, <1>1, <1>4, <2>3 DEF ExtractFrames, CallDirectly, Running
  <2> QED BY <1>4, <2>1, <2>2, <2>3 DEF ExtractFrames, AcquireSlot
<1>5. CASE ExtractFramesBatch
  <2>1. Running' = Running /\ queued' = queued
    BY <1>0, <1>5 DEF ExtractFramesBatch, CallDirectly, Running
  <2> QED BY <1>1, <1>5, <2>1 DEF ExtractFramesBatch
<1>6. CASE Resume
  <2> DEFINE c == Head(microtasks)
  <2>1. c \in Controlled /\ pc[c] = "waiting" /\ UNCHANGED maxConcurrent
    BY <1>6, ResumedCallWaits DEF Resume, IInv
  <2>2. CASE WaitForSlot(c)
    <3>1. Running' = Running /\ queued' = queued
      BY <1>0, <2>1, <2>2 DEF WaitForSlot, Running
    <3> QED BY <1>1, <2>1, <3>1
  <2>3. CASE TakeSlot(c)
    BY <1>2, <2>1, <2>3
  <2> QED BY <1>6, <2>2, <2>3 DEF Resume, AcquireSlot
<1>7. ASSUME NEW c \in Call, NEW outcome \in Settled, Finish(c, outcome)
      PROVE  [L!Next]_(L!vars)
  <2>1. Running' = Running \ {c} /\ queued' = queued /\ UNCHANGED maxConcurrent
    BY <1>0, <1>7 DEF Finish, Running
  <2>2. CASE c \in Controlled
    <3>1. c \in Running
      BY <1>7, <2>2 DEF Finish, Running
    <3>2. L!Leave(c)
      BY <2>1, <3>1 DEF L!Leave
    <3> QED BY <2>2, <3>2 DEF L!Next
  <2>3. CASE c \notin Controlled
    BY <1>1, <2>1, <2>3 DEF Running
  <2> QED BY <2>2, <2>3
<1>8. CASE SettleBatch \/ UNCHANGED vars
  BY <1>1, <1>8 DEF SettleBatch, vars, Running
<1> QED BY <1>3, <1>4, <1>5, <1>6, <1>7, <1>8 DEF Next

(* The pool is a limiter as long as no two calls share their input and their  *)
(* output directory, whatever the calls and the limits set meanwhile: none is *)
(* admitted at or above the limit in force, none that waits is dropped (lines *)
(* 59-80).  Without the assumption this is false (pool_duplicate_keys).       *)
THEOREM PoolIsLimiter == DistinctKeys /\ Spec => IsLimiter
<1>1. Init => L!Init /\ SlotsAreCalls
  BY PoolAssumption DEF Init, L!Init, SlotsAreCalls, Running
<1>2. DistinctKeys => DistinctKeys'
  BY DEF DistinctKeys
<1> QED BY <1>1, <1>2, Invariant, SlotsAreCallsNext, StepIsLimiterStep, PTL
        DEF Spec, IsLimiter, L!Spec

-----------------------------------------------------------------------------
(* A step's effect on who runs and who waits.                                 *)
Quiet == Running' = Running /\ UNCHANGED <<waitingQueue, microtasks>>
Waits(c) == WaitForSlot(c) /\ Running' = Running
Starts(c) == c \notin Running /\ TakeSlot(c) /\ Running' = Running \cup {c}
Ends(c) == c \in Running /\ ReleaseSlot(c) /\ Running' = Running \ {c}
Arrives(c) ==
  /\ EventTurn /\ pc[c] = "idle" /\ microtasks' = microtasks
  /\ Waits(c) \/ Starts(c)
Resumes(c) ==
  /\ microtasks # <<>> /\ c = Head(microtasks) /\ microtasks' = Tail(microtasks)
  /\ Waits(c) \/ Starts(c)
Leaves(c) == EventTurn /\ Ends(c)

LEMMA PoolMoves ==
  ASSUME IInv, [Next]_vars
  PROVE  Quiet \/ \E c \in Controlled : Arrives(c) \/ Resumes(c) \/ Leaves(c)
<1> USE PoolAssumption
<1>0. pc \in [Call -> CallState]
  BY DEF IInv, TypeOK
<1>1. ASSUME NEW c \in Controlled, AcquireSlot(c), pc[c] # "decoding"
      PROVE  Waits(c) \/ Starts(c)
  <2>1. CASE WaitForSlot(c)
    BY <1>0, <1>1, <2>1 DEF WaitForSlot, Waits, Running
  <2>2. CASE TakeSlot(c)
    BY <1>0, <1>1, <2>2 DEF TakeSlot, Starts, Running
  <2> QED BY <1>1, <2>1, <2>2 DEF AcquireSlot
<1>2. CASE SettleBatch \/ UNCHANGED vars \/ \E m \in MaxArgs : SetMaxConcurrent(m)
  BY <1>2 DEF SettleBatch, vars, SetMaxConcurrent, Quiet, Running
<1>3. CASE ExtractFramesBatch
  BY <1>0, <1>3 DEF ExtractFramesBatch, CallDirectly, Quiet, Running
<1>4. ASSUME NEW c \in Call, ExtractFrames(c)
      PROVE  Quiet \/ \E d \in Controlled : Arrives(d)
  <2>1. CASE c \in Controlled
    BY <1>1, <1>4, <2>1 DEF ExtractFrames, Arrives
  <2>2. CASE c \notin Controlled
    BY <1>0, <1>4, <2>2 DEF ExtractFrames, CallDirectly, Quiet, Running
  <2> QED BY <2>1, <2>2
<1>5. CASE Resume
  <2>1. /\ Head(microtasks) \in Controlled /\ pc[Head(microtasks)] # "decoding"
        /\ AcquireSlot(Head(microtasks))
    BY <1>5, ResumedCallWaits DEF Resume, IInv
  <2> QED BY <1>1, <1>5, <2>1 DEF Resume, Resumes
<1>6. ASSUME NEW c \in Call, NEW outcome \in Settled, Finish(c, outcome)
      PROVE  Quiet \/ \E d \in Controlled : Leaves(d)
  <2>1. Running' = Running \ {c}
    BY <1>0, <1>6 DEF Finish, Running
  <2>2. CASE c \in Controlled
    BY <1>6, <2>1, <2>2 DEF Finish, Leaves, Ends, Running
  <2>3. CASE c \notin Controlled
    BY <1>6, <2>1, <2>3 DEF Finish, Quiet, Running
  <2> QED BY <2>2, <2>3
<1> QED BY <1>2, <1>3, <1>4, <1>5, <1>6 DEF Next

LEMMA RunningIsCounted ==
  ASSUME NEW c \in Controlled
  PROVE  /\ Cardinality(Running) \in Nat
         /\ c \notin Running => Cardinality(Running \cup {c}) = Cardinality(Running) + 1
         /\ c \in Running => Cardinality(Running \ {c}) = Cardinality(Running) - 1
<1>1. IsFiniteSet(Running)
  BY PoolAssumption, FS_Subset DEF Running
<1> QED BY <1>1, FS_CardinalityType, FS_AddElement, FS_RemoveElement

NeverMoreThanFive == Cardinality(Running) <= 5

LEMMA NeverMoreThanFiveNext ==
  ASSUME DistinctKeys, IInv, SlotsAreCalls, NeverMoreThanFive, [Next]_vars
  PROVE  NeverMoreThanFive'
<1>1. maxConcurrent \in 1..5 /\ Cardinality(activeDecodes) = Cardinality(Running)
  BY SlotsCountCalls DEF IInv, TypeOK
<1>2. CASE Quiet
  BY <1>2 DEF Quiet, NeverMoreThanFive
<1>3. ASSUME NEW c \in Controlled, Waits(c) PROVE NeverMoreThanFive'
  BY <1>3 DEF Waits, NeverMoreThanFive
<1>4. ASSUME NEW c \in Controlled, Starts(c) PROVE NeverMoreThanFive'
  <2>1. /\ Cardinality(Running) < maxConcurrent /\ Cardinality(Running) \in Nat
        /\ Cardinality(Running') = Cardinality(Running) + 1
    BY <1>1, <1>4, RunningIsCounted DEF Starts, TakeSlot
  <2> QED BY <1>1, <2>1 DEF NeverMoreThanFive
<1>5. ASSUME NEW c \in Controlled, Ends(c) PROVE NeverMoreThanFive'
  <2>1. Cardinality(Running') = Cardinality(Running) - 1 /\ Cardinality(Running) \in Nat
    BY <1>5, RunningIsCounted DEF Ends
  <2> QED BY <2>1 DEF NeverMoreThanFive
<1> QED BY <1>2, <1>3, <1>4, <1>5, PoolMoves DEF Arrives, Resumes, Leaves

(* Five calls at most ever decode under control: the clamp of setMaxConcurrent*)
(* bounds each admission, so that neither a limit that goes up and down while *)
(* calls decode nor a waiter that is woken late can add up to more (lines     *)
(* 49-51 and 59-80).                                                          *)
THEOREM FiveDecodeAtMost == DistinctKeys /\ Spec => []NeverMoreThanFive
<1>1. Init => SlotsAreCalls /\ NeverMoreThanFive
  <2>1. Init => Running = {} /\ Cardinality(Running) = 0
    BY PoolAssumption, FS_EmptySet DEF Init, Running
  <2> QED BY <2>1 DEF Init, SlotsAreCalls, NeverMoreThanFive
<1>2. DistinctKeys => DistinctKeys'
  BY DEF DistinctKeys
<1>3. DistinctKeys /\ IInv /\ SlotsAreCalls /\ NeverMoreThanFive /\ [Next]_vars
        => NeverMoreThanFive'
  BY NeverMoreThanFiveNext
<1> QED BY <1>1, <1>2, <1>3, Invariant, SlotsAreCallsNext, PTL DEF Spec

(* As long as nobody calls setMaxConcurrent.                                  *)
FixedSpec == Init /\ [][Next /\ UNCHANGED maxConcurrent]_vars

LEMMA FixedNext ==
  ASSUME DistinctKeys, IInv, SlotsAreCalls, ConcurrencyBound, WorkConserving,
         [Next /\ UNCHANGED maxConcurrent]_vars
  PROVE  ConcurrencyBound' /\ WorkConserving'
<1> DEFINE running == Cardinality(Running)
<1>1. /\ waitingQueue \in Seq(Controlled) /\ microtasks \in Seq(Controlled)
      /\ maxConcurrent \in Nat /\ maxConcurrent' = maxConcurrent
      /\ Cardinality(activeDecodes) = running
  BY SlotsCountCalls DEF IInv, TypeOK, vars
<1>2. [Next]_vars
  BY DEF vars
<1>3. CASE Quiet
  BY <1>1, <1>3 DEF Quiet, ConcurrencyBound, WorkConserving
<1>4. ASSUME NEW c \in Controlled, Arrives(c) \/ Resumes(c)
      PROVE  ConcurrencyBound' /\ WorkConserving'
  <2>1. Cardinality(Running) \in Nat
    BY RunningIsCounted
  <2>2. Len(microtasks') \in {Len(microtasks), Len(microtasks) - 1} /\ Len(microtasks') >= 0
        /\ Len(microtasks) \in Nat
    BY <1>1, <1>4 DEF Arrives, Resumes
  <2>3. CASE Waits(c)
    <3>1. running >= maxConcurrent /\ Running' = Running
      BY <1>1, <2>3 DEF Waits, WaitForSlot
    <3> QED BY <1>1, <2>1, <2>2, <3>1 DEF ConcurrencyBound, WorkConserving
  <2>4. CASE Starts(c)
    <3>1. /\ running < maxConcurrent /\ waitingQueue' = waitingQueue
          /\ Cardinality(Running') = running + 1
      BY <1>1, <2>4, RunningIsCounted DEF Starts, TakeSlot
    <3> QED BY <1>1, <2>1, <2>2, <3>1 DEF ConcurrencyBound, WorkConserving
  <2> QED BY <1>4, <2>3, <2>4 DEF Arrives, Resumes
<1>5. ASSUME NEW c \in Controlled, Leaves(c) PROVE ConcurrencyBound' /\ WorkConserving'
  <2>1. Cardinality(Running') = running - 1 /\ running \in Nat
    BY <1>5, RunningIsCounted DEF Leaves, Ends
  <2>2. CASE waitingQueue = <<>>
    BY <1>1, <1>5, <2>1, <2>2 DEF Leaves, Ends, ReleaseSlot, ConcurrencyBound, WorkConserving
  <2>3. CASE waitingQueue # <<>>
    <3>1. Head(waitingQueue) \in Controlled
      BY <1>1, <2>3
    <3>2. microtasks' = Append(microtasks, Head(waitingQueue))
      BY <1>5, <2>3 DEF Leaves, Ends, ReleaseSlot
    <3>3. Len(microtasks') = Len(microtasks) + 1 /\ Len(microtasks) \in Nat
      BY <1>1, <3>1, <3>2
    <3> QED BY <1>1, <2>1, <2>3, <3>3 DEF ConcurrencyBound, WorkConserving
  <2> QED BY <2>2, <2>3
<1> QED BY <1>2, <1>3, <1>4, <1>5, PoolMoves

LEMMA NothingRunsYet == Init => Running = {} /\ Cardinality(Running) = 0
BY PoolAssumption, FS_EmptySet DEF Init, Running

LEMMA FixedAlways ==
  DistinctKeys /\ FixedSpec =>
    [](DistinctKeys /\ IInv /\ SlotsAreCalls /\ ConcurrencyBound /\ WorkConserving)
<1>1. Init => IInv /\ SlotsAreCalls /\ ConcurrencyBound /\ WorkConserving
  BY IInvInit, NothingRunsYet DEF Init, SlotsAreCalls, ConcurrencyBound, WorkConserving
<1>2. DistinctKeys => DistinctKeys'
  BY DEF DistinctKeys
<1>3. [Next /\ UNCHANGED maxConcurrent]_vars => [Next]_vars
  BY DEF vars
<1>4. DistinctKeys /\ IInv /\ SlotsAreCalls /\ ConcurrencyBound /\ WorkConserving
        /\ [Next /\ UNCHANGED maxConcurrent]_vars => ConcurrencyBound' /\ WorkConserving'
  BY FixedNext
<1> QED BY <1>1, <1>2, <1>3, <1>4, IInvNext, SlotsAreCallsNext, PTL DEF FixedSpec

(* With a limit nobody changes and no two calls alike, at most that many      *)
(* decode at a time (line 42), also with other code between a wakeup and its  *)
(* waiter.                                                                    *)
THEOREM LimitHolds == DistinctKeys /\ FixedSpec => []ConcurrencyBound
BY FixedAlways, PTL

(* Under the same conditions every slot is taken, or promised to a call that  *)
(* was woken, as long as a call waits (lines 62-80).                          *)
THEOREM SlotsNeverIdle == DistinctKeys /\ FixedSpec => []WorkConserving
BY FixedAlways, PTL

-----------------------------------------------------------------------------
(* When platform events wait for the microtasks, a woken call always finds    *)
(* the slot it was promised.                                                  *)
Promised == Cardinality(Running) + Len(microtasks) <= maxConcurrent

LEMMA PromisedNext ==
  ASSUME DistinctKeys, IInv, SlotsAreCalls, Promised, ~Barging,
         [Next /\ UNCHANGED maxConcurrent]_vars
  PROVE  Promised'
<1> DEFINE running == Cardinality(Running)
<1>1. /\ waitingQueue \in Seq(Controlled) /\ microtasks \in Seq(Controlled)
      /\ maxConcurrent \in Nat /\ maxConcurrent' = maxConcurrent
      /\ Cardinality(activeDecodes) = running /\ Len(microtasks) \in Nat
  BY SlotsCountCalls DEF IInv, TypeOK, vars
<1>2. [Next]_vars
  BY DEF vars
<1>3. CASE Quiet
  BY <1>1, <1>3 DEF Quiet, Promised
<1>4. ASSUME NEW c \in Controlled, Arrives(c) PROVE Promised'
  <2>1. Len(microtasks') = 0 /\ Len(microtasks) = 0
    BY <1>4 DEF Arrives, EventTurn
  <2>2. CASE Waits(c)
    BY <1>1, <2>1, <2>2 DEF Waits, Promised
  <2>3. CASE Starts(c)
    <3>1. running < maxConcurrent /\ Cardinality(Running') = running + 1 /\ running \in Nat
      BY <1>1, <2>3, RunningIsCounted DEF Starts, TakeSlot
    <3> QED BY <1>1, <2>1, <3>1 DEF Promised
  <2> QED BY <1>4, <2>2, <2>3 DEF Arrives
<1>5. ASSUME NEW c \in Controlled, Resumes(c) PROVE Promised'
  <2>1. Len(microtasks') = Len(microtasks) - 1 /\ Len(microtasks) > 0
    BY <1>1, <1>5 DEF Resumes
  <2>2. CASE Waits(c)
    <3>1. running \in Nat /\ Cardinality(Running') = running
      BY <2>2, RunningIsCounted DEF Waits
    <3> QED BY <1>1, <2>1, <3>1 DEF Promised
  <2>3. CASE Starts(c)
    <3>1. Cardinality(Running') = running + 1 /\ running \in Nat
      BY <2>3, RunningIsCounted DEF Starts
    <3> QED BY <1>1, <2>1, <3>1 DEF Promised
  <2> QED BY <1>5, <2>2, <2>3 DEF Resumes
<1>6. ASSUME NEW c \in Controlled, Leaves(c) PROVE Promised'
  <2>1. Cardinality(Running') = running - 1 /\ running \in Nat /\ Len(microtasks) = 0
    BY <1>6, RunningIsCounted DEF Leaves, Ends, EventTurn
  <2>2. Len(microtasks') <= 1 /\ Len(microtasks') \in Nat
    <3>1. CASE waitingQueue = <<>>
      BY <1>1, <1>6, <2>1, <3>1 DEF Leaves, Ends, ReleaseSlot
    <3>2. CASE waitingQueue # <<>>
      <4>1. Head(waitingQueue) \in Controlled
        BY <1>1, <3>2
      <4>2. microtasks' = Append(microtasks, Head(waitingQueue))
        BY <1>6, <3>2 DEF Leaves, Ends, ReleaseSlot
      <4>3. Len(microtasks') = Len(microtasks) + 1
        BY <1>1, <4>1, <4>2
      <4> QED BY <2>1, <4>3
    <3> QED BY <3>1, <3>2
  <2> QED BY <1>1, <2>1, <2>2 DEF Promised
<1> QED BY <1>2, <1>3, <1>4, <1>5, <1>6, PoolMoves

(* What FirstComeFirstServed says of one step.                                *)
InOrder ==
  /\ \A c \in Controlled :
       pc[c] # "decoding" /\ pc'[c] = "decoding" => Pending = <<>> \/ Head(Pending) = c
  /\ \/ Pending' = Pending
     \/ Pending # <<>> /\ Pending' = Tail(Pending)
     \/ \E c \in Controlled : pc[c] = "idle" /\ Pending' = Append(Pending, c)

LEMMA InOrderNext ==
  ASSUME DistinctKeys, IInv, SlotsAreCalls, WorkConserving, Promised, ~Barging,
         [Next /\ UNCHANGED maxConcurrent]_vars
  PROVE  InOrder
<1> DEFINE running == Cardinality(Running)
<1>1. /\ TypeOK /\ waitingQueue \in Seq(Controlled) /\ microtasks \in Seq(Controlled)
      /\ maxConcurrent \in Nat /\ Len(microtasks) \in Nat
      /\ Cardinality(activeDecodes) = running
  BY SlotsCountCalls DEF IInv, TypeOK
<1>2. [Next]_vars
  BY DEF vars
<1>3. \A c \in Controlled :
        pc[c] # "decoding" /\ pc'[c] = "decoding" => c \in Running' \ Running
  BY DEF Running
<1>4. CASE Quiet
  BY <1>3, <1>4 DEF Quiet, InOrder, Pending
<1>5. ASSUME NEW c \in Controlled, Arrives(c) PROVE InOrder
  <2>1. microtasks = <<>> /\ microtasks' = <<>> /\ pc[c] = "idle"
    BY <1>5 DEF Arrives, EventTurn
  <2>2. CASE Waits(c)
    <3>1. Pending' = Append(Pending, c)
      BY <1>1, <1>5, <2>2, PendingMoves DEF Arrives, Waits
    <3> QED BY <1>3, <2>1, <2>2, <3>1 DEF Waits, InOrder
  <2>3. CASE Starts(c)
    <3>1. running < maxConcurrent /\ running \in Nat /\ waitingQueue' = waitingQueue
      BY <1>1, <2>3, RunningIsCounted DEF Starts, TakeSlot
    <3>2. waitingQueue = <<>>
      BY <1>1, <2>1, <3>1 DEF WorkConserving
    <3>3. Pending = <<>> /\ Pending' = Pending
      BY <2>1, <3>1, <3>2 DEF Pending
    <3> QED BY <3>3 DEF InOrder
  <2> QED BY <1>5, <2>2, <2>3 DEF Arrives
<1>6. ASSUME NEW c \in Controlled, Resumes(c) PROVE InOrder
  <2>1. /\ Pending # <<>> /\ Head(Pending) = c /\ microtasks' = Tail(microtasks)
        /\ Tail(Pending) = Tail(microtasks) \o waitingQueue
    BY <1>1, <1>6, PendingMoves DEF Resumes
  <2>2. Len(microtasks) > 0
    BY <1>1, <1>6 DEF Resumes
  <2>3. ~Waits(c)
    <3>1. running \in Nat
      BY RunningIsCounted
    <3> QED BY <1>1, <2>2, <3>1 DEF Waits, WaitForSlot, Promised
  <2>4. Starts(c)
    BY <1>6, <2>3 DEF Resumes
  <2>5. Pending' = Tail(Pending)
    BY <2>1, <2>4 DEF Starts, TakeSlot, Pending
  <2> QED BY <1>3, <2>1, <2>4, <2>5 DEF Starts, InOrder
<1>7. ASSUME NEW c \in Controlled, Leaves(c) PROVE InOrder
  <2>1. Pending' = Pending
    BY <1>1, <1>7, PendingMoves DEF Leaves, Ends
  <2> QED BY <1>3, <1>7, <2>1 DEF Leaves, Ends, InOrder
<1> QED BY <1>2, <1>4, <1>5, <1>6, <1>7, PoolMoves

(* If moreover platform events wait for the microtasks, slots are handed out  *)
(* in order of arrival: no call starts while an earlier one waits, and none   *)
(* that was woken has to queue up again (lines 62-66 and 74-79).              *)
THEOREM FirstComeIsServedFirst ==
  DistinctKeys /\ ~Barging /\ FixedSpec => FirstComeFirstServed
<1>1. Init => Promised
  BY NothingRunsYet DEF Init, Promised
<1>2. ~Barging => (~Barging)'
  OBVIOUS
<1>3. DistinctKeys /\ IInv /\ SlotsAreCalls /\ Promised /\ ~Barging
        /\ [Next /\ UNCHANGED maxConcurrent]_vars => Promised'
  BY PromisedNext
<1>4. DistinctKeys /\ IInv /\ SlotsAreCalls /\ WorkConserving /\ Promised /\ ~Barging
        /\ [Next /\ UNCHANGED maxConcurrent]_vars => [InOrder]_vars
  BY InOrderNext
<1>5. FirstComeFirstServed <=> [][InOrder]_vars
  BY DEF FirstComeFirstServed, InOrder
<1> QED BY <1>1, <1>2, <1>3, <1>4, <1>5, FixedAlways, PTL DEF FixedSpec
=============================================================================
