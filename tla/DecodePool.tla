----------------------------- MODULE DecodePool -----------------------------
(***************************************************************************)
(* The concurrency control of WebPExtractor (lib/webp_extractor.dart):     *)
(* extractFrames, extractFramesBatch and setMaxConcurrent, all running on  *)
(* one Dart isolate.                                                       *)
(*                                                                         *)
(* A step is what Dart runs between two awaits.  An entry of waitingQueue  *)
(* is the pending Completer of one call, named by that call.  Completing   *)
(* it does not run the waiter: it queues a microtask, and the waiter tests *)
(* the loop condition again when that microtask runs.                      *)
(***************************************************************************)
EXTENDS Integers, Sequences, FiniteSets

CONSTANTS
  Call,        (* the calls of extractFrames that are ever made               *)
  Controlled,  (* the calls made with useConcurrencyControl: true             *)
  Batch,       (* the calls extractFramesBatch makes, one per path            *)
  Key,         (* the possible values of decodeKey                            *)
  DecodeKey,   (* decodeKey of each call: its input and its output directory  *)
  MaxArgs,     (* the arguments setMaxConcurrent is called with               *)
  Barging      (* TRUE: other Dart code may run between the completion of a   *)
               (* Completer and its waiter (a microtask was queued before).   *)
               (* FALSE: platform events wait until all microtasks have run.  *)

ASSUME PoolAssumption ==
  /\ IsFiniteSet(Call)
  /\ Controlled \subseteq Call
  /\ Batch \subseteq Call \ Controlled
  /\ DecodeKey \in [Call -> Key]
  /\ MaxArgs \subseteq Int
  /\ Barging \in BOOLEAN

VARIABLES
  maxConcurrent,  (* _maxConcurrent                                           *)
  activeDecodes,  (* _activeDecodes, a Set<String>                            *)
  waitingQueue,   (* _waitingQueue, oldest first                              *)
  microtasks,     (* the calls whose Completer is completed, not yet resumed  *)
  pc,             (* where each call is                                       *)
  batch           (* the future that extractFramesBatch returns               *)

vars == <<maxConcurrent, activeDecodes, waitingQueue, microtasks, pc, batch>>

Settled == {"returned", "threw"}
CallState == {"idle", "waiting", "decoding"} \cup Settled
BatchState == {"idle", "pending"} \cup Settled

Running == {c \in Controlled : pc[c] = "decoding"}

(* The waiting calls in the order in which they will test the loop again.     *)
Pending == microtasks \o waitingQueue

Init ==
  /\ maxConcurrent = 2
  /\ activeDecodes = {}
  /\ waitingQueue = <<>>
  /\ microtasks = <<>>
  /\ pc = [c \in Call |-> "idle"]
  /\ batch = "idle"

-----------------------------------------------------------------------------
(* User code and platform replies run when no microtask is left, unless other *)
(* Dart code shares the turn.                                                 *)
EventTurn == Barging \/ microtasks = <<>>

Clamp(m, lo, hi) == IF m < lo THEN lo ELSE IF m > hi THEN hi ELSE m

(* Mutant: the argument is stored as it is.                                   *)
SetMaxConcurrentUnclamped(m) ==
  /\ EventTurn
  /\ maxConcurrent' = m
  /\ UNCHANGED <<activeDecodes, waitingQueue, microtasks, pc, batch>>

SetMaxConcurrent(m) ==
  /\ EventTurn
  /\ maxConcurrent' = Clamp(m, 1, 5)
  /\ UNCHANGED <<activeDecodes, waitingQueue, microtasks, pc, batch>>

(* The while loop's test, for a call that arrives and for one that resumes.   *)
WaitForSlot(c) ==
  /\ Cardinality(activeDecodes) >= maxConcurrent
  /\ waitingQueue' = Append(waitingQueue, c)
  /\ pc' = [pc EXCEPT ![c] = "waiting"]
  /\ UNCHANGED activeDecodes

(* Mutant: the loop waits only once the limit is exceeded.                    *)
TakeSlotOffByOne(c) ==
  /\ Cardinality(activeDecodes) <= maxConcurrent
  /\ activeDecodes' = activeDecodes \cup {DecodeKey[c]}
  /\ pc' = [pc EXCEPT ![c] = "decoding"]
  /\ UNCHANGED waitingQueue

TakeSlot(c) ==
  /\ Cardinality(activeDecodes) < maxConcurrent
  /\ activeDecodes' = activeDecodes \cup {DecodeKey[c]}
  /\ pc' = [pc EXCEPT ![c] = "decoding"]
  /\ UNCHANGED waitingQueue

AcquireSlot(c) == WaitForSlot(c) \/ TakeSlot(c)

(* useConcurrencyControl defaults to false: the method channel is used at once. *)
CallDirectly(cs) ==
  /\ pc' = [c \in Call |-> IF c \in cs THEN "decoding" ELSE pc[c]]
  /\ UNCHANGED <<activeDecodes, waitingQueue>>

ExtractFrames(c) ==
  /\ EventTurn
  /\ pc[c] = "idle"
  /\ c \notin Batch
  /\ IF c \in Controlled THEN AcquireSlot(c) ELSE CallDirectly({c})
  /\ UNCHANGED <<maxConcurrent, microtasks, batch>>

(* extractFramesBatch calls extractFrames on every path, without the flag.    *)
ExtractFramesBatch ==
  /\ EventTurn
  /\ batch = "idle"
  /\ batch' = "pending"
  /\ CallDirectly(Batch)
  /\ UNCHANGED <<maxConcurrent, microtasks>>

(* await completer.future returns: once round the while loop.                 *)
Resume ==
  /\ microtasks # <<>>
  /\ AcquireSlot(Head(microtasks))
  /\ microtasks' = Tail(microtasks)
  /\ UNCHANGED <<maxConcurrent, batch>>

(* Mutant: the oldest waiter is woken but stays in the queue.                 *)
ReleaseSlotKeepsHead(c) ==
  /\ activeDecodes' = activeDecodes \ {DecodeKey[c]}
  /\ waitingQueue' = waitingQueue
  /\ microtasks' = IF waitingQueue = <<>> THEN microtasks
                   ELSE Append(microtasks, Head(waitingQueue))

(* Mutant: the youngest waiter is woken.                                      *)
ReleaseSlotLastIn(c) ==
  /\ activeDecodes' = activeDecodes \ {DecodeKey[c]}
  /\ IF waitingQueue = <<>>
     THEN UNCHANGED <<waitingQueue, microtasks>>
     ELSE /\ waitingQueue' = SubSeq(waitingQueue, 1, Len(waitingQueue) - 1)
          /\ microtasks' = Append(microtasks, waitingQueue[Len(waitingQueue)])

(* The finally block: give the key back and wake the oldest waiter.           *)
ReleaseSlot(c) ==
  /\ activeDecodes' = activeDecodes \ {DecodeKey[c]}
  /\ IF waitingQueue = <<>>
     THEN UNCHANGED <<waitingQueue, microtasks>>
     ELSE /\ waitingQueue' = Tail(waitingQueue)
          /\ microtasks' = Append(microtasks, Head(waitingQueue))

(* Mutant: no finally, so an error skips the release.                         *)
FinishWithoutFinally(c, outcome) ==
  /\ EventTurn
  /\ pc[c] = "decoding"
  /\ pc' = [pc EXCEPT ![c] = outcome]
  /\ IF c \in Controlled /\ outcome = "returned"
     THEN ReleaseSlot(c)
     ELSE UNCHANGED <<activeDecodes, waitingQueue, microtasks>>
  /\ UNCHANGED <<maxConcurrent, batch>>

(* Mutant: a decode that fails gives its key back but wakes nobody.           *)
FinishErrorWakesNobody(c, outcome) ==
  /\ EventTurn
  /\ pc[c] = "decoding"
  /\ pc' = [pc EXCEPT ![c] = outcome]
  /\ IF c \in Controlled /\ outcome = "returned"
     THEN ReleaseSlot(c)
     ELSE /\ activeDecodes' = activeDecodes \ {DecodeKey[c]}
          /\ UNCHANGED <<waitingQueue, microtasks>>
  /\ UNCHANGED <<maxConcurrent, batch>>

(* The platform's reply, or its error, reaches the call, which then ends.     *)
Finish(c, outcome) ==
  /\ EventTurn
  /\ pc[c] = "decoding"
  /\ pc' = [pc EXCEPT ![c] = outcome]
  /\ IF c \in Controlled
     THEN ReleaseSlot(c)
     ELSE UNCHANGED <<activeDecodes, waitingQueue, microtasks>>
  /\ UNCHANGED <<maxConcurrent, batch>>

(* Mutant: the batch waits for calls that return, and one of them threw.      *)
SettleBatchWithoutErrors ==
  /\ batch = "pending"
  /\ \A c \in Batch : pc[c] = "returned"
  /\ batch' = "returned"
  /\ UNCHANGED <<maxConcurrent, activeDecodes, waitingQueue, microtasks, pc>>

(* Future.wait completes when every future has, with an error if one threw.   *)
SettleBatch ==
  /\ batch = "pending"
  /\ \A c \in Batch : pc[c] \in Settled
  /\ batch' = IF \E c \in Batch : pc[c] = "threw" THEN "threw" ELSE "returned"
  /\ UNCHANGED <<maxConcurrent, activeDecodes, waitingQueue, microtasks, pc>>

Next ==
  \/ \E m \in MaxArgs : SetMaxConcurrent(m)
  \/ \E c \in Call : ExtractFrames(c)
  \/ ExtractFramesBatch
  \/ Resume
  \/ \E c \in Call, outcome \in Settled : Finish(c, outcome)
  \/ SettleBatch

Spec == Init /\ [][Next]_vars

(* The event loop never drops a microtask, and the platform side answers      *)
(* every call of the method channel, with frames or with an error.            *)
Fairness ==
  /\ WF_vars(Resume)
  /\ WF_vars(SettleBatch)
  /\ \A c \in Call : WF_vars(\E outcome \in Settled : Finish(c, outcome))

FairSpec == Spec /\ Fairness

-----------------------------------------------------------------------------
TypeOK ==
  /\ maxConcurrent \in 1..5
  /\ activeDecodes \subseteq Key
  /\ waitingQueue \in Seq(Controlled)
  /\ microtasks \in Seq(Controlled)
  /\ pc \in [Call -> CallState]
  /\ batch \in BatchState

(* Every call suspended at await completer.future owns exactly one Completer, *)
(* in the queue or completed: no waiter is dropped and none is woken twice    *)
(* (extractFrames, lines 62-66 and 74-79).                                    *)
WaitersAccounted ==
  /\ \A c \in Call : pc[c] = "waiting" <=> \E i \in 1..Len(Pending) : Pending[i] = c
  /\ \A i, j \in 1..Len(Pending) : Pending[i] = Pending[j] => i = j

(* A key in activeDecodes belongs to a call that still decodes, so no slot is *)
(* leaked by any path through try and finally.                                *)
SlotsHaveOwners == \A k \in activeDecodes : \E c \in Running : DecodeKey[c] = k

(* Somebody is left to wake the queue: while a call waits in it, another is   *)
(* decoding or is about to resume.  Otherwise the queue is stuck for good,    *)
(* for only the finally block and a resumed call ever touch it.               *)
NoLostWakeup == waitingQueue # <<>> => microtasks # <<>> \/ Running # {}

(* "at most _maxConcurrent tasks decode at the same time" (line 42).          *)
ConcurrencyBound == Cardinality(Running) <= maxConcurrent

(* "batch decoding (with concurrency control)" (line 104): the calls of a     *)
(* batch keep to the limit as well.                                           *)
BatchBound == Cardinality({c \in Batch : pc[c] = "decoding"}) <= maxConcurrent

(* No slot stays free while a call waits for one, as long as the limit is not *)
(* raised: each slot is taken or promised to a call that was woken.           *)
WorkConserving ==
  waitingQueue # <<>> => Cardinality(Running) + Len(microtasks) >= maxConcurrent

(* Slots are handed out in order of arrival: nobody starts while an earlier   *)
(* call waits, and a waiting call never loses its place.                      *)
FirstComeFirstServed ==
  [][/\ \A c \in Controlled :
          pc[c] # "decoding" /\ pc'[c] = "decoding"
            => Pending = <<>> \/ Head(Pending) = c
     /\ \/ Pending' = Pending
        \/ Pending # <<>> /\ Pending' = Tail(Pending)
        \/ \E c \in Controlled : pc[c] = "idle" /\ Pending' = Append(Pending, c)]_vars

(* Every call that waits gets to decode, and ends.                            *)
EveryWaiterIsServed == \A c \in Call : pc[c] = "waiting" ~> pc[c] \in Settled

(* Every batch settles, though not before the last of its calls has ended,    *)
(* and throws if one of them threw (lines 110-111).                           *)
BatchSettles ==
  /\ batch = "pending" ~> batch \in Settled
  /\ [](batch \in Settled => \A c \in Batch : pc[c] \in Settled)
  /\ (\E c \in Batch : pc[c] = "threw") ~> batch = "threw"

(* The pool is a Limiter whose clients are the calls that asked for control.  *)
L == INSTANCE Limiter WITH
       Client <- Controlled, Limits <- 1..5, limit <- maxConcurrent,
       waiting <- {c \in Controlled : pc[c] = "waiting"}, inside <- Running

(* Whatever the caps set meanwhile, no call is admitted at or above the cap   *)
(* in force, and a waiting call is never dropped (lines 59-80).               *)
IsLimiter == L!Spec

(* Two calls never carry the same input and the same output directory.        *)
DistinctKeys ==
  \A c, d \in Controlled : DecodeKey[c] = DecodeKey[d] => c = d
=============================================================================
