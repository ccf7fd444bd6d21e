--------------------------- MODULE RowDecoderProofs ---------------------------
(* Theorems about Worker, whatever its owner does, and about RowDecoder, for  *)
(* any set of pictures.                                                       *)
EXTENDS RowDecoder, TLAPS

(* What each place of the two threads says about mutex, sleepers and status.  *)
PlacesAgree ==
  /\ mutex = "main" <=> mpc = "test"
  /\ mutex = "worker" <=> tpc \in {"test", "hook"}
  /\ "main" \in asleep => mpc = "wait"
  /\ "worker" \in asleep => tpc = "wait"

StatusAgrees ==
  /\ tpc = "none" <=> ~impl
  /\ mpc # "out" => impl
  /\ status = "NOT_OK" /\ impl => mpc \in {"signal", "join"} /\ want = "NOT_OK"
  /\ mpc \in {"signal", "join"} /\ want = "NOT_OK" => status = "NOT_OK"
  /\ mpc = "signal" => want # "OK"
  /\ mpc = "join" => want = "NOT_OK"
  /\ ~impl => status = "NOT_OK"
  /\ tpc \in {"last_signal", "exited"} => status = "NOT_OK"

WorkerInv ==
  /\ WorkerTypeOK /\ PlacesAgree /\ StatusAgrees /\ SignalComes /\ HookOnlyWhenLaunched

LEMMA WorkerInit == InitWorker => WorkerInv
BY DEF InitWorker, WorkerInv, WorkerTypeOK, PlacesAgree, StatusAgrees, SignalComes,
       HookOnlyWhenLaunched, Thread, Status

LEMMA WorkerNext == WorkerInv /\ [NextWorker]_workerVars => WorkerInv'
<1> SUFFICES ASSUME WorkerInv, [NextWorker]_workerVars PROVE WorkerInv'
  OBVIOUS
<1> USE DEF WorkerInv, WorkerTypeOK, PlacesAgree, StatusAgrees, SignalComes,
            HookOnlyWhenLaunched, Thread, Status
<1>1. CASE Start
  <2>1. ~impl /\ tpc = "none" /\ mpc = "out" /\ mutex = "free" /\ asleep = {}
    BY <1>1 DEF Start
  <2>2. CASE status' = "OK" /\ impl' = TRUE /\ tpc' = "lock"
    BY <1>1, <2>1, <2>2 DEF Start
  <2>3. CASE UNCHANGED <<status, impl, tpc>>
    BY <1>1, <2>1, <2>3 DEF Start
  <2> QED BY <1>1, <2>2, <2>3 DEF Start
<1>2. ASSUME NEW new \in Status, ChangeState(new) PROVE WorkerInv'
  BY <1>2 DEF ChangeState
<1>3. CASE OwnerLocks
  BY <1>3 DEF OwnerLocks, Lock
<1>4. CASE OwnerWaits
  BY <1>4 DEF OwnerWaits, Sleep
<1>5. CASE OwnerAssigns
  BY <1>5 DEF OwnerAssigns
<1>6. CASE OwnerSignals
  BY <1>6 DEF OwnerSignals, Signal
<1>7. CASE Join
  BY <1>7 DEF Join
<1>8. CASE ThreadLocks
  BY <1>8 DEF ThreadLocks, Lock
<1>9. CASE ThreadWaits
  BY <1>9 DEF ThreadWaits, Sleep
<1>10. CASE BeginHook
  BY <1>10 DEF BeginHook
<1>11. CASE ThreadFinishes
  BY <1>11 DEF ThreadFinishes
<1>12. CASE ThreadSignals
  BY <1>12 DEF ThreadSignals, Signal
<1>13. ASSUME NEW b \in BOOLEAN, EndHook(b) PROVE WorkerInv'
  BY <1>13 DEF EndHook
<1>14. CASE WakeSpuriously
  BY <1>14 DEF WakeSpuriously
<1>15. CASE UNCHANGED workerVars
  BY <1>15 DEF workerVars
<1> QED
  BY <1>1, <1>2, <1>3, <1>4, <1>5, <1>6, <1>7, <1>8, <1>9, <1>10, <1>11, <1>12, <1>13,
     <1>14, <1>15 DEF NextWorker, OwnerInside, ThreadInside

(* Owner and thread never sleep at the same time and a due signal is never    *)
(* lost, in whatever order the owner calls the interface (lines 197-251).     *)
THEOREM NoSignalLost == WorkerSpec => []SignalComes
<1>1. WorkerInv => SignalComes
  BY DEF WorkerInv
<1> QED BY <1>1, WorkerInit, WorkerNext, PTL DEF WorkerSpec

(* After Sync the hook is not running and does not start before the next      *)
(* Launch (lines 236-250, 263-269).                                           *)
THEOREM SyncWaits == WorkerSpec => []HookOnlyWhenLaunched
<1>1. WorkerInv => HookOnlyWhenLaunched
  BY DEF WorkerInv
<1> QED BY <1>1, WorkerInit, WorkerNext, PTL DEF WorkerSpec

(* Where a thread cannot take its next step by itself.                        *)
OwnerBlocked ==
  \/ mpc = "wait" /\ "main" \in asleep
  \/ mpc \in {"lock", "wait"} /\ mutex # "free"
  \/ mpc = "join" /\ tpc # "exited"

ThreadBlocked ==
  \/ tpc \in {"none", "exited"}
  \/ tpc = "wait" /\ "worker" \in asleep
  \/ tpc \in {"lock", "wait"} /\ mutex # "free"

SomeoneMoves == mpc # "out" => ~(OwnerBlocked /\ ThreadBlocked)

LEMMA WorkerMoves == WorkerInv => SomeoneMoves
<1> SUFFICES ASSUME WorkerInv, mpc # "out", OwnerBlocked, ThreadBlocked PROVE FALSE
  BY DEF SomeoneMoves
<1> USE DEF WorkerInv, WorkerTypeOK, PlacesAgree, StatusAgrees, SignalComes, ThreadBlocked,
            Thread, Status
<1>1. CASE mpc = "wait" /\ "main" \in asleep
  BY <1>1
<1>2. CASE mpc \in {"lock", "wait"} /\ mutex # "free"
  BY <1>2
<1>3. CASE mpc = "join" /\ tpc # "exited"
  BY <1>3
<1> QED BY <1>1, <1>2, <1>3 DEF OwnerBlocked

(* The owner inside Sync, Launch or End and the thread never wait for each    *)
(* other: if the owner sleeps, waits for the mutex or joins, the thread can   *)
(* go on without it (lines 197-257).                                          *)
THEOREM OneOfTheTwoMoves == WorkerSpec => []SomeoneMoves
BY WorkerInit, WorkerNext, WorkerMoves, PTL DEF WorkerSpec

-----------------------------------------------------------------------------
(* The decoder uses the worker within its interface, so all that is proved of *)
(* the worker holds of it.                                                    *)
LEMMA UsesWorkerInit == Init => InitWorker
BY DEF Init

LEMMA UsesWorkerNext == [Next]_vars => [NextWorker]_workerVars
<1> SUFFICES ASSUME [Next]_vars PROVE [NextWorker]_workerVars
  OBVIOUS
<1> USE DEF NextWorker, Status
<1>1. CASE InitThreadContext
  BY <1>1 DEF InitThreadContext
<1>2. CASE EndParse
  BY <1>2 DEF EndParse
<1>3. CASE LaunchRow
  BY <1>3 DEF LaunchRow
<1>4. CASE RowLaunched
  BY <1>4 DEF RowLaunched
<1>5. CASE ExitCritical
  BY <1>5 DEF ExitCritical
<1>6. CASE Clear
  BY <1>6 DEF Clear
<1>7. CASE HookReturns
  <2>1. CASE fok
    BY <1>7, <2>1 DEF HookReturns, EndHook
  <2>2. CASE ~fok
    BY <1>7, <2>2 DEF HookReturns, EndHook
  <2> QED BY <2>1, <2>2
<1>8. CASE WriteError \/ EnterCritical \/ AllocateMemory \/ BeginParse \/ ParseFails
           \/ RowFinished \/ SyncFailed \/ LastSync \/ ExitSync \/ TearDown \/ Free
  BY <1>8 DEF WriteError, EnterCritical, AllocateMemory, BeginParse, ParseFails,
              RowFinished, SyncFailed, LastSync, ExitSync, TearDown, Free
<1>9. CASE ReconstructRow \/ FilterRow \/ AlphaFails \/ WriteAlphaError \/ Put \/ RotateTail
  BY <1>9 DEF ReconstructRow, FilterRow, AlphaFails, WriteAlphaError, Put, RotateTail
<1>10. CASE UNCHANGED vars
  BY <1>10 DEF vars
<1> QED BY <1>1, <1>2, <1>3, <1>4, <1>5, <1>6, <1>7, <1>8, <1>9, <1>10
           DEF Next, MainStep, ThreadStep, FinishRowStep

(* Every behaviour of the decoder, seen from the worker, is one of Worker     *)
(* (vp8_dec.c and frame_dec.c call Reset, Sync, Launch and End only).         *)
THEOREM DecoderUsesWorker == Spec => WorkerSpec
BY UsesWorkerInit, UsesWorkerNext, PTL DEF Spec, WorkerSpec

-----------------------------------------------------------------------------
(* Where the main thread is and what the worker may be doing meanwhile.       *)
Syncs == {"sync_row", "last_sync", "exit_sync"}

Phases ==
  /\ pc \in Syncs \cup {"thread", "memory", "parse", "parsing", "finish_row", "launched",
                      "exit", "teardown"} => up
  /\ status = "WORK" =>
       up /\ pc \in Syncs \cup {"launched", "parse", "parsing", "write_error", "exit"}
  /\ pc \in Syncs => want = "OK" \/ ~impl
  /\ pc \in {"start", "thread"} => ~impl
  /\ mpc # "out" => pc \in Syncs \cup {"launched", "ending"}
  /\ pc = "launched" => want = "WORK" \/ ~impl
  /\ pc = "ending" /\ impl => mpc # "out" /\ want = "NOT_OK"
  /\ pc = "freed" => ~impl
  /\ pic.method = 0 => ~impl
  /\ up \in BOOLEAN

LEMMA PhasesInit == Init => Phases
BY DEF Init, InitWorker, Phases, Syncs

LEMMA PhasesNext == WorkerInv /\ Phases /\ [Next]_vars => Phases'
<1> SUFFICES ASSUME WorkerInv, Phases, [Next]_vars PROVE Phases'
  OBVIOUS
<1>w. /\ status \in Status /\ want \in Status /\ impl \in BOOLEAN
      /\ mpc = "out" /\ want = "OK" => status # "WORK"
      /\ ~impl => status = "NOT_OK" /\ mpc = "out"
      /\ tpc = "hook" => status = "WORK"
  BY DEF WorkerInv, WorkerTypeOK, StatusAgrees, HookOnlyWhenLaunched
<1> USE <1>w DEF Phases, Syncs, Status
<1>1. CASE WriteError
  BY <1>1 DEF WriteError, Goto, workerVars
<1>2. CASE EnterCritical
  BY <1>2 DEF EnterCritical, Fail, workerVars
<1>3. CASE InitThreadContext
  BY <1>3 DEF InitThreadContext, Goto, Fail, Start, workerVars
<1>4. CASE AllocateMemory
  BY <1>4 DEF AllocateMemory, Goto, Fail, workerVars
<1>5. CASE BeginParse
  BY <1>5 DEF BeginParse, Goto, workerVars
<1>6. CASE ParseFails
  BY <1>6 DEF ParseFails, Fail, workerVars
<1>7. CASE EndParse
  BY <1>7 DEF EndParse, Goto, ChangeState, workerVars
<1>8. CASE RowFinished
  BY <1>8 DEF RowFinished, EndRow, Fail, workerVars
<1>9. CASE SyncFailed
  BY <1>9 DEF SyncFailed, Fail, workerVars
<1>10. CASE LaunchRow
  BY <1>10 DEF LaunchRow, ChangeState, workerVars
<1>11. CASE RowLaunched
  BY <1>11 DEF RowLaunched, EndRow, ChangeState, workerVars
<1>12. CASE LastSync
  BY <1>12 DEF LastSync, workerVars
<1>13. CASE ExitSync
  BY <1>13 DEF ExitSync, workerVars
<1>14. CASE TearDown
  BY <1>14 DEF TearDown, workerVars
<1>15. CASE ExitCritical
  BY <1>15 DEF ExitCritical, Goto, ChangeState, workerVars
<1>16. CASE Clear
  BY <1>16 DEF Clear, Goto, ChangeState, workerVars
<1>17. CASE Free
  BY <1>17 DEF Free, Goto, workerVars
<1>18. CASE OwnerInside /\ DecoderUnchanged
  BY <1>18 DEF OwnerInside, DecoderUnchanged, mainVars, OwnerLocks, OwnerWaits,
               OwnerAssigns, OwnerSignals, Join
<1>19. ASSUME UNCHANGED <<status, impl, mpc, want, pc, up, pic>> PROVE Phases'
  BY <1>19
<1>20. CASE ThreadInside /\ DecoderUnchanged
  <2>1. UNCHANGED <<pc, up, pic>>
    BY <1>20 DEF DecoderUnchanged, mainVars
  <2>2. UNCHANGED <<status, impl, mpc, want>>
    BY <1>20 DEF ThreadInside, ThreadLocks, ThreadWaits, BeginHook, ThreadFinishes,
                 ThreadSignals
  <2> QED BY <1>19, <2>1, <2>2
<1>21. CASE HookReturns
  BY <1>21 DEF HookReturns, EndHook, mainVars
<1>22. CASE ReconstructRow \/ FilterRow \/ AlphaFails \/ WriteAlphaError \/ Put \/ RotateTail
  <2>1. UNCHANGED <<workerVars, mainVars, pic>>
    BY <1>22 DEF ReconstructRow, FilterRow, AlphaFails, WriteAlphaError, Put, RotateTail
  <2> QED BY <1>19, <2>1 DEF workerVars, mainVars
<1>23. CASE WakeSpuriously /\ DecoderUnchanged
  BY <1>23 DEF WakeSpuriously, DecoderUnchanged, mainVars
<1>24. CASE UNCHANGED vars
  BY <1>24 DEF vars, mainVars, workerVars
<1> QED BY <1>1, <1>2, <1>3, <1>4, <1>5, <1>6, <1>7, <1>8, <1>9, <1>10, <1>11, <1>12,
           <1>13, <1>14, <1>15, <1>16, <1>17, <1>18, <1>20, <1>21, <1>22, <1>23, <1>24
           DEF Next, MainStep, ThreadStep, FinishRowStep

(* The worker's invariant and the phases, together inductive.                 *)
LEMMA WorkerInvHolds == Spec => [](WorkerInv /\ Phases)
<1>1. Init => WorkerInv /\ Phases
  BY PhasesInit, UsesWorkerInit, WorkerInit
<1>2. WorkerInv /\ Phases /\ [Next]_vars => (WorkerInv /\ Phases)'
  BY PhasesNext, UsesWorkerNext, WorkerNext
<1> QED BY <1>1, <1>2, PTL DEF Spec

(* Nothing is torn down under the worker's hands, and no thread outlives the  *)
(* decoder (VP8ExitCritical, VP8Clear).                                       *)
THEOREM QuietTearDown == Spec => []QuietWhenTornDown
<1>1. WorkerInv /\ Phases => QuietWhenTornDown
  BY DEF WorkerInv, StatusAgrees, HookOnlyWhenLaunched, Phases, QuietWhenTornDown
<1> QED BY <1>1, WorkerInvHolds, PTL

(* What the worker guarantees holds of every decode (lines 197-251).          *)
THEOREM NoSignalLostInDecoder == Spec => []SignalComes
BY DecoderUsesWorker, NoSignalLost, PTL

(* FinishRow runs in the thread only while a job is launched (197-215).       *)
THEOREM HookWaitsInDecoder == Spec => []HookOnlyWhenLaunched
BY DecoderUsesWorker, SyncWaits, PTL

-----------------------------------------------------------------------------
(* The lines of a picture, in linear arithmetic.                              *)
LEMMA PictureFacts ==
  ASSUME pic \in Pictures
  PROVE  /\ pic.method \in 0..2 /\ pic.top \in Nat /\ pic.bottom \in Nat
         /\ pic.top < pic.bottom /\ Extra \in {0, 2, 8}
         /\ Rows \in Nat /\ Rows > 0 /\ pic.bottom <= 16 * Rows
<1>1. /\ pic.method \in 0..2 /\ pic.filter \in 0..2 /\ pic.mbh \in Nat
      /\ pic.top \in Nat /\ pic.bottom \in Nat
      /\ pic.top < pic.bottom /\ pic.bottom <= 16 * pic.mbh
  BY PicturesAssumption
<1>2. Extra \in {0, 2, 8}
  BY <1>1 DEF Extra
<1>3. Rows \in Nat /\ Rows > 0 /\ pic.bottom <= 16 * Rows
  <2>1. pic.bottom + 15 + Extra \in Nat
    BY <1>1, <1>2
  <2> QED BY <1>1, <1>2, <2>1 DEF Rows
<1> QED BY <1>1, <1>2, <1>3

(* The line after the last one that is put out when n rows are finished.      *)
Upto(n) ==
  LET end == 16 * n - (IF n = 0 \/ n = Rows THEN 0 ELSE Extra)
      cut == IF end > pic.bottom THEN pic.bottom ELSE end
  IN IF cut < pic.top THEN pic.top ELSE cut

(* The lines that row n puts out continue those of the rows above it.         *)
LEMMA PutContinues ==
  ASSUME pic \in Pictures, ctx.row \in Nat, ctx.row < Rows
  PROVE  /\ PutStart < PutEnd => PutStart = Upto(ctx.row) /\ PutEnd = Upto(ctx.row + 1)
         /\ ~(PutStart < PutEnd) => Upto(ctx.row + 1) = Upto(ctx.row)
<1> DEFINE n == ctx.row
<1>1. /\ n \in Nat /\ n < Rows /\ Rows \in Nat /\ Extra \in Nat /\ Extra < 16
      /\ pic.top \in Nat /\ pic.bottom \in Nat /\ pic.top < pic.bottom
  BY PictureFacts
<1>2. /\ Start0 \in Int /\ End0 \in Int /\ Start0 < End0
      /\ n = 0 => Start0 = 0
      /\ n # 0 => Start0 = 16 * n - Extra
  <2>1. CASE n = 0
    BY <1>1, <2>1 DEF Start0, End0, IsLastRow
  <2>2. CASE n # 0
    BY <1>1, <2>2 DEF Start0, End0, IsLastRow
  <2> QED BY <2>1, <2>2
<1>3. Upto(n) = IF n = 0 THEN pic.top
                ELSE IF Start0 > pic.bottom THEN pic.bottom ELSE PutStart
  <2>1. CASE n = 0
    BY <1>1, <2>1 DEF Upto
  <2>2. CASE n # 0
    BY <1>1, <1>2, <2>2 DEF Upto, PutStart
  <2> QED BY <2>1, <2>2
<1>4. Upto(n + 1) = IF PutEnd < pic.top THEN pic.top ELSE PutEnd
  BY <1>1 DEF Upto, PutEnd, End0, IsLastRow
<1>5. n = 0 => PutStart = pic.top
  BY <1>1 DEF PutStart, Start0
<1> QED BY <1>1, <1>2, <1>3, <1>4, <1>5 DEF PutStart, PutEnd

LEMMA UptoEnds == pic \in Pictures => Upto(0) = pic.top /\ Upto(Rows) = pic.bottom
BY PictureFacts DEF Upto

-----------------------------------------------------------------------------
(* The job: from LaunchRow (or EndParse) to the end of FinishRow fpc is not   *)
(* "idle".  It ends before the next Sync does, unless it never began.         *)
InLoop == {"parse", "parsing", "finish_row", "sync_row", "launched"}
AtEnd == {"exit", "exit_sync", "teardown", "clear", "ending", "freed"}

Rowing ==
  /\ pic \in Pictures
  /\ row \in Nat /\ "row" \in DOMAIN ctx
  /\ pc \in {"start", "thread", "memory"} =>
       row = 0 /\ fpc = "idle" /\ ~hadError /\ shown = pic.top /\ ok
  /\ pc \in InLoop => row < Rows /\ ok
  /\ pc = "last_sync" => row = Rows /\ ok /\ pic.method # 0
  /\ pc \in {"memory", "last_sync"} \cup InLoop /\ pic.method # 0 => impl
  /\ pc = "finish_row" <=> pic.method = 0 /\ fpc # "idle"
  /\ pc \in {"sync_row", "launched"} => pic.method # 0

(* The job was launched and has not ended.                                    *)
Busy ==
  \/ status = "WORK"
  \/ pc = "launched" /\ mpc \in {"lock", "test", "wait"} /\ want = "WORK"

JobRuns ==
  /\ pic.method = 0 => ~hadError
  /\ hadError => fpc = "idle" /\ ~fok
  /\ fpc # "idle" =>
       /\ ctx.row \in Nat /\ ctx.row < Rows
       /\ pc = "finish_row" \/ Busy
  /\ fpc \in {"reconstruct", "filter", "put"} => fok /\ shown = Upto(ctx.row)
  /\ fpc \in {"rotate", "return"} /\ fok => shown = Upto(ctx.row + 1)

(* What has been put out when the main thread is at a given row.              *)
Progress ==
  /\ pc \in {"parse", "parsing", "sync_row", "last_sync"} =>
       /\ fpc # "idle" => ctx.row + 1 = row
       /\ fpc = "idle" /\ ~hadError => shown = Upto(row)
  /\ pc = "launched" =>
       /\ fpc # "idle" => ctx.row = row
       /\ fpc = "idle" /\ ~hadError => shown = Upto(row + 1)
  /\ pc = "finish_row" => ctx.row = row
  /\ pc \in AtEnd /\ ok => fpc = "idle" /\ ~hadError /\ shown = pic.bottom

(* Who has found an error and who is about to write it.                       *)
ErrorsKept ==
  /\ pc = "write_error" => ~ok /\ code # "OK" /\ (seenOK["main"] \/ err # "OK")
  /\ fpc = "write_error" => seenOK["worker"] \/ err # "OK"
  /\ seenOK["worker"] => fpc = "write_error" \/ err # "OK"
  /\ seenOK \in [Thread -> BOOLEAN]
  /\ ~ok /\ pc # "write_error" /\ err = "OK" =>
       pc \in AtEnd /\ hadError /\ row = Rows

RowInv == Rowing /\ JobRuns /\ Progress /\ ErrorsKept

LEMMA RowInit == Init => RowInv
<1> SUFFICES ASSUME Init PROVE RowInv
  OBVIOUS
<1>1. pic \in Pictures
  BY DEF Init
<1> QED
  BY <1>1, PictureFacts, UptoEnds DEF Init, InitWorker, RowInv, Rowing, JobRuns, Progress,
     ErrorsKept, InLoop, AtEnd, Thread

(* Inside the interface of the worker a launched job stays one.               *)
LEMMA BusyKept ==
  ASSUME WorkerInv, Phases, OwnerInside, pc' = pc
  PROVE  (impl' = impl \/ pc = "ending") /\ (Busy => Busy')
<1> USE DEF Busy
<1>1. CASE OwnerLocks
  BY <1>1 DEF OwnerLocks
<1>2. CASE OwnerWaits
  BY <1>2 DEF OwnerWaits
<1>3. CASE OwnerAssigns
  BY <1>3 DEF OwnerAssigns
<1>4. CASE OwnerSignals
  BY <1>4 DEF OwnerSignals
<1>5. CASE Join
  BY <1>5 DEF Join, WorkerInv, StatusAgrees, Phases, Syncs
<1> QED BY <1>1, <1>2, <1>3, <1>4, <1>5 DEF OwnerInside

LEMMA EndRowCases ==
  ASSUME row \in Nat, Rows \in Nat, row < Rows, NEW place, EndRow(place)
  PROVE  /\ row' \in Nat /\ row' = row + 1
         /\ \/ row' < Rows /\ pc' = "parse"
            \/ row' = Rows /\ ~(row + 1 < Rows) /\ pc' = place
BY DEF EndRow

LEMMA PictureStays == [Next]_vars => pic' = pic
BY DEF Next, MainStep, ThreadStep, FinishRowStep, DecoderUnchanged, vars, WriteError,
       EnterCritical, InitThreadContext, AllocateMemory, BeginParse, ParseFails, EndParse,
       RowFinished, SyncFailed, LaunchRow, RowLaunched, LastSync, ExitCritical, ExitSync,
       TearDown, Clear, Free, ReconstructRow, FilterRow, AlphaFails, WriteAlphaError, Put,
       RotateTail, HookReturns

LEMMA RowNext == WorkerInv /\ Phases /\ RowInv /\ [Next]_vars => RowInv'
<1> SUFFICES ASSUME WorkerInv, Phases, RowInv, [Next]_vars PROVE RowInv'
  OBVIOUS
<1>w. /\ mpc = "out" /\ want = "OK" => status # "WORK"
      /\ ~impl => status = "NOT_OK" /\ mpc = "out"
      /\ tpc = "hook" => status = "WORK"
  BY DEF WorkerInv, StatusAgrees, HookOnlyWhenLaunched
<1>p. /\ pc \in Syncs => want = "OK" \/ ~impl
      /\ status = "WORK" =>
           pc \in Syncs \cup {"launched", "parse", "parsing", "write_error", "exit"}
      /\ mpc # "out" => pc \in Syncs \cup {"launched", "ending"}
      /\ pic.method = 0 => ~impl
  BY DEF Phases
<1>f. pic \in Pictures /\ row \in Nat /\ Rows \in Nat /\ Rows > 0
  BY PictureFacts DEF RowInv, Rowing
<1>q. pic' = pic
  BY PictureStays
<1>u. /\ Rows' = Rows /\ Rows' \in Nat /\ Rows' > 0
      /\ Upto(row)' = Upto(row') /\ Upto(row + 1)' = Upto(row' + 1)
      /\ Upto(ctx.row)' = Upto(ctx'.row) /\ Upto(ctx.row + 1)' = Upto(ctx'.row + 1)
  BY <1>f, <1>q DEF Upto, Rows, Extra
<1>b. impl \in BOOLEAN
  BY DEF WorkerInv, WorkerTypeOK
<1> USE <1>w, <1>p, <1>f, <1>u, <1>q, <1>b
        DEF RowInv, Rowing, JobRuns, Progress, ErrorsKept, InLoop, AtEnd, Syncs, Thread
<1>1. CASE WriteError
  BY <1>1 DEF Busy, WriteError, Goto, workerVars, rowVars, errVars
<1>2. CASE EnterCritical
  BY <1>2, UptoEnds DEF Busy, EnterCritical, Fail, workerVars, rowVars, errVars
<1>3. CASE InitThreadContext
  BY <1>3, UptoEnds
     DEF Busy, InitThreadContext, Start, Goto, Fail, workerVars, rowVars, errVars
<1>4. CASE AllocateMemory
  BY <1>4, UptoEnds DEF Busy, AllocateMemory, Goto, Fail, workerVars, rowVars, errVars
<1>5. CASE BeginParse
  BY <1>5 DEF Busy, BeginParse, Goto, workerVars, rowVars, errVars
<1>6. CASE ParseFails
  BY <1>6 DEF Busy, ParseFails, Fail, workerVars, rowVars, errVars
<1>7. CASE EndParse
  <2>1. Rowing'
    BY <1>7 DEF Busy, EndParse, Goto, ChangeState, workerVars, rowVars, errVars
  <2>2. JobRuns'
    BY <1>7 DEF Busy, EndParse, Goto, ChangeState, workerVars, rowVars, errVars
  <2>3. Progress'
    BY <1>7 DEF Busy, EndParse, Goto, ChangeState, workerVars, rowVars, errVars
  <2>4. ErrorsKept'
    BY <1>7 DEF Busy, EndParse, Goto, ChangeState, workerVars, rowVars, errVars
  <2> QED BY <2>1, <2>2, <2>3, <2>4
<1>8. CASE RowFinished
  <2> USE <1>8 DEF Busy, RowFinished, workerVars, rowVars, errVars
  <2>1. CASE fok
    <3>1. EndRow("exit") /\ row < Rows
      BY <2>1
    <3>2. CASE row' \in Nat /\ row' < Rows /\ pc' = "parse" /\ row' = row + 1
      BY <2>1, <3>2
    <3>3. CASE row' = Rows /\ pc' = "exit" /\ row' = row + 1
      BY <2>1, <3>3, UptoEnds
    <3> QED BY <3>1, <3>2, <3>3, EndRowCases
  <2>2. CASE ~fok
    BY <2>2 DEF Fail
  <2> QED BY <2>1, <2>2
<1>9. CASE SyncFailed
  BY <1>9 DEF Busy, SyncFailed, Fail, workerVars, rowVars, errVars
<1>10. CASE LaunchRow
  <2>1. Rowing'
    BY <1>10 DEF Busy, LaunchRow, ChangeState, workerVars, rowVars, errVars
  <2>2. JobRuns'
    BY <1>10 DEF Busy, LaunchRow, ChangeState, workerVars, rowVars, errVars
  <2>3. Progress'
    BY <1>10 DEF Busy, LaunchRow, ChangeState, workerVars, rowVars, errVars
  <2>4. ErrorsKept'
    BY <1>10 DEF Busy, LaunchRow, ChangeState, workerVars, rowVars, errVars
  <2> QED BY <2>1, <2>2, <2>3, <2>4
<1>11. CASE RowLaunched
  <2> USE <1>11 DEF Busy, RowLaunched, rowVars, errVars
  <2>1. EndRow("last_sync") /\ row < Rows
    OBVIOUS
  <2>2. CASE row' \in Nat /\ row' < Rows /\ pc' = "parse" /\ row' = row + 1
    <3>1. row + 1 < Rows
      BY <2>2
    <3>2. UNCHANGED <<status, impl, hadError, mpc, want>>
      BY <3>1 DEF workerVars
    <3>3. Rowing'
      BY <2>2, <3>2
    <3>4. JobRuns'
      BY <2>2, <3>2
    <3>5. Progress'
      BY <2>2, <3>2
    <3>6. ErrorsKept'
      BY <2>2, <3>2
    <3> QED BY <3>3, <3>4, <3>5, <3>6
  <2>3. CASE row' = Rows /\ pc' = "last_sync" /\ row' = row + 1 /\ ~(row + 1 < Rows)
    BY <2>3 DEF ChangeState
  <2> QED BY <2>1, <2>2, <2>3, EndRowCases
<1>12. CASE LastSync
  <2>1. Rowing'
    BY <1>12 DEF Busy, LastSync, workerVars, rowVars, errVars
  <2>2. JobRuns'
    BY <1>12 DEF Busy, LastSync, workerVars, rowVars, errVars
  <2>3. Progress'
    BY <1>12, UptoEnds DEF Busy, LastSync, workerVars, rowVars, errVars
  <2>4. ErrorsKept'
    BY <1>12 DEF Busy, LastSync, workerVars, rowVars, errVars
  <2> QED BY <2>1, <2>2, <2>3, <2>4
<1>13. CASE ExitCritical
  BY <1>13 DEF Busy, ExitCritical, Goto, ChangeState, workerVars, rowVars, errVars
<1>14. CASE ExitSync
  BY <1>14 DEF Busy, ExitSync, workerVars, rowVars, errVars
<1>15. CASE TearDown
  BY <1>15 DEF Busy, TearDown, workerVars, rowVars, errVars
<1>16. CASE Clear
  BY <1>16 DEF Busy, Clear, Goto, ChangeState, workerVars, rowVars, errVars
<1>17. CASE Free
  BY <1>17 DEF Busy, Free, Goto, workerVars, rowVars, errVars
<1>18. CASE ReconstructRow
  BY <1>18 DEF Busy, ReconstructRow, workerVars, mainVars, errVars
<1>19. CASE FilterRow
  BY <1>19 DEF Busy, FilterRow, workerVars, mainVars, errVars
<1>20. CASE AlphaFails
  BY <1>20 DEF Busy, AlphaFails, workerVars, mainVars, errVars
<1>21. CASE WriteAlphaError
  BY <1>21 DEF Busy, WriteAlphaError, workerVars, mainVars, errVars
<1>22. CASE Put
  BY <1>22, PutContinues DEF Busy, Put, workerVars, mainVars, errVars
<1>23. CASE RotateTail
  BY <1>23 DEF Busy, RotateTail, workerVars, mainVars, errVars
<1>24. CASE HookReturns
  BY <1>24 DEF Busy, HookReturns, EndHook, workerVars, mainVars, errVars
<1>25. ASSUME UNCHANGED <<hadError, mainVars, rowVars, errVars>>,
              impl' = impl \/ pc = "ending", Busy => Busy'
       PROVE  RowInv'
  <2>1. pc # "ending" => impl' = impl
    BY <1>25
  <2>2. Busy => Busy'
    BY <1>25
  <2>3. UNCHANGED <<hadError, pc, row, code, up, ok, ctx, fpc, fok, shown, err, seenOK>>
    BY <1>25 DEF mainVars, rowVars, errVars
  <2>4. Rowing'
    <3>1. pic' \in Pictures /\ row' \in Nat /\ "row" \in DOMAIN ctx'
      BY <2>3
    <3>2. pc \in {"start", "thread", "memory"} =>
            row' = 0 /\ fpc' = "idle" /\ ~hadError' /\ shown' = pic'.top /\ ok'
      BY <2>3
    <3>3. /\ (pc \in InLoop => row < Rows /\ ok)'
          /\ (pc = "last_sync" => row = Rows /\ ok /\ pic.method # 0)'
      BY <2>3
    <3>4. (pc \in {"memory", "last_sync"} \cup InLoop /\ pic.method # 0 => impl)'
      BY <2>1, <2>3
    <3>5. /\ (pc = "finish_row" <=> pic.method = 0 /\ fpc # "idle")'
          /\ (pc \in {"sync_row", "launched"} => pic.method # 0)'
      BY <2>3
    <3> QED BY <2>3, <3>1, <3>2, <3>3, <3>4, <3>5
  <2>5. JobRuns'
    BY <2>2, <2>3
  <2>6. Progress'
    BY <2>3
  <2>7. ErrorsKept'
    BY <2>3
  <2> QED BY <2>4, <2>5, <2>6, <2>7
<1>26. CASE OwnerInside /\ DecoderUnchanged
  <2>1. UNCHANGED <<hadError, mainVars, rowVars, errVars>>
    BY <1>26 DEF OwnerInside, DecoderUnchanged, OwnerLocks, OwnerWaits, OwnerAssigns,
                 OwnerSignals, Join
  <2>2. (impl' = impl \/ pc = "ending") /\ (Busy => Busy')
    BY <1>26, <2>1, BusyKept DEF mainVars
  <2> QED BY <1>25, <2>1, <2>2
<1>27. CASE ThreadInside /\ DecoderUnchanged
  <2>1. UNCHANGED <<status, impl, mpc, want, hadError>>
    BY <1>27 DEF ThreadInside, ThreadLocks, ThreadWaits, BeginHook, ThreadFinishes,
                 ThreadSignals
  <2> QED BY <1>27, <1>25, <2>1 DEF Busy, DecoderUnchanged, mainVars
<1>28. CASE WakeSpuriously /\ DecoderUnchanged
  BY <1>28, <1>25 DEF Busy, WakeSpuriously, DecoderUnchanged, mainVars
<1>29. CASE UNCHANGED vars
  BY <1>29, <1>25 DEF Busy, vars, mainVars, workerVars
<1> QED
  BY <1>1, <1>2, <1>3, <1>4, <1>5, <1>6, <1>7, <1>8, <1>9, <1>10, <1>11, <1>12, <1>13, <1>14,
     <1>15, <1>16, <1>17, <1>18, <1>19, <1>20, <1>21, <1>22, <1>23, <1>24, <1>26, <1>27, <1>28,
     <1>29 DEF Next, MainStep, ThreadStep, FinishRowStep

LEMMA RowInvHolds == Spec => [](WorkerInv /\ Phases /\ RowInv)
BY WorkerInvHolds, RowInit, RowNext, PTL DEF Spec

(* For every picture and every interleaving the lines come in order, without  *)
(* gap or repetition, between setup() and teardown() and not after a refusal; *)
(* a decode that succeeds puts out the whole crop (FinishRow, ParseFrame).    *)
THEOREM LinesComeInOrder == Spec => []LinesInOrder
<1>1. WorkerInv /\ Phases /\ RowInv => LinesInOrder
  <2> SUFFICES ASSUME WorkerInv, Phases, RowInv PROVE LinesInOrder
    OBVIOUS
  <2>1. ASSUME InFinishRow, fpc = "put"
        PROVE  up /\ ~hadError /\ (PutStart < PutEnd => PutStart = shown)
    <3>1. up
      BY <2>1 DEF InFinishRow, WorkerInv, HookOnlyWhenLaunched, Phases
    <3>2. ~hadError
      BY <2>1 DEF RowInv, JobRuns
    <3>3. shown = Upto(ctx.row) /\ pic \in Pictures /\ ctx.row \in Nat /\ ctx.row < Rows
      BY <2>1 DEF RowInv, Rowing, JobRuns
    <3> QED BY <3>1, <3>2, <3>3, PutContinues
  <2>2. pc \in {"clear", "ending", "freed"} /\ ok => shown = pic.bottom
    BY DEF RowInv, Progress, AtEnd
  <2> QED BY <2>1, <2>2 DEF LinesInOrder
<1> QED BY <1>1, RowInvHolds, PTL

(* Whichever thread fails, and however the two tests of VP8SetError race, a   *)
(* decode that fails has an error in status_, but for the one exception that  *)
(* the property names (VP8SetError, ParseFrame).                              *)
THEOREM FailuresHaveStatus == Spec => []FailureHasStatus
<1>1. WorkerInv /\ Phases /\ RowInv => FailureHasStatus
  <2> SUFFICES ASSUME WorkerInv, Phases, RowInv, pc = "freed", ~ok, err = "OK"
               PROVE  pic.method > 0 /\ row = Rows /\ ~fok /\ ~seenOK["worker"]
    BY DEF FailureHasStatus
  <2>1. hadError /\ row = Rows
    BY DEF RowInv, ErrorsKept
  <2>2. ~seenOK["worker"]
    BY DEF RowInv, ErrorsKept, JobRuns, Phases
  <2>3. ~fok /\ pic.method # 0 /\ pic \in Pictures
    BY <2>1 DEF RowInv, Rowing, JobRuns
  <2> QED BY <2>1, <2>2, <2>3, PictureFacts
<1> QED BY <1>1, RowInvHolds, PTL
===============================================================================
