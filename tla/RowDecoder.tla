------------------------------ MODULE RowDecoder ------------------------------
(***************************************************************************)
(* VP8Decode of libwebp (src/dec/vp8_dec.c, src/dec/frame_dec.c): the      *)
(* macroblock rows of a picture are parsed by the main thread and, with    *)
(* mt_method 1 or 2, filtered and put out by the worker while the next row *)
(* is parsed.  Main thread and worker share the parsed data and the filter *)
(* strengths, two buffers each that are swapped; the sample cache of one   *)
(* to three rows of 16 lines; and the decoder's error status.              *)
(*                                                                         *)
(* In the cache a row is its tail, the last extra lines that the filtering *)
(* of the next row still changes, and its body, the lines above.           *)
(***************************************************************************)
EXTENDS Worker, Integers

CONSTANT Pictures    (* [method, filter, mbh, top, bottom]: mt_method_,        *)
                     (* filter_type_, mb_h_, io->crop_top, io->crop_bottom     *)

ASSUME PicturesAssumption ==
  Pictures \subseteq {p \in [method : 0..2, filter : 0..2, mbh : Nat, top : Nat, bottom : Nat] :
                        p.top < p.bottom /\ p.bottom <= 16 * p.mbh}

VARIABLES
  pic,       (* the picture that is decoded                                    *)
  pc,        (* where VP8Decode is                                             *)
  row,       (* dec->mb_y_                                                     *)
  cacheId,   (* dec->cache_id_                                                 *)
  err,       (* dec->status_                                                   *)
  seenOK,    (* VP8SetError's test of status_, made and not yet acted upon     *)
  code,      (* the main thread's argument of VP8SetError                      *)
  bufs,      (* dec->f_info_ and dec->mb_data_, each one of two buffers        *)
  info,      (* the row whose filter strengths each f_info buffer holds        *)
  data,      (* the row whose parsed data each mb_data buffer holds            *)
  ctx,       (* dec->thread_ctx_                                               *)
  fpc,       (* where FinishRow is                                             *)
  fok,       (* its ok                                                         *)
  cache,     (* the sample cache                                               *)
  shown,     (* the line after the last one that put() accepted                *)
  up,        (* setup() was called and teardown() was not                      *)
  ok         (* what VP8Decode will return                                     *)

mainVars == <<pc, row, cacheId, code, bufs, up, ok>>
rowVars == <<ctx, fpc, fok, cache, shown>>
errVars == <<err, seenOK>>
bufVars == <<info, data>>
vars == <<workerVars, mainVars, rowVars, errVars, bufVars, pic>>

(* A step inside the worker's interface touches nothing of the decoder.       *)
DecoderUnchanged == UNCHANGED <<mainVars, rowVars, errVars, bufVars, pic>>

Torn == -1     (* a buffer that is being filled, or never was                  *)

(* kFilterExtraRows, and the region that VP8EnterCritical decodes.            *)
Extra == <<0, 2, 8>>[pic.filter + 1]
FirstFiltered ==
  IF pic.filter = 2 \/ pic.top < Extra THEN 0 ELSE (pic.top - Extra) \div 16

(* Mutant: the lines the filter of the next row still changes are forgotten.  *)
RowsWithoutExtra ==
  IF (pic.bottom + 15) \div 16 > pic.mbh THEN pic.mbh ELSE (pic.bottom + 15) \div 16
Rows ==
  IF (pic.bottom + 15 + Extra) \div 16 > pic.mbh THEN pic.mbh
  ELSE (pic.bottom + 15 + Extra) \div 16

FilterThisRow == pic.filter > 0 /\ row >= FirstFiltered /\ row <= Rows

NumCaches == IF pic.method = 0 THEN 1 ELSE IF pic.filter > 0 THEN 3 ELSE 2

(* Mutant: the row after the last one of the cache.                           *)
NextCacheIdPastEnd == IF cacheId = NumCaches THEN 0 ELSE cacheId + 1
NextCacheId == IF cacheId + 1 = NumCaches THEN 0 ELSE cacheId + 1

Nothing == [row |-> Torn, by |-> {}]

Init ==
  /\ InitWorker
  /\ pic \in Pictures
  /\ pc = "start" /\ row = 0 /\ cacheId = 0 /\ ok = TRUE /\ up = FALSE
  /\ err = "OK" /\ code = "OK" /\ seenOK = [t \in Thread |-> FALSE]
  /\ bufs = [f |-> 1, m |-> 1]
  /\ ctx = [id |-> 0, row |-> 0, filter |-> FALSE,
            f |-> IF pic.method = 0 THEN 1 ELSE 2, m |-> IF pic.method = 2 THEN 2 ELSE 1]
  /\ info = [b \in 1..2 |-> Torn] /\ data = [b \in 1..2 |-> Torn]
  /\ fpc = "idle" /\ fok = TRUE
  /\ cache = [body |-> [k \in 0..2 |-> Nothing], tail |-> [k \in -1..2 |-> Nothing]]
  /\ shown = pic.top

-----------------------------------------------------------------------------
(* The main thread.                                                           *)
Goto(place) == pc' = place /\ UNCHANGED <<row, cacheId, code, bufs, up, ok>>

(* VP8SetError keeps the oldest error: it tests status_, then writes it.      *)
Fail(error) ==
  /\ seenOK' = [seenOK EXCEPT !["main"] = (err = "OK")]
  /\ code' = error
  /\ ok' = FALSE
  /\ pc' = "write_error"
  /\ UNCHANGED <<row, cacheId, bufs, up, err>>

WriteError ==
  /\ pc = "write_error"
  /\ err' = IF seenOK["main"] THEN code ELSE err
  /\ Goto(IF up THEN "exit" ELSE "clear")
  /\ UNCHANGED <<workerVars, rowVars, bufVars, seenOK, pic>>

(* io->setup().                                                               *)
EnterCritical ==
  /\ pc = "start"
  /\ \/ pc' = "thread" /\ up' = TRUE /\ UNCHANGED <<row, cacheId, code, bufs, ok, errVars>>
     \/ Fail("USER_ABORT")
  /\ UNCHANGED <<workerVars, rowVars, bufVars, pic>>

InitThreadContext ==
  /\ pc = "thread"
  /\ IF pic.method = 0
     THEN Goto("memory") /\ UNCHANGED <<workerVars, errVars>>
     ELSE /\ Start
          /\ IF impl' THEN Goto("memory") /\ UNCHANGED errVars ELSE Fail("OUT_OF_MEMORY")
  /\ UNCHANGED <<rowVars, bufVars, pic>>

(* A sum of sizes that overflows size_t would fail without a status (line     *)
(* 708); no picture a VP8 header can describe has one.                        *)
AllocateMemory ==
  /\ pc = "memory"
  /\ \/ Goto("parse") /\ UNCHANGED errVars
     \/ Fail("OUT_OF_MEMORY")
  /\ UNCHANGED <<workerVars, rowVars, bufVars, pic>>

(* VP8ParseIntraModeRow and VP8DecodeMB fill the main thread's buffers.       *)
FillBuffers(value) ==
  /\ data' = [data EXCEPT ![bufs.m] = value]
  /\ info' = IF pic.filter > 0 THEN [info EXCEPT ![bufs.f] = value] ELSE info

BeginParse ==
  /\ pc = "parse"
  /\ FillBuffers(Torn)
  /\ Goto("parsing")
  /\ UNCHANGED <<workerVars, rowVars, errVars, pic>>

ParseFails ==
  /\ pc = "parsing"
  /\ Fail("NOT_ENOUGH_DATA")
  /\ UNCHANGED <<workerVars, rowVars, bufVars, pic>>

(* VP8ProcessRow: without threads the row is finished here, with threads the  *)
(* previous job must end first.                                               *)
EndParse ==
  /\ pc = "parsing"
  /\ FillBuffers(row)
  /\ IF pic.method = 0
     THEN /\ ctx' = [ctx EXCEPT !.row = row, !.filter = FilterThisRow]
          /\ fpc' = "reconstruct" /\ fok' = TRUE
          /\ Goto("finish_row")
          /\ UNCHANGED workerVars
     ELSE ChangeState("OK") /\ Goto("sync_row") /\ UNCHANGED <<ctx, fpc, fok>>
  /\ UNCHANGED <<cache, shown, errVars, pic>>

EndRow(place) ==
  /\ row' = row + 1
  /\ pc' = IF row + 1 < Rows THEN "parse" ELSE place

RowFinished ==
  /\ pc = "finish_row" /\ fpc = "return"
  /\ IF fok
     THEN EndRow("exit") /\ UNCHANGED <<cacheId, code, bufs, up, ok, errVars>>
     ELSE Fail("USER_ABORT")
  /\ fpc' = "idle"
  /\ UNCHANGED <<workerVars, ctx, fok, cache, shown, bufVars, pic>>

Reconstructed(id, buffer) ==
  LET fresh == [row |-> data[buffer], by |-> {}]
  IN [cache EXCEPT !.body[id] = fresh, !.tail[id] = fresh]

(* Mutant: the row is given up without an error.                              *)
SyncFailedSilently ==
  /\ pc = "sync_row" /\ mpc = "out" /\ hadError
  /\ ok' = FALSE /\ pc' = "exit"
  /\ UNCHANGED <<row, cacheId, code, bufs, up, workerVars, rowVars, errVars, bufVars, pic>>

SyncFailed ==
  /\ pc = "sync_row" /\ mpc = "out" /\ hadError
  /\ Fail("USER_ABORT")
  /\ UNCHANGED <<workerVars, rowVars, bufVars, pic>>

(* The job's context is filled, the buffers are swapped, the job is launched. *)
LaunchRow ==
  /\ pc = "sync_row" /\ mpc = "out" /\ ~hadError
  /\ ctx' = [id |-> cacheId, row |-> row, filter |-> FilterThisRow,
             f |-> IF FilterThisRow THEN bufs.f ELSE ctx.f,
             m |-> IF pic.method = 2 THEN bufs.m ELSE ctx.m]
  /\ bufs' = [f |-> IF FilterThisRow THEN ctx.f ELSE bufs.f,
              m |-> IF pic.method = 2 THEN ctx.m ELSE bufs.m]
  /\ cache' = IF pic.method = 1 THEN Reconstructed(cacheId, ctx.m) ELSE cache
  /\ fpc' = IF pic.method = 1 THEN "filter" ELSE "reconstruct"
  /\ fok' = TRUE
  /\ ChangeState("WORK")
  /\ cacheId' = NextCacheId
  /\ pc' = "launched"
  /\ UNCHANGED <<row, code, up, ok, shown, errVars, bufVars, pic>>

(* After the last row ParseFrame waits for its job.                           *)
RowLaunched ==
  /\ pc = "launched" /\ mpc = "out"
  /\ EndRow("last_sync")
  /\ IF row + 1 < Rows THEN UNCHANGED workerVars ELSE ChangeState("OK")
  /\ UNCHANGED <<cacheId, code, bufs, up, ok, rowVars, errVars, bufVars, pic>>

LastSync ==
  /\ pc = "last_sync" /\ mpc = "out"
  /\ ok' = ~hadError
  /\ pc' = "exit"
  /\ UNCHANGED <<row, cacheId, code, bufs, up, workerVars, rowVars, errVars, bufVars, pic>>

(* Mutant: a decode that failed is torn down while its job may still run.     *)
ExitCriticalWithoutSync ==
  /\ pc = "exit"
  /\ Goto("teardown")
  /\ UNCHANGED <<workerVars, rowVars, errVars, bufVars, pic>>

ExitCritical ==
  /\ pc = "exit"
  /\ IF pic.method = 0
     THEN Goto("teardown") /\ UNCHANGED workerVars
     ELSE Goto("exit_sync") /\ ChangeState("OK")
  /\ UNCHANGED <<rowVars, errVars, bufVars, pic>>

ExitSync ==
  /\ pc = "exit_sync" /\ mpc = "out"
  /\ ok' = (ok /\ ~hadError)
  /\ pc' = "teardown"
  /\ UNCHANGED <<row, cacheId, code, bufs, up, workerVars, rowVars, errVars, bufVars, pic>>

TearDown ==
  /\ pc = "teardown"
  /\ up' = FALSE
  /\ pc' = "clear"
  /\ UNCHANGED <<row, cacheId, code, bufs, ok, workerVars, rowVars, errVars, bufVars, pic>>

(* VP8Clear, by VP8Decode itself after an error, otherwise by VP8Delete: ends *)
(* the worker, then frees the memory.                                         *)
Clear ==
  /\ pc = "clear"
  /\ ChangeState("NOT_OK")
  /\ Goto("ending")
  /\ UNCHANGED <<rowVars, errVars, bufVars, pic>>

Free ==
  /\ pc = "ending" /\ mpc = "out"
  /\ Goto("freed")
  /\ UNCHANGED <<workerVars, rowVars, errVars, bufVars, pic>>

-----------------------------------------------------------------------------
(* FinishRow, run by the worker as its hook or by the main thread itself.     *)
InFinishRow == tpc = "hook" \/ pc = "finish_row"

ReconstructRow ==
  /\ InFinishRow /\ fpc = "reconstruct"
  /\ cache' = Reconstructed(ctx.id, ctx.m)
  /\ fpc' = "filter"
  /\ UNCHANGED <<workerVars, mainVars, errVars, bufVars, pic, ctx, fok, shown>>

(* The strengths of this row are applied to it and to the tail above it.      *)
FilterRow ==
  /\ InFinishRow /\ fpc = "filter"
  /\ LET Filtered(cell) == [cell EXCEPT !.by = @ \cup {info[ctx.f]}] IN
     cache' =
       IF ~ctx.filter THEN cache
       ELSE [body |-> [cache.body EXCEPT ![ctx.id] = Filtered(@)],
             tail |-> [k \in -1..2 |->
                         IF k = ctx.id \/ (k = ctx.id - 1 /\ ctx.row > 0)
                         THEN Filtered(cache.tail[k]) ELSE cache.tail[k]]]
  /\ fpc' = "put"
  /\ UNCHANGED <<workerVars, mainVars, errVars, bufVars, pic, ctx, fok, shown>>

IsLastRow == ctx.row >= Rows - 1

(* Mutant: the tail of the previous row is put out with neither row.          *)
Start0AfterTail == 16 * ctx.row

(* The lines that are final now: those of the row but for its tail, after the *)
(* tail of the previous row; cut at the bottom, later at the top, of the crop.*)
Start0 == 16 * ctx.row - (IF ctx.row = 0 THEN 0 ELSE Extra)
End0 == 16 * (ctx.row + 1) - (IF IsLastRow THEN 0 ELSE Extra)
PutEnd == IF End0 > pic.bottom THEN pic.bottom ELSE End0
PutStart == IF Start0 < pic.top THEN pic.top ELSE Start0

AlphaFails ==
  /\ InFinishRow /\ fpc = "put" /\ Start0 < PutEnd
  /\ seenOK' = [seenOK EXCEPT !["worker"] = (err = "OK")]
  /\ fpc' = "write_error"
  /\ UNCHANGED <<workerVars, mainVars, bufVars, pic, err, ctx, fok, cache, shown>>

WriteAlphaError ==
  /\ fpc = "write_error"
  /\ err' = IF seenOK["worker"] THEN "BITSTREAM_ERROR" ELSE err
  /\ fok' = FALSE
  /\ fpc' = "return"
  /\ UNCHANGED <<workerVars, mainVars, bufVars, pic, seenOK, ctx, cache, shown>>

(* io->put() takes the lines or asks to abort.                                *)
Put ==
  /\ InFinishRow /\ fpc = "put"
  /\ IF PutStart < PutEnd
     THEN fok' \in BOOLEAN /\ shown' = IF fok' THEN PutEnd ELSE shown
     ELSE UNCHANGED <<fok, shown>>
  /\ fpc' = "rotate"
  /\ UNCHANGED <<workerVars, mainVars, errVars, bufVars, pic, ctx, cache>>

(* Mutant: the tail is not carried over to the top of the cache.              *)
NoRotation ==
  /\ InFinishRow /\ fpc = "rotate"
  /\ fpc' = "return"
  /\ UNCHANGED <<workerVars, mainVars, errVars, bufVars, pic, ctx, fok, cache, shown>>

(* The tail of the lowest cache row goes above the first one.                 *)
RotateTail ==
  /\ InFinishRow /\ fpc = "rotate"
  /\ cache' = IF ctx.id + 1 = NumCaches /\ ~IsLastRow
              THEN [cache EXCEPT !.tail[-1] = cache.tail[ctx.id]] ELSE cache
  /\ fpc' = "return"
  /\ UNCHANGED <<workerVars, mainVars, errVars, bufVars, pic, ctx, fok, shown>>

HookReturns ==
  /\ fpc = "return" /\ EndHook(fok)
  /\ fpc' = "idle"
  /\ UNCHANGED <<mainVars, errVars, bufVars, pic, ctx, fok, cache, shown>>

-----------------------------------------------------------------------------
MainStep ==
  \/ WriteError \/ EnterCritical \/ InitThreadContext \/ AllocateMemory
  \/ BeginParse \/ ParseFails \/ EndParse \/ RowFinished
  \/ SyncFailed \/ LaunchRow \/ RowLaunched \/ LastSync
  \/ ExitCritical \/ ExitSync \/ TearDown \/ Clear \/ Free
  \/ OwnerInside /\ DecoderUnchanged

FinishRowStep ==
  \/ ReconstructRow \/ FilterRow \/ AlphaFails \/ WriteAlphaError \/ Put
  \/ RotateTail \/ HookReturns

ThreadStep ==
  \/ FinishRowStep
  \/ ThreadInside /\ DecoderUnchanged

Next ==
  \/ MainStep \/ ThreadStep
  \/ WakeSpuriously /\ DecoderUnchanged

Spec == Init /\ [][Next]_vars

(* Both threads are scheduled; a mutex that is let go of again and again is   *)
(* in the end had by the other thread.                                        *)
Fairness ==
  /\ WF_vars(MainStep) /\ WF_vars(ThreadStep)
  /\ SF_vars(OwnerLocks /\ DecoderUnchanged)
  /\ SF_vars(ThreadLocks /\ DecoderUnchanged)

FairSpec == Spec /\ Fairness

-----------------------------------------------------------------------------
Errors == {"USER_ABORT", "OUT_OF_MEMORY", "NOT_ENOUGH_DATA", "BITSTREAM_ERROR"}
Cell == [row : Nat \cup {Torn}, by : SUBSET (Nat \cup {Torn})]

TypeOK ==
  /\ WorkerTypeOK
  /\ pic \in Pictures
  /\ pc \in {"start", "thread", "memory", "parse", "parsing", "finish_row", "sync_row",
             "launched", "last_sync", "write_error", "exit", "exit_sync", "teardown",
             "clear", "ending", "freed"}
  /\ row \in 0..Rows /\ cacheId \in 0..NumCaches - 1
  /\ err \in Errors \cup {"OK"} /\ code \in Errors \cup {"OK"}
  /\ seenOK \in [Thread -> BOOLEAN]
  /\ bufs \in [f : 1..2, m : 1..2]
  /\ info \in [1..2 -> Nat \cup {Torn}] /\ data \in [1..2 -> Nat \cup {Torn}]
  /\ ctx \in [id : 0..2, row : Nat, filter : BOOLEAN, f : 1..2, m : 1..2]
  /\ fpc \in {"idle", "reconstruct", "filter", "put", "write_error", "rotate", "return"}
  /\ fok \in BOOLEAN /\ up \in BOOLEAN /\ ok \in BOOLEAN
  /\ DOMAIN cache.body = 0..2 /\ DOMAIN cache.tail = -1..2
  /\ shown \in pic.top..pic.bottom

(* Lines lo..hi - 1 are in the cropped picture.                               *)
Visible(lo, hi) == lo < hi /\ lo < pic.bottom /\ hi > pic.top

(* A cell of row r is ready for the screen: it holds that row, filtered with  *)
(* the strengths of all the rows whose filter reaches it and of no other.     *)
Ready(cell, r, reached) == cell.row = r /\ cell.by = (IF pic.filter = 0 THEN {} ELSE reached)

(* What is put out is final: rows, buffers and tails are not mixed up, no     *)
(* buffer is read while the main thread fills it, no filter is still to come  *)
(* for a visible line (FinishRow, lines 402-495; the regions of               *)
(* VP8EnterCritical, lines 571-596).                                          *)
LinesAreFinal ==
  InFinishRow /\ fpc = "put" =>
    LET n == ctx.row
        edge == 16 * n - Extra
        low == 16 * (n + 1) - Extra
    IN /\ n > 0 /\ Visible(edge, 16 * n) => Ready(cache.tail[ctx.id - 1], n - 1, {n - 1, n})
       /\ Visible(16 * n, low) => Ready(cache.body[ctx.id], n, {n})
       /\ IsLastRow /\ Visible(low, 16 * (n + 1))
            => Ready(cache.tail[ctx.id], n, {n}) /\ n + 1 = pic.mbh

(* The lines come in order, without a gap and without repetition; none comes  *)
(* after put() refused some, or outside setup() and teardown(); and a decode  *)
(* that succeeds has put out the whole crop (lines 431-483, ParseFrame).      *)
LinesInOrder ==
  /\ InFinishRow /\ fpc = "put" =>
       up /\ ~hadError /\ (PutStart < PutEnd => PutStart = shown)
  /\ pc \in {"clear", "ending", "freed"} /\ ok => shown = pic.bottom

(* The main thread tears nothing down and frees nothing while the worker is   *)
(* in FinishRow; after VP8Clear there is no thread left (lines 601-611).      *)
QuietWhenTornDown ==
  /\ tpc = "hook" => up
  /\ pc = "freed" => ~impl /\ tpc = "none"

(* Every decode comes to an end, whatever fails and however the two threads   *)
(* are scheduled.                                                             *)
DecodeEnds == <>(pc = "freed")

(* A decode that fails leaves an error in status_, where WebPDecode looks for *)
(* it, whichever thread failed and however the two tests in VP8SetError race. *)
(* One failure leaves none: with threads, put() that refuses lines of the last*)
(* row.  Alpha that cannot be decoded there does leave one: no thread has seen*)
(* status_ free without filling it (VP8SetError, lines 87-98; ParseFrame, line*)
(* 669).                                                                      *)
FailureHasStatus ==
  pc = "freed" /\ ~ok =>
    err # "OK" \/ (pic.method > 0 /\ row = Rows /\ ~fok /\ ~seenOK["worker"])
===============================================================================
