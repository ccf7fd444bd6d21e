---------------------------- MODULE RowCacheProofs ----------------------------
(***************************************************************************)
(* The samples of the row decoder, for pictures of any size: what put()    *)
(* gets is final.  The rows of the cache, the tail above the first of them *)
(* and the two pairs of buffers hold what the job of a row takes them for, *)
(* however the two threads run.  Then: what the main thread leaves alone   *)
(* meanwhile, and how many steps the two can take.                         *)
(***************************************************************************)
EXTENDS RowDecoderProofs

(* The rows whose strengths row r gets from its own job: r itself, if it is   *)
(* in the region of VP8EnterCritical.                                         *)
Own(r) == IF pic.filter > 0 /\ r >= FirstFiltered THEN {r} ELSE {}

(* The cache row after id.                                                    *)
After(id) == IF id + 1 = NumCaches THEN 0 ELSE id + 1

(* The tail above cache row id is that of the row before r.                   *)
Carried(id, r) == r > 0 => cache.tail[id - 1] = [row |-> r - 1, by |-> Own(r - 1)]

Place ==
  {"start", "thread", "memory", "parse", "parsing", "finish_row", "sync_row", "launched",
   "last_sync", "write_error", "exit", "exit_sync", "teardown", "clear", "ending", "freed"}

Flags ==
  /\ pc \in Place
  /\ err \in Errors \cup {"OK"} /\ code \in Errors \cup {"OK"}
  /\ seenOK \in [Thread -> BOOLEAN]
  /\ fpc \in {"idle", "reconstruct", "filter", "put", "write_error", "rotate", "return"}
  /\ fok \in BOOLEAN /\ up \in BOOLEAN /\ ok \in BOOLEAN

Numbers ==
  row \in 0..Rows /\ cacheId \in 0..NumCaches - 1 /\ shown \in pic.top..pic.bottom

Shared ==
  /\ bufs \in [f : 1..2, m : 1..2]
  /\ info \in [1..2 -> Nat \cup {Torn}] /\ data \in [1..2 -> Nat \cup {Torn}]
  /\ ctx \in [id : 0..NumCaches - 1, row : Nat, filter : BOOLEAN, f : 1..2, m : 1..2]

Rowed == [body : [0..2 -> Cell], tail : [-1..2 -> Cell]]

Typed == Flags /\ Numbers /\ Shared /\ cache \in Rowed

(* Each thread has a buffer of its own, where the method gives it one, and    *)
(* the job's are filled with its row.                                         *)
Buffers ==
  /\ pic.method = 0 => ctx.id = 0 /\ cacheId = 0
  /\ bufs.f = ctx.f <=> pic.method = 0
  /\ bufs.m = ctx.m <=> pic.method # 2
  /\ pc = "sync_row" => data[bufs.m] = row /\ (pic.filter > 0 => info[bufs.f] = row)
  /\ fpc = "reconstruct" => pic.method # 1 /\ data[ctx.m] = ctx.row

(* It filters the rows of the region, with their own strengths.               *)
Strengths ==
  fpc \in {"reconstruct", "filter"} =>
    /\ ctx.filter <=> Own(ctx.row) # {}
    /\ ctx.filter => info[ctx.f] = ctx.row

(* What the cache holds at each step of FinishRow.                            *)
JobCells ==
  /\ fpc # "idle" => cacheId = After(ctx.id)
  /\ fpc \in {"reconstruct", "filter"} => Carried(ctx.id, ctx.row)
  /\ fpc = "filter" =>
       /\ cache.body[ctx.id] = [row |-> ctx.row, by |-> {}]
       /\ cache.tail[ctx.id] = [row |-> ctx.row, by |-> {}]
  /\ fpc = "put" =>
       /\ ctx.row > 0 =>
            cache.tail[ctx.id - 1]
              = [row |-> ctx.row - 1, by |-> Own(ctx.row - 1) \cup Own(ctx.row)]
       /\ cache.body[ctx.id] = [row |-> ctx.row, by |-> Own(ctx.row)]
  /\ fpc \in {"put", "rotate"} =>
       cache.tail[ctx.id] = [row |-> ctx.row, by |-> Own(ctx.row)]
  /\ fpc = "return" /\ fok /\ ~IsLastRow =>
       cache.tail[cacheId - 1] = [row |-> ctx.row, by |-> Own(ctx.row)]

(* What it holds for the next row, between two jobs.                          *)
Between ==
  fpc = "idle" /\ ~hadError =>
    /\ pc \in {"parse", "parsing", "sync_row"} => Carried(cacheId, row)
    /\ pc = "launched" /\ row + 1 < Rows => Carried(cacheId, row + 1)

CacheInv == Typed /\ Buffers /\ Strengths /\ JobCells /\ Between

-----------------------------------------------------------------------------
(* The region that is filtered, in linear arithmetic.                         *)
LEMMA RegionFacts ==
  ASSUME pic \in Pictures
  PROVE  /\ FirstFiltered \in Nat /\ NumCaches \in 1..3
         /\ NumCaches = 1 <=> pic.method = 0
         /\ Extra = 0 <=> pic.filter = 0
         /\ Extra > 0 => 16 * FirstFiltered <= pic.top
<1>1. pic.filter \in 0..2 /\ pic.method \in 0..2 /\ pic.top \in Nat /\ Extra \in {0, 2, 8}
  BY PicturesAssumption, PictureFacts
<1>2. NumCaches \in 1..3 /\ (NumCaches = 1 <=> pic.method = 0)
  BY <1>1 DEF NumCaches
<1>3. Extra = 0 <=> pic.filter = 0
  BY <1>1 DEF Extra
<1>4. FirstFiltered \in Nat /\ 16 * FirstFiltered <= pic.top
  BY <1>1 DEF FirstFiltered
<1> QED BY <1>2, <1>3, <1>4

(* Lines that are seen belong to rows that are filtered, as are those above   *)
(* them that the filter reads; the last row has a tail in the picture only    *)
(* if no row follows it.                                                      *)
LEMMA SeenIsFiltered ==
  ASSUME pic \in Pictures, NEW n \in Nat, n < Rows
  PROVE  /\ Visible(16 * n, 16 * (n + 1) - Extra) => pic.filter = 0 \/ n >= FirstFiltered
         /\ Visible(16 * n - Extra, 16 * n) => pic.filter > 0 /\ n - 1 >= FirstFiltered
         /\ n >= Rows - 1 /\ Visible(16 * (n + 1) - Extra, 16 * (n + 1)) =>
              pic.filter > 0 /\ n >= FirstFiltered /\ n + 1 = pic.mbh
<1>1. /\ FirstFiltered \in Nat /\ (Extra = 0 <=> pic.filter = 0) /\ Extra \in {0, 2, 8}
      /\ Extra > 0 => 16 * FirstFiltered <= pic.top
      /\ pic.top \in Nat /\ pic.bottom \in Nat /\ pic.filter \in 0..2 /\ pic.mbh \in Nat
      /\ Rows \in Nat
  BY RegionFacts, PictureFacts, PicturesAssumption
<1>2. Visible(16 * n, 16 * (n + 1) - Extra) => pic.filter = 0 \/ n >= FirstFiltered
  BY <1>1 DEF Visible
<1>3. Visible(16 * n - Extra, 16 * n) => pic.filter > 0 /\ n - 1 >= FirstFiltered
  BY <1>1 DEF Visible
<1>4. Rows = pic.mbh \/ 16 * Rows >= pic.bottom + Extra
  BY <1>1 DEF Rows
<1>5. n >= Rows - 1 /\ Visible(16 * (n + 1) - Extra, 16 * (n + 1)) =>
        pic.filter > 0 /\ n >= FirstFiltered /\ n + 1 = pic.mbh
  BY <1>1, <1>4 DEF Visible
<1> QED BY <1>2, <1>3, <1>5

LEMMA CacheInvIsFinal == RowInv /\ CacheInv => LinesAreFinal
<1> SUFFICES ASSUME RowInv, CacheInv, fpc = "put"
             PROVE  LinesAreFinal
  BY DEF LinesAreFinal
<1> DEFINE n == ctx.row
<1>1. pic \in Pictures /\ n \in Nat /\ n < Rows
  BY DEF RowInv, Rowing, JobRuns
<1>2. pic.filter \in 0..2 /\ FirstFiltered \in Nat
  BY <1>1, RegionFacts, PicturesAssumption
<1>3. /\ Visible(16 * n, 16 * (n + 1) - Extra) => pic.filter = 0 \/ n >= FirstFiltered
      /\ Visible(16 * n - Extra, 16 * n) => pic.filter > 0 /\ n - 1 >= FirstFiltered
      /\ n >= Rows - 1 /\ Visible(16 * (n + 1) - Extra, 16 * (n + 1)) =>
           pic.filter > 0 /\ n >= FirstFiltered /\ n + 1 = pic.mbh
  BY <1>1, SeenIsFiltered
<1>4. /\ n > 0 => cache.tail[ctx.id - 1] = [row |-> n - 1, by |-> Own(n - 1) \cup Own(n)]
      /\ cache.body[ctx.id] = [row |-> n, by |-> Own(n)]
      /\ cache.tail[ctx.id] = [row |-> n, by |-> Own(n)]
  BY DEF CacheInv, JobCells
<1> HIDE DEF n
<1>5. ASSUME n > 0, Visible(16 * n - Extra, 16 * n)
      PROVE  Ready(cache.tail[ctx.id - 1], n - 1, {n - 1, n})
  <2>1. pic.filter > 0 /\ n - 1 >= FirstFiltered /\ n >= FirstFiltered
    BY <1>1, <1>2, <1>3, <1>5
  <2>2. Own(n - 1) \cup Own(n) = {n - 1, n} /\ pic.filter # 0
    BY <1>2, <2>1 DEF Own
  <2> QED BY <1>4, <1>5, <2>2 DEF Ready
<1>6. pic.filter = 0 \/ n >= FirstFiltered =>
        Own(n) = (IF pic.filter = 0 THEN {} ELSE {n})
  BY <1>2 DEF Own
<1>7. Visible(16 * n, 16 * (n + 1) - Extra) => Ready(cache.body[ctx.id], n, {n})
  BY <1>3, <1>4, <1>6 DEF Ready
<1>8. n >= Rows - 1 /\ Visible(16 * (n + 1) - Extra, 16 * (n + 1)) =>
        Ready(cache.tail[ctx.id], n, {n}) /\ n + 1 = pic.mbh
  BY <1>3, <1>4, <1>6 DEF Ready
<1> QED BY <1>5, <1>7, <1>8 DEF LinesAreFinal, IsLastRow, n

LEMMA CacheInit == Init => CacheInv
<1> SUFFICES ASSUME Init PROVE CacheInv
  OBVIOUS
<1>1. /\ pic \in Pictures /\ NumCaches \in 1..3 /\ Rows \in Nat
      /\ pic.method \in 0..2 /\ pic.filter \in 0..2
      /\ pic.top \in Nat /\ pic.bottom \in Nat /\ pic.top < pic.bottom
  BY RegionFacts, PictureFacts, PicturesAssumption DEF Init
<1>2. Typed
  <2>1. cache \in Rowed
    BY DEF Init, Rowed, Nothing, Cell, Torn
  <2>2. Numbers
    BY <1>1 DEF Init, Numbers
  <2>3. Shared
    BY <1>1 DEF Init, Shared
  <2>4. Flags
    BY DEF Init, Flags, Place, Thread, Errors
  <2> QED BY <2>1, <2>2, <2>3, <2>4 DEF Typed
<1>3. Buffers /\ Strengths
  BY <1>1 DEF Init, Buffers, Strengths
<1>4. JobCells /\ Between
  BY <1>1 DEF Init, JobCells, Between
<1> QED BY <1>2, <1>3, <1>4 DEF CacheInv

-----------------------------------------------------------------------------
LEMMA RegionStays ==
  ASSUME RowInv, [Next]_vars
  PROVE  /\ pic' = pic /\ pic \in Pictures
         /\ Rows' = Rows /\ Extra' = Extra
         /\ FirstFiltered' = FirstFiltered /\ NumCaches' = NumCaches
<1>1. pic' = pic
  BY PictureStays
<1> QED BY <1>1 DEF RowInv, Rowing, Rows, Extra, FirstFiltered, NumCaches

LEMMA CellsKept ==
  ASSUME cache \in Rowed, NEW id \in 0..2, NEW b, data[b] \in Nat \cup {Torn}
  PROVE  /\ Reconstructed(id, b) \in Rowed
         /\ Reconstructed(id, b).body[id] = [row |-> data[b], by |-> {}]
         /\ Reconstructed(id, b).tail[id] = [row |-> data[b], by |-> {}]
         /\ Reconstructed(id, b).tail[id - 1] = cache.tail[id - 1]
<1> DEFINE fresh == [row |-> data[b], by |-> {}]
<1>1. fresh \in Cell
  BY DEF Cell
<1>2. /\ Reconstructed(id, b).body = [cache.body EXCEPT ![id] = fresh]
      /\ Reconstructed(id, b).tail = [cache.tail EXCEPT ![id] = fresh]
  BY DEF Reconstructed, Rowed
<1>3. Reconstructed(id, b) \in Rowed
  BY <1>1 DEF Reconstructed, Rowed
<1> HIDE DEF fresh
<1>4. id - 1 # id /\ id - 1 \in -1..2 /\ id \in -1..2
  OBVIOUS
<1>5. /\ Reconstructed(id, b).body[id] = fresh /\ Reconstructed(id, b).tail[id] = fresh
      /\ Reconstructed(id, b).tail[id - 1] = cache.tail[id - 1]
  BY <1>2, <1>4 DEF Rowed
<1> QED BY <1>3, <1>5 DEF fresh

LEMMA CarriedNext ==
  ASSUME NEW id, NEW n \in Nat, NEW r, r = n + 1,
         cache.tail[id - 1] = [row |-> n, by |-> Own(n)]
  PROVE  Carried(id, r)
<1>1. r - 1 = n
  OBVIOUS
<1> QED BY <1>1 DEF Carried

LEMMA FlagsNext ==
  ASSUME Flags, [Next]_vars
  PROVE  Flags'
<1> USE DEF Flags, Place, Errors, Thread
<1>1. CASE WriteError
  BY <1>1 DEF WriteError, Goto, rowVars
<1>2. CASE EnterCritical
  BY <1>2 DEF EnterCritical, Fail, rowVars, errVars
<1>3. CASE AllocateMemory
  BY <1>3 DEF AllocateMemory, Goto, Fail, rowVars, errVars
<1>4. CASE ParseFails
  BY <1>4 DEF ParseFails, Fail, rowVars
<1>5. CASE BeginParse
  BY <1>5 DEF BeginParse, Goto, rowVars, errVars
<1>6. CASE InitThreadContext \/ SyncFailed \/ LastSync \/ ExitCritical \/ ExitSync
  BY <1>6 DEF InitThreadContext, SyncFailed, LastSync, ExitCritical, ExitSync, Goto, Fail,
              rowVars, errVars
<1>7. CASE TearDown \/ Clear \/ Free \/ EndParse
  BY <1>7 DEF TearDown, Clear, Free, EndParse, Goto, rowVars, errVars
<1>8. CASE RowFinished \/ RowLaunched \/ LaunchRow
  BY <1>8 DEF RowFinished, RowLaunched, LaunchRow, EndRow, Fail, errVars, rowVars
<1>9. CASE FinishRowStep
  BY <1>9 DEF FinishRowStep, ReconstructRow, FilterRow, AlphaFails, WriteAlphaError, Put,
              RotateTail, HookReturns, mainVars, errVars
<1>10. CASE UNCHANGED <<mainVars, rowVars, errVars>>
  <2>1. UNCHANGED <<pc, err, code, seenOK, fpc, fok, up, ok>>
    BY <1>10 DEF mainVars, rowVars, errVars
  <2>2. (pc \in Place)' /\ (err \in Errors \cup {"OK"})' /\ (code \in Errors \cup {"OK"})'
    BY <2>1
  <2>3. (seenOK \in [Thread -> BOOLEAN])'
    BY <2>1
  <2>4. (fpc \in {"idle", "reconstruct", "filter", "put", "write_error", "rotate", "return"})'
    BY <2>1
  <2>5. (fok \in BOOLEAN)' /\ (up \in BOOLEAN)' /\ (ok \in BOOLEAN)'
    BY <2>1
  <2> QED BY <2>2, <2>3, <2>4, <2>5
<1> QED
  BY <1>1, <1>2, <1>3, <1>4, <1>5, <1>6, <1>7, <1>8, <1>9, <1>10
     DEF DecoderUnchanged, vars, Next, MainStep, ThreadStep

(* The steps of the main thread that change no sample and no buffer.          *)
Elsewhere ==
  \/ WriteError \/ EnterCritical \/ InitThreadContext \/ AllocateMemory \/ ParseFails
  \/ SyncFailed \/ LastSync \/ ExitCritical \/ ExitSync \/ TearDown \/ Clear \/ Free

LEMMA ElsewhereKeeps ==
  ASSUME Elsewhere
  PROVE  UNCHANGED <<row, cacheId, bufs, rowVars, bufVars>>
BY DEF Elsewhere, WriteError, EnterCritical, InitThreadContext, AllocateMemory, ParseFails,
       SyncFailed, LastSync, ExitCritical, ExitSync, TearDown, Clear, Free, Goto, Fail

LEMMA InsideKeeps ==
  ASSUME DecoderUnchanged \/ UNCHANGED vars
  PROVE  UNCHANGED <<pc, row, cacheId, bufs, rowVars, bufVars>>
BY DEF DecoderUnchanged, vars, mainVars

LEMMA NumbersNext ==
  ASSUME RowInv, Numbers, [Next]_vars
  PROVE  Numbers'
<1>1. /\ pic' = pic /\ pic \in Pictures /\ Rows' = Rows /\ NumCaches' = NumCaches
      /\ Rows \in Nat /\ NumCaches \in 1..3 /\ pic.bottom \in Nat /\ pic.top \in Nat
  BY RegionStays, RegionFacts, PictureFacts
<1> USE <1>1 DEF Numbers
<1>2. ASSUME UNCHANGED <<row, cacheId, shown>> PROVE Numbers'
  BY <1>2
<1>3. CASE Elsewhere
  BY <1>2, <1>3, ElsewhereKeeps DEF rowVars
<1>4. CASE DecoderUnchanged \/ UNCHANGED vars
  BY <1>2, <1>4, InsideKeeps DEF rowVars
<1>5. CASE BeginParse \/ EndParse
  BY <1>2, <1>5 DEF BeginParse, EndParse, Goto, rowVars
<1>6. ASSUME row' \in {row, row + 1}, row < Rows, UNCHANGED <<cacheId, shown>> PROVE Numbers'
  BY <1>6
<1>7. CASE RowFinished
  BY <1>6, <1>7 DEF RowFinished, EndRow, Fail, RowInv, Rowing, InLoop
<1>8. CASE RowLaunched
  BY <1>6, <1>8 DEF RowLaunched, EndRow, rowVars, RowInv, Rowing, InLoop
<1>9. CASE LaunchRow
  <2>1. NextCacheId \in 0..NumCaches - 1
    BY DEF NextCacheId
  <2>2. UNCHANGED <<row, shown>> /\ cacheId' = NextCacheId
    BY <1>9 DEF LaunchRow
  <2> QED BY <2>1, <2>2
<1>10. CASE Put
  <2>1. PutEnd <= pic.bottom /\ PutStart >= pic.top /\ PutEnd \in Int /\ PutStart \in Int
    <3>1. ctx.row \in Nat /\ Extra \in {0, 2, 8}
      BY <1>10, PictureFacts DEF Put, RowInv, JobRuns
    <3>2. Start0 \in Int /\ End0 \in Int
      BY <3>1 DEF End0, Start0
    <3> QED BY <3>2 DEF PutEnd, PutStart
  <2> QED BY <1>10, <2>1 DEF Put, mainVars
<1>11. CASE FinishRowStep /\ ~Put
  BY <1>2, <1>11 DEF FinishRowStep, ReconstructRow, FilterRow, AlphaFails, WriteAlphaError,
     RotateTail, HookReturns, mainVars
<1> QED BY <1>3, <1>4, <1>5, <1>7, <1>8, <1>9, <1>10, <1>11
        DEF Next, MainStep, ThreadStep, Elsewhere

LEMMA SharedNext ==
  ASSUME RowInv, Numbers, Shared, [Next]_vars
  PROVE  Shared'
<1>1. /\ pic' = pic /\ NumCaches' = NumCaches /\ NumCaches \in 1..3
      /\ row \in Nat /\ FilterThisRow \in BOOLEAN /\ cacheId \in 0..NumCaches - 1
  BY RegionStays, RegionFacts DEF Numbers, FilterThisRow, RowInv, Rowing
<1> USE <1>1 DEF Shared
<1>2. ASSUME UNCHANGED <<bufs, ctx, bufVars>> PROVE Shared'
  BY <1>2 DEF bufVars
<1>3. CASE Elsewhere
  BY <1>2, <1>3, ElsewhereKeeps DEF rowVars
<1>4. CASE DecoderUnchanged \/ UNCHANGED vars
  BY <1>2, <1>4, InsideKeeps DEF rowVars
<1>5. ASSUME NEW value \in Nat \cup {Torn}, FillBuffers(value)
      PROVE  /\ data' \in [1..2 -> Nat \cup {Torn}]
             /\ info' \in [1..2 -> Nat \cup {Torn}]
  BY <1>5 DEF FillBuffers
<1>6. CASE BeginParse
  BY <1>5, <1>6 DEF BeginParse, Goto, rowVars, Torn
<1>7. CASE EndParse
  <2>1. bufs' = bufs /\ (ctx' = ctx \/ ctx' = [ctx EXCEPT !.row = row, !.filter = FilterThisRow])
    BY <1>7 DEF EndParse, Goto
  <2> QED BY <1>5, <1>7, <2>1 DEF EndParse
<1>8. CASE RowFinished \/ RowLaunched
  BY <1>2, <1>8 DEF RowFinished, RowLaunched, Fail, rowVars
<1>9. CASE LaunchRow
  <2>1. ctx' \in [id : 0..NumCaches - 1, row : Nat, filter : BOOLEAN, f : 1..2, m : 1..2]
    BY <1>9 DEF LaunchRow
  <2>2. bufs' \in [f : 1..2, m : 1..2]
    BY <1>9 DEF LaunchRow
  <2> QED BY <1>9, <2>1, <2>2 DEF LaunchRow, bufVars
<1>10. CASE FinishRowStep
  BY <1>2, <1>10 DEF FinishRowStep, ReconstructRow, FilterRow, AlphaFails, WriteAlphaError,
     Put, RotateTail, HookReturns, mainVars
<1> QED BY <1>3, <1>4, <1>6, <1>7, <1>8, <1>9, <1>10 DEF Next, MainStep, ThreadStep, Elsewhere

(* The effect of the filter on the cache.                                     *)
Applied(cell) == [cell EXCEPT !.by = @ \cup {info[ctx.f]}]

LEMMA FilterEffect ==
  ASSUME FilterRow, Shared, NumCaches \in 1..3, cache \in Rowed, ctx.filter
  PROVE  /\ cache' \in Rowed
         /\ cache'.body[ctx.id] = Applied(cache.body[ctx.id])
         /\ cache'.tail[ctx.id] = Applied(cache.tail[ctx.id])
         /\ ctx.row > 0 => cache'.tail[ctx.id - 1] = Applied(cache.tail[ctx.id - 1])
<1> DEFINE body == [cache.body EXCEPT ![ctx.id] = Applied(@)]
           tail == [k \in -1..2 |-> IF k = ctx.id \/ (k = ctx.id - 1 /\ ctx.row > 0)
                                    THEN Applied(cache.tail[k]) ELSE cache.tail[k]]
<1>1. ctx.id \in 0..2 /\ ctx.id - 1 \in -1..2 /\ ctx.id \in -1..2
      /\ info[ctx.f] \in Nat \cup {Torn}
  BY DEF Shared
<1>2. \A cell \in Cell : Applied(cell) \in Cell
  BY <1>1 DEF Cell, Applied
<1>3. cache' = [body |-> body, tail |-> tail]
  BY DEF FilterRow, Applied
<1>4. body \in [0..2 -> Cell] /\ body[ctx.id] = Applied(cache.body[ctx.id])
  BY <1>1, <1>2 DEF Rowed
<1>5. /\ tail \in [-1..2 -> Cell] /\ tail[ctx.id] = Applied(cache.tail[ctx.id])
      /\ ctx.row > 0 => tail[ctx.id - 1] = Applied(cache.tail[ctx.id - 1])
  BY <1>1, <1>2 DEF Rowed
<1> HIDE DEF body, tail
<1> QED BY <1>3, <1>4, <1>5 DEF Rowed

LEMMA RowedNext ==
  ASSUME RowInv, Typed, [Next]_vars
  PROVE  cache' \in Rowed
<1>1. /\ NumCaches \in 1..3 /\ cache \in Rowed /\ Shared
      /\ ctx.id \in 0..2 /\ cacheId \in 0..2
      /\ \A b \in 1..2 : data[b] \in Nat \cup {Torn}
      /\ ctx.m \in 1..2
  BY RegionStays, RegionFacts DEF Typed, Shared, Numbers
<1>2. CASE Elsewhere
  BY <1>1, <1>2, ElsewhereKeeps DEF rowVars
<1>3. CASE DecoderUnchanged \/ UNCHANGED vars
  BY <1>1, <1>3, InsideKeeps DEF rowVars
<1>4. CASE BeginParse \/ EndParse \/ RowFinished \/ RowLaunched
  BY <1>1, <1>4 DEF BeginParse, EndParse, RowFinished, RowLaunched, rowVars
<1>5. CASE LaunchRow
  BY <1>1, <1>5, CellsKept DEF LaunchRow
<1>6. CASE ReconstructRow
  BY <1>1, <1>6, CellsKept DEF ReconstructRow
<1>7. CASE FilterRow
  BY <1>1, <1>7, FilterEffect DEF FilterRow
<1>8. CASE RotateTail
  BY <1>1, <1>8 DEF RotateTail, Rowed
<1>9. CASE AlphaFails \/ WriteAlphaError \/ Put \/ HookReturns
  BY <1>1, <1>9 DEF AlphaFails, WriteAlphaError, Put, HookReturns
<1> QED BY <1>2, <1>3, <1>4, <1>5, <1>6, <1>7, <1>8, <1>9
        DEF Next, MainStep, ThreadStep, FinishRowStep, Elsewhere

LEMMA TypedNext == ASSUME RowInv, Typed, [Next]_vars PROVE Typed'
BY FlagsNext, NumbersNext, SharedNext, RowedNext DEF Typed

-----------------------------------------------------------------------------
(* The steps of the main thread.                                              *)
LEMMA ElsewhereInv ==
  ASSUME RowInv, CacheInv, [Next]_vars, Elsewhere
  PROVE  Buffers' /\ Strengths' /\ JobCells' /\ Between'
<1>1. /\ pic' = pic /\ NumCaches' = NumCaches /\ FirstFiltered' = FirstFiltered
      /\ Rows' = Rows
      /\ UNCHANGED <<row, cacheId, bufs, ctx, fpc, fok, cache, info, data>>
  BY RegionStays, ElsewhereKeeps DEF rowVars, bufVars
<1>2. /\ pc' \notin {"parsing", "sync_row", "launched"}
      /\ pc' = "parse" => row = 0
  BY DEF Elsewhere, WriteError, EnterCritical, InitThreadContext, AllocateMemory, ParseFails,
         SyncFailed, LastSync, ExitCritical, ExitSync, TearDown, Clear, Free, Goto, Fail,
         RowInv, Rowing
<1>3. Buffers' /\ Strengths'
  BY <1>1, <1>2 DEF CacheInv, Buffers, Strengths, Own
<1>4. JobCells'
  BY <1>1 DEF CacheInv, JobCells, Own, Carried, After, IsLastRow
<1>5. Between'
  <2>1. pc' = "parse" => ~(row' > 0)
    BY <1>1, <1>2
  <2> QED BY <1>2, <2>1 DEF Between, Carried
<1> QED BY <1>3, <1>4, <1>5

LEMMA InsideInv ==
  ASSUME RowInv, CacheInv, [Next]_vars, hadError' = hadError,
         DecoderUnchanged \/ UNCHANGED vars
  PROVE  Buffers' /\ Strengths' /\ JobCells' /\ Between'
<1>1. /\ pic' = pic /\ NumCaches' = NumCaches /\ FirstFiltered' = FirstFiltered
      /\ Rows' = Rows
      /\ UNCHANGED <<pc, row, cacheId, bufs, ctx, fpc, fok, cache, info, data>>
  BY RegionStays, InsideKeeps DEF rowVars, bufVars
<1>2. Buffers' /\ Strengths'
  BY <1>1 DEF CacheInv, Buffers, Strengths, Own
<1>3. JobCells'
  BY <1>1 DEF CacheInv, JobCells, Own, Carried, After, IsLastRow
<1>4. Between'
  BY <1>1 DEF CacheInv, Between, Carried, Own
<1> QED BY <1>2, <1>3, <1>4

(* What holds at the main thread's steps in the loop over the rows.           *)
LEMMA LoopFacts ==
  ASSUME WorkerInv, Phases, RowInv, CacheInv
  PROVE  /\ pic \in Pictures /\ pic.method \in 0..2 /\ pic.filter \in 0..2
         /\ NumCaches \in 1..3 /\ (NumCaches = 1 <=> pic.method = 0)
         /\ FirstFiltered \in Nat /\ Rows \in Nat /\ row \in Nat
         /\ pc \in InLoop => row < Rows
         /\ pc \in {"parse", "parsing"} /\ pic.method = 0 => fpc = "idle" /\ ~hadError
         /\ bufs.f \in 1..2 /\ bufs.m \in 1..2 /\ ctx.f \in 1..2 /\ ctx.m \in 1..2
         /\ ctx.id \in 0..NumCaches - 1 /\ cacheId \in 0..NumCaches - 1
<1>1. pic \in Pictures
  BY DEF RowInv, Rowing
<1>2. pic.method \in 0..2 /\ pic.filter \in 0..2
  BY <1>1, PicturesAssumption
<1>3. bufs.f \in 1..2 /\ bufs.m \in 1..2 /\ ctx.f \in 1..2 /\ ctx.m \in 1..2
      /\ ctx.id \in 0..NumCaches - 1 /\ cacheId \in 0..NumCaches - 1
  BY DEF CacheInv, Typed, Shared, Numbers
<1> QED BY <1>1, <1>2, <1>3, RegionFacts, PictureFacts DEF RowInv, Rowing, JobRuns, InLoop

(* Filling the main thread's buffers leaves those of the job alone.           *)
LEMMA FillingIsApart ==
  ASSUME WorkerInv, Phases, RowInv, CacheInv, pc \in {"parse", "parsing"},
         NEW value, FillBuffers(value)
  PROVE  /\ fpc \in {"reconstruct", "filter"} =>
              data'[ctx.m] = data[ctx.m] \/ pic.method = 1
         /\ fpc \in {"reconstruct", "filter"} => info'[ctx.f] = info[ctx.f]
         /\ data'[bufs.m] = value
         /\ pic.filter > 0 => info'[bufs.f] = value
<1>1. /\ data \in [1..2 -> Nat \cup {Torn}] /\ info \in [1..2 -> Nat \cup {Torn}]
      /\ bufs.f = ctx.f <=> pic.method = 0
      /\ bufs.m = ctx.m <=> pic.method # 2
  BY DEF CacheInv, Typed, Shared, Buffers
<1>2. pic.method \in 0..2 /\ (pic.method = 0 => fpc = "idle")
      /\ bufs.f \in 1..2 /\ bufs.m \in 1..2 /\ ctx.f \in 1..2 /\ ctx.m \in 1..2
  BY LoopFacts
<1> QED BY <1>1, <1>2 DEF FillBuffers

LEMMA BeginParseInv ==
  ASSUME WorkerInv, Phases, RowInv, CacheInv, [Next]_vars, BeginParse
  PROVE  Buffers' /\ Strengths' /\ JobCells' /\ Between'
<1>1. /\ pic' = pic /\ NumCaches' = NumCaches /\ FirstFiltered' = FirstFiltered
      /\ Rows' = Rows /\ pc = "parse" /\ pc' = "parsing"
      /\ UNCHANGED <<hadError, row, cacheId, bufs, ctx, fpc, fok, cache>>
      /\ FillBuffers(Torn)
  BY RegionStays DEF BeginParse, Goto, rowVars, workerVars
<1>2. /\ fpc \in {"reconstruct", "filter"} => data'[ctx.m] = data[ctx.m] \/ pic.method = 1
      /\ fpc \in {"reconstruct", "filter"} => info'[ctx.f] = info[ctx.f]
  BY <1>1, FillingIsApart
<1>3. Buffers' /\ Strengths'
  BY <1>1, <1>2 DEF CacheInv, Buffers, Strengths, Own
<1>4. JobCells'
  BY <1>1 DEF CacheInv, JobCells, Own, Carried, After, IsLastRow
<1>5. Between'
  BY <1>1 DEF CacheInv, Between, Carried, Own
<1> QED BY <1>3, <1>4, <1>5

LEMMA EndParseInv ==
  ASSUME WorkerInv, Phases, RowInv, CacheInv, [Next]_vars, EndParse
  PROVE  Buffers' /\ Strengths' /\ JobCells' /\ Between'
<1>1. /\ pic' = pic /\ NumCaches' = NumCaches /\ FirstFiltered' = FirstFiltered
      /\ Rows' = Rows /\ pc = "parsing"
      /\ UNCHANGED <<hadError, row, cacheId, bufs, cache>>
      /\ FillBuffers(row)
  BY RegionStays DEF EndParse, Goto, ChangeState, workerVars
<1>2. /\ fpc \in {"reconstruct", "filter"} => data'[ctx.m] = data[ctx.m] \/ pic.method = 1
      /\ fpc \in {"reconstruct", "filter"} => info'[ctx.f] = info[ctx.f]
      /\ data'[bufs.m] = row
      /\ pic.filter > 0 => info'[bufs.f] = row
  BY <1>1, FillingIsApart
<1>3. CASE pic.method = 0
  <2>1. /\ fpc = "idle" /\ ~hadError /\ ctx.id = 0 /\ cacheId = 0 /\ NumCaches = 1
        /\ row \in Nat /\ row < Rows /\ Rows \in Nat /\ FirstFiltered \in Nat
    BY <1>1, <1>3, LoopFacts DEF CacheInv, Buffers, InLoop
  <2>2. /\ fpc' = "reconstruct" /\ pc' = "finish_row"
        /\ ctx'.id = 0 /\ ctx'.row = row /\ ctx'.f = ctx.f /\ ctx'.m = ctx.m
    BY <1>3, <2>1 DEF EndParse, Goto, CacheInv, Typed, Shared
  <2>3. ctx'.filter = FilterThisRow
    BY <1>3 DEF EndParse, CacheInv, Typed, Shared
  <2>4. FilterThisRow <=> Own(row) # {}
    BY <2>1 DEF FilterThisRow, Own
  <2>5. Buffers'
    <3>1. pic.method # 2
      BY <1>3
    <3>2. bufs.f = ctx.f /\ bufs.m = ctx.m
      BY <1>3, <3>1 DEF CacheInv, Buffers
    <3>3. pic'.method = 0 /\ ctx'.id = 0 /\ cacheId' = 0
      BY <1>1, <1>3, <2>1, <2>2
    <3>4. /\ bufs'.f = ctx'.f /\ bufs'.m = ctx'.m
          /\ data'[ctx'.m] = ctx'.row
      BY <1>1, <1>2, <2>2, <3>2
    <3>5. pic'.method # 2 /\ pic'.method # 1
      BY <3>3
    <3> QED BY <2>2, <3>3, <3>4, <3>5 DEF Buffers
  <2>6. Strengths'
    <3>1. (ctx.filter <=> Own(ctx.row) # {})'
      BY <1>1, <2>2, <2>3, <2>4 DEF Own
    <3>2. bufs.f = ctx.f
      BY <1>3 DEF CacheInv, Buffers
    <3>3. (ctx.filter => info[ctx.f] = ctx.row)'
      BY <1>2, <2>1, <2>2, <2>3, <3>2 DEF FilterThisRow
    <3> QED BY <3>1, <3>3 DEF Strengths
  <2>7. Carried(0, row)
    BY <1>1, <2>1 DEF CacheInv, Between
  <2>8. JobCells'
    <3>1. (cacheId = After(ctx.id))'
      <4>1. cacheId' = 0 /\ ctx'.id = 0 /\ NumCaches' = 1
        BY <1>1, <2>1, <2>2
      <4> QED BY <4>1 DEF After
    <3>2. Carried(ctx.id, ctx.row)'
      BY <1>1, <2>2, <2>7 DEF Carried, Own
    <3> QED BY <2>2, <3>1, <3>2 DEF JobCells
  <2>9. Between'
    BY <2>2 DEF Between
  <2> QED BY <2>5, <2>6, <2>8, <2>9
<1>4. CASE pic.method # 0
  <2>1. UNCHANGED <<ctx, fpc, fok>> /\ pc' = "sync_row"
    BY <1>4 DEF EndParse, Goto
  <2>2. Buffers' /\ Strengths'
    BY <1>1, <1>2, <1>4, <2>1 DEF CacheInv, Buffers, Strengths, Own
  <2>3. JobCells'
    BY <1>1, <2>1 DEF CacheInv, JobCells, Own, Carried, After, IsLastRow
  <2>4. Between'
    BY <1>1, <2>1 DEF CacheInv, Between, Carried, Own
  <2> QED BY <2>2, <2>3, <2>4
<1> QED BY <1>3, <1>4

LEMMA RowFinishedInv ==
  ASSUME WorkerInv, Phases, RowInv, CacheInv, [Next]_vars, RowFinished
  PROVE  Buffers' /\ Strengths' /\ JobCells' /\ Between'
<1>1. /\ pic' = pic /\ NumCaches' = NumCaches /\ FirstFiltered' = FirstFiltered
      /\ Rows' = Rows /\ fpc = "return" /\ fpc' = "idle"
      /\ UNCHANGED <<cacheId, bufs, ctx, fok, cache, info, data>>
      /\ pc' # "sync_row" /\ pc' # "launched" /\ pc' # "parsing"
  BY RegionStays DEF RowFinished, bufVars, Fail, EndRow
<1>2. Buffers' /\ Strengths'
  BY <1>1 DEF CacheInv, Buffers, Strengths
<1>3. JobCells'
  BY <1>1 DEF JobCells
<1>4. ASSUME pc' = "parse" PROVE Carried(cacheId, row)'
  <2>1. fok /\ row' = row + 1 /\ row + 1 < Rows /\ ctx.row = row
    BY <1>4 DEF RowFinished, EndRow, Fail, RowInv, Progress
  <2>2. ~IsLastRow
    BY <2>1, LoopFacts DEF IsLastRow
  <2>3. cache.tail[cacheId - 1] = [row |-> row, by |-> Own(row)]
    BY <1>1, <2>1, <2>2 DEF CacheInv, JobCells
  <2>4. row \in Nat
    BY LoopFacts
  <2>5. Carried(cacheId, row')
    BY <2>1, <2>3, <2>4, CarriedNext
  <2> QED BY <1>1, <2>1, <2>5 DEF Carried, Own
<1>5. Between'
  BY <1>1, <1>4 DEF Between
<1> QED BY <1>2, <1>3, <1>5

LEMMA RowLaunchedInv ==
  ASSUME WorkerInv, Phases, RowInv, CacheInv, [Next]_vars, RowLaunched
  PROVE  Buffers' /\ Strengths' /\ JobCells' /\ Between'
<1>1. /\ pic' = pic /\ NumCaches' = NumCaches /\ FirstFiltered' = FirstFiltered
      /\ Rows' = Rows /\ pc = "launched"
      /\ UNCHANGED <<hadError, cacheId, bufs, ctx, fpc, fok, cache, info, data>>
      /\ pc' = IF row + 1 < Rows THEN "parse" ELSE "last_sync"
      /\ row' = row + 1
  BY RegionStays DEF RowLaunched, EndRow, bufVars, rowVars, workerVars, ChangeState
<1>2. Buffers' /\ Strengths'
  BY <1>1 DEF CacheInv, Buffers, Strengths, Own
<1>3. JobCells'
  BY <1>1 DEF CacheInv, JobCells, Own, Carried, After, IsLastRow
<1>4. Between'
  BY <1>1 DEF CacheInv, Between, Carried, Own
<1> QED BY <1>2, <1>3, <1>4

(* The job gets the buffers that were just filled, and the cache row after    *)
(* that of the job before.                                                    *)
LEMMA LaunchRowInv ==
  ASSUME WorkerInv, Phases, RowInv, CacheInv, [Next]_vars, LaunchRow
  PROVE  Buffers' /\ Strengths' /\ JobCells' /\ Between'
<1>1. /\ pic' = pic /\ NumCaches' = NumCaches /\ FirstFiltered' = FirstFiltered
      /\ Rows' = Rows /\ pc = "sync_row" /\ pc' = "launched"
      /\ row' = row /\ info' = info /\ data' = data
      /\ cacheId' = NextCacheId /\ ctx'.id = cacheId /\ ctx'.row = row
      /\ fpc' = IF pic.method = 1 THEN "filter" ELSE "reconstruct"
  BY RegionStays DEF LaunchRow, bufVars
<1>2. /\ pic.filter \in 0..2 /\ row \in Nat /\ row < Rows
      /\ Rows \in Nat /\ FirstFiltered \in Nat
      /\ cacheId \in 0..2 /\ ctx.m \in 1..2 /\ bufs.m \in 1..2
  <2>1. pc \in InLoop
    BY <1>1 DEF InLoop
  <2>2. /\ pic.filter \in 0..2 /\ row \in Nat /\ row < Rows
        /\ Rows \in Nat /\ FirstFiltered \in Nat /\ ctx.m \in 1..2 /\ bufs.m \in 1..2
    BY <2>1, LoopFacts
  <2>3. cacheId \in 0..2
    <3>1. NumCaches \in 1..3 /\ cacheId \in 0..NumCaches - 1
      BY LoopFacts
    <3> QED BY <3>1
  <2> QED BY <2>2, <2>3
<1>3. pic.method = 1 \/ pic.method = 2
  <2>1. pic.method \in 0..2
    BY LoopFacts
  <2>2. pic.method # 0
    BY <1>1 DEF RowInv, Rowing
  <2> QED BY <2>1, <2>2
<1>4. fpc = "idle" /\ ~hadError
  <2>1. status # "WORK"
    BY <1>1 DEF LaunchRow, WorkerInv, HookOnlyWhenLaunched, StatusAgrees, Phases, Syncs
  <2>2. ~Busy /\ pc # "finish_row"
    BY <1>1, <2>1 DEF Busy
  <2> QED BY <2>2 DEF LaunchRow, RowInv, JobRuns
<1>5. data[bufs.m] = row /\ (pic.filter > 0 => info[bufs.f] = row) /\ Carried(cacheId, row)
  BY <1>1, <1>4 DEF CacheInv, Buffers, Between
<1>6. /\ bufs.f # ctx.f
      /\ pic.method = 1 => bufs.m = ctx.m
      /\ pic.method = 2 => bufs.m # ctx.m
  <2>1. pic.method # 0
    BY <1>3
  <2>2. pic.method = 1 => pic.method # 2
    OBVIOUS
  <2>3. bufs.f = ctx.f <=> pic.method = 0
    BY DEF CacheInv, Buffers
  <2>4. bufs.m = ctx.m <=> pic.method # 2
    BY DEF CacheInv, Buffers
  <2> QED BY <2>1, <2>2, <2>3, <2>4
<1>7. FilterThisRow <=> Own(row) # {}
  BY <1>2 DEF FilterThisRow, Own
<1>8. /\ ctx'.filter = FilterThisRow
      /\ FilterThisRow => ctx'.f = bufs.f /\ bufs'.f = ctx.f
      /\ ~FilterThisRow => ctx'.f = ctx.f /\ bufs'.f = bufs.f
  BY DEF LaunchRow
<1>9. /\ pic.method = 2 => ctx'.m = bufs.m /\ bufs'.m = ctx.m
      /\ pic.method = 1 => ctx'.m = ctx.m /\ bufs'.m = bufs.m
  <2>1. /\ ctx'.m = IF pic.method = 2 THEN bufs.m ELSE ctx.m
        /\ bufs'.m = IF pic.method = 2 THEN ctx.m ELSE bufs.m
    BY DEF LaunchRow
  <2>2. pic.method = 1 => pic.method # 2
    OBVIOUS
  <2> QED BY <2>1, <2>2
<1>10. Buffers'
  <2>1. bufs'.f # ctx'.f
    BY <1>6, <1>8
  <2>2. pic.method = 1 => bufs'.m = ctx'.m
    BY <1>6, <1>9
  <2>3. pic.method = 2 => bufs'.m # ctx'.m /\ data'[ctx'.m] = ctx'.row
    BY <1>1, <1>5, <1>6, <1>9
  <2>4. CASE pic.method = 1
    <3>1. pic.method # 0 /\ pic.method # 2
      BY <2>4
    <3>2. pic'.method # 0 /\ pic'.method # 2 /\ bufs'.m = ctx'.m /\ fpc' = "filter"
      BY <1>1, <2>2, <2>4, <3>1
    <3> QED BY <1>1, <2>1, <3>2 DEF Buffers
  <2>5. CASE pic.method = 2
    <3>1. pic.method # 0 /\ pic.method # 1
      BY <2>5
    <3>2. /\ pic'.method # 0 /\ pic'.method # 1 /\ pic'.method = 2
          /\ bufs'.m # ctx'.m /\ data'[ctx'.m] = ctx'.row
      BY <1>1, <2>3, <2>5, <3>1
    <3> QED BY <1>1, <2>1, <3>2 DEF Buffers
  <2> QED BY <1>3, <2>4, <2>5
<1>11. Strengths'
  <2>1. (ctx.filter <=> Own(ctx.row) # {})'
    BY <1>1, <1>7, <1>8 DEF Own
  <2>2. FilterThisRow => info[bufs.f] = row
    BY <1>5 DEF FilterThisRow
  <2>3. (ctx.filter => info[ctx.f] = ctx.row)'
    BY <1>1, <1>8, <2>2
  <2> QED BY <2>1, <2>3 DEF Strengths
<1>12. JobCells'
  <2>1. (cacheId = After(ctx.id))'
    BY <1>1 DEF After, NextCacheId
  <2>2. cache'.tail[cacheId - 1] = cache.tail[cacheId - 1]
    BY <1>2, CellsKept DEF LaunchRow, CacheInv, Typed, Shared
  <2>3. Carried(ctx.id, ctx.row)'
    BY <1>1, <1>5, <2>2 DEF Carried, Own
  <2>4. ASSUME pic.method = 1
        PROVE  /\ cache'.body[cacheId] = [row |-> row, by |-> {}]
               /\ cache'.tail[cacheId] = [row |-> row, by |-> {}]
    <3>1. cache' = Reconstructed(cacheId, ctx.m) /\ data[ctx.m] = row
      BY <1>5, <1>6, <2>4 DEF LaunchRow
    <3> QED BY <1>2, <3>1, CellsKept DEF CacheInv, Typed, Shared
  <2> QED BY <1>1, <2>1, <2>3, <2>4 DEF JobCells
<1>13. Between'
  BY <1>1 DEF Between
<1> QED BY <1>10, <1>11, <1>12, <1>13

-----------------------------------------------------------------------------
(* The steps of FinishRow.                                                    *)
FinishRowInside ==
  ReconstructRow \/ FilterRow \/ AlphaFails \/ WriteAlphaError \/ Put \/ RotateTail

(* Until it returns, FinishRow changes the cache and its own places only.     *)
LEMMA FinishRowKeeps ==
  ASSUME RowInv, CacheInv, [Next]_vars, FinishRowInside
  PROVE  /\ pic' = pic /\ NumCaches' = NumCaches /\ FirstFiltered' = FirstFiltered
         /\ Rows' = Rows
         /\ UNCHANGED <<hadError, pc, row, cacheId, bufs, ctx, info, data>>
         /\ fpc # "idle" /\ fpc' \notin {"idle", "reconstruct"} /\ Between'
         /\ cacheId' = After(ctx.id)'
<1>1. /\ pic' = pic /\ NumCaches' = NumCaches /\ FirstFiltered' = FirstFiltered
      /\ Rows' = Rows
      /\ UNCHANGED <<hadError, pc, row, cacheId, bufs, ctx, info, data>>
  BY RegionStays DEF FinishRowInside, ReconstructRow, FilterRow, AlphaFails, WriteAlphaError,
                     Put, RotateTail, mainVars, bufVars, workerVars
<1>2. fpc # "idle" /\ fpc' \notin {"idle", "reconstruct"}
  BY DEF FinishRowInside, ReconstructRow, FilterRow, AlphaFails, WriteAlphaError, Put,
         RotateTail
<1>3. Between'
  BY <1>2 DEF Between
<1>4. cacheId' = After(ctx.id)'
  BY <1>1, <1>2 DEF CacheInv, JobCells, After
<1> QED BY <1>1, <1>2, <1>3, <1>4

LEMMA FinishRowBuffers ==
  ASSUME RowInv, CacheInv, [Next]_vars, FinishRowInside
  PROVE  Buffers' /\ Strengths'
<1>1. /\ pic' = pic /\ FirstFiltered' = FirstFiltered
      /\ UNCHANGED <<pc, row, cacheId, bufs, ctx, info, data>>
      /\ fpc' # "reconstruct"
  BY FinishRowKeeps
<1>2. fpc' = "filter" => fpc = "reconstruct"
  BY DEF FinishRowInside, ReconstructRow, FilterRow, AlphaFails, WriteAlphaError, Put,
         RotateTail
<1>3. Buffers'
  BY <1>1 DEF CacheInv, Buffers
<1>4. Strengths'
  BY <1>1, <1>2 DEF CacheInv, Strengths, Own
<1> QED BY <1>3, <1>4

LEMMA ReconstructRowInv ==
  ASSUME RowInv, CacheInv, [Next]_vars, ReconstructRow
  PROVE  JobCells'
<1>1. /\ pic' = pic /\ FirstFiltered' = FirstFiltered /\ ctx' = ctx
      /\ cacheId' = After(ctx.id)'
  BY FinishRowKeeps DEF FinishRowInside
<1>2. fpc = "reconstruct" /\ fpc' = "filter" /\ cache' = Reconstructed(ctx.id, ctx.m)
  BY DEF ReconstructRow
<1>3. data[ctx.m] = ctx.row /\ Carried(ctx.id, ctx.row)
  BY <1>2 DEF CacheInv, Buffers, JobCells
<1>4. cache \in Rowed /\ ctx.id \in 0..2 /\ data[ctx.m] \in Nat \cup {Torn}
  <2>1. NumCaches \in 1..3 /\ Shared /\ cache \in Rowed
    BY RegionStays, RegionFacts DEF CacheInv, Typed
  <2> QED BY <2>1 DEF Shared
<1>5. /\ cache'.body[ctx.id] = [row |-> ctx.row, by |-> {}]
      /\ cache'.tail[ctx.id] = [row |-> ctx.row, by |-> {}]
      /\ cache'.tail[ctx.id - 1] = cache.tail[ctx.id - 1]
  BY <1>2, <1>3, <1>4, CellsKept
<1>6. Carried(ctx.id, ctx.row)'
  BY <1>1, <1>3, <1>5 DEF Carried, Own
<1> QED BY <1>1, <1>2, <1>5, <1>6 DEF JobCells

LEMMA FilterRowInv ==
  ASSUME RowInv, CacheInv, [Next]_vars, FilterRow
  PROVE  JobCells'
<1>1. /\ pic' = pic /\ FirstFiltered' = FirstFiltered /\ ctx' = ctx
      /\ cacheId' = After(ctx.id)'
  BY FinishRowKeeps DEF FinishRowInside
<1>2. fpc = "filter" /\ fpc' = "put"
  BY DEF FilterRow
<1>3. /\ Carried(ctx.id, ctx.row)
      /\ cache.body[ctx.id] = [row |-> ctx.row, by |-> {}]
      /\ cache.tail[ctx.id] = [row |-> ctx.row, by |-> {}]
  BY <1>2 DEF CacheInv, JobCells
<1>4. Own(ctx.row) \in {{}, {ctx.row}}
  BY DEF Own
<1>5. (ctx.filter <=> Own(ctx.row) # {}) /\ (ctx.filter => info[ctx.f] = ctx.row)
  BY <1>2 DEF CacheInv, Strengths
<1>6. /\ cache'.body[ctx.id] = [row |-> ctx.row, by |-> Own(ctx.row)]
      /\ cache'.tail[ctx.id] = [row |-> ctx.row, by |-> Own(ctx.row)]
      /\ ctx.row > 0 =>
           cache'.tail[ctx.id - 1]
             = [row |-> ctx.row - 1, by |-> Own(ctx.row - 1) \cup Own(ctx.row)]
  <2>1. CASE ctx.filter
    <3>1. NumCaches \in 1..3 /\ Shared /\ cache \in Rowed
      BY RegionStays, RegionFacts DEF CacheInv, Typed
    <3>2. /\ cache'.body[ctx.id] = Applied(cache.body[ctx.id])
          /\ cache'.tail[ctx.id] = Applied(cache.tail[ctx.id])
          /\ ctx.row > 0 => cache'.tail[ctx.id - 1] = Applied(cache.tail[ctx.id - 1])
      BY <2>1, <3>1, FilterEffect
    <3>3. Own(ctx.row) = {ctx.row} /\ info[ctx.f] = ctx.row
      BY <1>4, <1>5, <2>1
    <3>4. \A r, own : Applied([row |-> r, by |-> own])
                       = [row |-> r, by |-> own \cup Own(ctx.row)]
      BY <3>3 DEF Applied
    <3>5. {} \cup Own(ctx.row) = Own(ctx.row)
      OBVIOUS
    <3>6. /\ cache'.body[ctx.id] = [row |-> ctx.row, by |-> Own(ctx.row)]
          /\ cache'.tail[ctx.id] = [row |-> ctx.row, by |-> Own(ctx.row)]
      BY <1>3, <3>2, <3>4, <3>5
    <3>7. ASSUME ctx.row > 0
          PROVE  cache'.tail[ctx.id - 1]
                   = [row |-> ctx.row - 1, by |-> Own(ctx.row - 1) \cup Own(ctx.row)]
      BY <1>3, <3>2, <3>4, <3>7 DEF Carried
    <3> QED BY <3>6, <3>7
  <2>2. CASE ~ctx.filter
    <3>1. cache' = cache
      BY <2>2 DEF FilterRow
    <3>2. Own(ctx.row) = {}
      BY <1>5, <2>2
    <3>3. Own(ctx.row - 1) \cup Own(ctx.row) = Own(ctx.row - 1)
      BY <3>2
    <3> QED BY <1>3, <3>1, <3>2, <3>3 DEF Carried
  <2> QED BY <2>1, <2>2
<1>7. (ctx.row > 0 =>
         cache.tail[ctx.id - 1]
           = [row |-> ctx.row - 1, by |-> Own(ctx.row - 1) \cup Own(ctx.row)])'
  BY <1>1, <1>6 DEF Own
<1>8. /\ (cache.body[ctx.id] = [row |-> ctx.row, by |-> Own(ctx.row)])'
      /\ (cache.tail[ctx.id] = [row |-> ctx.row, by |-> Own(ctx.row)])'
  BY <1>1, <1>6 DEF Own
<1> QED BY <1>1, <1>2, <1>7, <1>8 DEF JobCells

LEMMA PutInv ==
  ASSUME RowInv, CacheInv, [Next]_vars, AlphaFails \/ WriteAlphaError \/ Put
  PROVE  JobCells'
<1>1. /\ pic' = pic /\ FirstFiltered' = FirstFiltered /\ ctx' = ctx
      /\ cacheId' = After(ctx.id)'
  BY FinishRowKeeps DEF FinishRowInside
<1>2. cache' = cache
  BY DEF AlphaFails, WriteAlphaError, Put
<1>3. CASE Put
  <2>1. fpc = "put" /\ fpc' = "rotate"
    BY <1>3 DEF Put
  <2>2. (cache.tail[ctx.id] = [row |-> ctx.row, by |-> Own(ctx.row)])'
    BY <1>1, <1>2, <2>1 DEF CacheInv, JobCells, Own
  <2> QED BY <1>1, <2>1, <2>2 DEF JobCells
<1>4. CASE AlphaFails \/ WriteAlphaError
  <2>1. fpc' = "write_error" \/ (fpc' = "return" /\ ~fok')
    BY <1>4 DEF AlphaFails, WriteAlphaError
  <2> QED BY <1>1, <2>1 DEF JobCells
<1> QED BY <1>3, <1>4

(* The tail is above the next row: it was there, or is carried to the top.    *)
LEMMA RotateTailInv ==
  ASSUME RowInv, CacheInv, [Next]_vars, RotateTail
  PROVE  JobCells'
<1>1. /\ pic' = pic /\ NumCaches' = NumCaches /\ FirstFiltered' = FirstFiltered
      /\ Rows' = Rows /\ ctx' = ctx /\ cacheId' = After(ctx.id)'
  BY FinishRowKeeps DEF FinishRowInside
<1>2. fpc = "rotate" /\ fpc' = "return"
  BY DEF RotateTail
<1>3. cache.tail[ctx.id] = [row |-> ctx.row, by |-> Own(ctx.row)]
  BY <1>2 DEF CacheInv, JobCells
<1>4. ctx.row \in Nat /\ cache \in Rowed
  BY <1>2 DEF RowInv, JobRuns, CacheInv, Typed
<1>5. NumCaches \in 1..3 /\ ctx.id \in 0..NumCaches - 1
  BY RegionStays, RegionFacts DEF CacheInv, Typed, Shared
<1>6. ASSUME ~IsLastRow
      PROVE  cache'.tail[After(ctx.id) - 1] = cache.tail[ctx.id]
  <2>1. CASE ctx.id + 1 = NumCaches
    <3>1. cache' = [cache EXCEPT !.tail[-1] = cache.tail[ctx.id]]
      BY <1>6, <2>1 DEF RotateTail
    <3>2. cache'.tail[-1] = cache.tail[ctx.id]
      BY <1>4, <3>1 DEF Rowed
    <3>3. After(ctx.id) - 1 = -1
      BY <2>1 DEF After
    <3> QED BY <3>2, <3>3
  <2>2. CASE ctx.id + 1 # NumCaches
    <3>1. cache' = cache
      BY <2>2 DEF RotateTail
    <3>2. After(ctx.id) - 1 = ctx.id
      BY <1>5, <2>2 DEF After
    <3> QED BY <3>1, <3>2
  <2> QED BY <2>1, <2>2
<1>7. (fok /\ ~IsLastRow =>
         cache.tail[cacheId - 1] = [row |-> ctx.row, by |-> Own(ctx.row)])'
  <2>1. IsLastRow' = IsLastRow /\ cacheId' = After(ctx.id)
    BY <1>1 DEF IsLastRow, After
  <2> QED BY <1>1, <1>3, <1>6, <2>1 DEF Own
<1> QED BY <1>1, <1>2, <1>7 DEF JobCells

(* What the job leaves in the cache is what the next row finds there.         *)
LEMMA HookReturnsInv ==
  ASSUME WorkerInv, Phases, RowInv, CacheInv, [Next]_vars, HookReturns
  PROVE  Buffers' /\ Strengths' /\ JobCells' /\ Between'
<1>1. /\ pic' = pic /\ NumCaches' = NumCaches /\ FirstFiltered' = FirstFiltered
      /\ Rows' = Rows
      /\ UNCHANGED <<pc, row, cacheId, bufs, ctx, cache, info, data>>
      /\ fpc = "return" /\ fpc' = "idle" /\ (~hadError' => fok)
  BY RegionStays DEF HookReturns, EndHook, mainVars, bufVars
<1>2. Buffers' /\ Strengths'
  BY <1>1 DEF CacheInv, Buffers, Strengths
<1>3. JobCells'
  BY <1>1 DEF JobCells
<1>4. fok /\ ~IsLastRow => Carried(cacheId, ctx.row + 1)
  <2>1. ctx.row \in Nat
    BY <1>1 DEF RowInv, JobRuns
  <2>2. fok /\ ~IsLastRow => cache.tail[cacheId - 1] = [row |-> ctx.row, by |-> Own(ctx.row)]
    BY <1>1 DEF CacheInv, JobCells
  <2> QED BY <2>1, <2>2, CarriedNext
<1>5. row \in Nat /\ Rows \in Nat /\ (pc \in InLoop => row < Rows)
  BY LoopFacts
<1>6. ASSUME fok, pc \in {"parse", "parsing", "sync_row"}
      PROVE  Carried(cacheId, row)
  <2>1. ctx.row + 1 = row
    BY <1>1, <1>6 DEF RowInv, Progress
  <2>2. ctx.row \in Nat
    BY <1>1 DEF RowInv, JobRuns
  <2>3. row < Rows
    BY <1>5, <1>6 DEF InLoop
  <2>4. ~IsLastRow
    BY <1>5, <2>1, <2>2, <2>3 DEF IsLastRow
  <2> QED BY <1>4, <1>6, <2>1, <2>4
<1>7. ASSUME fok, pc = "launched", row + 1 < Rows
      PROVE  Carried(cacheId, row + 1)
  <2>1. ctx.row = row
    BY <1>1, <1>7 DEF RowInv, Progress
  <2>2. ~IsLastRow
    BY <1>5, <1>7, <2>1 DEF IsLastRow
  <2> QED BY <1>4, <1>7, <2>1, <2>2
<1>8. Between'
  BY <1>1, <1>6, <1>7 DEF Between, Carried, Own
<1> QED BY <1>2, <1>3, <1>8

-----------------------------------------------------------------------------
LEMMA CacheNext == WorkerInv /\ Phases /\ RowInv /\ CacheInv /\ [Next]_vars => CacheInv'
<1> SUFFICES ASSUME WorkerInv, Phases, RowInv, CacheInv, [Next]_vars
             PROVE  CacheInv'
  OBVIOUS
<1>1. Typed'
  BY TypedNext DEF CacheInv
<1>2. CASE Elsewhere
  BY <1>1, <1>2, ElsewhereInv DEF CacheInv
<1>3. CASE BeginParse
  BY <1>1, <1>3, BeginParseInv DEF CacheInv
<1>4. CASE EndParse
  BY <1>1, <1>4, EndParseInv DEF CacheInv
<1>5. CASE RowFinished
  BY <1>1, <1>5, RowFinishedInv DEF CacheInv
<1>6. CASE LaunchRow
  BY <1>1, <1>6, LaunchRowInv DEF CacheInv
<1>7. CASE RowLaunched
  BY <1>1, <1>7, RowLaunchedInv DEF CacheInv
<1>8. CASE FinishRowInside
  <2>1. Buffers' /\ Strengths' /\ Between'
    BY <1>8, FinishRowBuffers, FinishRowKeeps
  <2>2. JobCells'
    BY <1>8, ReconstructRowInv, FilterRowInv, PutInv, RotateTailInv DEF FinishRowInside
  <2> QED BY <1>1, <2>1, <2>2 DEF CacheInv
<1>9. CASE HookReturns
  BY <1>1, <1>9, HookReturnsInv DEF CacheInv
<1>10. CASE (OwnerInside \/ ThreadInside \/ WakeSpuriously) /\ DecoderUnchanged
  <2>1. hadError' = hadError
    BY <1>10 DEF OwnerInside, OwnerLocks, OwnerWaits, OwnerAssigns, OwnerSignals, Join,
       ThreadInside, ThreadLocks, ThreadWaits, BeginHook, ThreadFinishes, ThreadSignals,
       WakeSpuriously
  <2> QED BY <1>1, <1>10, <2>1, InsideInv DEF CacheInv
<1>11. CASE UNCHANGED vars
  <2>1. hadError' = hadError
    BY <1>11 DEF vars, workerVars
  <2> QED BY <1>1, <1>11, <2>1, InsideInv DEF CacheInv
<1> QED
  BY <1>2, <1>3, <1>4, <1>5, <1>6, <1>7, <1>8, <1>9, <1>10, <1>11
     DEF Next, MainStep, ThreadStep, FinishRowStep, FinishRowInside, Elsewhere

LEMMA CacheInvHolds == Spec => [](WorkerInv /\ RowInv /\ CacheInv)
<1>1. Init => WorkerInv /\ Phases /\ RowInv /\ CacheInv
  BY UsesWorkerInit, WorkerInit, PhasesInit, RowInit, CacheInit
<1>2. WorkerInv /\ Phases /\ RowInv /\ CacheInv /\ [Next]_vars
        => (WorkerInv /\ Phases /\ RowInv /\ CacheInv)'
  BY UsesWorkerNext, WorkerNext, PhasesNext, RowNext, CacheNext
<1> QED BY <1>1, <1>2, PTL DEF Spec

(* Whatever the picture and however main thread and worker take turns, put()  *)
(* gets lines that are final: of the right rows, with every filter that       *)
(* reaches them applied, from no buffer that is being filled (FinishRow,      *)
(* lines 402-495; VP8EnterCritical, lines 571-596).                           *)
THEOREM LinesPutOutAreFinal == Spec => []LinesAreFinal
BY CacheInvHolds, CacheInvIsFinal, PTL

(* The decoder's fields keep their ranges: row and cache numbers stay within  *)
(* the picture and the cache, buffer numbers are those of the two buffers     *)
(* (VP8Decoder, vp8i_dec.h; InitThreadContext and VP8ProcessRow).             *)
THEOREM DecoderTypes == Spec => []TypeOK
<1>1. WorkerInv /\ RowInv /\ CacheInv => TypeOK
  <2> SUFFICES ASSUME WorkerInv, RowInv, CacheInv PROVE TypeOK
    OBVIOUS
  <2>1. WorkerTypeOK /\ pic \in Pictures
    BY DEF WorkerInv, RowInv, Rowing
  <2>2. ctx \in [id : 0..2, row : Nat, filter : BOOLEAN, f : 1..2, m : 1..2]
    <3>1. NumCaches \in 1..3
      BY <2>1, RegionFacts
    <3> QED BY <3>1 DEF CacheInv, Typed, Shared
  <2>3. DOMAIN cache.body = 0..2 /\ DOMAIN cache.tail = -1..2
    BY DEF CacheInv, Typed, Rowed
  <2>4. Flags /\ Numbers /\ Shared
    BY DEF CacheInv, Typed
  <2> QED BY <2>1, <2>2, <2>3, <2>4 DEF TypeOK, Flags, Place, Numbers, Shared
<1> QED BY <1>1, CacheInvHolds, PTL

-----------------------------------------------------------------------------
(* No data race but the one on status_.                                       *)

(* While the worker runs FinishRow, what the main thread does changes nothing *)
(* that FinishRow reads or writes: its context, the cache, the lines put out, *)
(* the parsed data and the strengths that it has still to read.               *)
JobIsLeftAlone ==
  tpc = "hook" /\ MainStep =>
    /\ UNCHANGED <<rowVars, hadError, up, tpc>>
    /\ fpc = "reconstruct" => data'[ctx.m] = data[ctx.m]
    /\ info'[ctx.f] = info[ctx.f]

LEMMA HookFacts ==
  ASSUME WorkerInv, Phases, RowInv, CacheInv, tpc = "hook"
  PROVE  /\ impl /\ status = "WORK" /\ pic.method # 0 /\ mutex = "worker"
         /\ mpc = "out" => want # "OK"
         /\ bufs.f # ctx.f /\ (fpc = "reconstruct" => bufs.m # ctx.m)
         /\ pc \in Syncs \cup {"launched", "parse", "parsing", "write_error", "exit"}
         /\ pc \in Syncs => mpc # "out"
<1>1. impl /\ status = "WORK" /\ mutex = "worker" /\ (mpc = "out" => want # "OK")
  BY DEF WorkerInv, PlacesAgree, StatusAgrees, HookOnlyWhenLaunched
<1>2. pc \in Syncs \cup {"launched", "parse", "parsing", "write_error", "exit"}
      /\ pic.method # 0 /\ (pc \in Syncs => mpc # "out")
  BY <1>1 DEF Phases
<1>3. bufs.f # ctx.f /\ (fpc = "reconstruct" => bufs.m # ctx.m)
  <2>1. /\ bufs.f = ctx.f <=> pic.method = 0
        /\ bufs.m = ctx.m <=> pic.method # 2
        /\ fpc = "reconstruct" => pic.method # 1
    BY DEF CacheInv, Buffers
  <2>2. pic.method \in 0..2
    BY LoopFacts
  <2>3. pic.method # 0
    BY <1>2
  <2>4. bufs.f # ctx.f
    BY <2>1, <2>3
  <2>5. fpc = "reconstruct" => pic.method = 2
    BY <2>1, <2>2, <2>3
  <2>6. pic.method = 2 => bufs.m # ctx.m
    BY <2>1
  <2> QED BY <2>4, <2>5, <2>6
<1> QED BY <1>1, <1>2, <1>3

LEMMA MainLeavesJob ==
  ASSUME WorkerInv, Phases, RowInv, CacheInv PROVE JobIsLeftAlone
<1> SUFFICES ASSUME tpc = "hook", MainStep
             PROVE  /\ UNCHANGED <<rowVars, hadError, up, tpc>>
                    /\ fpc = "reconstruct" => data'[ctx.m] = data[ctx.m]
                    /\ info'[ctx.f] = info[ctx.f]
  BY DEF JobIsLeftAlone
<1>h. /\ impl /\ status = "WORK" /\ pic.method # 0 /\ mutex = "worker"
      /\ mpc = "out" => want # "OK"
      /\ bufs.f # ctx.f /\ (fpc = "reconstruct" => bufs.m # ctx.m)
      /\ pc \in Syncs \cup {"launched", "parse", "parsing", "write_error", "exit"}
      /\ pc \in Syncs => mpc # "out"
  BY HookFacts
<1>1. CASE WriteError
  BY <1>1 DEF WriteError, Goto, bufVars, workerVars
<1>2. CASE ParseFails
  BY <1>2 DEF ParseFails, Fail, bufVars, workerVars
<1>3. ASSUME NEW value, FillBuffers(value), UNCHANGED <<rowVars, hadError, up, tpc>>
      PROVE  /\ UNCHANGED <<rowVars, hadError, up, tpc>>
             /\ fpc = "reconstruct" => data'[ctx.m] = data[ctx.m]
             /\ info'[ctx.f] = info[ctx.f]
  BY <1>h, <1>3 DEF FillBuffers, CacheInv, Typed, Shared
<1>4. CASE BeginParse
  BY <1>3, <1>4 DEF BeginParse, Goto, workerVars
<1>5. CASE EndParse
  <2>1. FillBuffers(row)
    BY <1>5 DEF EndParse
  <2>2. UNCHANGED <<rowVars, hadError, up, tpc>>
    <3>1. pic.method # 0
      BY <1>h
    <3>2. /\ ChangeState("OK") /\ Goto("sync_row") /\ UNCHANGED <<ctx, fpc, fok>>
          /\ UNCHANGED <<cache, shown>>
      BY <1>5, <3>1 DEF EndParse
    <3> QED BY <3>2 DEF Goto, ChangeState, rowVars
  <2> QED BY <1>3, <2>1, <2>2
<1>6. CASE RowLaunched
  BY <1>6 DEF RowLaunched, EndRow, ChangeState, bufVars, workerVars
<1>7. CASE ExitCritical
  BY <1>7 DEF ExitCritical, Goto, ChangeState, bufVars, workerVars
<1>8. CASE OwnerInside /\ DecoderUnchanged
  BY <1>h, <1>8
     DEF OwnerInside, OwnerLocks, OwnerWaits, OwnerAssigns, OwnerSignals, Join,
         DecoderUnchanged, mainVars, bufVars
<1>9. ~(EnterCritical \/ InitThreadContext \/ AllocateMemory \/ RowFinished \/ SyncFailed
        \/ LaunchRow \/ LastSync \/ ExitSync \/ TearDown \/ Clear \/ Free)
  BY <1>h DEF EnterCritical, InitThreadContext, AllocateMemory, RowFinished, SyncFailed,
         LaunchRow, LastSync, ExitSync, TearDown, Clear, Free, Syncs
<1> QED BY <1>1, <1>2, <1>4, <1>5, <1>6, <1>7, <1>8, <1>9 DEF MainStep

(* The two threads share buffers, cache and context without a lock, and yet   *)
(* the main thread changes nothing that a running FinishRow uses: the swaps   *)
(* of VP8ProcessRow and the Sync before them keep the two apart (frame_dec.c, *)
(* lines 402-569).                                                            *)
THEOREM MainLeavesJobAlone == Spec => [][JobIsLeftAlone]_vars
BY CacheInvHolds, WorkerInvHolds, MainLeavesJob, PTL

-----------------------------------------------------------------------------
(* How long a decode can last.  A row costs at most 23 steps of the two       *)
(* threads.  Each part of the rank is what one of them has before it; what    *)
(* will be launched is counted before it is, with who asks for it.            *)

(* A thread that is to lock the mutex will hold it, and may go to sleep.      *)
LockLeft(place, sleeps) ==
  IF place = "lock" \/ (place = "wait" /\ ~sleeps) THEN 2
  ELSE IF place = "test" THEN 1 ELSE 0

FinishLeft ==
  CASE fpc = "idle"                      -> 0
    [] fpc = "reconstruct"               -> 10
    [] fpc = "filter"                    -> 9
    [] fpc = "put"                       -> 8
    [] fpc \in {"write_error", "rotate"} -> 7
    [] fpc = "return"                    -> 6

(* A call of ChangeState: it assigns, signals and joins.                      *)
CallLeft ==
  LockLeft(mpc, "main" \in asleep)
  + CASE mpc = "out"                      -> 0
      [] mpc \in {"lock", "test", "wait"} ->
           IF want = "OK" THEN 1 ELSE IF want = "WORK" THEN 14 ELSE 8
      [] mpc = "signal"                   -> IF want = "NOT_OK" THEN 4 ELSE 3
      [] mpc = "join"                     -> 1

(* The thread: a signal, a job, or the last round.                            *)
WorkLeft ==
  LockLeft(tpc, "worker" \in asleep)
  + (IF tpc = "signal" THEN 5 ELSE 0)
  + (IF status = "WORK" THEN IF tpc = "hook" THEN FinishLeft ELSE 10
     ELSE IF status = "NOT_OK" /\ impl /\ tpc # "exited" THEN 3 ELSE 0)

RowsLeft == 23 * (Rows - row) + 19

PlaceLeft ==
  CASE pc = "start"       -> RowsLeft + 27
    [] pc = "thread"      -> RowsLeft + 26
    [] pc = "memory"      -> RowsLeft + 23
    [] pc = "parse"       -> RowsLeft + 22
    [] pc = "parsing"     -> RowsLeft + 21
    [] pc = "finish_row"  -> RowsLeft + FinishLeft
    [] pc = "sync_row"    -> RowsLeft + 17
    [] pc = "launched"    -> RowsLeft
    [] pc = "last_sync"   -> 19
    [] pc = "write_error" -> 19
    [] pc = "exit"        -> 18
    [] pc = "exit_sync"   -> 14
    [] pc = "teardown"    -> 13
    [] pc = "clear"       -> 12
    [] pc = "ending"      -> 1
    [] pc = "freed"       -> 0

Rank == PlaceLeft + CallLeft + WorkLeft

DecodeAdvances ==
  /\ Rank' \in Nat
  /\ MainStep \/ ThreadStep => Rank' < Rank
  /\ WakeSpuriously => Rank' <= Rank + 2

(* From put on, FinishRow is under way.                                       *)
Begun == fpc \in {"put", "write_error", "rotate", "return"} => InFinishRow

(* The values of the parts, as the provers use them.                          *)
CallByPlace ==
  /\ CallLeft \in Nat
  /\ mpc = "out" => CallLeft = 0
  /\ mpc = "lock" \/ (mpc = "wait" /\ "main" \notin asleep) =>
       /\ want = "OK" => CallLeft = 3
       /\ want = "WORK" => CallLeft = 16
       /\ want = "NOT_OK" => CallLeft = 10
  /\ mpc = "test" =>
       /\ want = "OK" => CallLeft = 2
       /\ want = "WORK" => CallLeft = 15
       /\ want = "NOT_OK" => CallLeft = 9
  /\ mpc = "wait" /\ "main" \in asleep =>
       /\ want = "OK" => CallLeft = 1
       /\ want = "WORK" => CallLeft = 14
       /\ want = "NOT_OK" => CallLeft = 8
  /\ mpc = "signal" => CallLeft = IF want = "NOT_OK" THEN 4 ELSE 3
  /\ mpc = "join" => CallLeft = 1

LEMMA CallsAre == WorkerTypeOK => CallByPlace
BY DEF WorkerTypeOK, Status, CallByPlace, CallLeft, LockLeft

JobLeft ==
  IF status = "WORK" THEN IF tpc = "hook" THEN FinishLeft ELSE 10
  ELSE IF status = "NOT_OK" /\ impl /\ tpc # "exited" THEN 3 ELSE 0

FinishByPlace ==
  /\ FinishLeft \in Nat /\ FinishLeft <= 10
  /\ fpc = "reconstruct" => FinishLeft = 10
  /\ fpc = "filter" => FinishLeft = 9
  /\ fpc = "put" => FinishLeft = 8
  /\ fpc \in {"write_error", "rotate"} => FinishLeft = 7
  /\ fpc = "return" => FinishLeft = 6

WorkByPlace ==
  /\ WorkLeft \in Nat /\ JobLeft \in Nat
  /\ tpc \in {"none", "hook", "last_signal", "exited"} => WorkLeft = JobLeft
  /\ tpc = "lock" \/ (tpc = "wait" /\ "worker" \notin asleep) => WorkLeft = JobLeft + 2
  /\ tpc = "test" => WorkLeft = JobLeft + 1
  /\ tpc = "wait" /\ "worker" \in asleep => WorkLeft = JobLeft
  /\ tpc = "signal" => WorkLeft = JobLeft + 5

LEMMA FinishIs == TypeOK => FinishByPlace
BY DEF TypeOK, FinishByPlace, FinishLeft

LEMMA WorkIs == TypeOK => WorkByPlace
<1> SUFFICES ASSUME TypeOK PROVE WorkByPlace
  OBVIOUS
<1>1. JobLeft \in Nat
  BY FinishIs DEF JobLeft, FinishByPlace
<1>2. tpc \in {"none", "lock", "test", "wait", "hook", "signal", "last_signal", "exited"}
  BY DEF TypeOK, WorkerTypeOK
<1>3. WorkLeft = LockLeft(tpc, "worker" \in asleep) + (IF tpc = "signal" THEN 5 ELSE 0) + JobLeft
  BY DEF WorkLeft, JobLeft
<1> QED BY <1>1, <1>2, <1>3 DEF WorkByPlace, LockLeft

PlaceByPlace ==
  /\ PlaceLeft \in Nat /\ RowsLeft \in Nat /\ RowsLeft = 23 * (Rows - row) + 19
  /\ RowsLeft >= 19
  /\ row \in Nat /\ Rows \in Nat
  /\ pc = "start"       => PlaceLeft = RowsLeft + 27
  /\ pc = "thread"      => PlaceLeft = RowsLeft + 26
  /\ pc = "memory"      => PlaceLeft = RowsLeft + 23
  /\ pc = "parse"       => PlaceLeft = RowsLeft + 22
  /\ pc = "parsing"     => PlaceLeft = RowsLeft + 21
  /\ pc = "finish_row"  => PlaceLeft = RowsLeft + FinishLeft
  /\ pc = "sync_row"    => PlaceLeft = RowsLeft + 17
  /\ pc = "launched"    => PlaceLeft = RowsLeft
  /\ pc = "last_sync"   => PlaceLeft = 19
  /\ pc = "write_error" => PlaceLeft = 19
  /\ pc = "exit"        => PlaceLeft = 18
  /\ pc = "exit_sync"   => PlaceLeft = 14
  /\ pc = "teardown"    => PlaceLeft = 13
  /\ pc = "clear"       => PlaceLeft = 12
  /\ pc = "ending"      => PlaceLeft = 1
  /\ pc = "freed"       => PlaceLeft = 0

LEMMA PlaceIs == TypeOK => PlaceByPlace
<1> SUFFICES ASSUME TypeOK PROVE PlaceByPlace
  OBVIOUS
<1>1. /\ pc \in {"start", "thread", "memory", "parse", "parsing", "finish_row", "sync_row",
                 "launched", "last_sync", "write_error", "exit", "exit_sync", "teardown",
                 "clear", "ending", "freed"}
      /\ pic \in Pictures /\ row \in 0..Rows
  BY DEF TypeOK
<1>2. Rows \in Nat
  BY <1>1, PictureFacts
<1>3. row \in Nat /\ row <= Rows
  BY <1>1, <1>2
<1>4. RowsLeft \in Nat /\ RowsLeft = 23 * (Rows - row) + 19 /\ RowsLeft >= 19
  BY <1>2, <1>3 DEF RowsLeft
<1>5. FinishLeft \in Nat
  BY FinishIs DEF FinishByPlace
<1> HIDE DEF RowsLeft, FinishLeft
<1> QED BY <1>1, <1>2, <1>3, <1>4, <1>5 DEF PlaceByPlace, PlaceLeft

LEMMA RankSum ==
  /\ Rank = PlaceLeft + CallLeft + WorkLeft
  /\ Rank' = PlaceLeft' + CallLeft' + WorkLeft'
BY DEF Rank

Parts == TypeOK /\ CallByPlace /\ WorkByPlace /\ PlaceByPlace /\ FinishByPlace

LEMMA PartsOfRank ==
  ASSUME Parts, Parts'
  PROVE  /\ PlaceLeft \in Nat /\ CallLeft \in Nat /\ WorkLeft \in Nat
         /\ PlaceLeft' \in Nat /\ CallLeft' \in Nat /\ WorkLeft' \in Nat
BY DEF Parts, PlaceByPlace, CallByPlace, WorkByPlace

LEMMA PartsAre == TypeOK => Parts
BY CallsAre, WorkIs, PlaceIs, FinishIs DEF Parts, TypeOK

LEMMA RowsStay == [Next]_vars => Rows' = Rows
BY PictureStays DEF Rows, Extra

(* Where the other parts stay, a step that lowers one lowers the rank.        *)
LEMMA CallStays ==
  UNCHANGED <<mpc, want>> /\ ("main" \in asleep' <=> "main" \in asleep) => CallLeft' = CallLeft
BY DEF CallLeft, LockLeft

LEMMA WorkStays ==
  ASSUME UNCHANGED <<tpc, status, impl>>, "worker" \in asleep' <=> "worker" \in asleep,
         tpc = "hook" => fpc' = fpc
  PROVE  WorkLeft' = WorkLeft
<1>1. FinishLeft' = FinishLeft \/ tpc # "hook"
  BY DEF FinishLeft
<1> QED BY <1>1 DEF WorkLeft, LockLeft

LEMMA WorkAround ==
  ASSUME Parts, Parts', tpc' = tpc, "worker" \in asleep' <=> "worker" \in asleep
  PROVE  \E n \in Nat : WorkLeft = n + JobLeft /\ WorkLeft' = n + JobLeft'
<1> DEFINE around == LockLeft(tpc, "worker" \in asleep) + (IF tpc = "signal" THEN 5 ELSE 0)
<1>1. around \in Nat /\ around' = around
  BY DEF LockLeft
<1>2. WorkLeft = around + JobLeft /\ WorkLeft' = around' + JobLeft'
  BY DEF WorkLeft, JobLeft
<1>3. WorkLeft' = around + JobLeft'
  BY <1>1, <1>2
<1> HIDE DEF around
<1> QED BY <1>1, <1>2, <1>3

LEMMA PlaceStays ==
  ASSUME UNCHANGED <<pc, row>>, Rows' = Rows, pc = "finish_row" => fpc' = fpc
  PROVE  PlaceLeft' = PlaceLeft
<1>1. RowsLeft' = RowsLeft
  BY DEF RowsLeft
<1>2. FinishLeft' = FinishLeft \/ pc # "finish_row"
  BY DEF FinishLeft
<1> QED BY <1>1, <1>2 DEF PlaceLeft

LEMMA MainAloneLowers ==
  ASSUME Parts, Parts', UNCHANGED workerVars, tpc = "hook" => fpc' = fpc,
         PlaceLeft' < PlaceLeft
  PROVE  Rank' < Rank
<1>1. CallLeft' = CallLeft /\ WorkLeft' = WorkLeft
  BY CallStays, WorkStays DEF workerVars
<1> QED BY <1>1, RankSum, PartsOfRank

(* A call of ChangeState costs what the place before it has saved for it.     *)
LEMMA ChangeStateLowers ==
  ASSUME Parts, Parts', NEW new \in Status, ChangeState(new), tpc = "hook" => fpc' = fpc,
         PlaceLeft' + (IF new = "OK" THEN 3 ELSE IF new = "WORK" THEN 16 ELSE 10) < PlaceLeft
  PROVE  Rank' < Rank
<1>1. UNCHANGED <<tpc, status, impl, asleep>>
  BY DEF ChangeState
<1>2. WorkLeft' = WorkLeft
  BY <1>1, WorkStays
<1>3. CallLeft = 0
  BY DEF ChangeState, Parts, CallByPlace
<1>4. CallLeft' <= IF new = "OK" THEN 3 ELSE IF new = "WORK" THEN 16 ELSE 10
  <2>1. CASE impl
    <3>1. mpc' = "lock" /\ want' = new
      BY <2>1 DEF ChangeState
    <3> QED BY <3>1 DEF Parts, CallByPlace, Status
  <2>2. CASE ~impl
    <3>1. mpc' = "out"
      BY <2>2 DEF ChangeState
    <3> QED BY <3>1 DEF Parts, CallByPlace
  <2> QED BY <2>1, <2>2
<1> QED BY <1>2, <1>3, <1>4, RankSum, PartsOfRank

LEMMA OwnerInsideLowers ==
  ASSUME Parts, Parts', WorkerInv, Rows' = Rows, OwnerInside, DecoderUnchanged
  PROVE  Rank' < Rank
<1>1. PlaceLeft' = PlaceLeft
  BY PlaceStays DEF DecoderUnchanged, mainVars, rowVars
<1>2. ASSUME CallLeft' + WorkLeft' < CallLeft + WorkLeft PROVE Rank' < Rank
  BY <1>1, <1>2, RankSum, PartsOfRank
<1>f. fpc' = fpc /\ FinishLeft' = FinishLeft
  BY DEF DecoderUnchanged, rowVars, FinishLeft
<1>w. want \in Status /\ CallByPlace /\ CallByPlace'
  BY DEF Parts, TypeOK, WorkerTypeOK
<1>3. CASE OwnerLocks
  <2>1. WorkLeft' = WorkLeft
    BY <1>3, <1>f, WorkStays DEF OwnerLocks
  <2>2. CallLeft' < CallLeft
    BY <1>3, <1>w DEF OwnerLocks, CallByPlace, Status
  <2> QED BY <1>2, <2>1, <2>2, PartsOfRank
<1>4. CASE OwnerWaits
  <2>1. WorkLeft' = WorkLeft
    BY <1>4, <1>f, WorkStays DEF OwnerWaits, Sleep
  <2>2. CallLeft' < CallLeft
    BY <1>4, <1>w DEF OwnerWaits, Sleep, CallByPlace, Status
  <2> QED BY <1>2, <2>1, <2>2, PartsOfRank
<1>5. CASE OwnerAssigns
  <2>0. /\ mpc = "test" /\ status = "OK" /\ status' = want /\ want' = want
        /\ UNCHANGED <<impl, asleep, tpc>> /\ tpc # "hook"
    BY <1>5 DEF OwnerAssigns, WorkerInv, PlacesAgree
  <2>1. JobLeft = 0 /\ JobLeft' <= IF want = "WORK" THEN 10 ELSE IF want = "OK" THEN 0
                                   ELSE 3
    BY <2>0, <1>w DEF JobLeft, Status
  <2>2. PICK n \in Nat : WorkLeft = n + JobLeft /\ WorkLeft' = n + JobLeft'
    BY <2>0, WorkAround
  <2>3. CallLeft' = IF want = "OK" THEN 0 ELSE IF want = "WORK" THEN 3 ELSE 4
    BY <1>5, <1>w DEF OwnerAssigns, CallByPlace, Status
  <2>4. CallLeft = IF want = "OK" THEN 2 ELSE IF want = "WORK" THEN 15 ELSE 9
    BY <2>0, <1>w DEF CallByPlace, Status
  <2>5. WorkLeft \in Nat /\ WorkLeft' \in Nat /\ JobLeft \in Nat /\ JobLeft' \in Nat
    BY DEF Parts, WorkByPlace
  <2>6. CallLeft' + WorkLeft' < CallLeft + WorkLeft
    <3>1. CASE want = "OK"
      <4>1. CallLeft' = 0 /\ CallLeft = 2 /\ JobLeft' <= 0
        BY <2>1, <2>3, <2>4, <3>1
      <4>2. WorkLeft = n
        BY <2>1, <2>2
      <4>3. JobLeft' \in Nat
        BY <2>5
      <4> QED BY <2>2, <4>1, <4>2, <4>3
    <3>2. CASE want = "WORK"
      <4>1. CallLeft' = 3 /\ CallLeft = 15 /\ JobLeft' <= 10
        BY <2>1, <2>3, <2>4, <3>2
      <4>2. WorkLeft = n
        BY <2>1, <2>2
      <4>3. JobLeft' \in Nat
        BY <2>5
      <4> QED BY <2>2, <4>1, <4>2, <4>3
    <3>3. CASE want = "NOT_OK"
      <4>1. CallLeft' = 4 /\ CallLeft = 9 /\ JobLeft' <= 3
        BY <2>1, <2>3, <2>4, <3>3
      <4>2. WorkLeft = n
        BY <2>1, <2>2
      <4>3. JobLeft' \in Nat
        BY <2>5
      <4> QED BY <2>2, <4>1, <4>2, <4>3
    <3> QED BY <3>1, <3>2, <3>3, <1>w DEF Status
  <2> QED BY <1>2, <2>6
<1>6. CASE OwnerSignals
  <2>0. mpc = "signal" /\ want' = want /\ UNCHANGED <<impl, status, tpc>>
    BY <1>6 DEF OwnerSignals
  <2>1. JobLeft' = JobLeft
    BY <2>0, <1>f DEF JobLeft
  <2>2. WorkLeft' <= WorkLeft + 2
    BY <2>0, <2>1 DEF Parts, WorkByPlace, TypeOK, WorkerTypeOK
  <2>3. CallLeft' + 3 = CallLeft
    <3>1. mpc' = IF want = "NOT_OK" THEN "join" ELSE "out"
      BY <1>6 DEF OwnerSignals
    <3>2. CallLeft = IF want = "NOT_OK" THEN 4 ELSE 3
      BY <2>0, <1>w DEF CallByPlace
    <3>3. CallLeft' = IF want = "NOT_OK" THEN 1 ELSE 0
      BY <3>1, <1>w DEF CallByPlace
    <3> QED BY <3>2, <3>3
  <2> QED BY <1>2, <2>2, <2>3, PartsOfRank
<1>7. CASE Join
  <2>1. JobLeft' = 0 /\ tpc' = "none"
    BY <1>7 DEF Join, JobLeft, WorkerInv, StatusAgrees
  <2>2. WorkLeft' = 0
    BY <2>1 DEF Parts, WorkByPlace
  <2>3. CallLeft = 1 /\ CallLeft' = 0
    BY <1>7, <1>w DEF Join, CallByPlace
  <2> QED BY <1>2, <2>2, <2>3, PartsOfRank
<1> QED BY <1>3, <1>4, <1>5, <1>6, <1>7 DEF OwnerInside

(* A signal, or a wakeup for no reason, lets its sleeper lock the mutex again. *)
LEMMA SleeperWakes ==
  ASSUME Parts, Parts', UNCHANGED <<mpc, want>>, asleep' \subseteq asleep
  PROVE  CallLeft' <= CallLeft + 2
<1> USE DEF CallByPlace
<1>1. /\ CallByPlace /\ CallByPlace' /\ want \in Status /\ want' = want /\ mpc' = mpc
      /\ mpc \in {"out", "lock", "test", "wait", "signal", "join"}
  BY DEF Parts, TypeOK, WorkerTypeOK
<1>2. CASE "main" \in asleep' <=> "main" \in asleep
  BY <1>2, CallStays, PartsOfRank
<1>3. CASE mpc # "wait"
  <2>1. CallLeft' = CallLeft
    BY <1>1, <1>3 DEF CallLeft, LockLeft
  <2> QED BY <2>1, PartsOfRank
<1>4. CASE mpc = "wait" /\ "main" \notin asleep' /\ "main" \in asleep
  <2>1. CASE want = "OK"
    BY <1>1, <1>4, <2>1
  <2>2. CASE want = "WORK"
    BY <1>1, <1>4, <2>2
  <2>3. CASE want = "NOT_OK"
    BY <1>1, <1>4, <2>3
  <2> QED BY <1>1, <2>1, <2>2, <2>3 DEF Status
<1> QED BY <1>2, <1>3, <1>4


LEMMA ThreadInsideLowers ==
  ASSUME Parts, Parts', WorkerInv, Rows' = Rows, ThreadInside, DecoderUnchanged
  PROVE  Rank' < Rank
<1>1. PlaceLeft' = PlaceLeft
  BY PlaceStays DEF DecoderUnchanged, mainVars, rowVars
<1>2. ASSUME CallLeft' + WorkLeft' < CallLeft + WorkLeft PROVE Rank' < Rank
  BY <1>1, <1>2, RankSum, PartsOfRank
<1>w. /\ WorkByPlace /\ WorkByPlace' /\ CallByPlace /\ CallByPlace' /\ FinishByPlace
      /\ want \in Status
  BY DEF Parts, TypeOK, WorkerTypeOK
<1>3. CASE ThreadLocks
  <2>1. CallLeft' = CallLeft
    BY <1>3, CallStays DEF ThreadLocks
  <2>2. JobLeft' = JobLeft
    BY <1>3 DEF ThreadLocks, JobLeft
  <2>3. WorkLeft = JobLeft + 2 /\ WorkLeft' = JobLeft' + 1
    BY <1>3, <1>w DEF ThreadLocks, WorkByPlace
  <2> QED BY <1>2, <1>w, <2>1, <2>2, <2>3, PartsOfRank DEF WorkByPlace
<1>4. CASE ThreadWaits
  <2>1. CallLeft' = CallLeft
    BY <1>4, CallStays DEF ThreadWaits, Sleep
  <2>2. JobLeft' = JobLeft
    BY <1>4 DEF ThreadWaits, JobLeft
  <2>3. WorkLeft = JobLeft + 1 /\ WorkLeft' = JobLeft'
    BY <1>4, <1>w DEF ThreadWaits, Sleep, WorkByPlace
  <2> QED BY <1>2, <1>w, <2>1, <2>2, <2>3, PartsOfRank DEF WorkByPlace
<1>5. CASE BeginHook
  <2>1. CallLeft' = CallLeft
    BY <1>5, CallStays DEF BeginHook
  <2>2. JobLeft = 10 /\ JobLeft' = FinishLeft'
    BY <1>5 DEF BeginHook, JobLeft
  <2>3. WorkLeft = JobLeft + 1 /\ WorkLeft' = JobLeft'
    BY <1>5, <1>w DEF BeginHook, WorkByPlace
  <2>4. FinishLeft' \in Nat /\ FinishLeft' <= 10
    BY DEF Parts, FinishByPlace
  <2> QED BY <1>2, <2>1, <2>2, <2>3, <2>4, PartsOfRank
<1>6. CASE ThreadFinishes
  <2>1. CallLeft' = CallLeft
    BY <1>6, CallStays DEF ThreadFinishes
  <2>2. JobLeft' = JobLeft
    BY <1>6 DEF ThreadFinishes, JobLeft
  <2>3. WorkLeft = JobLeft + 1 /\ WorkLeft' = JobLeft'
    BY <1>6, <1>w DEF ThreadFinishes, WorkByPlace
  <2> QED BY <1>2, <1>w, <2>1, <2>2, <2>3, PartsOfRank DEF WorkByPlace
<1>7. CASE ThreadSignals
  <2>1. CallLeft' <= CallLeft + 2
    BY <1>7, SleeperWakes DEF ThreadSignals, Signal
  <2>2. WorkLeft' + 3 = WorkLeft
    <3>1. CASE tpc = "signal"
      <4>1. tpc' = "lock" /\ JobLeft' = JobLeft
        BY <1>7, <3>1 DEF ThreadSignals, JobLeft
      <4>2. WorkLeft = JobLeft + 5 /\ WorkLeft' = JobLeft' + 2
        BY <3>1, <4>1, <1>w DEF WorkByPlace
      <4> QED BY <4>1, <4>2, <1>w DEF WorkByPlace
    <3>2. CASE tpc = "last_signal"
      <4>1. JobLeft = 3 /\ JobLeft' = 0 /\ tpc' = "exited"
        BY <1>7, <3>2 DEF ThreadSignals, JobLeft, WorkerInv, StatusAgrees
      <4> QED BY <3>2, <4>1, <1>w DEF WorkByPlace
    <3> QED BY <1>7, <3>1, <3>2 DEF ThreadSignals
  <2> QED BY <1>2, <2>1, <2>2, PartsOfRank
<1> QED BY <1>3, <1>4, <1>5, <1>6, <1>7 DEF ThreadInside

(* A step of FinishRow, whichever thread runs it.                             *)
LEMMA FinishLowers ==
  ASSUME Parts, Parts', WorkerInv, Phases, RowInv, Rows' = Rows, InFinishRow,
         UNCHANGED <<workerVars, mainVars>>, FinishLeft' < FinishLeft
  PROVE  Rank' < Rank
<1>1. CallLeft' = CallLeft /\ pc' = pc /\ row' = row /\ RowsLeft' = RowsLeft
  BY CallStays DEF workerVars, mainVars, RowsLeft
<1>2. FinishLeft \in Nat /\ FinishLeft' \in Nat
  BY DEF Parts, FinishByPlace
<1>3. CASE pc = "finish_row"
  <2>1. tpc # "hook"
    BY <1>3 DEF RowInv, Rowing, WorkerInv, StatusAgrees, Phases
  <2>2. WorkLeft' = WorkLeft
    BY <2>1, WorkStays DEF workerVars
  <2>3. /\ PlaceLeft = RowsLeft + FinishLeft /\ PlaceLeft' = RowsLeft' + FinishLeft'
        /\ RowsLeft \in Nat
    BY <1>1, <1>3 DEF Parts, PlaceByPlace
  <2> QED BY <1>1, <1>2, <2>2, <2>3, RankSum, PartsOfRank
<1>4. CASE pc # "finish_row"
  <2>1. tpc = "hook" /\ status = "WORK" /\ tpc' = "hook" /\ status' = "WORK"
    BY <1>4 DEF InFinishRow, WorkerInv, HookOnlyWhenLaunched, workerVars
  <2>2. PlaceLeft' = PlaceLeft
    BY <1>1, <1>4, PlaceStays
  <2>3. WorkLeft = FinishLeft /\ WorkLeft' = FinishLeft'
    BY <2>1 DEF Parts, WorkByPlace, JobLeft
  <2> QED BY <1>1, <1>2, <2>2, <2>3, RankSum, PartsOfRank
<1> QED BY <1>3, <1>4

LEMMA FinishRowLowers ==
  ASSUME Parts, Parts', WorkerInv, Phases, RowInv, Begun, Rows' = Rows, FinishRowStep
  PROVE  Rank' < Rank
<1> USE DEF FinishByPlace
<1>w. FinishByPlace /\ FinishByPlace'
  BY DEF Parts
<1>1. CASE ReconstructRow
  <2>1. FinishLeft = 10 /\ FinishLeft' = 9
    BY <1>1, <1>w DEF ReconstructRow
  <2> QED BY <1>1, <2>1, FinishLowers DEF ReconstructRow
<1>2. CASE FilterRow
  <2>1. FinishLeft = 9 /\ FinishLeft' = 8
    BY <1>2, <1>w DEF FilterRow
  <2> QED BY <1>2, <2>1, FinishLowers DEF FilterRow
<1>3. CASE AlphaFails
  <2>1. FinishLeft = 8 /\ FinishLeft' = 7
    BY <1>3, <1>w DEF AlphaFails
  <2> QED BY <1>3, <2>1, FinishLowers DEF AlphaFails
<1>4. CASE WriteAlphaError
  <2>1. FinishLeft = 7 /\ FinishLeft' = 6
    BY <1>4, <1>w DEF WriteAlphaError
  <2> QED BY <1>4, <2>1, FinishLowers DEF WriteAlphaError, Begun
<1>5. CASE Put
  <2>1. FinishLeft = 8 /\ FinishLeft' = 7
    BY <1>5, <1>w DEF Put
  <2> QED BY <1>5, <2>1, FinishLowers DEF Put
<1>6. CASE RotateTail
  <2>1. FinishLeft = 7 /\ FinishLeft' = 6
    BY <1>6, <1>w DEF RotateTail
  <2> QED BY <1>6, <2>1, FinishLowers DEF RotateTail
<1>7. CASE HookReturns
  <2>0. tpc = "hook" /\ status = "WORK" /\ tpc' = "signal" /\ status' = "OK" /\ fpc = "return"
    BY <1>7 DEF HookReturns, EndHook, WorkerInv, HookOnlyWhenLaunched
  <2>1. pc # "finish_row"
    BY <2>0 DEF RowInv, Rowing, WorkerInv, StatusAgrees, Phases
  <2>2. PlaceLeft' = PlaceLeft
    BY <1>7, <2>1, PlaceStays DEF HookReturns, mainVars
  <2>3. CallLeft' = CallLeft
    BY <1>7, CallStays DEF HookReturns, EndHook
  <2>4. JobLeft = 6 /\ JobLeft' = 0
    BY <2>0, <1>w DEF JobLeft
  <2>5. WorkLeft = 6 /\ WorkLeft' = 5
    BY <2>0, <2>4 DEF Parts, WorkByPlace
  <2> QED BY <2>2, <2>3, <2>5, RankSum, PartsOfRank
<1> QED BY <1>1, <1>2, <1>3, <1>4, <1>5, <1>6, <1>7 DEF FinishRowStep


LEMMA SameRow == row' = row /\ Rows' = Rows => RowsLeft' = RowsLeft
BY DEF RowsLeft

LEMMA RowEnds ==
  ASSUME Parts, Parts', Rows' = Rows, NEW place, EndRow(place)
  PROVE  /\ RowsLeft' + 23 = RowsLeft /\ RowsLeft >= 42
         /\ pc' = "parse" \/ pc' = place
<1>1. RowsLeft' + 23 = RowsLeft
  BY DEF EndRow, Parts, PlaceByPlace
<1>2. RowsLeft' \in Nat
  BY DEF Parts, PlaceByPlace
<1>3. RowsLeft' >= 19
  BY DEF Parts, PlaceByPlace
<1>4. RowsLeft >= 42
  BY <1>1, <1>2, <1>3
<1> QED BY <1>1, <1>4 DEF EndRow

(* The main thread outside the worker's interface.                            *)
LEMMA MainLowers ==
  ASSUME Parts, Parts', WorkerInv, Phases, RowInv, Rows' = Rows, MainStep
  PROVE  Rank' < Rank
<1>w. PlaceByPlace /\ PlaceByPlace'
  BY DEF Parts
<1> USE DEF PlaceByPlace
<1>m. pic.method = 0 => tpc # "hook"
  BY DEF WorkerInv, StatusAgrees, Phases
<1>1. CASE WriteError
  <2>1. PlaceLeft = 19 /\ PlaceLeft' \in {18, 12}
    BY <1>1, <1>w DEF WriteError, Goto
  <2> QED BY <1>1, <2>1, MainAloneLowers DEF WriteError, rowVars
<1>2. CASE EnterCritical
  <2>1. pc = "start" /\ pc' \in {"thread", "write_error"} /\ row' = row
    BY <1>2 DEF EnterCritical, Fail
  <2>2. PlaceLeft' < PlaceLeft
    BY <1>w, <2>1, SameRow
  <2> QED BY <1>2, <2>2, MainAloneLowers DEF EnterCritical, rowVars
<1>3. CASE InitThreadContext
  <2>1. pc = "thread" /\ pc' \in {"memory", "write_error"} /\ row' = row /\ fpc' = fpc
    BY <1>3 DEF InitThreadContext, Fail, Goto, rowVars
  <2>2. PlaceLeft' + 3 <= PlaceLeft
    <3>1. PlaceLeft = RowsLeft + 26 /\ RowsLeft \in Nat
      BY <1>w, <2>1
    <3>2. CASE pc' = "memory"
      <4>1. PlaceLeft' = RowsLeft' + 23 /\ RowsLeft' = RowsLeft
        BY <1>w, <2>1, <3>2, SameRow
      <4> QED BY <3>1, <4>1
    <3>3. CASE pc' = "write_error"
      <4>1. PlaceLeft' = 19
        BY <1>w, <3>3
      <4> QED BY <3>1, <4>1
    <3> QED BY <2>1, <3>2, <3>3
  <2>3. CASE pic.method = 0
    <3>1. PlaceLeft' < PlaceLeft
      BY <2>2, PartsOfRank
    <3> QED BY <1>3, <2>1, <2>3, <3>1, MainAloneLowers DEF InitThreadContext
  <2>4. CASE pic.method # 0 /\ Start
    <3>1. /\ UNCHANGED <<asleep, mpc, want>>
          /\ UNCHANGED <<status, impl, tpc>> \/ (status' = "OK" /\ tpc' = "lock")
      BY <2>4 DEF Start
    <3>2. CallLeft' = CallLeft
      BY <3>1, CallStays
    <3>3. CASE UNCHANGED <<status, impl, tpc>>
      <4>1. WorkLeft' = WorkLeft
        BY <2>1, <3>1, <3>3, WorkStays
      <4> QED BY <2>2, <3>2, <4>1, RankSum, PartsOfRank
    <3>4. CASE status' = "OK" /\ tpc' = "lock"
      <4>1. WorkLeft' = 2
        BY <3>4 DEF Parts, WorkByPlace, JobLeft
      <4> QED BY <2>2, <3>2, <4>1, RankSum, PartsOfRank
    <3> QED BY <3>1, <3>3, <3>4
  <2> QED BY <1>3, <2>3, <2>4 DEF InitThreadContext
<1>4. CASE AllocateMemory
  <2>1. pc = "memory" /\ pc' \in {"parse", "write_error"} /\ row' = row
    BY <1>4 DEF AllocateMemory, Fail, Goto
  <2>2. PlaceLeft' < PlaceLeft
    BY <1>w, <2>1, SameRow
  <2> QED BY <1>4, <2>2, MainAloneLowers DEF AllocateMemory, rowVars
<1>5. CASE BeginParse
  <2>1. pc = "parse" /\ pc' = "parsing" /\ row' = row
    BY <1>5 DEF BeginParse, Goto
  <2>2. PlaceLeft' < PlaceLeft
    BY <1>w, <2>1, SameRow
  <2> QED BY <1>5, <2>2, MainAloneLowers DEF BeginParse, rowVars
<1>16. CASE ParseFails
  <2>1. pc = "parsing" /\ pc' = "write_error"
    BY <1>16 DEF ParseFails, Fail
  <2>2. PlaceLeft' < PlaceLeft
    BY <1>w, <2>1
  <2> QED BY <1>16, <2>2, MainAloneLowers DEF ParseFails, rowVars
<1>6. CASE EndParse /\ pic.method = 0
  <2>1. pc = "parsing" /\ pc' = "finish_row" /\ row' = row /\ fpc' = "reconstruct"
    BY <1>6 DEF EndParse, Goto
  <2>2. FinishLeft' = 10
    BY <2>1 DEF Parts, FinishByPlace
  <2>3. PlaceLeft' < PlaceLeft
    BY <1>w, <2>1, <2>2, SameRow
  <2>4. UNCHANGED workerVars
    BY <1>6 DEF EndParse
  <2> QED BY <1>6, <1>m, <2>3, <2>4, MainAloneLowers
<1>7. CASE EndParse /\ pic.method # 0
  <2>1. pc = "parsing" /\ pc' = "sync_row" /\ row' = row /\ fpc' = fpc /\ ChangeState("OK")
    BY <1>7 DEF EndParse, Goto
  <2>2. PlaceLeft' + 3 < PlaceLeft
    BY <1>w, <2>1, SameRow
  <2> QED BY <2>1, <2>2, ChangeStateLowers DEF Status
<1>8. CASE RowFinished
  <2>1. pc = "finish_row" /\ fpc = "return" /\ UNCHANGED workerVars /\ tpc # "hook"
    BY <1>8 DEF RowFinished, RowInv, Rowing, WorkerInv, StatusAgrees, Phases
  <2>2. PlaceLeft = RowsLeft + 6
    BY <1>w, <2>1 DEF Parts, FinishByPlace
  <2>3. CASE EndRow("exit")
    <3>1. PlaceLeft' < PlaceLeft
      <4>1. RowsLeft' + 23 = RowsLeft /\ RowsLeft' \in Nat
        BY <1>w, <2>3, RowEnds
      <4>2. PlaceLeft' = RowsLeft' + 22 \/ PlaceLeft' = 18
        BY <1>w, <2>3, RowEnds
      <4> QED BY <2>2, <4>1, <4>2
    <3> QED BY <2>1, <3>1, MainAloneLowers
  <2>4. CASE Fail("USER_ABORT")
    <3>1. PlaceLeft' < PlaceLeft
      BY <1>w, <2>2, <2>4 DEF Fail
    <3> QED BY <2>1, <3>1, MainAloneLowers
  <2> QED BY <1>8, <2>3, <2>4 DEF RowFinished
<1>9. CASE SyncFailed
  <2>1. pc = "sync_row" /\ pc' = "write_error"
    BY <1>9 DEF SyncFailed, Fail
  <2>2. PlaceLeft' < PlaceLeft
    BY <1>w, <2>1
  <2> QED BY <1>9, <2>2, MainAloneLowers DEF SyncFailed, rowVars
<1>10. CASE LaunchRow
  <2>1. pc = "sync_row" /\ pc' = "launched" /\ row' = row /\ ChangeState("WORK")
    BY <1>10 DEF LaunchRow
  <2>2. PlaceLeft' + 16 < PlaceLeft
    BY <1>w, <2>1, SameRow
  <2>3. tpc # "hook"
    BY <1>10 DEF LaunchRow, Phases, Syncs, WorkerInv, HookOnlyWhenLaunched, StatusAgrees
  <2> QED BY <2>1, <2>2, <2>3, ChangeStateLowers DEF Status
<1>11. CASE RowLaunched
  <2>1. pc = "launched" /\ EndRow("last_sync") /\ fpc' = fpc
    BY <1>11 DEF RowLaunched, rowVars
  <2>2. CASE UNCHANGED workerVars
    <3>1. PlaceLeft' < PlaceLeft
      <4>1. RowsLeft' + 23 = RowsLeft /\ RowsLeft' \in Nat
        BY <1>w, <2>1, RowEnds
      <4>2. PlaceLeft = RowsLeft /\ (PlaceLeft' = RowsLeft' + 22 \/ PlaceLeft' = 19)
        BY <1>w, <2>1, RowEnds
      <4> QED BY <4>1, <4>2
    <3> QED BY <2>1, <2>2, <3>1, MainAloneLowers
  <2>3. CASE ~(row + 1 < Rows) /\ ChangeState("OK")
    <3>1. pc' = "last_sync"
      BY <2>1, <2>3 DEF EndRow
    <3>2. PlaceLeft' = 19 /\ PlaceLeft = RowsLeft /\ RowsLeft >= 42
      <4>1. RowsLeft >= 42
        BY <2>1, RowEnds
      <4> QED BY <1>w, <2>1, <3>1, <4>1
    <3> QED BY <2>1, <2>3, <3>2, PartsOfRank, ChangeStateLowers DEF Status
  <2> QED BY <1>11, <2>2, <2>3 DEF RowLaunched
<1>12. CASE LastSync \/ ExitSync \/ TearDown \/ Free
  <2>1. \/ pc = "last_sync" /\ pc' = "exit"
        \/ pc = "exit_sync" /\ pc' = "teardown"
        \/ pc = "teardown" /\ pc' = "clear"
        \/ pc = "ending" /\ pc' = "freed"
    BY <1>12 DEF LastSync, ExitSync, TearDown, Free, Goto
  <2>2. PlaceLeft' < PlaceLeft
    BY <1>w, <2>1
  <2> QED BY <1>12, <2>2, MainAloneLowers DEF LastSync, ExitSync, TearDown, Free, rowVars
<1>13. CASE ExitCritical
  <2>1. pc = "exit" /\ fpc' = fpc
    BY <1>13 DEF ExitCritical, rowVars
  <2>2. CASE pc' = "teardown" /\ UNCHANGED workerVars
    <3>1. PlaceLeft' < PlaceLeft
      BY <1>w, <2>1, <2>2
    <3> QED BY <2>1, <2>2, <3>1, MainAloneLowers
  <2>3. CASE pc' = "exit_sync" /\ ChangeState("OK")
    <3>1. PlaceLeft' + 3 < PlaceLeft
      BY <1>w, <2>1, <2>3
    <3> QED BY <2>1, <2>3, <3>1, ChangeStateLowers DEF Status
  <2> QED BY <1>13, <2>2, <2>3 DEF ExitCritical, Goto
<1>14. CASE Clear
  <2>1. pc = "clear" /\ pc' = "ending" /\ fpc' = fpc /\ ChangeState("NOT_OK")
    BY <1>14 DEF Clear, Goto, rowVars
  <2>2. PlaceLeft' + 10 < PlaceLeft
    BY <1>w, <2>1
  <2> QED BY <2>1, <2>2, ChangeStateLowers DEF Status
<1>15. CASE OwnerInside /\ DecoderUnchanged
  BY <1>15, OwnerInsideLowers
<1> QED BY <1>1, <1>2, <1>3, <1>4, <1>5, <1>6, <1>7, <1>8, <1>9, <1>10, <1>11, <1>12, <1>13,
           <1>14, <1>15, <1>16 DEF MainStep


(* A wakeup for no reason costs two steps, and nothing else does.             *)
LEMMA WakeCosts ==
  ASSUME Parts, Parts', Rows' = Rows, WakeSpuriously, DecoderUnchanged
  PROVE  Rank' <= Rank + 2
<1>1. PlaceLeft' = PlaceLeft
  BY PlaceStays DEF DecoderUnchanged, mainVars, rowVars
<1>2. UNCHANGED <<mpc, want, tpc, status, impl>> /\ asleep' \subseteq asleep /\ fpc' = fpc
  BY DEF WakeSpuriously, DecoderUnchanged, rowVars
<1>3. CASE "worker" \in asleep' <=> "worker" \in asleep
  <2>1. WorkLeft' = WorkLeft
    BY <1>2, <1>3, WorkStays
  <2>2. CallLeft' <= CallLeft + 2
    BY <1>2, SleeperWakes
  <2> QED BY <1>1, <2>1, <2>2, RankSum, PartsOfRank
<1>4. CASE "worker" \in asleep /\ "worker" \notin asleep'
  <2>1. CallLeft' = CallLeft
    BY <1>4, CallStays DEF WakeSpuriously
  <2>2. JobLeft' = JobLeft
    BY <1>2 DEF JobLeft, FinishLeft
  <2>3. WorkLeft' <= WorkLeft + 2
    BY <1>2, <2>2 DEF Parts, WorkByPlace, TypeOK, WorkerTypeOK
  <2> QED BY <1>1, <2>1, <2>3, RankSum, PartsOfRank
<1> QED BY <1>2, <1>3, <1>4

LEMMA DecodeAdvancesNext ==
  ASSUME Parts, Parts', WorkerInv, Phases, RowInv, Begun, [Next]_vars
  PROVE  [DecodeAdvances]_vars
<1>1. Rows' = Rows
  BY RowsStay
<1>2. Rank' \in Nat /\ Rank \in Nat
  BY RankSum, PartsOfRank
<1>3. MainStep \/ ThreadStep => Rank' < Rank
  BY <1>1, MainLowers, FinishRowLowers, ThreadInsideLowers DEF ThreadStep
<1>4. WakeSpuriously /\ DecoderUnchanged => Rank' <= Rank + 2
  BY <1>1, WakeCosts
<1>5. CASE MainStep \/ ThreadStep
  BY <1>2, <1>3, <1>5 DEF DecodeAdvances
<1>6. CASE ~(MainStep \/ ThreadStep) /\ WakeSpuriously /\ DecoderUnchanged
  BY <1>2, <1>4, <1>6 DEF DecodeAdvances
<1> QED BY <1>5, <1>6 DEF Next

LEMMA BegunNext == WorkerInv /\ Phases /\ RowInv /\ Begun /\ [Next]_vars => Begun'
<1> SUFFICES ASSUME WorkerInv, Phases, RowInv, Begun, [Next]_vars PROVE Begun'
  OBVIOUS
<1> USE DEF Begun, InFinishRow
<1>1. ASSUME UNCHANGED <<pc, tpc, fpc>> PROVE Begun'
  BY <1>1
<1>2. pc = "finish_row" => fpc # "idle"
  BY DEF RowInv, Rowing
<1>3. CASE WriteError \/ EnterCritical \/ InitThreadContext \/ AllocateMemory
  <2>1. /\ pc \in {"write_error", "start", "thread", "memory"} /\ fpc' = fpc
        /\ tpc = "hook" => tpc' = tpc
    BY <1>3 DEF WriteError, EnterCritical, InitThreadContext, AllocateMemory, rowVars,
                workerVars, Start, WorkerInv, StatusAgrees, Phases
  <2> QED BY <2>1
<1>4. CASE BeginParse \/ ParseFails \/ SyncFailed \/ LastSync \/ ExitSync \/ TearDown \/ Free
  BY <1>4 DEF BeginParse, ParseFails, SyncFailed, LastSync, ExitSync, TearDown, Free,
              workerVars, rowVars
<1>5. CASE EndParse
  BY <1>5 DEF EndParse, Goto, ChangeState, workerVars
<1>6. CASE RowFinished \/ LaunchRow
  BY <1>6 DEF RowFinished, LaunchRow
<1>7. CASE RowLaunched \/ ExitCritical \/ Clear
  BY <1>7 DEF RowLaunched, ExitCritical, Clear, ChangeState, workerVars, rowVars
<1>8. CASE OwnerInside /\ DecoderUnchanged
  BY <1>8 DEF OwnerInside, OwnerLocks, OwnerWaits, OwnerAssigns, OwnerSignals, Join,
              DecoderUnchanged, rowVars, mainVars
<1>9. CASE ThreadInside /\ DecoderUnchanged
  BY <1>9 DEF ThreadInside, ThreadLocks, ThreadWaits, BeginHook, ThreadFinishes,
              ThreadSignals, DecoderUnchanged, rowVars, mainVars
<1>10. CASE ReconstructRow \/ FilterRow \/ AlphaFails \/ WriteAlphaError \/ Put \/ RotateTail
  BY <1>10 DEF ReconstructRow, FilterRow, AlphaFails, WriteAlphaError, Put, RotateTail,
               workerVars, mainVars
<1>11. CASE HookReturns
  BY <1>11 DEF HookReturns
<1>12. CASE (WakeSpuriously /\ DecoderUnchanged) \/ UNCHANGED vars
  BY <1>1, <1>12 DEF WakeSpuriously, DecoderUnchanged, rowVars, mainVars, workerVars, vars
<1> QED BY <1>3, <1>4, <1>5, <1>6, <1>7, <1>8, <1>9, <1>10, <1>11, <1>12
        DEF Next, MainStep, ThreadStep, FinishRowStep

(* Two threads, a mutex that is let go of for the wait and retaken, failures  *)
(* at every place: still each step of either lowers the same natural number,  *)
(* and only a wakeup for no reason raises it, by two.  A decode takes at most *)
(* 23 * Rows + 46 steps and two more for each such wakeup (vp8_dec.c,         *)
(* 646-735; frame_dec.c, 402-609; thread_utils.c, 204-257).                   *)
THEOREM DecodeRunsOut == Spec => [][DecodeAdvances]_vars
<1>1. Init => Begun
  BY DEF Init, Begun
<1>2. Spec => []Begun
  BY <1>1, BegunNext, WorkerInvHolds, RowInvHolds, PTL DEF Spec
<1>3. Parts /\ Parts' /\ WorkerInv /\ Phases /\ RowInv /\ Begun /\ [Next]_vars
        => [DecodeAdvances]_vars
  BY DecodeAdvancesNext
<1> QED BY <1>2, <1>3, PartsAre, DecoderTypes, RowInvHolds, PTL DEF Spec
=============================================================================
