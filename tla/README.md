# A TLA+ model of webp_extractor

`webp_extractor` is a Flutter plugin that turns an animated WebP, a local file
or a URL, into one PNG per frame. This directory models the parts of it in which
order, failure or sharing decide whether the result is right, checks them with
TLC on small instances, and proves most of what is checked for every instance.

Source paths below are relative to the repository (`src/` in `PROJECT.json`);
`libwebp` stands for `android/src/main/cpp/libwebp-1.4.0`.

## 1. Inventory

| Component | State | Operations | Modules |
|---|---|---|---|
| **Dart API** `lib/webp_extractor.dart` | `_maxConcurrent`, `_activeDecodes` (a set of `input\|outputDir`), `_waitingQueue` (Completers) | `setMaxConcurrent`, `extractFrames` with and without `useConcurrencyControl`, `extractFramesBatch`, `extractFramePaths` | `DecodePool`, `Limiter` |
| **Android plugin** `WebpExtractorPlugin.kt` | handler, `libraryLoaded`, one thread per call, cache files, output files, the main looper's queue | attach, detach, `onMethodCall`, `resolveInput`, `downloadToCache`, `decodeWebPWithAndroidSDK`, `postSuccess`, `postError` | `AndroidPlugin`, `ReplyOnce` |
| **iOS plugin** `ios/Classes/WebpExtractorPlugin.swift` | none of its own; a data task, a global queue, the main queue | `handle`, the download's completion, `decodeWebP` | `IosPlugin`, `ReplyOnce` |
| **Native frame loop** `webp_wrapper.cpp`, lines 184-375 | `canvas_rgba`, `prev_*`, `saved_frames` | one round per frame: dispose, decode, blend, save | `Animation`, `Compositor`, `CanvasAssembly` |
| **Native call** `webp_wrapper.cpp`, all of it | JNI strings, file, buffers, demuxer; per frame iterator, pixels, locked bitmap, stream | acquire, check, early return, clean up | `NativeCall` |
| **libwebp demuxer** `libwebp/src/demux/demux.c` | position in the buffer, parse state, flags, canvas, frames | `WebPDemux`, `WebPDemuxPartial`, `GetFrame`, `NextFrame`, `PrevFrame` | `Demuxer` |
| **libwebp animation decoder** `libwebp/src/demux/anim_decode.c` | two canvases, previous iterator, key-frame flag | `GetNext`, `HasMoreFrames`, `Reset` | `AnimDecoder`, `CanvasAssembly` |
| **libwebp worker** `libwebp/src/utils/thread_utils.c` | status, mutex, condition variable, `had_error` | `Reset`, `Sync`, `Launch`, `Execute`, `End`, the thread's loop | `Worker` |
| **libwebp row decoder** `libwebp/src/dec/vp8_dec.c`, `frame_dec.c` | sample cache, two pairs of row buffers, thread context, error status | `VP8Decode`: parse, reconstruct, filter, put, per macroblock row | `RowDecoder` |
| iOS leftovers `WebPExtractor.swift`, `WebPExtractorManager.swift` | | not registered, not called | not modelled |
| `libwebp_wrapper.cpp` | | not in `CMakeLists.txt` | not modelled |
| libwebp codec, encoder, muxer, tools; example app; build files | | vendored or generated | not modelled |

**How they interact.** A Dart call of `extractFrames` awaits
`invokeMethod('decodeWebP')`. On Android the handler starts a thread; the thread
downloads the input if it must, calls `decodeWebPNative`, falls back to the SDK
(first frame only) if that yields nothing, and posts one reply to the main
looper. The native call reads the whole file, has libwebp's demuxer split it into
frames, draws them one after the other on a canvas and saves the canvas after
each. On iOS the handler reads the file, or starts a data task whose completion
goes on; the frames are decoded on a global queue and the reply is a block on the
main queue, but for the errors that are answered where they are found. Two calls
share the output directory if they name the same one, the cache file if they
download in the same millisecond, and the slots of the Dart pool.

**What is hard.** In Dart: a completed Completer does not run its waiter, so
other code can take the slot first; every path out of a decode must free the slot
and wake somebody; a platform that stays silent keeps the slot. On Android:
threads that share files; an exception or an Error at any point of a decode; a
detach while threads run; connections without a timeout. On iOS: replies from two
queues, and one exit without a reply. In the loop: what a frame leaves for the
next one, also when frames between them are missing or corrupt. In the demuxer:
files cut anywhere, chunks in any order. In the row decoder: two threads, one
condition variable, buffers that are swapped, and lines that the next row's
filter still changes. `PROJECT.json` lists all of it under "hazards", by line.

What makes each part correct: the pool keeps its limit, its order and every
waiter; each plugin answers each call once and with that call's own frames; the
pictures are those of the container specification; a native call gives back all
it acquired; the demuxer hands out only frames the compositors can draw; the row
decoder puts out each line once, in order and final.

## 2. Plan

Done, in the order of the plan: `DecodePool` and `Limiter`; `AndroidPlugin` and
`ReplyOnce`; `Animation`, `CanvasAssembly`, `Compositor`, `AnimDecoder`;
`NativeCall`, extended with the canvas of `Compositor`; `IosPlugin`;
`ExtractionSystem`, the pool over the iOS plugin; `Worker` and `RowDecoder`;
`Demuxer`; and proofs for every one of them.

Left: the integer blend of `anim_decode.c` as an algorithm against the exact
formula, JNI calls with an exception pending, and the list of the demuxer's other
chunks, which nothing here reads.

How the modules build on each other (`<-` EXTENDS, `=>` is shown to implement):

    DecodePool => Limiter             DecodePool <- ExtractionSystem (with IosPlugin)
    AndroidPlugin => ReplyOnce        ExtractionSystem => Limiter, ReplyOnce
    Animation <- Compositor <- NativeCall => CanvasAssembly
    Animation <- AnimDecoder => CanvasAssembly
    Worker <- RowDecoder => WorkerSpec
    Demuxer (uses Animation to say what the compositors are promised)

## 3. The modules

**`DecodePool`.** A step is what Dart runs between two awaits. An entry of
`waitingQueue` is a pending Completer, named by its call; `microtasks` holds the
calls whose Completer is completed and whose continuation has not run.
`ExtractFrames` is a call up to its first await, `Resume` one more round of the
`while` loop, `Finish` the platform's answer with the `finally` block. `SetMaxConcurrent`
takes arguments on both sides of `clamp(1, 5)`. `Barging = TRUE` lets user code
and platform replies run between the completion of a Completer and its waiter,
which happens when that code is itself a microtask queued earlier; `FALSE` makes
them wait until the microtask queue is empty, as for events. `Limiter` is what the
pool promises, without queue, keys or microtasks; its `limit`, `waiting` and `inside`
are `maxConcurrent`, the calls with `pc = "waiting"` and the calls that decode.

**`AndroidPlugin`.** One `pc` per call's thread. A cache file is a sequence of
blocks, each of which holds data of some URL: opening truncates the file, writing
is at the writer's own offset, so two writers can interleave. An output file holds
an image, garbled data or nothing that decodes. `decodeWebPNative` is seen from
outside: read the input, then per frame save and list, fail to save, or fail to
decode; return, or throw. An Error (no memory for a bitmap, a missing symbol) may come at any
place, is not stopped by `catch (e: Exception)` and kills the process. The steps of a
thread are those that wait for its server (`NetworkStep`) and those that do not
(`LocalStep`). A response without a declared length that ends early cannot be told
from a shorter one, so `CloseDownload` takes it for what the server sent. The input is read in one
step: what is missed by this is a second writer between `ftell` and `fread`, which
ends as one of the failures modelled. The clock can be set back. `ReplyOnce` is the
contract of `invokeMethod`.

**`IosPlugin`.** `at` is where a call is: the handler, the data task
("downloading"), the global queue ("queued", "decoding"), the main queue
("posted"). `mainQueue` holds the blocks of `DispatchQueue.main.async`. SDWebImage
is a call that yields a frame or none. A URL that Foundation cannot parse goes to
"given_up" (line 30): no reply, and no step that could give one.

**`ExtractionSystem`.** `DecodePool` with an instance of `IosPlugin` as its
platform: a call that decodes has sent its message; `Receive` is the handler;
`Answered` brings the reply to the `finally` block. Where `DecodePool` alone assumes
that the platform answers, here it answers only if the plugin does.

**`Animation`, `Compositor`, `AnimDecoder`, `CanvasAssembly`.** `Animation` holds what
both compositors are given: frames in the canvas at even offsets, with their blend
and dispose methods. A pixel of a canvas is the stack of the frames that show in
it, so two canvases are equal when the same layers lie over each other. All the
code treats the pixels of a frame alike and each for itself, so one paint per frame
(no alpha channel, alpha 255, between, or 0 everywhere) shows all that can happen
to a pixel. Colours under alpha 0 are not told apart, and the arithmetic of a blend
is not modelled: the wrapper's is in floats and truncates. `Compositor` is the
plugin's loop, the canvas part of each of its steps; `AnimDecoder` is libwebp's own
compositor, which the plugin does not call but rewrites. `CanvasAssembly` is the
procedure of libwebp's container specification: dispose of the previous frame,
render the next. The two implementations map their last picture and the frame in it
to its `shown` and `last`: `given` and `prevIter` of the decoder, `picture` and `drawn`
of the loop. The loop itself remembers only the rectangle and the disposal of that
frame (`prev`), so `drawn` is a history variable that no step reads. A skipped frame
must be a stutter of `CanvasAssembly`, and a `Reset` its `Restart`.

**`NativeCall`.** The frame loop inside the call: each acquisition with its check,
each early return with the list of releases the code gives it, in order; `held`
counts acquired minus released, for what lives as long as the call and for what
lives as long as a frame.

**`Demuxer`.** A file is a sequence of units (a chunk header, the fixed part of a
payload, as much of a bitstream as its features need); `mem` is the position, the
end of the data and the end of the RIFF chunk, so a file can be cut at any unit and
its header can promise more or less than is there. The chunk at the position is
chosen when the position gets there, so the parser meets every sequence of chunks.
`pc` names the function that runs; `StoreFrame` goes chunk by chunk, and what its
caller makes of its result (`SingleImageStored`, `AnimationFrameStored`) is part of
its last step. `Finish` is the validation and the return of `WebPDemuxInternal`. Seen
on the way, and modelled as they are: `AddFrame` looks at the empty `next_` of the
last frame and never refuses (demux.c:183-187), so that incomplete frames stay last
only thanks to `IsValidExtendedFormat`; with less than a chunk header left, the tail of
`ParseVP8XChunks` turns an error into "need more data" (530-534); the size of the
bitstream replaces the one in the ANMF; a still image cut before its size is known
makes `WebPDemuxPartial` report one frame, whose number is 0.

**`Worker`.** The pthread build of `thread_utils.c`: `status`, the mutex, who sleeps on
the one condition variable. `ChangeState` is the common body of `Sync`, `Launch` and
`End`; unlock and signal are two steps, as in the code; a sleeper may wake for no
reason.

**`RowDecoder`.** `VP8Decode` from `setup()` to `VP8Clear` over the actions of `Worker`.
The main thread parses a row into its buffers (`data`, `info`: the row each buffer
holds, `Torn` while it is filled), hands them to the job and goes on with the other
pair. `FinishRow` is the job, or with `mt_method` 0 a call. A row in the cache is a
body and a tail, the lines the next row's filter still changes; each holds the row
it was reconstructed from and the rows whose strengths were applied to it. `put()`
gets the lines that `Start0`, `End0` and the crop give. The plugin decodes through
`WebPDecodeRGBA`, that is with method 0; `VP8GetThreadMethod` yields 0 or 2, and
method 1 is in the code and so in the model. The comment in frame_dec.c (613-635)
reckons with a row that is reconstructed while the one before is filtered; that cannot
be, since `VP8ProcessRow` syncs first. What both threads may write at once is `status_`, in
`VP8SetError`.

The `...Proofs` modules hold the theorems, the `MC...` modules give the constants
values for TLC. Definitions marked as a mutant or a defect are not part of the model:
each is a bug that one property would find.

## 4. What the runs check

| Run | Instance | Shows |
|---|---|---|
| `pool_safety` | 4 controlled calls, 2 of them with one key, a batch of two, limits 0, 3, 9 set at any time, barging, fair | types; each suspended call owns one Completer; no slot leaks; the queue always has a waker; every waiter is served; every batch settles, after the last of its calls and with an error if one threw |
| `extraction_system` | 4 controlled calls with distinct keys: 2 unparsable URLs, a URL, a path; a foreign message, 2 frames, the limit left at 2, no barging, fair | the pool over the iOS plugin implements `Limiter`; slots go in order of arrival and none idles; one reply each; the limit also bounds the work on the platform; only silent calls keep slots for good |
| `pool_duplicate_keys` | two calls with one key | **violation** of the limit |
| `pool_batch` | a batch of three | **violation** of "with concurrency control" |
| `android_downloads` | two downloads, two directories, 2 clock readings, 2 blocks | a call that shares nothing gets its own image, in at least one file; only the fallback's file after a failed `compress` holds none, and is listed alone and without a size |
| `android_replies` | download, path, missing path, malformed call, foreign method, 1 frame, 2 blocks, fair but for servers | one reply each, never two (`ReplyOnce`); every call is answered unless its own server is silent for ever, the process died or the engine left |
| `android_shared_directory` | two paths, one directory | **violation**: a list whose files hold the other input |
| `android_same_millisecond` | two downloads, one clock reading | **violation**: the path holds the other URL's data |
| `anim_decoder` | 3x2 canvas, every sequence of 3 frames of two paints, with failures, retries and resets | the pictures are those of `CanvasAssembly`; a disposed key frame leaves a blank canvas |
| `native_call` | 3x1 canvas, every sequence of 3 frames of all four paints, a failure anywhere | the plugin's pictures are those of `CanvasAssembly` over the frames drawn; all is released, once, iterators before the demuxer before the data |
| `row_decoder` | pictures of 4 macroblock rows, 3 methods, 3 filters, 7 crops, failures everywhere, fair | no signal is lost; lines are final, complete and in order; nothing is torn down under the worker; a failure leaves a status; every decode ends |
| `demuxer` | files of up to 14 units with 19 different chunks, cut anywhere, canvas area up to 4, fair | headers are read inside the data; frames are numbered, in the canvas, complete, alpha before image; the iterator goes through them; the parser ends |

**Bounds.** Four controlled calls with limits 1 to 5 have calls running, woken and
waiting at once, and more waiters than slots; a wrong order of two waiters or a lost
wakeup needs no more. In a batch of two one call can throw while the other is pending.
Two unparsable URLs against two slots is the least that blocks
the pool for good. Two calls show every sharing of a file, which is between two.
Two blocks are what a truncation in the middle needs. On a canvas three pixels
wide two rectangles can be equal, nest, touch, overlap by one side and lie
apart (offsets are even), and two rows are what it takes for the blend ranges to
differ from row to row; the key-frame rule looks back over two frames, so three are
needed. Four macroblock rows go once around a cache of three and use its first row
again; the crops start and end on, just before and just behind the edge of a row and
within the reach of each filter. Fourteen units hold a VP8X, an ANIM and an
ANMF with alpha and image, or a VP8X and two ANMFs without alpha, and leave room for
a chunk that is out of place. Deadlock is not checked: every instance makes
finitely many calls, decodes finitely many frames or parses one file, and then stops.

**Fairness.** `DecodePool!Fairness`: the event loop runs every microtask, and the
platform answers every call. On Android that holds of the calls whose server does not
stay silent (`android_replies`); one whose server does keeps its slot for good, with the
effect on the pool that `ServedUnlessSilenced` shows of the silent calls of iOS.
`ExtractionSystem!FairSystem` does not assume it: no microtask, message, reply or block
of a queue is dropped, and a data task ends (URLSession has a timeout of its own).
`AndroidPlugin!Fairness`: each thread is scheduled for its own work (`LocalStep`) and the
main looper runs. Of servers nothing is assumed, since the code sets no timeout: a
thread may wait for one for ever (`NetworkStep`). `RowDecoder!Fairness`: both threads are
scheduled, and a mutex that is released again and again is had in the end (strong
fairness of the two locks). `Demuxer`: the thread that called the parser runs. Nothing
is assumed about attach, detach or the calls users make.

**Violations.** Each of the four is a sentence of a comment in the code that the code
does not keep; "findings" in `PROJECT.json` quotes them.

## 5. What is proved

Each theorem holds for every value of the constants that satisfies the named
assumption of its module (`PoolAssumption`, `PluginAssumption`, ...), which TLC also
evaluates. `PROJECT.json` lists the theorems with the property of a run each states.

| Module | Proved of | Inductive invariant |
|---|---|---|
| `DecodePoolProofs` | `TypeOK`, `WaitersAccounted`, `SlotsHaveOwners`, `NoLostWakeup`; with distinct keys `IsLimiter`; with the limit left alone `ConcurrencyBound`, `WorkConserving`; without barging `FirstComeFirstServed`; at most five decode (`FiveDecodeAtMost`) | `IInv`, the four together; `SlotsAreCalls`, `Promised` |
| `ExtractionSystemProofs` | the system takes only pool steps (`FixedSpec`), hence `IsLimiter`, `WorkConserving`, without barging `FirstComeFirstServed`; `AnsweredOnce`, `PlatformWorkBounded`; `NobodyIsKeptWaiting`, `MessageRunsOut` | `SystemInv` = `Told`, `Counted`, `Awaited`; `Kept` |
| `AndroidPluginProofs` | `TypeOK`, `AnsweredOnce`, `OwnFrames`; if calls share nothing `ListedForItsInput`, `DownloadIsOwn`; `NoneIsForgotten`, `ThreadRunsOut` | `PluginInv` = `Types`, `ThreadAt`, `OneReply`; `OwnInv` |
| `NativeCallProofs` | `TypeOK`, `ReleasedOnReturn`, `DataOutlivesDemuxer`, `CanvasIsLastPicture`, `AssemblesCanvas`; `FilesAreInOrder`, `CallRunsOut` | `CallInv` = `Accounted`, `CanvasInv` |
| `AnimDecoderProofs` | `TypeOK`, `KeyFrameLeavesBlank`, `AssemblesCanvas`; `BlendRangeIsDifference` | `DecoderInv` = `TypeOK`, `WaitsDisposed`, `KeyFrameOnBlank` |
| `DemuxerProofs` | `TypeOK`, `HeaderIsThere`, `FramesNumbered`, `OnlyLastIncomplete`, `FramesInCanvas`, `PayloadIsInOrder`, `NextFrameFollows`; `ParserRunsOut` | `DemuxInv` = `Kinds`, `Reading`, `Storing`, `Listed`, `Plain`, `Checked`; `Shown` |
| `RowDecoderProofs` | `WorkerSpec`, `SignalComes`, `HookOnlyWhenLaunched`, `QuietWhenTornDown`, `LinesInOrder`, `FailureHasStatus`; `OneOfTheTwoMoves` | `WorkerInv`, `Phases`, `RowInv` |
| `RowCacheProofs` | `LinesAreFinal`, and `TypeOK` of `RowDecoder`; `MainLeavesJobAlone`, `DecodeRunsOut` | `CacheInv` = `Typed`, `Buffers`, `Strengths`, `JobCells`, `Between` |

**The pool.** `NoLostWakeup` is not inductive alone: a call goes to sleep because
`_activeDecodes` is full, and that some call will finish follows only from every key
in it having an owner that decodes (`SlotsHaveOwners`), and from the limit being at
least one (`TypeOK`). `SlotsHaveOwners` needs `WaitersAccounted` in turn: a call that
resumes must not be one that decodes already. `WaitersAccounted` is about the
concatenation of the two queues, `Pending`; the lemmas `ListMore`, `ListLess` and
`PendingMoves` say how adding to it, taking its head and moving a Completer between
the queues preserve that it lists each waiting call once. With distinct keys
(`DistinctKeys`, the condition that `pool_duplicate_keys` shows to be needed) the set
of keys and the set of running calls have the same size (`SlotsAreCalls`), from which
the refinement of `Limiter` and the bound follow, with barging code and a limit that
moves as well, which the run of `IsLimiter` leaves out. Order of arrival needs that, without
barging, a woken call finds its slot (`Promised`): running and woken calls together
never exceed the limit. Five decode at most however the limit moves
(`FiveDecodeAtMost`): a call is admitted only below a limit that is itself at most five.

**The system.** `SystemUsesPool` maps each step to a step of the pool or a stutter, so
the pool's theorems carry over by citation. That the platform never works for a call
whose slot is free again (`Awaited`) rests on a reply being posted or given once
(`Told`). `Kept` is the converse: what is under way for a call has not been lost. So a
call that waits, waits for something that can still happen, or for slots held by URLs
that cannot be parsed (`NobodyIsKeptWaiting`).

**The Android plugin.** `ThreadAt` is what a thread has done by the time it is at a
place; `OneReply` that its call has at most one reply, posted or given. A call is
`Alone` when it shares neither directory nor cache file; a call alone now has always
been so, as cache names are taken once and never given up, and that is what makes
`OwnInv`, that everything on its way from input to reply is its own, inductive. A file
that no image could be compressed into is the one listed file that is nobody's: `OwnFrames`
says that it is the fallback's, listed alone and without a size, and that no other is. Two
runs show that calls which share a directory or a cache file mix their frames; with
`OwnPlaces` (no two calls with one directory, one download at most) every call is alone
and the properties those runs refute are theorems (`ListedWhenApart`,
`DownloadWhenApart`): sharing is the only cause. `NoneAssumption`, that the markers the
model adds differ from one another, is used for what becomes of a reply.

**The native call.** `Kept(p)` is what place `p` holds for later, apart from what is
still on the list of releases; `Accounted` says that what is held is the disjoint union
of the two, so a return, which keeps nothing and has an empty list, holds nothing. Files are
numbered by the loop's counter, frames that fail included, so the array's names grow
(`FilesAreInOrder`).

**The compositors.** The canvas is the last picture, or that picture with its frame
disposed of, and the rectangle remembered is that of the frame drawn. Both refinements
follow pixel by pixel; for `anim_decode.c` the argument is that a frame after a
disposed key frame finds a blank canvas (`KeyFrameOnBlank`), so that treating it as a
key frame changes nothing. `BlendRangeIsDifference` is the arithmetic of it: the two
ranges of a row are what the previous rectangle leaves of it, for any two rectangles.

**The demuxer.** Each step either adds no frame or adds one whose payload lies before
the position (`Sound`); the frame being stored is as far as its chunks (`Storing`); the
number of frames and their numbers agree unless a still image was cut (`Listed`). The
last parts, `Checked`, come from the validation in `Finish`.

**The row decoder.** `WorkerInv` says that who sleeps is about to be signalled;
`Phases` where the main thread is while a job runs; `RowInv` that the job is one row
behind and `shown` the end of what was put out (`Upto`), with the linear arithmetic of
crops and filter reach in `PutContinues`. `DecoderUsesWorker` shows that every step is
one of the worker's interface, and the worker's own theorems carry over.
`OneOfTheTwoMoves` is the absence of a mutual wait: owner and thread are never blocked
together.

**Its cache.** `Buffers` says that thread and job have a buffer each where the method
gives them one, `JobCells` what the cache holds at each step of `FinishRow`, `Between`
that the tail above the next row is that of the row before. With `SeenIsFiltered` (a
line in the crop belongs to rows that are filtered, and the last row's tail is seen
only if no row follows) what reaches `put()` is final. The same invariant gives
`MainLeavesJobAlone`: no lock guards context, cache and buffers, and yet nothing a
running `FinishRow` uses changes under it, so the two threads do not race.

**Termination.** Five components have a rank, a natural number that each of their own
steps lowers and no other step raises (but a spurious wakeup, as noted). Fairness plays
no part in that, so it is proved.

| Theorem | Steps at most | What might have raised the rank |
|---|---|---|
| `ParserRunsOut` | 8 · `MaxUnits` + 7 for a file | chunks handed back unread by `StoreFrame` |
| `CallRunsOut` | 36 for a frame and 120 more for a native call | frames left out with `continue` |
| `ThreadRunsOut` | `Frames` + `Chunks` + 7 for a call's thread on Android | the fallback after native decoding |
| `DecodeRunsOut` | 23 · `Rows` + 46 for a picture, two more for each spurious wakeup | the mutex let go of for a wait and taken again |
| `MessageRunsOut` | `FrameCount` + 5 for a message to the iOS plugin | the Dart side and other messages |

**Only model-checked**: the liveness properties (`EveryWaiterIsServed`, `BatchSettles`,
`ServedUnlessSilenced`, `EveryCallIsAnswered`, `DecodeEnds`, `ParseEnds`). A part of most
of them is proved: that the steps are finitely many (`ParserRunsOut` for `ParseEnds`,
`DecodeRunsOut` for `DecodeEnds`, if wakeups for no reason are,
`ThreadRunsOut` and `NoneIsForgotten` for `EveryCallIsAnswered`, `MessageRunsOut` and
`NobodyIsKeptWaiting` for `ServedUnlessSilenced`) and that no wait is in vain
(`NoLostWakeup`, `WorkConserving`, `OneOfTheTwoMoves`). What is left is that a step which
may be taken is taken: it needs `ENABLED` and fairness, out of the prover's reach.

## 6. What is not modelled

The codec and the pixels' arithmetic; PNG encoding; `FrameInfo.fromMap`; durations and
timestamps (Android reports them raw, iOS raises those up to 10 ms to 100); the
truncation of a path at 511 bytes; JNI local references (`saveBitmapAsPNG` leaves
those of five classes behind with each frame) and JNI calls with an exception pending
(a `FileOutputStream` whose constructor throws, webp_wrapper.cpp:46-54, is one: the code
goes on to `compress`, and `OpenStream` always opens); the `return 0` of frame_dec.c:708,
which leaves no status but needs sizes no picture has;
the int overflow of the canvas size in the wrapper, which the demuxer does not prevent
(it refuses areas from 2^32 on); growth of the cache directory, from which nothing is
ever deleted; the demuxer's list of ICCP, EXIF and XMP chunks; the incremental
decoding of `idec_dec.c`, which nothing here calls.

Nine tenths of the repository is libwebp: signal processing on samples (`src/dec`,
`src/dsp`), the encoder, the muxer, language bindings, tools and examples, most of it
never called by the plugin and none of it with state that outlives a call. Its
functions have no protocol a model checker could explore beyond what `RowDecoder`,
`Worker`, `Demuxer` and `AnimDecoder` show, so the model covers a small share of the
lines in the tree, and nearly all of the plugin's own.
