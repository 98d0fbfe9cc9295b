# A TLA+ model of the interactive LingBot world server

The repository runs a causal image-to-video model on one GPU and lets a person
steer it with keys: each accepted key becomes one camera action, each action
denoises one latent chunk on top of the chunks before it and is decoded to a
few frames. `scripts/run_browser.py` serves this to web pages,
`scripts/run_live.py` shows it in a Tk window, `scripts/run_interactive.py`
holds the session they share and replays recorded sessions. This directory
holds TLA+ models of those programs, the TLC configurations that check them on
small instances, and TLAPS proofs.

## 1. The system

| Component | State | Operations | Code |
|---|---|---|---|
| Action mailbox | `_pending`, `_current`, `_quit` | `submit`, `request_quit`, `take`, `complete` | `browser_protocol.py` |
| Telemetry ledger | id -> label, status, `replaced_by`, marked times | `start`, `mark_server`, `mark_browser`, `finish`, `replace` | `browser_protocol.py` |
| Model owner | thread position, action count, `ready`, `error`, `finished` | `submit_action`, `_run`, `_generate`, `report` | `run_browser.py` |
| Server life cycle | polling, waiting, reporting | `BrowserServer.run` | `run_browser.py` |
| Presentation | bounded frame queue, drop counters, worker thread, `encoded` set | `submit`, `take`, `_run`, `wait_encoded`, `stop` | both |
| Event delivery | bus, wake flag, latest status and frame, one queue per client | `publish`, `take`, `broadcast_loop`, `put`, `websocket`, `_client_sender` | `run_browser.py` |
| Web page | screen, tail frames and their timer, next action id | `receiveFrame`, `scheduleTail`, `onKeydown` | `web/app.js` |
| KV cache | per block: keys and two cursors, on the device and on the host | denoising forward, clean forward | patches 0004, 0005, `run_interactive.py` |
| Session | noise, condition and camera chunks, cross-attention flag | `prepare_session`, `generate_chunk`, `commit_clean_kv` | `run_interactive.py` |
| Live viewer | `PendingInputState`, quit flag, rows, status | Tk callbacks, `wait_for_key`, `run_one` | `run_live.py` |
| Batch session | two device streams, pending list, decoder state | `run_session` | `run_interactive.py` |
| Decoders | streaming caches and pending frames | `begin_latent`, `drain_latent`, `decode_latent` | `run_interactive.py` |
| Compiled helpers | constructor of the model class, forwards of its blocks, compiled graphs | install, prewarm, restore | `pure_compile_helpers.py`, `run_pure_compile_live.py`, `run_compile_live.py` |
| Equivalence harness | two sessions on one model | generate, commit, compare | `kv_cursor_equivalence.py` |
| Benchmark client | action asked for, frame and record seen | wait for READY, send, read, quit | `browser_benchmark.py` |
| Branch probe | prefix session, its clone, decoder, thread of the input probe | generate, clone, branch, compare | `action_response_probe.py` |
| 14B experiment | who refers to the transformer, phase events, report | run, hooks at the boundary to the VAE, kill | `run_q4_baseline.py`, two of the 14B patches |
| Upscalers, other offline scripts, shell launchers | none that lasts | straight-line programs | rest of `scripts/` |

How they interact:

```
 page --websocket--> submit_action --> ledger, mailbox --take--> model owner
  ^                 (aiohttp loop)                               (thread)
  |                                                                 | _generate
  |  ClientOutbound <- broadcast_loop <- EventBus <- presentation <-+ frames
  +---- sender ------- (aiohttp loop)                (JPEG thread)  |
                                                                    v
                                                    DiT forwards on the KV cache
```

The aiohttp loop, the model owner and the JPEG worker are the three threads of
the server. They share the mailbox, the ledger, the presentation queue and the
bus, each with a lock of its own; nothing is done under two locks. The live
viewer has one thread; keys reach it inside `update()`, which it calls at a few
points of an action. The GPU is used by one thread at a time.

What is hard, and what makes each part right:

* *Mailbox, ledger, owner.* `submit_action` makes three separate locked calls
  with the owner running in between. Right means: an accepted key is executed,
  displaced by the next key, or dropped by quit; never two of these, never
  none; the record says which; and the process ends.
* *Deferred clean pass.* RGB0 is shown before the exact keys of the chunk are in
  the cache. Right means: the next chunk never attends to the noisy ones.
* *KV cache.* One roll per chunk although a chunk is written several times; sinks
  stay; a clean pass that writes without moving any cursor; two lanes of cursors.
* *Presentation.* A queue of eight that may drop stale tails and must not drop
  the newest first frame; a worker that may die.
* *Event delivery.* A wake-up flag set by callback, clients that come and go during
  the greeting, queues that overflow, a page with timers.
* *Batch session.* Two schedules, two decoders, a clean pass that may be deferred, in
  every combination; a second device stream that is behind the host.
* *Compiled helpers.* A class and a model patched from outside, a session that may end
  anywhere in between, graphs that must exist before READY.
* *Clients.* Frame and record of an action come to the benchmark from two threads in
  either order. A page that is loaded again counts its actions from 1, against a
  ledger that remembers the old ones.
* *Branch probe.* Branches that are compared must differ in their action only, though
  they share the model with its flag; a thread plays a key while the host works.
* *14B experiment.* Three references to one transformer must be gone at one line, and
  what is on disk must be true when the process is killed.
* *Live viewer.* Keys that arrive at the boundary of two actions, quit in the
  middle of one, a report written on every way out.

## 2. Modules

| Module | Stands for | Abstract specification |
|---|---|---|
| `ActionPipeline` | mailbox, ledger, model owner, server life cycle | `ActionSlot` |
| `SessionGeometry` | frames, latents, chunks of a session | |
| `MCActionPipeline` | instance of `ActionPipeline` whose chunk count comes from `SessionGeometry` | |
| `KVCache` | self-attention cache of every block, cross-attention flag, occupancy record | `RollingWindow` |
| `Presentation` | frame queue and JPEG worker | `LossyFifo`, `FrameSource` |
| `EventDelivery` | bus, broadcast, client queue, greeting, page | `LossyFifo`; its publisher is `FrameSource` |
| `MCEventDelivery` | the behaviours of `EventDelivery` that TLC goes through: with one page, and with another that never reads | |
| `LiveViewer` | the Tk program | `ActionSlot` |
| `BatchSession` | recorded session with its schedules and decoders | |
| `CursorEquivalence` | the harness: two instances of `KVCache` on one model | |
| `BranchProbe` | the branch probe on an instance of `KVCache`, extends `SessionGeometry` | |
| `CompiledHelpers` | the three launchers that patch the model | |
| `BoundaryRuntime` | the 14B run with its memory hooks | |
| `MCHarnesses` | one of the four programs above at a time | |
| `BenchmarkRun` | the benchmark client, extends `ActionPipeline` | |
| `PageLoads` | keys of web pages and reloads, extends `ActionPipeline` | |
| `MCClients` | the server with one of its two kinds of clients | |
| `ActionPipelineProofs`, `KVCacheProofs`, `PresentationProofs`, `EventDeliveryProofs`, `LiveViewerProofs`, `BatchSessionProofs` | theorems about the module of that name (the first one also about `SessionGeometry`) | |
| `ClientsProofs` | theorems about `MCClients`, on top of those about `ActionPipeline` | |
| `HarnessProofs` | theorems about `BoundaryRuntime`, `CompiledHelpers`, `CursorEquivalence` and `BranchProbe`, as `MCHarnesses` runs them | |

`ActionSlot` is the promise both front ends make to a person: one action runs,
at most one waits, a newer key displaces the waiting one, and after quit nothing
starts. `RollingWindow` says which frames attention may see after a given number
of frames. `LossyFifo` is a queue that may lose but never reorder, used as an
action property of the two places where frames travel. `FrameSource` is the contract between
these two places: the frames of an action are published from RGB0 on, none left out before RGB0
of a later action.

### ActionPipeline

`handler` is the position of the aiohttp loop inside `submit_action`: its three
locked calls are `SubmitAction`, `MailboxSubmit` and `LedgerReplace`. A handler
does not await between them, so no other coroutine runs (`LoopFree`), while any
step of the owner may. `pc` is the position of the owner in `_run` and
`_generate`; each action of `GenerateStep` ends where the code next writes
something another thread reads. `OwnerFails` is an exception at any call that can
raise. The wait of 0.25 s in `take` changes nothing when it ends, so it is the
guard of `TakePending` and `TakeQuit`. `slot` records, for each chunk, who
generated it and whether its clean keys are in the cache. `accepted` is a history
of the ids in the order of `mailbox.submit`; the code has no such list.
`Signal` is what may end the server from outside: Ctrl-C while it polls, a second
one inside the `finally`, which skips the rest of it, and the kill by the launcher's
`timeout --kill-after`, which is possible only after a first Ctrl-C and hits
handler and owner anywhere. The launcher kills after 20 s, the server waits 30 s for
its owner, so the report of a slow generation is lost; `ServerStops` and
`ReportIsFinal` hold nevertheless. `OneFate` has two parts: `FatesExclude` about one
action, `SupersededByNext` about the order in which actions displace each other.

### KVCache

A step is one transformer block of one forward. A block's cache is a sequence of
frames with a tag for how they were written, its cursors count frames (the code
counts tokens, a fixed number per frame). `DenoiseBlock` is patch 0004's path:
overflow, roll behind the sinks, store, advance; `CleanBlock` is patch 0005's path,
which rolls and stores by the same arithmetic but leaves the cursors alone.
`HostCursor` chooses the lane that decides: the host integers, or the device
cursors. `Abandon` is an exception in the middle of a forward.

### Presentation

The owner submits RGB0 and then the tails of one action; `Submit` is the code's
invalidation of older tails, the overflow and the counters in one step, because
the queue's lock covers them. The worker's loop has three places where another
thread can come between: after `take`, after the encoding, and before the mark
that `wait_encoded` reads. `WorkerFails` is an exception of the encoder.

### EventDelivery

The publishing threads, the callback that sets the wake flag (`RunCallback`), the
two steps of `take` (`Broadcast`, `WaitForEvents`/`WakeUp`), the handler of a
connection (`Connect`, `Greet`, `Open`, `Disconnect`), its sender, a wire of
`WireMax` messages and the page. A frame is `[action, index]`; every other event
is a note. `Attentive` are the pages that read, decode and run their timers while they are
open. The others do so when they like: they may stop reading for ever, leave, or fail in
the greeting (`Disconnect` before `Open`), which leaves their queue registered.
`MCEventDelivery` keeps all behaviours of an attentive page alone, and adds those in which
another page came first and reads nothing: it stands in its greeting, is open, has left, or is
registered for ever. In these only the note and the first frames of the two actions are
published, three events for a queue of two. `NewestIsShown` speaks of the attentive page in
both.

### LiveViewer

`Updating` names the places where the program calls `update()`; only there do keys
and the closing of the window arrive. With a script (`script` is the number of its movement
keys) `TakeScripted` and `ScriptEnds` take the place of the wait for a key; Tk still
delivers keys then, and they are recorded but not executed. (A space in
`--scripted-actions` never gets that far: its item is empty after `strip()`.)
`run_one` is the sequence `GenerateChunk`,
`ShowFirst`, `ShowRefined`, `CommitClean`, `FinishAction`; `Escape` is the
KeyboardInterrupt raised after the first frame or by Ctrl-C.

### BatchSession

`pc` is the position of the host in `run_session`; the options are chosen in `Init`.
In the overlapped schedule the projection and the decoding of a chunk are put on
`vaeq`, which the step `VaeStep` executes on its own; `Statistics` and
`Synchronize` are the two places where the host waits for it. `fed` is the order in
which latents reached the decoder and `inside` the latent whose frames a streaming
decoder still holds. `CloseSession` ends with `accepted_latents.pt`, and raises where
`torch.cat` has nothing to put together; `WriteMetrics` is what comes behind it, so that a
session may have saved its latents and still end as a failure. `Fails` and `CtrlC` end the
session at any call that can.

### CursorEquivalence

`Control` and `Candidate` are two instances of `KVCache`, one in each cursor lane.
The flag of the cross-attention cache belongs to the model and not to a session:
the harness saves and restores it around each call (`UseFlag`).

### BranchProbe

The prefix and the branches go through the same `GenerateChunk` and `CommitCleanKV`,
which are the steps of `KVCache`. `CloneCommon` and `BeginBranch` say what
`clone_state` copies (both caches and the noise generator) and what stays shared (the
model's flag, saved and put back by the harness). A latent is what it was computed
from, so that two latents are equal exactly if nothing but the action differs.
`Arrive` is the thread of the input probe, which wakes up at any time after the first
RGB frame, also after the `join` has given up.

### CompiledHelpers

`lane` is the launcher. `pc` follows it through the tunings, the patch of the
constructor, the constructor itself with the installation and the prewarm, the
session and the `finally`. A graph exists for a helper and a number of tokens;
`RunBlock` calls the helpers of one block in a denoising or a clean forward and notes in
`cold` every graph it had to wait for. The last block of a clean pass returns early;
the first block sees a bf16 activation and all others float32. There are three ends:
`returned` behind the finally, `import failed` before the `try` of a launcher, and
`not restored`, where the clearing of the decoder or the stop of the JPEG thread raises in
the browser's finally. `OriginalsRestored` speaks of all ends of the two launchers: behind an
import that failed the class may still be patched, but no block has been replaced.

### BoundaryRuntime

`holders` is who refers to the transformer: the pipe, the dictionary of the loader
and the local variable of `sample`, which the hook reaches through `nonlocal`. What else is
released there is left out.
`Record` appends a phase event and leaves `phase-events.json` torn until `WriteEvents`;
`Ends` is a kill or an exception at any point. In the cleanup lane the first run
gives the model away and a second one fails: with the default `--repeat 2`
there is never a `metrics.json` (`run_phase_memory.sh` asks for one run).

### PageLoads

A page is loaded (`Open`), and its keys are `Key`, its telemetry `KeyTelemetry`, and
`QuitKey`. `next` counts the ids of one page; ids taken before the socket was open
were sent nowhere. The step is taken when the server reads the message, so the
websockets of two pages interleave in every order.

### BenchmarkRun

`Owner`, `Handler`, `Receive` and `Server` are the steps of `ActionPipeline` with the
messages they take from `outbox` and put into `inbox`; first frames go through
`encoding`, the JPEG thread. The client is `AwaitReady`, `SendAction`, the four
reading actions, `Quit`, and the two ways in which it raises.

## 3. Runs

| Run | Instance | Shows |
|---|---|---|
| `pipeline` | 3 ids, 2 actions' worth of path | no key lost, executed twice, or displaced without record; marks in order; clean pass before the next chunk; report final; slot promise; the server ends |
| `max_actions` | 3 ids, `--max-actions 1`, 9 poses | a counterexample to "maximum configured browser actions reached" |
| `kv_cache` | window 12, 6 sinks, 3 timesteps, 3 blocks, 16 chunks | the cache is the rolling window; cursors agree; occupancy is right; attention reads clean frames only |
| `presentation` | bootstrap and 2 actions of 1 to 4 frames, room for 8 | the newest RGB0 is kept and gets out; every drop is counted once; order; the frames of an action from RGB0 on, as `FrameSource` says |
| `event_delivery` | 2 actions of 3 frames, a note, buffers of 2; a page that reads, alone or next to one that does not | no lost wake-up; order; the newest action ends on the screen of the page that reads, whatever becomes of the other |
| `slow_client` | 1 action of 1 frame, 2 notes, buffers of 2, one page | a counterexample to the docstring of `ClientOutbound` |
| `live_viewer` | 4 keys, 2 actions, upscaler, no script or one of up to 3 keys | newest key kept and answered; a script is followed; the report is true; slot promise |
| `live_quit` | the same | a counterexample to `docs/live-viewer.md:78` |
| `batch_session` | 4 chunks, every combination of options, a failure anywhere | rows are whole and follow a clean pass; the decoder follows the session; success is whole |
| `batch_latents` | 2 chunks | a counterexample to the help text of `--save-latents` |
| `harnesses` | equivalence: window 12, 6 sinks, 3 timesteps, 16 chunks; probe: the same with 20 prefix actions; launchers: 3 blocks, 1 to 4 requested; 14B: up to 3 repeats | both cursor lanes hold the same caches; branches differ in their action only; the input probe tells the truth; no cold graph after the prewarm; replaced blocks are given back; reports are whole |
| `clients` | benchmark with 3 actions, or 2 page loads with 2 keys | the next action is sent only when the last is finished; the benchmark ends; only an id accepted from another page is refused |

`harnesses` and `clients` are unions: the initial state chooses the program, or the
kind of client, and the variables of the others never change.

Bounds. Three ids are the smallest number with a displaced request while another
runs and a third is submitted; a fourth adds no new relation because the mailbox
has two places. The KV run uses the release values; sixteen chunks pass through
the fill (12), the first eviction and the rolled regime, in which the cache moves
by one frame per chunk and repeats itself. The presentation run uses the real
size of the queue: 4 frames of 3 actions are more than 8. In event delivery the buffers
are 2 instead of 128 and 16 so that two actions overflow them, and so do the three events
published next to a page that does not read. The live viewer's four keys allow two
displacements in front of two actions. Four chunks of a recorded session have a first, a last
and two inner ones, and a three-chunk probe can begin at two of them. Three blocks are one that
sees bf16, an inner one and one that the clean pass leaves early; four requested are more than
there are. Twenty prefix actions take the probe through the first eviction into the rolled
regime, so that the branches evict from the clone. Three 14B runs contain the second one, which fails after a cleanup,
and one behind it. Three benchmark actions have a first, an inner and a last one. Two
pages are the old one and the new one; with two keys each the new page can be
refused, get through, and be refused again. A path of nine poses is the shortest that
does not cut the session of `--max-actions 1`.

Deadlock is checked except in `event_delivery` and `slow_client`, where the actions and the
notes are used up and nobody has anything left to do.

Fairness. Each thread keeps running: weak fairness of the owner's steps, of the
handler that has begun, of the polling coroutine, of the JPEG worker, of the
broadcast loop, of the handler and the page of an attentive client, of the viewer's loop, of
the benchmark client while it has something to read or to send. A model call returns or raises. Nothing is assumed of people, of Ctrl-C, of failures, of pages
joining or leaving, and of the time-outs of the benchmark. In `clients` messages
are not lost while the server runs: what full buffers drop is the subject of
`event_delivery`, and the messages of one action fit into every buffer.

Type invariants are proved and in no run: `TypeOK` of `ActionPipeline`, `KVCache`,
`Presentation`, `EventDelivery`, `LiveViewer` and `BatchSession` (section 5).

## 4. Findings

* `live_quit`: a quit key delivered while the first frame is shown ends the viewer
  before the clean pass of that action; the document promises a safe boundary.
* `slow_client`: a note can displace RGB0 of the newest action in the queue of a page
  that reads slowly; the docstring speaks of stale tails only.
* `max_actions`: `--max-actions N` of the browser server lets `N + 1` user actions
  complete when the path has enough poses (`main` asks for `4 * (N + 1) + 1` frames, which
  are `N + 2` chunks, and the bootstrap uses one); the viewer cuts its chunks down.
* `batch_latents`: with `--overlap --save-latents` nothing is collected, and the
  session fails in `torch.cat` after all its chunks have been computed.

Met while modelling, without a run of its own: an import of `run_live` that raises leaves
`WanI2VCausal.__init__` patched, because it stands between the patch and the `try`
(`run_compile_live.py:113-118`), while the comment at line 121 says that the class is restored
for callers (`CompiledHelpers` has that end); `FINDINGS.md:132` of the 14B experiment says that
the prompt conditioning is released before the VAE decodes, while `main` keeps `positive` and
`negative` to its end (`run_q4_baseline.py:256-257`, `416-417`), which `BoundaryRuntime` leaves
out; with `--defer-clean-kv` the attention probe (`run_interactive.py:1244`) is taken back before the
clean pass of its third chunk, which `SuccessIsWhole` excepts; the prewarm is written for 1008 tokens, so that at another
size the first forward compiles again, which `NoColdGraph` excepts; the option
`--max-seconds` of `run_browser.py` is read by nobody, and only the launcher's
`timeout` limits a session; a page that is loaded again is deaf for as many keys
as older pages had accepted (`DuplicatesAreReal` says that it is never more).

## 5. Proofs

The theorems hold for every value of the constants that the named assumptions allow. The
assumptions are few: `ConstantsAssumption` of each module gives the constants their
types and asks for at least one chunk, frame, timestep, block, or place in a buffer, where the
code has one; the sinks are fewer than the window; the frames of an action fit into the
presentation queue (`FrameMax <= QueueMax`, 4 and 8 in the code). `PagesAssumption` says that
the ids of a page are ids of the server. What is proved of `BoundaryRuntime`, `CompiledHelpers`,
`CursorEquivalence` and `BranchProbe` is proved in `MCHarnesses`. Its `CacheAssumption` is that
of `KVCache` for the constants both session harnesses share; of the number of chunks, prefix
actions, poses, blocks to replace and repeats nothing is assumed.

| Property | Theorem | What it needs besides itself |
|---|---|---|
| `NoActionLost`, `CleanBeforeNext`, `NoSelectionAfterQuit` | `NoActionIsLost`, `CleanBeforeNextHolds`, `QuitPriority` | `IInv`: where handler, `current` and `acting` agree with `pc`; how many chunks are filled at each `pc` |
| terminal records stay, `ImplementsActionSlot` of the server | `TerminalRecords`, `ImplementsSlot` | `FateInv`: the bootstrap's record runs until `_generate` ends it |
| `ReportIsFinal` | `ReportHolds` | `Quiet`: a finished owner has cleared `ready`, and no handler is under way |
| `MarksInOrder` | `MarksAlwaysInOrder` | `MarksInv`: at each `pc` exactly which boundaries the owner's action has passed |
| `OneFate` | `OneFateHolds` | `SlotInv`: an action writes only the chunk it was given; `OrderInv`: mailbox and handler hold the newest accepted ids, and an older one is replaced or taken |
| `NextActionAfterNextReady` | `NextActionIsLate` | `BenchInv`: a "complete" on its way to the client is true and stays so; `FinishedInv`: a complete action has passed `next_ready` |
| `DuplicatesAreReal` | `RefusalsAreReal` | `PagesInv`: an id is labelled "key" exactly if a page's key was accepted under it, and a page has passed the ids it has used |
| `WindowInvariant`, `CursorsAgree`, `CleanPassMovesNoCursor`, `AttendsCleanHistory` | `WindowHolds`, `CursorsAlwaysAgree`, `CleanPassRedundant`, `AttentionReadsCleanHistory` | `IInv`: which blocks already have the new frame, and a cache in the closed form of `RollingWindow` |
| `CrossCacheFilled`, `OccupancyMatchesCache`, `BlocksRoll` | `CrossIsAlwaysFilled`, `OccupancyIsTrue`, `BlocksAlwaysRoll` | cross-attention is filled block by block in the first forward; the cursors before the chunk; the entry a chunk writes is the noisy one until its clean pass |
| `NewestFirstFrameKept`, `KeepsOrder` | `NewestFirstFrameIsKept`, `PresentationKeepsOrder` | behind an RGB0 the queue holds frames of its own action only, so that it never overflows; the worker's frame lies between what is published and what is queued; `TurnInv`: every frame on its way succeeds the one in front of it (`PresentationFollows`) |
| `WakeUpComes`, `MissesNothing`, `ClientsInOrder`, `ScreenGoesForward` | `WakeUpAlwaysComes`, `PageMissesNothing`, `EveryClientInOrder`, `ScreenAlwaysForward` | wire before queue before bus, all of them after what the page has read; the greeting comes first and to a blank page; where the newest RGB0 is until the page shows it |
| `NewestKeyHeld`, `ReportIsHonest`, `ImplementsActionSlot` of the viewer | `NewestKeyIsHeld`, `ReportAlwaysHonest`, `ViewerImplementsSlot` | `KeysInv`: a key waits in one place; `PlaceInv`, `CacheInv`, `RowsInv`: position, chunk and rows determine each other |
| `DecoderFollowsSession`, `RowsAreWhole`, `SuccessIsWhole` | `DecoderAlwaysFollows`, `RowsAreAlwaysWhole`, `SuccessIsAlwaysWhole` | position and chunk determine caches, decoder, rows, latents and the calls of the attention probe; the VAE stream holds at most the decoding of the last chunk and the projection of the current one |
| `ReportIsWhole` | `ReportAlwaysWhole` | `GivenAway`: who still refers to the transformer at each line; `PhasesCounted` |
| `NoColdGraph`, `OriginalsRestored` | `NothingIsCold`, `OriginalsAlwaysRestored` | `WarmedUp`: which graphs exist at which step of the prewarm; `KeptForwards`: what is patched and which forwards are kept at which position and end |
| `ProbeIsHonest` | `ProbeAlwaysHonest` | `WorkerInv`: on which side of `clean_end` the thread of the key can be |
| `LanesAgree` | `LanesAlwaysAgree` | `EquivalenceInv`: `Session`, what chunk, phase, timestep and block say of every cache of a lane; whose turn it is; the list of reads, forward by forward; a flag that is set only when its lane's cross-attention is filled |
| `BranchesMatch` | `BranchesAlwaysMatch` | `BranchInv`: the same `Session` for the one session of the probe; the clone and the prefix, which no branch changes; what the decoder of a branch has been fed at each position |

Each of the six modules with a `TypeOK` has its `TypeCorrect`. `ServerUnderClients` says
that the composed system of `MCClients` implements the specification of
`ActionPipeline`: no benchmark, page, queue or network makes the server take a step it does
not take by itself, so its theorems hold under both clients.

Four arguments in more detail, because they say why the code works:

* `NoActionLost` alone is not inductive. That a running record has a holder survives
  `MailboxSubmit` only if the handler's id is neither waiting nor running, and
  `RecordComplete` only if the owner acts on `current`; both are parts of `IInv`.
* No first frame is ever dropped for want of room. RGB0 of an action takes the place of all
  frames of earlier actions, so that the queue holds frames of one action, at most `FrameMax` of
  them. Without `FrameMax <= QueueMax` the last tail of an action could drop its own RGB0.
* A page that has come late misses nothing because the greeting shows the `latest` of the
  moment of `Greet`, while everything younger is behind it on the same queue. The proof
  follows the newest RGB0 from the bus through the queue and the wire to the screen
  (`NewestInv`); it needs that the numbers of frames on the way only grow (`StreamInv`).
* Two sessions agree because neither has anything to disagree about: the cache of block `b`
  is a function of the chunk, the phase, the timestep and whether the forward has passed
  `b` (`EnteredAt`, `PassAt`, `KeysOf`), and forward `j` of chunk `n` reads
  `ForwardRead(n, j)`, whichever cursors it looks the window up with. One lemma per kind of
  forward says so, with the lane as a parameter; `ControlOperators`, `CandidateOperators` and
  `BranchOperators` show that the three instances of `KVCache` make those steps. For the
  lanes that means equal reads in every row; for the branches, that a branch is told apart
  from the next by its action alone, because it begins from the clone, with the clone's
  position of the noise generator and the clone's flag. Take any of the three away
  (mutant `BeginBranchSharedNoise`) and `BranchSession` is lost at `BeginBranch`.

`ChunksOfSession` is about the arithmetic of `SessionGeometry`: `SessionChunks` is at least 1,
so the `ChunkCount` that the server passes on meets `ConstantsAssumption` of `ActionPipeline`,
and it is `--max-actions` + 2 exactly if the camera path has 4 * (`--max-actions` + 1) + 1 poses.
That is the counterexample of `max_actions` for every length: the bootstrap and one action more
than were asked for. The viewer cuts the same chunks down to `--max-actions` (`LiveActions`).

Only model-checked:

* Every liveness property: `AcceptedIsResolved`, `ServerStops`, `FirstFramePublished`,
  `KeyIsAnswered`, `NewestIsShown`, `BenchmarkAlwaysEnds`. Fairness and `ENABLED` are out of
  reach of the provers.

## 6. Not modelled

Tensor arithmetic, pictures, prompt encoding and camera matrices are data. Clock
values and derived durations of the ledger are left out: a boundary is marked or
not. With two pages open, the times of two browser clocks mix in one record
(`mark_browser`); nothing here says anything about them.

The upscalers are functions of one picture. `run_experiment.py`,
`build_phase0_evidence.py`, the decoder comparisons, the micro-benchmarks and the tuning
scripts run straight through, write one file at their end and share nothing with
anybody: there is no state between two of their lines that another actor could see.
The shell launchers set variables and start a process, except for the `timeout` of
`run_browser.sh`, which is `Killed`. Patches 0001-0003 choose a kernel and measure.

The temporal split of a causal convolution (`run_interactive.py:69`), the pictures of the
video, the statistics of the benchmark report, the pixel metrics of the branch probe,
the memory figures of the 14B run, and the HUD of the page are left out. So is a Ctrl-C
inside `install_on_blocks` or inside a `finally` of the launchers.

`Presentation` and `EventDelivery` are composed by assumption and guarantee and not
in one run: the frames that `EventDelivery` lets its publisher take next (`NextFrames`) are
those of `FrameSource`, and `PresentationFollows` proves that the JPEG worker publishes as
`FrameSource` says. Together they have too many buffers for one instance in which every
buffer overflows. That RGB0 of the newest action does come is liveness (`FirstFramePublished`,
`NewestIsShown`), and the two are checked apart.
`FirstFramePublished` exempts a dead JPEG thread, which nothing restarts or reports.
The cleanup of the browser's owner is assumed not to raise in `ActionPipeline`: if
`decoder.clear` did, `finished` would never be set and the server would poll until somebody
presses Ctrl-C (`CompiledHelpers` has that end, `ServerStops` does not cover it).
`wait_encoded`, whose answer the owner ignores, is in both: `BecomeReady` needs no picture,
and `Presentation` publishes the bootstrap's picture late and in order.

## 7. Plan

Done: 1 `ActionPipeline` with `ActionSlot`; 2 `KVCache` with `RollingWindow`; 3
`Presentation` with `LossyFifo`; 4 `LiveViewer` with its scripts; 5 `EventDelivery`; 6
`BatchSession`; 7 `CursorEquivalence`; 8 `CompiledHelpers`; 9 `BenchmarkRun` and `PageLoads`
on `ActionPipeline`; 10 `BranchProbe` on `KVCache`; 11 `BoundaryRuntime`; 12 the proof modules.

Also proved: every invariant and every action property that a run checks. Liveness stays
with the runs (section 5).

Next: what the properties do not reach. The prewarm for another number of tokens than 1008
(`pure_compile_helpers.py:138`) needs a model of what `torch.compile` specialises on; the dead
encoder, the torn `phase-events.json` and the cleanup that raises need a statement of what
the code is meant to do then.
