# Overmax in TLA+

Overmax watches the screen of DJMAX RESPECT V, recognises the song, chart and
score on it, keeps the player's records, recommends charts, uploads records to
V-Archive and tells local clients about all of it over a loopback HTTP/SSE
endpoint. This directory holds TLA+ models of the parts of it that keep state
and race with something, the TLC configurations that check them, and proofs of
the most important results for every value of the constants.

    tlc -workers 2 -config AutoUpload.cfg MCAutoUpload     # any run: see the table
    tlapm AutoUploadProofs.tla                             # any module *Proofs

Paths below are under `rust/`; `runtime` is `overmax_runtime/src`, `data` is
`overmax_data/src`, `engine` is `overmax_engine/src`, `app` is `overmax_app/src`.

## The system

    X11 --> tracker, capture engine --> DetectionPipeline --> channel
            (detection worker)          scene, song, state      |
                                                                v
                                                  UI thread, once per frame:
                                                  Runtime::on_detection
                                                    | SessionTracker (PB)
                                                    | RecordManager --> SQLite
                                                    | IpcObserver --> hub thread --> writers --> clients
                                                  recommender, auto-upload scheduler
                                                    | upload / fetch threads --> V-Archive, SQLite
                                                  overlay thread --> Wayland compositor
                                                  settings: draft, merged --> writer thread --> file
                                                                    | manager thread: port, endpoint file

| component | state | operations | what makes it hard | what makes it correct |
|---|---|---|---|---|
| scene commitment (`engine/detector/detection_pipeline.rs`, `hysteresis.rs`) | committed and pending scene, streak, ROI set, hysteresis window, song | one step per captured frame; some frames inspect the scene, others reuse it; reset | misread frames in any order; scene switches between inspections | ROIs of the committed scene; results and gameplay need two inspections; gameplay silences at once |
| play state (`engine/detector/play_state.rs`) | history, result latch, rate window and cache, last event | detect per frame, reset on leaving | caches that outlive their screen | an event belongs to the play whose result is up, once |
| detection worker, tracker and capture engine (`engine/detector/detection_worker.rs`, `engine/capture/`) | window, focus policy, failure streak, binding, X connection | query, set target, capture, interrupt, reconnect | windows and focus change between the steps of a tick; the X server goes away | no mixing of two windows; no dead result on display; the GUI knows the target; an absent server does not end it; it comes back |
| runtime hub (`runtime/hub.rs`) | snapshot of the result session | on_detection | the snapshot precedes the commit; fetches in between | PB against the record before the play |
| record store (`data/service/record_manager.rs`, `store/record_db/`) | tables, V-Archive cache, dirty flags, account | verified play, delete, upsert, refresh, account switch, merge of fetched rows | background threads write a table; queries fail, some unnoticed | best record kept as far as it could be read; every change flagged |
| floor-rate cache (`data/service/recommend/local.rs`) | summaries per floor, own dirty flags | lazy recomputation | seven paths invalidate it | out of date implies flagged |
| auto-upload (`runtime/auto_upload.rs`, driven by `app/ui/native_app.rs`) | waiting value, last value handed out | tick per frame | flicker, screen changes, settings changes, gate | once, after its quiet time, not lost |
| V-Archive jobs (`runtime/varchive_jobs.rs`, `upload_plan.rs`) | one thread per job, result channel | fetch, upload, fallback fetch | late answers, account switches | no account gets foreign scores; no row is missed; only full answers erase |
| IPC observer, SSE hub (`runtime/ipc_observer.rs`, `ipc_server.rs`, `transport/sse.rs`) | state cache, keys, channel, client queues | publish, admit, broadcast, write, stop | full queues, slow peers, joins at any moment | no hole, no silent skip, shutdown ends it |
| loopback manager (`runtime/transport/loopback.rs`) | listener, bound port, endpoint file | bind, rebind, accept, shut down | busy ports, settings changes, a file that cannot be written | what was written last names the served port; settings take effect; it serves despite taken ports |
| layer overlay on Linux (`app/ui/linux_layer_overlay.rs`) | published snapshot, wake socket, surface, target output | publish, consume, apply, recreate, draw | outputs, windows and the surface change at any moment; late events of dropped surfaces | clicks pass exactly while hidden; right corner; configured before drawn; the latest is shown |
| settings and their writer (`data/config/settings.rs`, `settings_writer.rs`) | defaults, merged, draft; debounced file writer | edit, save, flush | debounce and exit | the last edit reaches the disk |

Not modelled and why: image recognition and the jacket matcher (numerical; the
models choose what a region reads as), the Windows capture engines beyond a
capture that succeeds or fails (device I/O), recommendation scoring (pure
floating-point ranking without state), community downloads, updater and
single-instance lock (sequential file and process operations; the downloader's
crash windows are next in the plan), dialogs, layout and drawing of the UI. Of
the modelled parts, what is left out is said in the head of each module.

## Modules

| module | models | correspondence |
|---|---|---|
| `AutoUpload` | `AutoUploadScheduler::tick` as `tick_auto_upload` calls it | `Frame` is one UI frame: the gate (`SkipTick`) or one outcome of `tick` in the order of its early returns. `pending`, `lastFired` are the struct's fields; `fired` is what tick returned. `quiet`, `sent`, `moved`, `carried`, `owed` are history. |
| `Records` | `RecordDB` and `RecordManager` | tables per Steam account, cache and dirty flags. One operator per method, one disjunct per outcome, a failed SQLite call being one; `unread` names the columns of a row that a swallowed read error hides. Shared by the next two. |
| `RuntimeHub` (on `Records`) | `SessionTracker`, `Runtime::on_detection` | `OnState`, `OnVerifiedPlay`; between two outputs `Background` is any other store operation. |
| `FloorCache` (on `Records`) | the recommender's summaries | `EnsureFloorRateCache`, `SwapSongDB`. `floorView[p]` is the rate p adds to its bucket's summary. Its specification is `FloorSpec`, so that one module can extend it and `RuntimeHub`. |
| `Hysteresis` | `HysteresisBuffer` with the pipeline's parameters | pure operators on a record |
| `Detection` (on `Hysteresis`) | `DetectionPipeline` and `PlayStateDetector` over a game | `CachedFrame`, `InspectedFrame`, `Reset`; the game (`GameMove`) is the environment. |
| `SseHub` | `IpcObserver`, publisher, `run_sse_hub_loop`, `client_writer_loop` | the GUI thread step by step through `on_update`, the hub thread step by step through its loop, a writer per client |
| `CaptureWorker` | detection worker, tracker, Linux capture engine | a tick is split where other threads and the desktop can step in: `QueryTracker`, `SetTarget`, `Frame`, `CaptureLinux` (and `LookWindows`, `CaptureWindows`). `MayBreak` is a request that fails for good, `Streak` a fullscreen change. The desktop and the X server are the environment. |
| `VArchiveSync` | fetch and upload jobs | a job holds the account it was started for and steps from button to button: mark (which may not be readable), answer, merge (which skips rows it cannot parse). Server, other clients and account switches are the environment. |
| `Settings` | draft, merged settings, file, debounced writer | one action per path that saves; shared by the next |
| `IpcManager` (on `Settings`) | `run_loopback_manager` | `Poll`, `Unset`, `Erase`, `Bind`, `Show`, `Write` are the stretches of one poll between which others may step in; `FileNames` is a write of the endpoint file, `written` (history) whether the last one came through |
| `LayerOverlay` | the overlay thread and its publisher | `Publish`, `Wake` of the GUI; `Woken`, `WokenOn`, `AfterDispatch` of the thread; one action per Wayland event handler. `Applied` and `Refreshed` are `apply_snapshot` and `refresh_output`; `ov` is `Backend` with what it asked of its surface. |
| `EventStream` | what a client is promised | abstract specification, implemented by `SseHub` (`ImplementsStream`) |
| `MC*` | | values of the constants |
| `*Proofs` | | theorems about the module of that name; `StoreProofs` about `Records`, `RuntimeHub` and `FloorCache` |

Operators commented "Mistake:" are plausible errors in the operator that follows
them. No specification uses them: they exist to be substituted for it, to see
that a property notices.

## Runs

| run | module, configuration | result | seconds |
|---|---|---|---|
| auto_upload | MCAutoUpload, AutoUpload.cfg | 16,800 states | 60 |
| auto_upload_retry | MCAutoUpload, AutoUploadRetry.cfg | `MovedAwayClears` violated | 5 |
| floor_cache | MCFloorCache, FloorCache.cfg | 217,656 states | 140 |
| runtime_hub | MCRuntimeHub, RuntimeHub.cfg | 9,728 states | 90 |
| detection | MCDetection, Detection.cfg | 218,570 states (symmetry) | 75 |
| detection_latch | MCDetection, DetectionLatch.cfg | `ResultChartIsPlayed` violated | 50 |
| sse | MCSseHub, SseHub.cfg | 339,163 states | 120 |
| capture_worker | MCCaptureWorker, CaptureWorker.cfg | 887,946 states | 180 |
| varchive_sync | MCVArchiveSync, VArchiveSync.cfg | 723,320 states (symmetry) | 60 |
| varchive_since | MCVArchiveSync, VArchiveSince.cfg | `SyncLeavesNothing` violated | 10 |
| ipc_manager | MCIpcManager, IpcManager.cfg | 628,128 states | 130 |
| layer_overlay | MCLayerOverlay, LayerOverlay.cfg | 145,654 states | 125 |

**auto_upload.** Three contexts, one with max combo (it skips the extra wait on
results), delays 0 and 2 units, the wait for a late max combo 1 unit. `Horizon`
2 is the longest delay, so no timer needs to count further and the state space
is complete. Any session may follow any other, since several detection outputs
are drained between frames. `NotRepeated`: no value goes out twice unless
another stable value was on screen in between. `QuietBeforeTimer`: what the
timer hands out was stable for the delay that held when its wait began.
`OwedIsFlushed`: a value that a result screen owes an upload goes out when the
screen goes. `SettledIsSent`: a value that is wanted, stays, and is not the one
handed out last is handed out from then on; one that equals `last_fired` is held
back, and what frees it is the subject of the next run.
The check of the snapshot against the store after `tick` returned is outside
the model: `fired` is what was handed out, not what was sent to V-Archive.

**auto_upload_retry.** The comment on `last_fired` (`auto_upload.rs:51-52`)
promises that moving the cursor away and back retries a failed upload. The gate
of `tick_auto_upload` keeps the scheduler from seeing a pattern that needs no
upload, so moving there and back does not.

**floor_cache.** Two patterns of one floor in different button modes, an account
and the unknown account, two rates. `StaleIsFlagged`: whichever of play,
deletion, upload, fetch and refresh, account switch or song-DB swap changed a
rate, the summary that counts it is flagged until it is recomputed. One floor
with two patterns is the interesting case: a flag on one of them recomputes
both. A query that fails while recomputing is exempt (`misread`): the flags are
gone by then and the code has no repair.

**runtime_hub.** `ResultKeepsBest`: storing a result never lowers a rate nor
loses a max combo, on any account. `try_upsert` takes a row, or a column, that
it fails to read for absent and then overwrites it
(`store/record_db/mod.rs:183-213`); the property allows exactly that, for the
played pattern and the columns that were not read. `PbAgainstEntry`: a play is a personal best exactly if it
beats what the store showed of its pattern when the result screen first showed
it. The second pattern is there to be misread.

**detection.** Two songs, one select scene, two result scenes, one gameplay
scene; rates 0 and 1; a history of 2 instead of 5 and a rate window of 1
instead of 7: enough for a value to become stable, stay and be displaced, which
is all the properties distinguish. `MinPlay` 3 says a play lasts at least three
scene inspections (one is due 2 s after the last at the latest), which is what puts the hysteresis to
rest before a result. A frame may be inspected or not, a scene missed, a song or
chart not read, a rate read as any value; a scene, song or chart is not read as
another one. `RoisFollowScene`, `ResultOfThisPlay`, `ResultSeenTwice` and
`SilentAfterIngame` are explained at their definitions.

**detection_latch.** One song with two charts. `detection_pipeline.md:100` says
that a result screen is read from its own pixels alone; the latch for mode and
difficulty survives from one result through a play into the next if no
song-select frame is read between them.

**sse.** Two scenes and one song, two clients of which one is admitted at a
time, a hub channel of 1 and a client queue of 1, two published events: enough
for a full hub channel, a full client queue, a drop, a cut-off, a refused and a
second connection of the same client.
`ImplementsStream`: each stream is an in-order, gap-free read of the broadcast
log until it ends. `QuietClientIsCurrent`: an idle client knows the state the
GUI handled last, provided its snapshot was current when it joined (the lock of
the state cache may have been taken) and no event was dropped since.
`ShutdownEndsWriters`: after a shutdown every writer whose peer reads or has
gone ends. `CHECK_DEADLOCK FALSE`, since the model stops when the hub has
stopped and `MaxPublished` is reached. `data_and_sync.md:41` promises that
losses show in `seq`; an event dropped at the hub channel gets no number at all,
which is why `QuietClientIsCurrent` has to excuse drops.

**capture_worker.** Three windows, one with an unsupported format, two sizes,
an X server that goes away at most twice (`MaxServer`), Linux and Windows. Every
step of a tick may be preceded by any change of window, size and focus.
`HistoryOfOneTarget`: since its last reset the pipeline saw frames of one window
(on Windows: of one size). `ShownStateIsLive`, `ShownTargetIsCurrent`: after a
tick the GUI shows no result of an interrupted capture; on Linux the snapshot it
places its overlay by names the worker's window and focus and, for a game in
the foreground, its size. The size has an exception the code makes: a resize
does not end a streak of failures (`capture_state_changed`,
`detection_worker.rs:627-634`), so it is told by what ends the streak. The same
would hold of a window that is only moved; positions are not modelled.
`StopsOnlyForGood`: an X server that is away or replaced between any two steps
does not stop the worker. What may stop it is a request that fails for good on a
live connection (an unsupported format, an X error that is not transient, memory
that cannot be mapped) or an engine that found the very server the tracker is
asking without Composite or a working MIT-SHM, window or not. `Recovers`: with a
window that stays and a server that stays, frames are captured again, or the
worker has stopped.

**varchive_sync.** Two songs under one button, two accounts, two jobs, rates 1
and 2, and a server clock up to 2 (`MaxClock`): two uploads from elsewhere can
overtake a fetch in progress. `TableNeverAhead`, `FetchesLeaveNothing` and
`OnlyFullAnswersErase` are explained at their definitions. A mark that cannot be
read makes a fetch ask for everything, and a merge skips the rows it cannot
parse after it deleted the old ones (`sync.rs:40-71`): a full answer of which no
row can be parsed does empty the button, and the property says that nothing
else erases a row. Checked under symmetry of songs, accounts and jobs.

**varchive_since.** `data_storage_and_sync.md:97` says an incremental fetch
brings what changed since the last one. The rows merged after an upload move the
mark past rows of others that were never fetched.

**ipc_manager.** A band of three ports of which the settings name the first or
the last, taken and left by other programs at any moment; one filter, one
position (the paths that save them still run), a writer queue of 1.
`write_endpoint_file` ignores a write or rename that fails and nothing repeats it
(`loopback.rs:260-261`), so each attempt is a choice and `written` says how the
last one ended. `EndpointIsServed`: whenever the manager sleeps the slot tells
the truth, and so does the file while a port is served and the last attempt came
through. `SettingsTakeEffect`: settings that stay take effect.
`ServedDespiteConflict`: while a port of the band is free the server keeps coming
back. The last two ask of the file what the first does: after a failed attempt
it may name another port for ever. A fallback port never equals the wanted one,
so the manager rebinds on every poll (`loopback.rs:187-193`); all three hold over
it. While nothing is served no property binds the file: a port that was given up
for one that nobody could bind stays in it, also when IPC is then switched off.

**layer_overlay.** Two outputs of two possible sizes, the game's window on one
or the other, a panel of two sizes and a hidden one (three snapshots, in any
order), and two unprompted acts of the compositor (`MaxChanges`): an output
comes, changes or goes, the game moves, the surface is closed. Two are needed
for an output that goes after another came. Configures, enters, leaves, frames
and events of dropped surfaces are not bounded. `SurfaceIsAsAsked`: the input
region is empty exactly while the snapshot is hidden, and the margin is what
snapshot, size and output of now demand, though the code updates each only when
it believes it changed. `BufferOnlyAfterConfigure`: no buffer before the first
configure of that very surface. `LatestIsShown`: the latest snapshot is drawn in
the end; this is about the order of slot and wake socket, lost surfaces and
frames the compositor withholds. `CHECK_DEADLOCK FALSE`: a thread that failed is
at its end.

### Fairness

* `AutoUpload`: `WF(SomeFrame(1))`. While something waits, `tick_auto_upload`
  asks for a repaint after 33 ms; when nothing waits, the detection loop
  repaints on each change and `update` asks for one every second. So frames
  come, and time passes between them.
* `SseHub`: weak fairness of the hub thread and of idle writers, which never
  block for longer than a poll interval. `SF(NoneJoining)`: the hub admits
  joining clients in an inner loop that ends when none waits; the manager
  accepts at most one connection per 250 ms poll, so it does end. A write has
  no timeout: that a peer reads is a premise of `ShutdownEndsWriters`
  (`PeerReads`), per client, so one stuck peer excuses only its own writer.
* `CaptureWorker`: weak fairness of the worker thread (it sleeps, but never
  blocks) and of the query interval, which is time.
* `IpcManager`: weak fairness of manager and writer threads. Nobody has to edit
  settings, take or leave a port.
* `LayerOverlay`: weak fairness of the threads' steps, of a surface's first
  configure and of a frame callback asked for, which the Wayland protocol
  promises. `SF(Woken)`: each `poll` looks at both descriptors and handles the
  wake socket in the same round, so events cannot keep the thread from it.
  `SF` of drawing: the compositor does not withhold frames for ever.

## Proofs

Every safety property that a run checks is also a theorem, for every value of
the constants. The assumptions are those the modules state about their
constants (TLC evaluates them in the runs), with one exception, the length of a
play in `DetectionProofs`.

`AutoUploadProofs`:

* `TypeCorrect`: `Spec => []TypeOK`, one lemma per outcome of `tick`.
* `NeverRepeated`: `Spec => NotRepeated`. `NotRepeated` says nothing about
  states, so the proof needs `RepeatInv`: `lastFired` is the value sent last
  unless another value was seen since, and a waiting value equals the one sent
  last only if another was seen since. Without the second part the flush, which
  does not compare with `lastFired`, could repeat a value. `RepeatInvariant`
  proves it inductive.
* `WaitsItsDelay` (`QuietBeforeTimer`) and `OwedGoesOut` (`OwedIsFlushed`). Both
  follow from `WaitInv`: what waits without interruption is the stable value on
  screen and has waited no longer than that value has been there; a waiting
  value that is no result's was seen on song select or carried over; what is
  owed is what waits. The last two parts are needed together: else a waiting
  select value could take the place of the one a result screen owes.

`StoreProofs`, from the assumptions on rates, records and accounts. A first part
shows that each operation of the store keeps its types; the hub and the floor
cache share it.

* `TypeCorrect` and `FloorTypeCorrect`: `Spec => []TypeOK` of `RuntimeHub` and
  `FloorSpec => []FloorTypeOK` of `FloorCache`.
* `KeepsBest`: `Spec => ResultKeepsBest`, since the merged record (`Merged`) is
  in every column that was read at least as good as the row it replaces, and no
  other row is touched.
* `PbOfThisScreen`: `Spec => PbAgainstEntry`. The answer of `is_pb` looks at the
  snapshot alone, so the invariant `SnapshotOfEntry` ties that to the history:
  there is a snapshot exactly while the result screen has shown a pattern, and
  it holds the rate the store answered for that pattern then. `SnapshotKept`
  proves it inductive, over failed reads too.
* `NeverStaleUnnoticed`: `FloorSpec => []StaleIsFlagged`, for any number of
  patterns, buckets and accounts. `StaleIsFlagged` is inductive given the types.
  The core is one lemma about a step that leaves the summaries alone
  (`ChangedKeyIsFlagged`): if every rate it changes is flagged and no flag is
  lost, nothing becomes stale unnoticed. Each store operation is shown to be
  such a step; recomputation and the song-DB swap are their own cases.

`DetectionProofs`, for any songs, scenes, charts and rates and any length of the
history and of the rate window:

* `TypeCorrect`, `RoisFollow` (`RoisFollowScene`) and `IngameSilences`
  (`SilentAfterIngame`). `SilentAfterIngame` is not inductive: `Silenced` says
  why the hysteresis cannot wake up alone (it is inactive and only its oldest
  samples may be hits), `PendingSeen` why one more reading of a result screen
  cannot confirm a screen named before the gameplay. `Invariance` proves `Sound`,
  their conjunction.
* `ResultIsOfThisPlay` (`ResultOfThisPlay`) and `ResultIsSeenTwice`
  (`ResultSeenTwice`), assuming `MinPlay >= 3`: a play lasts for at least three
  inspections of the scene. An inspection is due at most 2 s after the last
  and a song lasts for more than a minute, so this holds of every play that reaches a result.
  The assumption is used (with `MinPlay` 1 TLC finds `ResultSeenTwice`
  violated) but may not be the weakest: at 2 the small instance still passes.
  The invariant `ResultSound` says that a play ages the hysteresis buffer until
  nothing of a selection is left (`PlayFades`), that it stays so until a result
  screen was read twice (`UnconfirmedIsDark`), and that with the regions of a
  result screen every stored rate and song is of that screen (`RatesOfResult`,
  `ResultOfGame`). `MedianRead` shows that the median of a window of readings is
  one of them; it needs the least of a set of naturals, which the library's
  theorem on well-founded orders gives without an operator parameter.

`SseHubProofs`, for any clients, scenes and songs, any number of events and any
capacities. `Invariance` proves `Inv`: events enter the log in the order of their
numbers (`Numbered`); a stream waits for admission once (`Waiting`); what a
client read and what waits in its queue are a stretch of the log, up to its end
while the hub sends to it (`Streams`); the compare-and-publish keys are what the
GUI handled last (`Keys`); and who applies what is still in the channel, or in
channel and queue, knows the same (`ChannelTells`, `ClientsTold`). From it:

* `TypeCorrect`, and `QuietIsCurrent`: `Spec => []QuietClientIsCurrent`.
* `StreamImplemented`: `Spec => ImplementsStream`, the refinement of
  `EventStream`. The hub's initial states are the stream's, each step is a step
  of the stream (a broadcast, a join, a read, an end) or a stutter.

`CaptureWorkerProofs`, for any windows, sizes and number of starts of the X
server, on both platforms. `Invariance` proves `Sound`, from which follow

* `TypeCorrect`; `OneTarget` (`HistoryOfOneTarget`), since frames in the pipeline
  are of the worker's snapshot (`HistoryOfSnapshot`) and the engine is bound to
  that window or to none (`Bound`);
* `NoDeadResult` (`ShownStateIsLive`), since in a streak of failures what was sent
  last is no frame (`FailureTold`);
* `TargetIsCurrent` (`ShownTargetIsCurrent`), since a capture in such a streak
  starts with the GUI up to date (`SentIsCurrent`): it will not be told again;
* `StopsForGood` (`StopsOnlyForGood`), since an engine that failed for want of an
  X server is never used (`Usable`): the tracker is asked first, and its
  connection, older than that engine, is dead too. So an engine in use that was
  fatal from the start found the tracker's own server incapable
  (`FoundIncapable`).

`IpcManagerProofs`, for any ports, filters and positions:

* `TypeCorrect`, and `EndpointServed`: `Spec => []EndpointIsServed`. The property
  speaks of the manager asleep only; the invariant `Served` says what slot and
  file hold at each step in between, the file as far as the last write succeeded.

`VArchiveSyncProofs`, for any songs, accounts, jobs and rates:

* `TypeCorrect`.
* `NeverAhead`: `Spec => []TableNeverAhead`. Needs `AllBehind`: every answer on
  its way in any job is behind the server of the account it was asked for, not
  only the table.
* `NothingLeft`: `Spec => []FetchesLeaveNothing`. Needs `Sound`, which ties the
  mark a running fetch read to the rows it may still merge.
* `RankingKept`: `OnlyFullAnswersErase`, an action property, from the types.

`LayerOverlayProofs`, for any outputs, sizes, snapshots and number of changes:

* `TypeCorrect`.
* `SurfaceAsAsked`: `Spec => []SurfaceIsAsAsked`, and `BufferAfterConfigure`:
  `Spec => []BufferOnlyAfterConfigure`. The code updates its surface only when
  it believes something changed, so the invariant `Sound` says what it believes:
  the remembered passthrough flag and area are those of the surface and of the
  output (`Placed`, `Measured`), the flag `configured` is true of this surface
  (`Backed`), and targets are outputs that were listed and do not come back
  (`Known`: otherwise a returning output would make the area stale). `Sized`
  covers the size kept while hidden.

Only model-checked: the liveness properties `SettledIsSent`,
`ShutdownEndsWriters`, `Recovers`, `SettingsTakeEffect`, `ServedDespiteConflict`
and `LatestIsShown`. Liveness under fairness, ENABLED and induction over data
are out of the prover's reach.

## Plan

Done, in this order: AutoUpload, Records with FloorCache and RuntimeHub,
Hysteresis with Detection, EventStream with SseHub, CaptureWorker, VArchiveSync,
Settings with IpcManager, LayerOverlay: each with its run and its proofs.

Next, modules:

1. `StartupCache`: the community data client and the cache downloader, with a
   crash between removing the old file and renaming the new one, and metadata
   that names a file of which only part was written; a start without network
   replaces old pattern metadata by an empty list.
2. Dragging in `LayerOverlay`: a drag that a hidden snapshot or a new output
   ends leaves the panel at a place that is not saved.
3. Frame times in `Detection` (rate cache with its 0.2 s wait), if the state
   space allows it: no unplayed reading from a wait alone.
4. The candidate list of the sync window in `VArchiveSync`, which outlives a
   switch of the account.

Next, theorems: which steps each liveness property waits for, as far as it is a
matter of safety (that a step which is enabled stays so until it is taken, for
`SettingsTakeEffect` and `LatestIsShown`); `ResultIsOfThisPlay` for plays of two
inspections; and the safety of the modules above as they are added.
