# Musicweb: specifications, checks and proofs

Musicweb is a household music server: a FastAPI process that indexes a library
on disk into SQLite, encodes tracks on demand with ffmpeg, runs one radio
station for everybody, and serves a web client that can also play offline and
through a companion process that owns an audio device. This directory holds TLA+
modules of the parts whose correctness depends on the order in which things
happen, the TLC configurations that check them, and theorems proved with TLAPS.
Line numbers and names refer to the files under `src/`.

Contents: [the system](#the-system), [what is modelled](#what-is-modelled),
[Transcoder](#transcoder), [Radio](#radio), [Library index](#library-index),
[Library jobs](#library-jobs), [Companion](#companion),
[Optical drive](#optical-drive), [Downloads](#downloads), [Playback](#playback),
[the runs](#the-runs), [the proofs](#the-proofs),
[disagreements with the documentation](#disagreements-with-the-documentation),
[what is not modelled](#what-is-not-modelled), [plan](#plan),
[how to run](#how-to-run).

## The system

One server process has an event loop (HTTP, WebSockets, the radio worker task,
the idle sweep), a thread pool in which blocking request handlers run, one
transcode worker thread, at most one library-job thread, and an accept thread
for the control socket that the CLI uses. They share `library.db`, the
transcode cache directory and three objects with a lock each. The browser client
keeps its own state in IndexedDB and OPFS. The companion is a separate process
beside the browser.

| Component | State it keeps | Operations | Talks to | What is hard | What makes it correct |
|---|---|---|---|---|---|
| Transcoder `transcode/worker.py` | `_jobs`, four deques, `_current`, `_closed`; cache files | `ensure_stream`, `prepare`, `drop_pending_prewarm`, `forget_paths`, `clear_cache`, `shutdown`; worker loop | called by media routes, radio prepare, library jobs, idle sweep | three threads around one condition variable; ffmpeg outside the lock; preemption, promotion and eviction of one job at once | the deques, `_jobs` and `_current` agree; only whole files are served; no waiter is forgotten |
| Stream idle gate `transcode/idle.py`, `cache.py` | in-flight count, last activity, gate | enter/leave around each request, sweep, forget | Transcoder, media routes | a request between the idle test and the sweep; the gate held during a blocking eviction | no sweep under a request; requests go on |
| Radio picker `radio/picker.py` | a batch being built | `pick_batch` | called by the station | bans loosen while probes fail | one performer per batch, empty only if nothing is playable |
| Radio station `radio/station.py`, `db/repositories/radio.py` | current id, place, batches, banlist, skip ids, catalog; rows; snapshot | catch-up, tick, skip, play, pick, reset, persist | worker task, control socket, routes, Transcoder (prewarm, retained ids) | two writers, commits that raise, restarts | id and place agree, rows equal memory, the clock reaches now |
| Radio listeners `radio/prepare.py`, `radio/tuners.py`, `routes/radio.py` | tuner registry, last prepared key | tune, leave, broadcast, prepare | station, Transcoder, WebSockets | broadcasts that overtake each other; an enqueue that raises | newest snapshot wins |
| Library index `scan/*` | `tracks` and albums; `seen_paths`, the batch | walk, batch, merge stub, hide missing | runs as a library job; disk; CD confirm; playlists | disk changes in mid-scan, cancel, commit that raises, identity across moves | unique columns, ids kept, index equals disk after a quiet scan |
| Scan enrichment `scan/enrichment.py`, `artist_images/*`, `lyrics/*` | portraits on disk, covers, lyrics and images per row | a lookup per item, a commit every few | job cancel event; providers on the network | portraits and covers are on disk before their rows are committed; cancel, failure, crash and a request for a cover in between | rows and disk agree; good data is not lost to a bad answer |
| Library jobs `jobs/runner.py`, `runtime/run_job.py`, `scan/jobs.py` | `_running`, cancel event, the status row | start, cancel, phases, end; the CLI polls the row | scan, enrichment, radio's scan mark | the job writes the row without the lock that a cancel holds; a process that dies | the row tells the job; a cancel hits its job; a command returns |
| CD identify `cd/*` | disc rows, stub rows | lookup, confirm | library rows | a write during a scan | a hole per unripped place |
| Playlists | ordered track ids | replace, reorder | foreign key on tracks | ids that vanish | ids stay |
| Control socket `control/*` | endpoint file, token | one request at a time | station, job runner | a command during catch-up | refused until the station is live |
| Server lifespan `main.py` | start and stop order | startup, shutdown | all of the above | one step of shutdown failing | everything is stopped |
| Data-dir lock and maintenance `runtime/*` | an OS file lock | acquire, probe, reset of a busy row | library jobs | a command that finds the lock free and resets rows later | one process; no running row is reset |
| Companion hub `exclusive/session.py` | clients, controller, reclaim id, device | hello, claim, commands, TTL release, reclaim | mpv player thread, sockets | commands awaiting a thread while the claim is lost | only the live controller drives the device |
| Companion player, blobs `exclusive/*` | mpv child, partial blobs | | hub | early close of an upload | a free device is released; only whole blobs are promoted |
| Optical drive `exclusive/optical_session.py`, `cdda_stream.py` | watched drive, last signature, tree of the volume, live reader and its ring | watch, read, eject, poll, Range requests | hub, `diskutil`, libcdio, client | threads that outlive the loop that began them; reads that raise | the client is shown the drive as it is; the ring is the track |
| Download queue `frontend/src/downloads/*` | IndexedDB rows, active ids, abort controllers | enqueue, pump, run, pause, resume, cancel, recover | HTTP, OPFS, connectivity | read–await–write of rows | one job per row, cap kept, every pending row is run |
| Connectivity `connectivity.ts` | reachability, backoff | probe, mark | downloads, stores | probe in flight | recovers |
| Playback `frontend/src/playback/*`, `stores/player.ts` | generations, rejoin clock, pause mark, two sinks | play, skip, pause, load, fall back, rejoin | server, downloads, companion | results of overtaken loads; a pause against a timer | what was asked for last sounds; a pause stays; a spinner has a cause |
| Radio client, CD client | load generations | tune in, identify | server, player | as playback | as playback |
| Companion client | socket, pending requests | connect, send | hub | reconnect | every request is settled |
| Diagnostics, lyrics, images, routes, CLI, user interface | little or none | | | | plain conversions and I/O |

`PROJECT.json` lists every component with its files and whether it is modelled,
and under `hazards` the places in the code that a test would hardly reach, with
the properties that cover them.

## What is modelled

| Module | Models | Checked by | Proved in |
|---|---|---|---|
| `Transcoder` | the on-demand encoder with its callers, ffmpeg, eviction and shutdown | `MCTranscoder*.cfg` | `TranscoderProofs` |
| `RadioPick` | what a call of `pick_batch` may return, without the draw | through the two below | `RadioPickerProofs` |
| `RadioPicker` | the drawing loop of `pick_batch`; implements `RadioPick` | `MCRadioPicker.cfg` | `RadioPickerProofs` |
| `RadioStation` | the station: worker, commands, rows, restarts, world; picks by `RadioPick` | `MCRadioStation*.cfg` | `RadioStationProofs` |
| `LibraryIndex` | the index phase of a scan against a changing disk, CD confirm and playlists | `MCLibraryIndex.cfg` | `LibraryIndexProofs` |
| `Enrichment` | the batch of an enrichment phase: covers, portraits and lyrics; the cover a request fills in | through `LibraryJobs` | `LibraryJobsProofs` |
| `LibraryJobs` | the runner of library jobs, its callers, its row and the process around it; extends `Enrichment` | `MCLibraryJobs.cfg` | `LibraryJobsProofs` |
| `ExclusiveHub` | the companion's claim on the output device, the commands and the mpv child | `MCExclusiveHub.cfg` | `CompanionProofs` |
| `OpticalSession` | the watch of an optical drive, its commands and threads | `MCOpticalSession.cfg` | `CompanionProofs` |
| `CddaReader` | the reader of a track and its ring, under Range requests | `MCCddaReader.cfg` | `CompanionProofs` |
| `DownloadFile` | partial, copy and final file of one track in the browser's file system | through `DownloadQueue` | `DownloadQueueProofs` |
| `DownloadQueue` | the download queue: pump, jobs, commands, files and catalog; extends `DownloadFile` | `MCDownloadQueue.cfg` | `DownloadQueueProofs` |
| `LatestWins` | what a player promises: what was asked for last is what begins to sound | implemented by `PlayerLoad` | `PlayerLoadProofs` |
| `PlayerLoad` | loads, rejoin, pause and outputs of the on-demand player | `MCPlayerLoad.cfg` | `PlayerLoadProofs` |

Definitions whose comment starts with *Mutant* are not part of the model: each
is a plausible mistake in the code, and putting it in place of the definition
after it makes TLC find one of the properties violated. `PROJECT.json` says which.

Every model of a part of the system has a type invariant `TypeOK` and an inductive
invariant `IInv`, whose named parts stand at the end of the module under "What these
rest on" ("When it does" in `CddaReader`), so that TLC can check them: each was run as
an invariant of the module's configuration before it was proved. Neither is listed in
the configurations, which name what the system is asked.

Some promises of the code hold only until two of its functions have crossed at
an await it does not guard. The modules of those parts have a *ghost* variable
that records the crossing (`raced` in `DownloadQueue` and `PlayerLoad`, `crossed`
in `LibraryJobs`), their properties are stated up to it, and a state constraint
`Apart` lets TLC stop there. What happens after it is told
[below](#disagreements-with-the-documentation), where a ghost becomes true is
written at the action that sets it, and everything the code does guard is
checked on both sides of every await.

## Transcoder

### State and actions

| Code | Model |
|---|---|
| `_closed`, progress of `shutdown()` | `closed`, `stage` |
| `_jobs` | `table` (keys), `job` (the fields urgent, class, cancel, purged) |
| `_urgent`, `_radio`, `_download`, `_playlist` | `queue[t]`, head first |
| `_current` | `current` |
| place of the worker thread | `wpc` |
| `Popen` and `job.proc` | `proc`: `spawned` until the handle is stored, then `running`, `killed`, `ok`, `bad` |
| `.partial` and final file of a key | `partial`, `store` |
| threads in `ensure_stream` / `prepare` | `caller`: look at the cache, enqueue, wait, serve |
| one `forget_paths` / `clear_cache` | `evict` |

The cache key is a hash of path and tag; the model takes the pair. Every
critical section under `_queue_cond` is one action, and everything outside the
lock is a step of its own: the first look at the cache, `popen`, the store of
the handle, the end of ffmpeg, the checks after `communicate()`, the rename, the
unlinks of an eviction, the three stages of shutdown. `PromoteToUrgent`,
`PromotePrewarmClass`, `EnqueueUrgent`, `EnqueuePrewarm` and `EnqueueSkipped` are
the alternatives of the locked part of a call. The worker's last locked section
and the `done.set()` after it are one step, because only the job's waiters can
tell them apart. The command line of ffmpeg and its log are left out; ffmpeg may
end well or badly at any time.

### Properties

`JobsPlacedOnce`, `PreemptionPending`, `WaiterHasJob`, `WholeFilesOnly` and
`PurgedIsWaitedFor` are the safety properties; each relates several variables
that different threads write. `PlayAnswered`, `EvictionEnds` and
`ShutdownReleases` are the liveness properties.

### Bounds and fairness

Safety: two paths, one profile, two callers, a prewarm cap of one, three
requests. That is enough for a play and two prewarms to race each other, an
eviction and a shutdown, for a promotion of a queued job and of a running one,
and for the cap to bite. Deadlock is checked: `Rest` is the only state in which
the system may stop for good.

Liveness: one caller instead of two, because the interesting sequence (a
prewarm, a play that preempts it, a play that joins the job asked to stop) needs
requests one after the other and TLC checks liveness without symmetry. Fairness
is assumed of the worker thread, of ffmpeg (it ends), of every thread inside an
operation, and of a shutdown that has begun. Nothing is assumed to ask, evict or
shut down. `MaxAsk` matters here: the urgent deque is taken newest first, so an
unending stream of plays starves an older one; `PlayAnswered` is therefore a
statement about requests that stop coming. In this run the system may stop once
it is down, so deadlock is left to the safety run.

## Radio

### Picker

`RadioPick` states which batches `pick_batch` may return: each track is drawn at
the first loosening of the banlist that leaves a playable one, performers do not
repeat except Various Artists, and a short batch means nothing is left without
any ban. `RadioPicker` is the loop: `Begin`, `Take`, `Refuse`, `Loosen`, `Stop`
follow `_try_slot` and the loosening of `pick_batch`; the random choice of
performer, album and track is a choice of any open track. `ReturnsAPick` says
that what the loop returns is in `RadioPick!IsPick`. A slot gives up after
`RADIO_PICK_ATTEMPTS` refused draws, so this needs `Enough`: fewer unreadable files
in the catalog than attempts, or as many attempts as tracks. The configuration
gives as many draws as there are tracks; the theorem has `Enough` as its condition.
The loop may be given any banlist (the constant `Banlist`): a debug play appends to the
last banned batch, so one may be longer than a batch. Arguments that the code treats
alike are taken once: ids to skip outside the catalog and files of skipped tracks, and,
by the configuration, one order of a banned batch, which is read as a set, and one
banlist for all full ones that end alike, of which only the last batch counts.

### Station

`st` is the record of the station's fields behind its lock, `disk` the rows,
`snap` the stashed face, `live` says that catch-up is over. A tick or a debug
command holds the lock from the first read to the stash, so it is one action.
Catch-up holds it over as many tracks as have passed: `CatchupBegin`,
`CatchupStep` per track and `CatchupLand`. `Read` is the WebSocket that reads the
face on the event loop meanwhile. Every operation is written as the set of
stations it may leave, because the picker draws; `Picks` of `RadioPick` is used
in place of the loop.

A track is `good`, `bad` (the probe refuses it) or `gone` (row or path missing).
The catalog holds every track that is present; which rows of the library are
eligible is data the properties do not tell apart. Commits may raise
(`MaxFaults`): the session is rolled back, the fields are not. A raising commit
in the worker ends its task (`WorkerRaises`), as in `run_radio_worker`. `Crash`
loses memory, `Shutdown` writes the rows first, `Restart` begins a new process.

Branches that no state reaches are left out: the second trim of the banlist in
`_persist` and `_ensure_on_banlist`, `_replace_current_with` without a batch,
`_step` without a start time.

Bounds: three tracks of three performers, batches of two, a banlist of two, time
up to two track lengths, four batch numbers, two debug commands, one change of a
file, one stop or crash, one failed commit. A debug command after another, after
a failed commit, and before a restart all occur. The live run has two tracks, a
scan, a change and a stop, no commands and no faults; its batch numbers are
never used up. Fairness is assumed of the worker task only: the event loop keeps
scheduling it. The behaviours end when the bounds are used up, so deadlock is
not checked.

## Library index

### State and actions

| Code | Model |
|---|---|
| files under the library root | `disk`: path to content and place, or none |
| `tracks` as committed, and as the open transaction sees it | `rows`, `txn` |
| playlist rows | `refs`, the ids they hold |
| `index_phase.py`, `batch.py` locals | `todo`, `listed`, `batch`, `work`, `cur`, `metas`, `slots`, `skipped`, `seen` |
| the runner's cancel event | `cancel` |

A file is its fingerprint and the place its tags give it on an album. Two files
of equal size and mtime are equal files, which is what a quick scan believes.
`is_missing` holds exactly when the path is null, so the model keeps the path
only. A stub's id is made from its place, so it is the place. The disc has one
release and one medium; equality of places stands for the folder's slot key and
for the place on an album.

`StartScan`, `ListFolder`, `Visit`, `Flush`, `StatFails`, `Examine`, `FingerprintFails`,
`Upsert`, `MergeRefused`, `CommitBatch`, `WalkDone`, `Canceled`, `Finalize` and
`ScanRaises` are the scan; `RequestCancel`, `DiskChanges`, `ConfirmReads`,
`ConfirmWrites` and `PutPlaylist` the others. The stat and the tags of a file are read
in one step and its fingerprint in a later one, between which the disk may change. A
batch is one transaction; a CD confirm and a playlist write wait for it, as SQLite makes
them. A confirm reads the rows of its places (`ConfirmReads`: those that are not
present, or all of a later disc of the release) and writes after that wait
(`ConfirmWrites`) the columns that differ from what it read, whatever a scan has
committed in between. Where the boundary of a batch falls (100 files in the code) is
left open. A failed delete by foreign key rolls the batch back and fails the job
(`MergeRefused`).

Left out: FTS rows, recounts, covers, Various Artists remount, and the
enrichment phases that follow in `run_scan`.

`past` is history for the properties: whether the disk stood still since the scan
began, whether a quick scan may trust the rows, which files were indexed and untouched,
and whether the rows are the disk as the last scan left it.

### Bounds

Two paths of one folder, two contents (one of them lossy), one place on the
identified album and one elsewhere, two scans, two changes of the disk, two
other events (confirm, playlist, cancel, failure). This is enough to swap, copy,
replace and rename over; to cancel or fail between any two steps; to confirm a
disc before and after a rip. A second folder would only separate the slot
caches. Behaviours end when the bounds are used up, so deadlock is not checked.

## Library jobs

### State and actions

| Code | Model |
|---|---|
| the holder of the data-dir lock | `proc`: `serve` booting, serving or stopping, or a command that runs its own job |
| `_running`, the event `_cancel`, `_lock` held between two steps of `request_cancel` | `running`, `cancel`, `canceler` |
| the job's thread and the phases it has left | `job` |
| `ScanState.status` | `status` |
| `run_library_job` of the command line | `cli` |
| another command between its look at the lock and its migration | `probe` |
| the batch of a phase, its item and how far it is | `batch` |
| what the batch's session sees, and what is committed | `session`, `row` |
| portraits and covers under `covers/` | `disk` |
| the has_cover that a request is about to commit | `fill` |
| the start request of a command, and its answer | `call` |

`Launch` is `_begin` under the lock; it is reached by HTTP, the boot scan, the control
socket and a command that holds the lock itself. `RequestCancel` and `CommitCancel` are
the two halves of `request_cancel`, between which the job's thread may end and write the
row, as it takes no lock for that. A job is a list of phases (`PhasesOf`); index and
finalize are one step here, they are `LibraryIndex`. Covers, portraits and lyrics go
item by item: `NextItem`, the stages of a fetch, `Settle` with a commit every
`CommitEvery` items (covers are committed at the end), `FinishBatch`. A picture reaches
the disk at once, its row with the next commit; an exception (`RaiseBatch`) and the end
of the process (`EndAll`) roll the session back. `OpenCover` and `AskCover` are the
extraction of a cover. `OpenPortrait`, `WalkToRoot`, `AskProvider` and `MissPortrait`
are the cascade of a portrait: the deletion of the stored one when forced, a file beside
the music, the providers in order, the conclusion; the process may go between any two of
them. `OpenLyrics` and `AskLyrics` are that of lyrics. A request for a cover that is not
there looks beside the audio and writes it at any moment (`FillCover`), and commits what
it read later, or fails to (`CommitFill`); the files stay.

A command goes through `CliHealth`, then asks the server (`CliAsk`, `HandleStart`,
`CliAnswered`, `CliPoll`) or takes the lock and runs its job (`CliLock`,
`CliReturn`). It may be interrupted or run out of time (`CliGivesUp`,
`CliInterrupt`), and the server may go before it answers (`Hangup`).

`Crash` loses the process at any moment, `Stop` and `Exit` are the lifespan's
end (which waits for a job for thirty seconds and then leaves it). `Serve` and a
local command reset a busy row when they open the database.

Abstracted: an artist's row is whether it has an image and whether it is in its
cool-down; a track's lyrics are their status and whether the row is of the
current tags; an album's is whether it has a cover. Left out: progress figures,
uploads of portraits, which image is chosen, and the remount of Various Artists,
which gives an album another id and moves its files with it.

### Properties and bounds

`RowTellsTheJob`: while a process lives the row is busy exactly while its job runs.
`CancelHitsItsJob`: one event serves every job, yet a job is cut short only by a cancel
that was accepted for it. `ArtMatchesDisk`: what a fetch concluded about an artist or an
album, image or none, is true of the files. `GoodLyricsKept`: good lyrics are replaced
by good ones or by LRCLIB's word that the retagged track has none, never because a
request failed. `CliReturns`: a command that waits for its job returns.

Two ghosts say where these stop. `crossed` is set when a cancel that has read a
running row commits after the job's end: nothing is claimed of the row and of
the command that polls it from then on. `torn` holds the artists and albums whose
files and row an exception, a crash or the late commit of a request has parted:
nothing is claimed of these until the next fetch of them concludes. The hazards of the
read-then-commit cancel (`runner.py:149`) and of a crash between a file and its commit
(`enrichment.py:54`) are therefore shown by the model and guarded by no property;
a cancel and a provider that fails are.

One album, one artist, one track, two providers, a commit every second item, two
jobs, two processes, one failure: every phase meets a cancel, an exception and a
crash before, inside and after it, and a second job meets what the first one left.
Albums share nothing with artists and tracks but the job, so a behaviour fetches the
one or the others (`OneArt`). A commit that falls inside a batch, further failures
and everything else the bounds cut off is left to the proofs, which have none of
these constraints. Fairness is assumed of the job's
thread, of a cancel that has read the row, of the command, of the boot and of the
exit; nobody has to start or cancel anything. `LyricsFetch` is true: without the
network a retagged track whose file has no lyrics is marked as skipped over good
ones, see below.

## Companion

### State and actions

| Code | Model |
|---|---|
| `_clients`, the role of each current `ClientSession` | `clients`, `role` |
| `_controller_id`, `_reclaim_id`, `_device_id`, `_rearm_device_id` | `controller`, `reclaim`, `device`, `rearm` |
| the hub's `asyncio.Lock`, while a release is awaited under it | `lock` |
| a socket, its session and the command it is handling | `conn` |
| where the task of a socket, and the time-to-live task, stands | `pc` |
| the child (`_proc`, `_sock`), `_device`, what mpv holds, `_url`, the tenure of `volume.py` | `mpv` |

A socket's task takes one message after the other and the disconnect last, also
messages that were sent before the socket was replaced. A command is a walk:
`Obey` under the lock; `Start`, `Connect` and `Run` in its thread; `After`
(`_with_live`), then `Write`, or `Ask` and `Undo` when the claim was lost. `Run`
is one body under the player's lock. A release (`Disconnect` or `Expire`, then
`Release`, `Quit`, `Shut`, `Reset`) keeps the hub's lock from its first step to
its last, as `_ensure_no_controller_exclusive` is awaited under it; the same last
three steps follow a `release_device` or `stop` without the lock. `Reclaim` is
any message of the session that lost its claim to the time to live. `SocketCloses`,
`ChildDies` and `AudioReconfig` are the world: mpv may fail to start, fail to
answer and die at any time. A start that connects after its child was shut down
keeps its socket (child `late`, `mpv_player.py:437`); while it does, no other child
is started.

`wrote` is the set of devices whose hardware volume is not the user's. It stands
for the tenure of `VolumeTenure`, which always names the device of the player.

Abstracted: time (the controller may be found silent at any moment that no stream is
loaded); the order in which waiters get the hub's lock (any); sends (they never
block); message kinds without an effect on this state (heartbeat, list, pause,
resume, seek, optical, blobs). Assumed: a hardware volume that can be written can be
read and restored. Left out: the moment between `start()`'s test for a child and its
`popen`, in which the command of a replaced socket and one of its successor could
start two; the stub for systems without exclusive output; the companion's exit. The
branch of `_check_ttl` for a controller without a socket is dead code, as
`OneController` shows.

### Properties and bounds

`OneController`: the controller is one connected session, its current socket has
the role and no other has, and who may reclaim is connected while nobody
controls. `FreeIsReleased`: once nobody controls, no command that takes the
device is in flight and no release is due, nothing is held and nothing plays. It
is what `_should_undo_player` is for. `VolumeRestored`: no device other than the
player's has a changed volume, and only that one is held.

Two tabs, two sockets that are used again after they have gone, two devices.
That is enough for a tab to replace its own socket while the other waits, to
lose and take back the claim while a command is in its thread, and for a
shutdown of the child to meet a start. Sessions, sockets and devices are
interchangeable, so the run uses symmetry. Nothing bounds the length of a
behaviour, and deadlock is checked. The proofs lift the bounds.

## Optical drive

### The watch

| Code | Model |
|---|---|
| `_watch_device`, `_last_device`, `_data_live`, `_cdrom` | `watched`, `lastDrive`, `dataLive`, `cdrom` |
| `last_sig` of the loop, and the index it has yet to send | `sig`, `owed` |
| calls in `asyncio.to_thread` | `thread`: the loop's, the command's, and one whose loop was canceled |
| the port's `_last`, the live reader | `last`, `reader` |
| what the client last received | `said`, `index` |
| the world | `disc`, `mounted` |

`Look` begins a round, a thread reads (`ReadToc`, `Classify`, `Walk` for an unknown
disc; `Resolve`, `Poll` for a known data disc), and `Publish` and `SendIndex` tell the
client what changed. A command (`WatchOn`, `WatchOff`, `Eject`, `Refresh`, `Read`) may
fall between any two of these. Canceling a loop does not stop its thread: it becomes the
orphan, goes on writing `_cdrom`, and its result is dropped. A call may fail in each way
the code tells apart: a read raises (`ReadToc`, `Poll`), a classification raises (the
loop starts over, `LoopForgets`; a command's read answers that the drive is empty), the
device does not open and the port says there is no disc (`optical_cdio.py:386`),
`diskutil` times out, misses the mount, or returns an error, which is taken for a volume
that has gone (`optical_volume.py:106`); an eject fails. `Deny` marks with the ghost
`denied` the answers that hide a disc which is there. `read_optical`, which the hub
serves, is modelled although the web client does not send it today.

`ClientSees`: a drive that stays watched is in the end shown as it is, disc and
tree. It is stated up to the ghost `hand`, which says who wrote last: a command
may answer with an older reading than the loop's, and an orphan may write the
tree between a media and its index, and the loop does not repeat what it has said.
`KeepsFace`: a disc that stays in the drive, its volume mounted, is reported gone only
by an answer whose own call was denied. So no read that raises in the loop, timeout,
orphan, canceled watch or older answer does it, in any order with commands and
ejects. The sentence of `cd-playback.md:21`, that a failed read never means eject, is
stronger and false of this code: it is `FailedReadKeeps`, which TLC refutes.

One drive, two audio and two data discs, three commands, three moves of a disc or of its
mount, two failed calls, so that one failure meets the recovery from another. Discs are
not exchanged between two polls of a data disc (`Unhurried`: a tray takes longer than a
poll), and mounts of audio discs are not modelled. Fairness is assumed of the loop, of a
command under way and of the threads. With two drives both properties fail, see below.

### The reader

`CddaReader` is the generator `iter_span` of each Range request over one ring and
one `ParanoiaSource`. `Seek` is a request that overtakes another; `Prime` to
`PrimeStep` fill the ring outside the lock; `Position`, `Take` and `Keep` are
`read_sector`, whose cursor nothing guards. A read that fails yields silence and
leaves the cursor (`Failed`). `RingIsTheTrack` says that the ring holds the sectors
it claims to, or silence, and TLC refutes it with two requests.
The theorem `AloneTheRingIsTheTrack` says what it takes: that one thread at a time
fills the ring (`Alone`), and that no read fails right after a seek (`FailsInPlace`).
The code ensures neither. The second matters to one request alone: the
cursor then still names the place before the seek, so a later request for that
place reads on without one.

## Downloads

### State and actions

| Code | Model |
|---|---|
| IndexedDB store of the queue, with its unique index on the track | `queue`, `nextId` |
| ready rows of the catalog | `cat` |
| partial and final file of a track in OPFS | `file` |
| `activeIds`, the abort controllers, the cap | `activeIds`, `controllers`, `cap` |
| `userPaused`, the published connectivity | `userPaused`, `net` |
| `pumpScheduled` | `scheduled` |
| calls in progress of `pump`, `runJob`, and of the commands | `pump`, `job`, `sweep` |

The browser runs a function up to its next `await`. An action is one such stretch:
it uses the answer of the request before (kept in the record of the call), tests,
assigns, and issues the next request, which takes effect then. So a row that a
function has read may change before it writes it back, which is how this queue
works throughout. `DownloadFile` says what each call on the file does; bytes are
nothing, a prefix, the whole, or a file with a gap; a final file may also be `empty`,
created and not yet written. A writable of OPFS is a copy: closing it keeps what was
written, aborting discards it.

A job goes `JobCheck`, `JobRefreshed`, `JobResponse`, `JobBody`, `JobClosed`,
`JobPromotes`, `JobVerifies`, `JobApplies`, `JobUnwinds`; it is aborted with a
reason (`pause`, `demote`, `cancel`, `clear`), refused a range and begun anew
(416), rejected, cut off, or thrown out of by its second request. Where a file cannot
be moved, or the move throws, the promotion copies: it creates the final file, closes
the copy (`JobCopies`) and removes the partial (`JobDrops`), and what comes in between
leaves an empty file. When the outcome cannot be applied (`JobApplyThrows`), the
handler reads the row again and marks it as failed if it is still active, unless the
database fails once more (`JobCaught`). The commands are
those of the download manager, and `Recover`, `Drop`, `ProgressDue` and `Reload`
are the network, the progress timer and the page.

Left out: downloads through the companion (`executeCompanionJob`), reference
counts of albums and artists, covers, lyrics, live figures, the migration.

### Properties and bounds

`FilesHold`: what stands under a final name is the whole track, or nothing yet where a
copy was cut off, and every track of the catalog has its whole file. `PendingDrains`:
once neither user nor network holds the queue, every pending row is taken. Both are
stated up to the ghost `raced` (a row or a file was written over what another had made
of it), `PendingDrains` also up to `refused` (the unique index refused the pump's write,
whose exception leaves its id in `activeIds`: that leak is shown by the model and no
property is claimed past it).

Two tracks, cap one or two, two jobs, one command at a time, two events (a
command, a failure or a timer), and one call of `pump` at a time. `schedulePump`
allows two. The run has one pump, so that two events and liveness fit; the
theorem has any number of each. Fairness is assumed of every
function that has begun: the event loop runs it, the database and the network
answer or fail.

## Playback

### State and actions

| Code | Model |
|---|---|
| the owner of the speakers, the row, `playSource`, `loadPending`, `wantPaused` | `session`, `index`, `source`, `pending`, `wantPaused` |
| `queueJoin`: hold, rejoin clock, pause mark | `join` |
| calls of `playIndex` in flight, with `still(gen)` | `load`, with `cur` |
| active sink, the blob it opens | `active`, `url` |
| the audio element | `htm` |
| the companion as the page believes it, as it is, and the events between | `comp`, `dev`, `chan` |
| the link to the companion, `exclusiveAudio.enabled`, the network | `device`, `exclusive`, `online` |
| rows with a playable download | `local` |

A load waits three times: for the source (`Resolve`), for the companion's device
(`GateOpens`, `GateShuts`), for the sink (`Loaded`, `NotLoaded`). In place of its
number it keeps whether it is of the current generation; `Overtaken` is the return
of one that is not. `Fails` is the ladder after a failed load: the stream instead
of a broken download, the rejoin clock, or giving up. `HoldElapses` and
`TimerFires` are the clock; `HtmlPauseTold` and `Delivered` the events of the
sinks; pausing by hand, by headset, by an interruption and by the end of the
queue are actions of their own, as are the loss and return of server, device and
link, a tab that takes the speakers, and the setting for exclusive output.

Left out: positions and the resume slot, shuffle, repeat-one, the preparation of
the next row. `ServerBack` (`onConnectivityRecovered`) has no disjunct for `healOffline`
(`player.ts:599`): it needs a row held as `offline_no_local`, which only a resolve
without `probeRemote` gives (`resolve.ts:164`), and the one caller asks for it always
(`load.ts:258`). Assumed: a rejoin timer (250 ms at least) fires after the events
that a sink had to tell.

### Properties and bounds

`LatestRowWins` is a refinement: `LatestWins` says that outputs may fall silent at
any time, and that what begins to sound is the thing asked for last, on one
output, after whatever sounded before has stopped. `PlayerLoad` implements it with
the row as the thing and the pair of sink and row as the sound. `WaitingHasCause`:
a row that shows as loading is being loaded, or the timer will load it, or an attempt
in flight will arm the timer (unless the listener `dropped` it, see below).
`PauseKept`: once the sink has told of a pause, nothing is under way that would end
in sound, until the listener asks to play, or an error or a setting restarts the
row (`nudged`). `BlobHeld`: the blob that sounds has not been revoked.

Two rows, one of them downloaded, two loads in flight, two events on their way
from the companion, four acts of the listener or faults. A load can be overtaken
by another and that by a rejoin, with a pause and a failure in between. With
`Repeat = "off"` the queue ends. The model has no fairness: its properties are
safety, and behaviours end with the bound.

## The runs

Distinct states and seconds are those of two workers on one machine.

| Run | Question | Fairness | States, time | Result |
|---|---|---|---|---|
| `transcoder_safety` | Do deques, `_jobs`, `_current`, files and waiters agree under every interleaving? | | 853 k, 24 s | holds |
| `transcoder_live` | Does a blocked play return, an eviction end, a shutdown release everybody? | threads, ffmpeg | 637 k, 131 s | holds |
| `radio_picker` | Does the loop return what `IsPick` allows, for every argument and every draw? Does it end? | the loop | 631 k, 30 s | holds |
| `radio_station` | Do place, id, rows, face and numbers agree through commands, failures and restarts? | | 899 k, 112 s | holds |
| `radio_station_live` | Does the clock come back to now, does idleness end? | the worker | 17 k, 40 s | holds |
| `library_index` | Is the index exact after a quiet scan, and safe under any other? | | 5.4 M, 71 s | holds |
| `library_jobs` | Does the row tell the job, a cancel hit it, the disk match the rows, a command return? | threads, boot, exit, command | 1.6 M, 168 s | holds |
| `hub` | Is there one controller, is an unclaimed device free, are volumes given back? | | 993 k, 15 s | holds |
| `optical` | Is the client shown what is in the drive, and a disc that stayed reported gone only by a call that failed? | loop, command, threads | 1.9 M, 118 s | holds |
| `cdda_seek` | Does the ring hold the track after a seek? | | stops at the counterexample | violated |
| `downloads` | Are files whole under any abort, and does the queue drain? | every function begun | 904 k, 152 s | holds |
| `playback` | Does what was asked for last sound, is a pause kept, has a spinner a cause? | | 1.9 M, 38 s | holds |

In each of `downloads`, `playback` and `library_jobs` the constraint `Apart` stops
the search where two functions have crossed, and the properties are stated up to
that point. Deadlock is checked where a system has no reason to stop
(`transcoder_safety`, `radio_picker`, `hub`); the other behaviours end when their
bounds are used up or when nobody asks for anything.

## The proofs

Every safety property that a run checks is proved, for every value of the constants
that the assumptions of its module allow; `KeepsFace` for one drive, which is what it
needs. So is the refinement of `LatestWins`. Each proof module has the same layers: lemmas on
the operators (deques, batches, tables), lemmas on what one kind of step does to one
part of `IInv`, one lemma per action, `Next` by cases, and the theorems at the end.
In each, `Inductive` is `Spec => []IInv` and `TypeCorrect` is `Spec => []TypeOK`; the
tables name the others.

The assumptions on constants are those that the modules state: bounds are natural
numbers, sizes and caps positive, `None` is not one of the values it is told from. No
theorem assumes fairness, symmetry or a state constraint. Where a property has a
ghost in it, the theorem has the same one. A theorem that needs more states it as its
hypothesis: `Enough` for the picker, one drive for `OneDriveKeepsFace`, `Alone` and
`FailsInPlace` for the reader.

### Transcoder

| Theorem of `TranscoderProofs` | Statement |
|---|---|
| `Placement` | `Spec => []JobsPlacedOnce` |
| `Preemption` | `Spec => []PreemptionPending` |
| `Waiters` | `Spec => []WaiterHasJob` |
| `WholeFiles` | `Spec => []WholeFilesOnly` |
| `Purges` | `Spec => []PurgedIsWaitedFor` |

None of the five properties is inductive alone. `JobsPlacedOnce` needs
`WorkerControl` (there is a current job exactly while the worker is between its
pick and its last locked section), else a completion would take a queued key out
of `_jobs`. `WaiterHasJob` needs `JobsPlacedOnce`, because a drain removes from
`_jobs` what it found in the deques. `WholeFilesOnly` needs the fact that the
rename is reached only after ffmpeg ended well. `PurgedIsWaitedFor` needs
`JobsPlacedOnce` to know that a drained job is not the running one.
`PreemptionPending` needs `JobsPlacedOnce` when the class of a queued job rises.
`CallControl` gives the key of a call in progress.

The lemmas on deques say that `Without(s, gone)` removes exactly the members of
`gone`, keeps the others once each and keeps a sequence a sequence. It is written
with `Kept` and `Cardinality` and not as `SelectSeq`, whose recursive definition the
provers cannot unfold; `KeptCounted` shows by an injection that its index is well
defined.

### Radio

| Theorem of `RadioPickerProofs` | Statement |
|---|---|
| `PerformersDiffer` | `Spec => []OnePerPerformer` |
| `LoopPicks` | `Enough /\ Spec => []ReturnsAPick` |
| `IdleMeansNothing` | `Enough /\ Spec => []EmptyMeansNothing` |
| `LoopServesStation` | under `Enough`, what the loop returns for the station's skip ids and unreadable files is in the `Picks` the station draws from |
| `LoopShrinks` | `Spec => EveryStepShrinks` |
| `BudgetIsFinite` | `Spec => []Budget` |

`PoolControl` says what the working copy and the graph of a slot are in terms of the
arguments and of what was taken and refused, which turns the loop's state into the
sets `RadioPick` speaks of. `DrawnControl` says that every track was open when it was
drawn, `LooseControl` that the banlist is loosened, and the end come to, only when
nothing is left. The last is what `Enough` is for: `TriesControl` counts the draws of
a slot against the refused files, or against the tracks still to draw, so a slot
never runs out of attempts while a track is left.

`LoopServesStation` is the step from the loop to the station, which draws from `Picks`
with ids and files the loop never sees: `PickedAmong` shows that they make no
difference. `LoopShrinks` and `BudgetIsFinite` are the safety half of `Terminates`: each
step leaves fewer slots, or as many and fewer loosenings, or as many of both and fewer
draws, and these are natural numbers. That a loop which is not done can take a step,
and does, is left to the run.

| Theorem of `RadioStationProofs` | Statement |
|---|---|
| `PlaceIsKept` | `Spec => []PlaceKept` |
| `RetainsAll` | `Spec => []RetainsWhatPlays` |
| `StartIsPast` | `Spec => []StartedInThePast` |
| `RowsAgree` | `Spec => []RowsAreTheStation` |
| `FaceAgrees` | `Spec => []FaceIsTheStation` |
| `NextIsAhead` | `Spec => []NumbersAhead` |

An operation of the station is a set of stations it may leave, so most of the proof is
about records: a station is `Sound` when it is typed, placed and its numbers are ahead,
and every operation, from `_append_batch` to a debug play, leaves sound stations from
sound ones. `RowsPlaced` says the same of the rows, as far as a restart needs it (the
current id stands in its batch, at whatever place); `RowsAreLoaded` carries the rows
through a catch-up that has changed nothing yet; `WorkerControl` ties `live` to the
worker. `RetainsWhatPlays` follows from `PlaceKept`: the first place of the id is
never after the clock's. That `_pick` skips what the probe refuses plays no part in
these theorems, only that a batch is a sequence of tracks.

### Library

| Theorem of `LibraryIndexProofs` | Statement |
|---|---|
| `ColumnsStayUnique` | `Spec => []UniqueColumns` |
| `IdsAreKept` | `Spec => []IdsKept` |
| `ScanIsTruth` | `Spec => []IndexIsTruth` |
| `SteadyStayListed` | `Spec => []StaysListed` |

`WalkControl`: a path is met once in a scan, because its folder to list, the listing,
the batch and what was seen do not overlap. `TableControl`: committed rows and those of
the open transaction have unique columns and ids that are those of their content;
an upsert or a merge keeps that on the table it works on, a commit and a rollback
move between the two. For `StaysListed`, `SteadyControl` follows a file that stays
where it is: it is lossless, so the scan never skips it for another; its row is at its
path or at a copy which the scan has met already (`At`), so finalize, which hides what
was not seen, keeps it. `DiscControl` is what a confirm under way needs: a row it has
read is marked as unripped exactly when its content is a stub's, so that what it writes
back is one or the other. For `IndexIsTruth`, as long as the disk stands still
(`past.quiet`), `ReadControl` says that the caches and the file in hand are true of the
disk and that every file on it is still to be met, was met or is shadowed by a
lossless one, and `MetControl` that what was met is listed, with its place, and that
nothing else stands at its path; a quick scan that starts from exact rows keeps them
exact, which is why skipping an unchanged file is sound.

| Theorem of `LibraryJobsProofs` | Statement |
|---|---|
| `RowTells` | `Spec => []RowTellsTheJob` |
| `CancelHits` | `Spec => []CancelHitsItsJob` |
| `ArtMatches` | `Spec => []ArtMatchesDisk` |
| `LyricsKept` | `LyricsFetch /\ Spec => GoodLyricsKept` |

`JobControl` ties the job, the runner, the cancel that holds its lock, the process and
the command to each other: a job keeps the runner busy, a runner is busy only in a
process, a cancel under way has a busy runner. `CancelHitsItsJob` then needs no more
than that a start clears the event and the lock keeps a cancel and a start apart.
`BatchControl` and `SessionControl` say that a batch works on its own pool, that
without one the session has seen every commit, and that while providers are asked
there is no portrait on disk, which makes a miss true. `FillControl` is the same of
a request for a cover: while it is about to commit, what the batch would commit
otherwise about that album is true of the files. `LyricsControl` says that the
session holds what is committed about every track not settled, so that what it would
commit loses nothing; it holds where the network may be asked, which is the condition
of `LyricsKept` (without it the code does lose them, see below).

### Companion

| Theorem of `CompanionProofs` | Statement |
|---|---|
| `OneControls` | `Spec => []OneController` |
| `FreedWhenUnclaimed` | `Spec => []FreeIsReleased` |
| `VolumesRestored` | `Spec => []VolumeRestored` |

Here too the properties need each other. `TypeOK` rests on `CommandNamesDevice`:
a device is set only by a command that names one. `OneController` rests on
`SocketsServed`: a session's current socket is never the one whose disconnect is
finishing. `FreeIsReleased` rests on `OneController` (a live controller means the
device is claimed), on `CommandNamesDevice` (only a command that takes starts a
child, so a child that comes up late belongs to a command that will look at the
claim) and on `ChildShutOnce` (a child that is not connected holds nothing, and
one task alone waits for its end). The proof has a lemma for each way a task can
move and shows per action which one it is; `FreeStep` is a proof by contradiction
for the actions that leave a claim or a command behind.

### Optical drive

`CompanionProofs` sees `OpticalSession` and `CddaReader` through instances (`O` and `R`):
they share names with the hub, and no state.

| Theorem of `CompanionProofs` | Statement |
|---|---|
| `OpticalInductive` | `O!Spec => []O!IInv` |
| `OpticalTypeCorrect` | `O!Spec => []O!TypeOK`, where no volume is `None` |
| `OneDriveKeepsFace` | `O!Spec => O!KeepsFace`, where there is one drive |
| `CommandKeeps` | `O!Spec => O!CommandKeepsFace` |
| `AloneTheRingIsTheTrack` | `R!Spec /\ []R!Alone /\ []R!FailsInPlace => []R!RingIsTheTrack` |

A thread tells what it read some steps ago, so the invariant is about what was seen:
a volume that a tree, a walk or a poll names is still in its drive, or that drive was
`away` (`Seen`, `TreeSeen`, `ThreadsSound`); hence a poll that does not find its volume
says gone of a drive that was away, or of one whose `diskutil` returned an error. What a
thread brings back is gone of a drive that was away, or `denied`, or an exception, of which
the loop tells nobody. What was away stays so, and what was seen is lost
only by a step that puts the drive there. The poll of a loop takes its volume
from the tree, which may be of another drive than the one watched: that is where one
drive is needed, and TLC refutes `KeepsFace` with two. A command polls
nothing, so of any number of drives it tells one gone that was not only when a call
of its own read failed (`CommandKeepsFace`).

For the reader, `CursorTrue` says that the source stands where its cursor says, or
where the thread that is about to read wants it, and `FilledTrue` that what a thread has
read is of the places it read for, or silence. Both break as soon as a second thread
moves the source, which nothing in the code prevents and `cdda_seek` shows, and when
a read fails after a seek, which leaves the cursor where the source is not. The
theorem says that these are the only two: requests that overtake each other, are
left, canceled or closed do no harm while neither happens.
`cursor = None` is told from a place by the hypothesis that `None` is not a number.

### Downloads

| Theorem of `DownloadQueueProofs` | Statement |
|---|---|
| `FilesAreWhole` | `Spec => []FilesHold` |

Every function of the queue works on a copy of a row it read before an await, so the
proof is about what a copy is worth. `KeyControl` holds always: the index on the track
holds and a key is never assigned again. Therefore (`CopyControl`) a copy of a row that
is still there is of the row's track. `HolderControl`: a file has one job, or the one
pump about to start it, and no row but that holder's; so a step of another function
cannot be about the same file. `FileControl` says for each stage of a job what its file
is: the offset asked for is the partial's, what is closed is whole, what is promoted was
verified, what is copied is still in the partial. `CatalogControl`: a track enters the
catalog in the step in which its last row goes, hence nothing holds its file any more
and nothing will until it is removed. These four hold up to `raced`: the proof shows
that every step that could break one of them is a step that sets it. That a queue is
walked in the order of its keys needs `Order` to be injective, which is shown by
counting. Most steps take rows away and read files (lemma `Kept`); `PumpTake`,
`PumpStart`, an enqueue and the `done` of a job are the ones with a proof of their own.

### Playback

| Theorem of `PlayerLoadProofs` | Statement |
|---|---|
| `WaitsForACause` | `Spec => []WaitingHasCause` |
| `PauseIsKept` | `Spec => []PauseKept` |
| `BlobIsHeld` | `Spec => []BlobHeld` |
| `LatestWinsHolds` | `Spec => LatestRowWins` |

`LoadControl`: of the loads in flight at most one is of the current generation, and at
most one is the rejoin clock's. `CurrentControl`: what the current one has prepared is
the row asked for, on the sink that is active. `SinkControl` and `CompanionControl`:
the element is silent while a load is under way, and the companion has the row asked
for or one that a load will replace. `PauseControl` says of a pause what every later
step needs: what is under way ends paused, and if a rejoin is armed the sink has
yet to tell of the pause, which cancels it.

`LatestRowWins` follows from these in three steps. An initial state maps to an initial
state. For each action, either the sounding set only shrinks, or it becomes the one
pair of the active sink and the row asked for while nothing else sounds: that is a
step of `LatestWins` or a stutter. The temporal part is one invocation of PTL on
`Init`, the step and `[]IInv`.

### Only model-checked

- *Liveness*: `PlayAnswered`, `EvictionEnds`, `ShutdownReleases`, `Terminates`,
  `ClockCatchesUp`, `IdleEnds`, `CliReturns`, `PendingDrains`, `ClientSees`. TLAPS has
  neither ENABLED nor fairness. Of `Terminates` the safety half is proved.
- *That the hidden parts are what they stand for*: every return of the loop is one of
  the station's `Picks` (`LoopServesStation`), but the loop is not run inside the
  station, which holds its lock meanwhile; index and finalize are one step of
  `LibraryJobs` and many of `LibraryIndex`.
- *The type invariant of* `CddaReader`, checked with two threads; the proof has the
  weaker `Typed`. `RingIsTheTrack` without `Alone` or without `FailsInPlace` is refuted.

## Disagreements with the documentation

`cdda_seek` shows one, and `PROJECT.json` quotes the lines: a seek that arrives while
the ring is being filled finds it empty, so it does not invalidate the thread that
fills it; both threads then move the one cursor of the drive, and the ring keeps
sectors of another place (`cdda_stream.py:357`).

Each of the following is a property that its module states under "What the
documentation says and the code does not do" (or beside the property it weakens).
Put in place of the properties of the configuration named, TLC refutes it.

| Property | Configuration | What the code does | What it is measured against |
|---|---|---|---|
| `CancelReachesFfmpeg` | `MCTranscoder` | a cancel between the pick and the store of the handle is recorded and never delivered: the encode it should preempt runs to its end (`worker.py:598`) | `worker.py:83` "preempts a running lower-class encode" |
| `PlayStaysUrgent` | `MCTranscoder` | a play that joins an encode already asked to stop is re-queued as prewarm (`worker.py:620`) | `worker.py:562` "is promoted to the urgent tier" |
| `RestartKeepsPlace` | `MCRadioStation` | after a debug play of an id that the batch has already played, a restart resumes at the earlier place (`station.py:542`) | `radio.md:25` "as if the process never died" |
| `HttpAnswers` | `MCRadioStation` | a client that connects during catch-up stops the event loop until it lands (`station.py:99`) | `radio.md:25` "HTTP accepts requests immediately" |
| `PlaylistStable` | `MCLibraryIndex` | a scan that finds a track of a playlist at the place of a CD's stub is refused by the foreign key, and so is every later one (`identity.py:299`) | `identity.py:119` "keep id (playlist-stable)" |
| `CapHolds` | `MCDownloadQueue` | jobs over the cap run: two pumps list the same row when `Pump` is two (`queueRuntime.ts:113`), and a cap lowered while a pump is between its list and its write is passed | `downloads.md:60` "admits up to the persisted concurrent-job cap" |
| `FailedReadKeeps` | `MCOpticalSession` | a device that does not open, a command's classification that raises and any error of `diskutil` are told as an empty drive (`optical_cdio.py:387`, `optical_session.py:527`, `optical_volume.py:106`) | `cd-playback.md:21` "A failed idle read never means eject (keep last present)" |
| `PauseStays` | `MCPlayerLoad` | an error of the output arms the rejoin clock whatever the listener wants: a paused row plays by itself (`player.ts:257`) | `playback.md:60` "cancels hold and rejoin, and stays paused" |

Others were met while reading and modelling.

*Transcoder and radio.* The cache is looked at before the lock only, so a request
that looked before an encode ended and locks after it encodes the key again
(`transcoding.md`: "share one encode"); a shutdown may leave an ffmpeg behind; the
cap of a prewarm deque is not read when a promotion or a re-queue appends to it;
catch-up stops early when a track follows itself; a commit that raises ends the
radio worker until the process restarts; `lifespan` catches only `CancelledError`
of the radio task, so a dead worker skips the rest of shutdown (`main.py:123`);
`forget` holds the idle gate while it waits for a running encode, so every request
waits (`routes/media.py:236`).

*Library index.* A confirmation that read the row of a place whose rip was lost,
before a scan commits the rip it has found again, writes the stub's fingerprint and
its mark over that row (`identify.py:280`): a file that is there is shown as
unripped, and quick scans, which trust its stat, leave it so until a full one.

*Library jobs.* A cancel whose commit comes after the job's end leaves the row at
`canceling` until the next job, and a command that polls it never returns
(`runner.py:149`; the ghost `crossed`). A command that found the lock free may reset
the busy row of a server that started meanwhile (`lock.py:52`, which calls the race
acceptable). A commit of `_begin` that raises leaves the runner busy until the
process restarts (`LaunchFails`). A canceled scan writes `last_scan_finished_at`
(`runner.py:277`). The row says idle a moment before `_running` does, so a second
start may be refused as busy. There is one row: a command may take another's job for
its own (`run_job.py:64`). A control client whose connect fails raises `OSError`
past its handler. A forced fetch removes the stored portrait before it asks anyone,
and a crash between the file and the commit leaves a portrait whose row is in its
cool-down (the ghost `torn`). A request for a cover commits `has_cover` after it
looked, so a forced extraction in between leaves a row that promises a cover without
files (`torn` too). A request that finds the files deleted by a forced batch, before
that commits, extracts them again and, as the row still says so, commits nothing; the
batch then commits that there is no cover (`media.py:276`, `covers.py:76`), until the
next scan. A file beside the music that cannot be decoded keeps the
providers from being asked. With `LYRICS_FETCH` off, a retag replaces good lyrics by
"skipped".

*Companion.* `_rearm_device_id` outlives its session, so a reclaim by another tab
arms a device that tab never asked for, also with exclusive playback off there;
`blob_put` is awaited in the message loop of its socket, so that socket's
heartbeats, its `blob_abort` and its commands are not read until the fetch ends; a
blob whose upload ends early is promoted (`session.py:738`); a session replaced
during a `set_device` leaves `_device_id` behind what mpv holds;
`_should_undo_player` and the release it allows are two steps, so the undo can
release the next controller's device; a re-arming that fails closes the socket; a
child that died is not replaced until the device is released; `_url` stays after
the end of a track, so the time to live never ends that claim; read-only tabs are
not promoted when the controller leaves.

*Optical drive.* Canceling the watch leaves its thread, which may write the tree of a
volume between the media and the index of the next loop: the client keeps an empty tree
(`optical_session.py:91`; the ghost `hand`). A watch that moves to another drive keeps
`_data_live`, so an audio disc there is never opened (`optical_session.py:164`; with
`Drive = {d1, d2}` TLC refutes `ClientSees`, with one disc of each kind and no failed
call, and `KeepsFace`). A read that fails after a seek leaves the cursor at the place
before it (`cdda_stream.py:355`), so a later request for that place plays another (with
one thread, five sectors, a ring of two, three requests and two failures TLC refutes
`RingIsTheTrack`). A reader that stays live after the last track blinds the watch to a
change of disc, and the next `open_track` reuses it. The new source is opened before the
old one is closed, and `close()` frees a source that another thread may be reading.
`cancel_in_flight` has no caller. A table of contents with an invalid sector number
makes an audio disc a data disc.

*Downloads.* `flushProgressToIdb` and `pauseQueuedWork` write back rows they read
before an await, so a state written in between is undone and a deleted row returns
(`queue.ts:242`, `queue.ts:463`). The outcome `network` freezes every row also while
connectivity stays online, and then nobody resumes them (`worker.ts:183`). A second
request that fails after a 416 leaves the row active for ever. A refused write of
the pump leaves its id in `activeIds`. A clear while a job unwinds brings its row back
as paused. A cancel between the promotion and the last look leaves a file without a
row. The old file is removed before the new one is moved. A copy that is cut off leaves an
empty file under the final name (`opfs.ts:152`). A paused download loses
what its writable had not closed, against `downloads.md:60` "OPFS partials kept". A
probe asked for while one is in flight may be dropped (`connectivity.ts:302`). An
album's reference count is wrong after a track has changed its album.

*Playback.* `companionSink.load` tests no generation after the wait for the device
(`companionSink.ts:110`), and the companion's events carry no track, so a late end or
error of one row acts on the next (`companionSink.ts:65`; the ghost `raced`). A pause
during the backoff drops the rejoin and leaves the row loading; play then only turns
the wish (the ghost `dropped`). A kick during an attempt forgets the one that should
follow. A hard block does not disarm the clock. Play on a headset during a load
turns the wish to pause. Any failure of a downloaded load marks the download as
broken. A change of codec while loading ends paused; so does turning exclusive
output off while something else keeps the socket. The end of the queue during a
load leaves it loading. A row that the listener starts during a rejoin attempt does
not cancel it. A resolve that comes too late leaks its blob. The radio's client has
the first of these at `radio/session.ts:208`.

## What is not modelled

- *Out of scope*: the user interface, routes and CLI printing, choice and encoding of
  images, parsing of lyrics and tags, diagnostics, ffmpeg's arguments, the OS audio
  APIs. They are conversions or input and output without state that two actors
  share.
- *Assumed*: SQLite commits atomically and enforces unique columns and foreign
  keys; the data-dir lock admits one process; a hash has no collisions; a library
  root that is not mounted is an empty one.
- *Left for later*: the idle gate around the encoder (`transcode/idle.py`,
  `routes/media.py`), the radio's listeners (`radio/tuners.py`, `radio/prepare.py`,
  `routes/radio.py`: an enqueue that raises is not tried again for its track, and each
  tick broadcasts in a task of its own, so that an older snapshot may be sent after
  a newer one), the radio's and the CD's clients, the companion's blobs,
  reconnection and pending requests of the companion client, the lookup of a CD,
  uploads of artist art. Each of these keeps little state; what they ask of the
  modelled parts is an action there (an eviction at any moment, a read of the face,
  a session that takes the speakers, a confirmation).
- *Transport*: sends of the hub never block; a stuck peer would hold its lock
  (`session.py:216`).

## Plan

The parts with most interleaving are modelled: the encoder, the station and its picker,
the index, library jobs with covers, portraits and lyrics, the companion's claim, its
optical drive, the download queue and the player. All of these are proved. What is
left, in the order of what it would add:

| Step | What | How |
|---|---|---|
| 1 | the station over the drawing loop instead of `Picks` | `LoopServesStation` as the step of the refinement |
| 2 | the idle gate around the encoder, the radio's listeners | actions of `Transcoder`, and of a module over the station's face |
| 3 | reconnection and pending requests of the companion client | a module of its own; every request is settled |

Abstract specifications worth stating besides `LatestWins` and `RadioPick`: an encoder
as a map from key to file with requests that are answered; an index as a function of
the disk.

## How to run

    tlc -workers 2 -config MCTranscoder.cfg MCTranscoder
    tlapm TranscoderProofs.tla
    tlapm RadioPickerProofs.tla
    tlapm RadioStationProofs.tla
    tlapm LibraryIndexProofs.tla
    tlapm LibraryJobsProofs.tla
    tlapm CompanionProofs.tla
    tlapm DownloadQueueProofs.tla
    tlapm PlayerLoadProofs.tla

Each `.cfg` belongs to the module whose name it begins with. `TLC` needs the
community modules, `tlapm` (1.4.5) Z3, Zenon and LS4. A proof takes one to a few
minutes.
