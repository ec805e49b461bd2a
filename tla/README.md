# A TLA+ model of the Haruki asset updater

The updater polls, per region, the version a game CDN publishes. When it has
changed, the updater downloads the bundles of the new version, exports them,
uploads the result to a deduplicating gateway over the HIP/1 protocol, and pushes
the hashes of the music charts to a git repository. This directory models the
parts of it whose correctness depends on the order in which things happen,
checks them with TLC on small instances and proves the main results with TLAPS.
`PROJECT.json` lists the runs, the source lines of every definition, the mutants
and the hazards.

## Inventory

Paths are relative to the repository; `impl/` stands for
`src/core/export_pipeline/implementation/`.

| part | source | module |
|---|---|---|
| region loops, triggers, region permits, health, shutdown | `src/service/poller.rs`, `http.rs`, `src/main.rs` | `PollerLoop` |
| one region's poll: layers 0-2, retries, snapshot, watermark, cleanup | `src/service/poller.rs`, `watermark.rs` | `RegionPoll`, `RegionState` |
| layer-1 diff and snapshot merge | `src/core/bundle_diff.rs` | `BundleDiff` |
| planning and running the bundles of a poll, download record, forwarder | `src/core/asset_execution.rs`, `download_records.rs`, `poller.rs` | `RegionExecutor` |
| semaphores, downloads, temporary files, joins, prefetch | `src/core/asset_execution.rs`, `retry.rs` | `BundleScheduler` |
| streaming uploader | `src/service/poller.rs` | `RegionUploader` |
| one HIP session: uploads, commit, writer, reader, gateway | `src/core/hip/client.rs`, `examples/hip_mock_server.rs` | `HipSession` |
| AssetStudio worker processes, leases, recovery | `crates/assetstudio-ffi/src/worker_pool.rs`, `impl/assetstudio.rs` | `WorkerPool` |
| the objects of a bundle: order, batches, output paths, image queue, manifest | `impl/assetstudio.rs`, `impl/payload.rs`, `impl/paths.rs`, the worker's `run_server` | `ObjectExport` |
| CPU budget and encode slots | `impl/limits.rs`, `impl/media_postprocess.rs` | `CpuBudget` |
| audio conversion threads | `impl/media_postprocess.rs` | `AudioPipeline` |
| post-processing stages and storage upload | `impl/media_postprocess.rs`, `impl/tasks.rs`, `impl/images.rs`, `src/core/storage.rs` | `PostProcess` |
| configuration: file, environment, overrides, validation, derived limits | `src/core/config.rs` | `Settings` |
| version resolution, catalogue address and requests | `src/service/poller.rs`, `src/core/asset_execution.rs` | `CataloguePlan` |
| chart-hash git sync | `src/core/git_sync.rs` | `ChartSync` |
| the three parts above in the life of one process | `src/core/asset_execution.rs`, `src/service/poller.rs` | `RegionJob`, `JobState` |
| what a region promises | - | `Mirror` |
| logging, telemetry, codecs, native loader, frame bytes | see `PROJECT.json` | not modelled |

### One poll

A tick or a trigger starts `execute_once`. Layer 0 compares the published
version with the watermark. If they differ the poll takes a region permit and
makes up to ten attempts. An attempt fetches the catalogue, loads the layer-1
snapshot, opens the HIP check session, and runs three tasks beside its own: the
executor, which downloads and exports bundles and keeps the download record; the
forwarder, which moves the executor's artefact events into a bounded channel;
and the uploader, which takes them from there and commits them batch by batch,
merging each committed batch into the snapshot. When all have ended the attempt
replaces the snapshot, removes the work directory, and writes the watermark.

### How the modules fit together

`RegionPoll` composes `RegionState` (variables and constants), `BundleDiff`,
`RegionExecutor` and `RegionUploader` by EXTENDS, and instantiates `Mirror` to
state that it implements it. `MCRegionLive` instantiates it a second time, without
the gateway. The other modules each open one step of it:

- `PollerLoop` is the level above. Its "run" is one whole `RegionPoll` poll,
  which `PollTerminates` shows to end.
- `BundleScheduler` is what happens between the start and the end of a bundle
  job, both of which are single steps of `RegionExecutor`.
- `WorkerPool` is the "export" step of `BundleScheduler`, `ObjectExport` what one
  such export reads and writes; `CpuBudget` is the protocol behind the CPU counter
  of `WorkerPool`.
- `PostProcess` is the "post" step of `BundleScheduler`; `AudioPipeline` is its
  audio stage.
- `HipSession` is the upload-and-commit step of `RegionUploader`. The property
  `CommitCovers` is what `RegionUploader` takes for granted when it adds a
  committed batch to `gateway`.
- `RegionJob` composes `Settings`, `CataloguePlan` and `ChartSync`, which share the
  retry policy and the failures of `JobState`. The settings give the number of
  attempts to the requests and to the pushes; the catalogue decides whether there
  is anything to download; a sync that fails makes the poll go round again. It
  opens the fetch and the sync of `RegionPoll`, which are single steps there.

## The modules

### RegionPoll, RegionState, RegionExecutor, RegionUploader, BundleDiff

State: the published version `cdn` and the content of the `gateway`; what is on
disk (`snapshot`, `record`, `wmDisk`) and the watermark map in memory (`wmMem`);
the main task (`pc`, `attempt`, `cur`, `new_info`, `old_info`); the executor
(`exec` and its sets of bundles), the forwarder (`fwd`, `progress`) and the
uploader (`up`, `artefacts`, `batch`, `processed_all`). A bundle's content is a
fingerprint; `Catalog[v][b]` is the content of `b` in version `v`. The gateway and
the download record tell contents apart by their hash, the layer-1 snapshot by
`Crcs[v][b]`: in the run `faults` one bundle changes its hash and keeps its crc.
Layer 0 reads the watermark in memory (`wmMem`), which `set` changes before the file.

An action is one stretch of code between two awaits or two writes to disk, so a
crash or a step of another task can fall between any two of them. `Torn` is a
record file that a crash interrupted. Every failure the code handles is a kind in
`Faults`; a run chooses the kinds and `MaxFaults` bounds how many occur.

### PollerLoop

One loop per region (`loop[r]`), the FIFO semaphore of region permits with
grants that are under way (`permits`, `waiters`, `granted`), the broadcast
channel of triggers with a cursor per receiver (`sent`, `cursor`), the state that
`/healthz` shows, and `main`. A receiver that is more than `TriggerCapacity`
messages behind takes the `Lagged` branch and skips.

### HipSession

The jobs of `upload_hip_files_concurrently`, the outbound queue, the writer and
reader tasks, the wire in both directions, the reply channels, and the gateway as
the mock server in `examples/` answers. A file may fail its job on the client's
side: it cannot be opened or read, or its size has changed (`LocalError`). A WINDOW
frame is read and ignored, as in the code, and what the gateway has sent waits in an
unbounded inbox. Files of length zero are left out, and the handshake is over when
the session starts.

### WorkerPool

Where each export is, its CPU permits, its lease, the workers that are idle in
the pool, the semaphore of the pool and the recovery lock. A worker is a record
of what the pool can come to know of it: calls served, context open, dead.
A crash is seen as a signal, or, when `try_wait` comes too early, as a protocol
error. An export opens a context, lists (unless the answer to the open has the whole
list), reads the plain objects, then image by image, and flushes the images it has
queued when it is over the threshold: each thread of the flush takes the next image
and a CPU permit for it (`queued`, `encoding`), and after an error no thread takes
another.

### ObjectExport

One bundle through its first attempt and the second one that follows a worker's
death: the pages of the listing, the selected objects in their order, the read
batches with the single reads that follow a failed batch, the claims on output
paths, the queue of images and its flushes, the playables, the manifest. A path is
a place, the number of the `__dup` suffix and an extension; a file's content is the
set of payloads that went into it. A payload bundle (an array, an animator) claims
its own name and writes its entries without a claim. A write that fails leaves some
of its files behind, the last perhaps in part (`Partly`). A playable that was read
empty is kept and fails the attempt when the parts of its container are parsed
(`PlayableFails`). Files that an earlier export left are chosen at the start.

### CpuBudget

Where each request is in `acquire_cpu_budget_permit_blocking` and
`acquire_media_encode_permit`, and the two counters under their mutexes.
`notify_one` wakes any one waiter; a woken waiter checks again and may be
overtaken; waits may return without a notification.

### BundleScheduler

Per task the stage it is in, the queue and the free permits of the four
semaphores, the attempts made, the temporary files, and the joins of the main
loop. The removal of a temporary file may fail; its result is ignored, so the file
stays (`TempGoes`, `TempStays`). A panic in a task ends the execution as `.expect`
does in the code, and a cancellation is a flag that is read where the code reads it.

### AudioPipeline

Every thread with its place in its loop, the queue of containers, the bounded
channel, `first_error`, and the caller that spawns, joins and removes. The
batched path (`hca.decode` off) uses the same threads without converters;
`run_tasks` runs a single input on the calling thread, which makes no difference
to the property checked there.

### PostProcess

The files on disk, each `"whole"` or `"partial"`, the same for every storage
provider, and per bundle the stage, the inputs listed when the stage began, those
in work and the uploads. A stage reads its inputs after it listed them, so a file
may be gone by then when another bundle's scan covers the same directory. Nothing
cleans up after a failed attempt. The next one claims names beside the files that are
there (`dup`, `Claimed`), so that `left`, what was there when it began, stays unless
an upload removes it. A merge empties its target before it opens the first segment
(`MergeOpens`). Of some sources nothing comes (`Barren`): containers without tracks or
with `hca.decode` off, `.usm` files without a video.

### Settings, CataloguePlan, ChartSync, JobState, RegionJob

`Settings` takes the stages of `load_default` one by one: locate and read, expand
`${env:...}`, apply the `HARUKI__` overrides in the order of their names,
deserialise, apply the variables with names of their own and the secrets,
validate, derive the scheduler's limits. A malformed name of an override ends the
loading when its turn comes; a secret of digits is a number to YAML and is refused.
Four settings stand for all: two of one section, one without a check, one secret. The
reference (`Resolved`) is written
without the stages, from the precedence of the layers.

`CataloguePlan` is the sequence of requests by which a poll finds its catalogue.
Layer 0, layer 1 and the executor ask one after the other while the publisher goes
on, and the last two resolve the catalogue's address each on its own (`ctx`). What
the game server may answer (`provider.answers`) is a profile, or none, and a host
hash, or none. With Nuverse the asset version is asked for an app version: for one
that is not the latest it may be older than what layer 0 found.

`ChartSync` has a sync per region and what they share: the index with its lock,
the branch `log`, and how much of it the remote has (`origin`). A git command that
takes the lock is two steps, so that another region's command can fall into it and
fail. The git commands are external and modelled by what the code relies on.

`RegionJob` follows one region's polls (`Here`) and the syncs of all. A sync of the
other regions may run whenever the followed region is syncing or its poll is over;
its own requests touch nothing that a sync touches.

## The runs

All runs pass. Each property has a mutant in `PROJECT.json`: an operator, defined
beside the original, that changes one definition as a plausible mistake would and
makes the property fail. `about` in `PROJECT.json` says in a sentence what a run
shows; the comment above each property says what it means for the code.

| run | checks | instance |
|---|---|---|
| `faults` | `SnapshotTruthful`, `CompletionAccounted`, `PipelineConserves`, `SnapshotKeepsBatches` | 3 bundles, 2 versions, batches of 2, channel of 1, 2 attempts, any 2 failures |
| `benign` | `ImplementsMirror` | the same bundles, a version published during the poll, commits and watermarks of other regions, 1 failure that leaves nothing behind |
| `live` | `RecordKept`, `CatchesUp`, `PollTerminates` | with and without HIP, 2 of the bundles, any 2 failures, 2 attempts |
| `poller_loop` | `PermitsConserved`, `TriggerServed`, `PermitReached`, `ShutdownCompletes` | 3 regions, 1 permit, trigger channel of 1, 2 triggers, panics |
| `hip_session` | `CommitCovers`, `BatchEnds` | 3 files, 1 already present, 2 in flight, queues of 1, 1 failure or PING or WINDOW |
| `worker_pool` | `LeasesConserved`, `PoolClean`, `FailuresOwned`, `ExportsEnd` | 3 bundles of 2, 1 and no images, 2 workers, 3 CPU permits, 2 flush threads, 5 calls per worker, 2 failures |
| `object_export` | `ExportAccounted`, `QueueBounded` | 19 objects, pages of 6, batches of 3, 3 sets of leftover files, 2 failures |
| `cpu_budget` | `PermitsCounted`, `NoLostWakeup`, `Served` | 3 encoders, 2 other callers, limits of 2, with and without the throttle |
| `bundle_scheduler` | `PermitsFollowBundles`, `WorkBounded`, `NoTaskLeftBehind`, `TempFilesRemoved`, `ExecutionEnds` | 4 bundles, one larger than the memory limit, 2 slots each, 2 attempts, 2 failures |
| `audio_pipeline` | `SourcesOutliveTracks`, `TracksConserved`, `QuietOnReturn`, `Returns` | containers of 3, 1 and 0 tracks, 1 or 2 converters, streaming and batched |
| `post_process` | `OutcomeExact`, `RemovedAfterUpload`, `SourceOutlivesProduct`, `PostProcessingEnds` | 5 settings of up to 2 bundles and 2 storages, repeated attempts, 2 failures |
| `region_job` | `SettingsResolved`, `CatalogueAgrees`, `ChartsAccounted`, `JobAccounted` | 2 regions, 9 providers, 2 rounds, 1 publication, 2 changes of charts, 3 syncs, 1 failure |

### Why the bounds are enough

- Region poll: three bundles, one unchanged, one changed and one new in the second
  version, cover the three answers of the diff; a channel of one makes the
  forwarder block; batches of one or two make a poll take several; two attempts
  show a retry after a partial success. Two faults let the second strike what the
  first left behind. In `live` they also use up the attempts of a whole poll, which is
  how a watermark file can stay behind the map in memory; it follows the changed and
  the new bundle only. `benign` has no crash: what a crash leaves is the subject of
  `faults` and `live`.
- Poller loop: one permit and three regions make a queue of two; a trigger channel
  of one overflows with two triggers.
- HIP session: queues of one frame make every send block; three files over two
  slots make one wait; one of them is already present at the gateway. One failure is
  enough for each way a batch can end; that several together do no harm to a commit
  is proved.
- Worker pool: three bundles over two workers leave one waiting while an
  exclusive retry wants both permits; two images tell a crash at the first from
  one at the last, and let one be encoded while the other waits. One export makes as
  many calls as a worker may serve, so that its worker is recycled; the others make
  fewer, so that a living worker is pooled and may die there.
- Object export: at least two objects meet under one name in every rule that
  builds paths: two equal payloads, two different ones, a playable beside a plain
  object, an image beside an array's layer, two animators, a name taken by a leftover,
  entries of a payload bundle over leftover ones. The objects fill several pages and
  batches, and the queue is flushed early.
- CPU budget: three encoders and two other callers over limits of two make both
  limiters queue at once. The proofs have no bounds.
- Bundle scheduler: four bundles over two slots, one bundle larger than the memory
  limit, a backlog that can be full, two attempts.
- Audio: containers of three, one and no tracks over the bounded channel; one
  container is only in memory. Four tracks and one converter that panics are
  enough to fill the channel for good.
- Post-processing: contiguous and gapped segments, a file without video magic,
  an image and an empty container in one bundle, which fails halfway and is tried
  again; two bundles and two providers for the uploads; one directory shared by both
  bundles; all kinds of failures over files that are kept; a file without a video
  beside a container with tracks, both removed after the upload.
- Region job: every provider that lacks one thing, and complete ones; every pair of
  layers that can disagree on a setting; two regions, so that every git command can
  meet another's. Three syncs let one fail, one cover it up and one repair it. The
  proofs have no bounds.

`CHECK_DEADLOCK FALSE` stands in the runs of components that come to an end: a
batch, an execution, an export, a pipeline, a refused configuration and a stopped
service have no next step. What must not get stuck there is a liveness property
(`BatchEnds`, `ExportsEnd`, `Served`, `ExecutionEnds`, `Returns`,
`PostProcessingEnds`, `ShutdownCompletes`). `ObjectExport` and `RegionJob` have
none: they are sequential but for the syncs, which wait for nothing, since a git
command that meets the lock fails. The region poll never stops and is checked for
deadlock.

## Fairness

Weak fairness of each task or thread: the tokio runtime polls a task that is
ready, the operating system runs a thread that is ready. What goes beyond that:

- `PollerLoop`: strong fairness of receiving a trigger and of seeing the
  cancellation, because `tokio::select!` picks among ready branches at random. No
  fairness of ticks: the interval may be long.
- `RegionPoll`: while some task of the poll is ready one is polled, and the ticker
  fires again and again. This is one condition over all tasks: none is preferred, and
  since each takes finitely many steps in an attempt, the others get their turn.
  Nothing is assumed of the environment, and a stopped process need not be restarted.
- `HipSession`: a gateway that has not stalled goes on reading, and timers fire.
- `CpuBudget`: a permit's owner finishes its work, and under the throttle the load
  falls in the end.
- `PostProcess`: a bundle that failed is tried again (`TryAgain`). The code does so
  only when a later poll selects it: a bundle whose job failed waits for the next
  version. `PostProcessingEnds` is about bundles that do get their next attempt.
- `WorkerPool`, `BundleScheduler`, `PostProcess`: calls, downloads, exports and
  conversions end, in one way or another. A worker that never answers is not
  modelled: the code has no timeout there and would wait.

## The proofs

TLAPS checks the following for every value of the constants that satisfies the
named assumptions of the modules (`CatalogAssumption`, `BoundsAssumption`,
`LimitsAssumption`, `ChartBounds`, `HereAssumption` and so on). Those of `Settings`
say what a configuration file and an override can hold (`LayersAssumption`) and
that a machine has a CPU and limits that are numbers (`MachinesAssumption`).
`NoWorkerAssumption` of `WorkerPool` says that the value for "no lease" is not a
worker.

| theorem | module | says |
|---|---|---|
| `TypeCorrect` | `RegionPollProofs` | `Spec => []TypeOK` for the region poll |
| `CompletionIsAccounted` | `RegionPollProofs` | a poll about to write its watermark has accounted for every selected bundle |
| `PipelineIsConserved` | `RegionPollProofs` | every selected bundle is in exactly one stage of executor, forwarder and uploader |
| `SnapshotIsTruthful` | `RegionPollProofs` | without a publication during a poll, the snapshot names only what the gateway has |
| `RecordIsAccounted` | `RegionPollProofs` | the same circumstances and no HIP: a completed poll has its bundles in the record on disk, or their jobs failed |
| `BatchesAreKept` | `RegionPollProofs` | the snapshot of a version never forgets what earlier attempts merged, and a batch of the current one only when its uploader fails |
| `MirrorIsImplemented` | `RegionPollProofs` | with the failures that leave nothing behind, the region implements `Mirror` |
| `PermitsAreConserved` | `PollerLoopProofs` | no region permit is lost or made up, and none is idle while a region waits |
| `Invariance` | `CpuBudgetProofs` | the inductive invariant of the limiters |
| `PermitsAreCounted` | `CpuBudgetProofs` | the counters of both limiters are exact |
| `WakeupsAreEnough` | `CpuBudgetProofs` | no request sleeps beside a free permit that nobody is on the way to |
| `CommitIsCovered` | `HipSessionProofs` | a batch reported as committed is at the gateway in full, and the window of HELLO_ACK is respected |
| `PoolStaysClean` | `WorkerPoolProofs` | an idle worker that lives is below its call limit and has no context open |
| `FailuresAreOwned` | `WorkerPoolProofs` | an export fails only for a failure of its own last attempt |
| `LeasesAreConserved` | `WorkerPoolProofs` | the permits of the pool and of the CPU budget are conserved, and a second attempt has the pool to itself |
| `NoTaskIsLeft` | `BundleSchedulerProofs` | an execution that ends well has seen to every task, and none failed without a cause |
| `TempFilesGo` | `BundleSchedulerProofs` | a temporary file stays only where the file system failed, or where its export was cut off |
| `PermitsFollow` | `BundleSchedulerProofs` | what each of the four semaphores has lost is what the jobs hold by their stage |
| `WorkStaysBounded` | `BundleSchedulerProofs` | within an execution memory and backlog keep to their limits, and no exported bundle waits for its post-processing |
| `SourcesOutlive` | `AudioPipelineProofs` | no container leaves the disk before every track was converted once and every thread has ended |
| `TracksAreConserved` | `AudioPipelineProofs` | a track is never in two places, and in none only after an error |
| `QuietOnEveryReturn` | `AudioPipelineProofs` | the call returns only when none of its threads runs |
| `ChartsSafe` | `RegionJobProofs` | whatever the regions' git commands meet, a sync's answer is true of the remote, or of the branch |
| `JobSafe` | `RegionJobProofs` | a poll that reports success has its charts on the remote or committed |
| `SettingsAreResolved` | `RegionJobProofs` | loading ends in the settings the precedence of the layers gives, or in a refusal with a reason |
| `CataloguesAgree` | `RegionJobProofs` | layer 0, layer 1 and the executor agree on the catalogue, but for the cases the property names |

*Region poll.* `CompletionAccounted` speaks of one moment, the write of the
watermark. It is not inductive: it depends on where every bundle was before. The
invariant `IndInv` of `RegionInv` adds which task states occur together
(`Control`), which sets are empty in each of them (`Stages`), that versions are
fetched before they are used (`Fetched`), that a batch past its commit is on the
gateway (`Committed`), and the heart of it, `Conserved`: while the tasks of an
attempt run, every selected bundle is known, failed, to be done, in work, in one
of the queues, in the current batch or on the gateway. `RegionPollProofs` proves
it action by action: first the types, then the control part, then the rest.
Everything else about the poll builds on it.

- `PipelineIsConserved` needs that the stages are apart (`Partition`): a bundle
  that moves leaves one set in the step in which it enters the next. The count in
  the property follows, since exactly one of the nine sets has the bundle.
- `SnapshotIsTruthful` needs `TruthInv`: one version is in use at a time, and what
  counts as processed is on the gateway. It assumes that nothing is published
  during a poll, and has to: layer 1 and the executor fetch the catalogue
  separately, and a publication in between makes the snapshot name content of one
  version while the gateway has that of the other.
- `RecordIsAccounted` has the same assumption for the same reason. `RecordInv`
  relates the record in memory to the one on disk, and says that a selected bundle
  is in the record in memory or still has a job. The run `live` checks it of its
  second instance (`RecordKept`).
- `BatchesAreKept` assumes nothing of the failures. After an upload that failed, the
  attempt's result names no processed bundle, and the snapshot is rebuilt from the one
  that the attempt had loaded, without the batches that it merged itself: this is the
  exception in the property. `KeepInv` says that a snapshot holds
  contents of the version it is labelled with, and that what was merged in the
  attempt is among the processed or in the snapshot the attempt began with.
- `MirrorIsImplemented` assumes `Benign`: reliable uploads, no failed job, no
  cancellation, no crash, and no publication during a poll where the executor
  follows the current version. Each of them breaks the promise, as the section
  below says. `MirrorInv` adds that watermarks are versions the gateway has in full
  (`Marks`) and that whatever the record claims is on the gateway or on its way
  there (`Claims`). The initial states map to initial states, and every
  step to a step of `Mirror` or to a stutter (`MirrorStep`).

*Poller loop.* `PermitsConserved` is not inductive: a permit that is released goes
to the head of the queue, and this could give it to a region that has one, or to
one that no longer waits. `QueueInv` adds that the queue holds a region once
(`Once`) and that no region queues with a grant under way. Leaving the queue, at its
head or out of its middle, is then taking one region out of a set (`Served`,
`GivesUp`), and the two ways to give a permit back, by a poll that ends or panics
and by a dropped acquire, are one lemma (`Passes`).

*CPU budget.* `NoLostWakeup` is not inductive: with two permits free and one
request awake, that request may take one permit and leave the other beside
sleepers. The inductive form `EnoughAwake` counts: while anybody waits, the
permits out and the requests awake together are at least the limit. A drop
frees one permit and wakes one waiter, which keeps the sum; a request that goes
to sleep has seen the limit reached. `Placed` says which requests can be at which
place. The proof moves one or two requests between the counted sets and compares
cardinalities (`CountMove`, `NumbersMove`, `TwoMove`).

*Charts.* `ChartsAccounted` speaks of idle regions and is not inductive. The
invariant `CInv` says of every region what its sync has
established so far and that it is still so (`Kept`), that a push under way moves
the remote forward to commits that all have the region's charts (`Moved`), what
an answer is worth later, when other regions have committed and pushed (`Worth`),
and that a region without charts has none in any commit (`Blank`). Over the whole
branch, a region's file never goes back and is never a torn one (`History`). The
claim that no commit waits when every answer is a good one needs a witness
(`SomeoneWaits`): while the remote is behind, some region is in the middle of its
sync or has an answer other than "pushed" and "nothing". The steps of one region
are proved to leave the others alone once (`Frame`, `OthersKept`), so that each
action only has to show its own region's part (`Own`). `JobSafe` adds `InStep`,
which ties the poll of the followed region to its sync.

*Settings.* `SettingsResolved` compares the result of the stages with a definition
that knows no stages. `SettingsInv` says for every stage what the tree holds: after
`n` overrides, what the last of them that concerns a setting says of it, or the
file (`WrittenBy`); one more override is one more case of that definition, so no
induction over the list is needed.

*Catalogue.* `PlanInv` says what each asker knows at each of its requests: the
versions and the profile it resolved (`Aware`), the address (`Reached`), the catalogue
(`Read`), in
comparison with what layer 0 found and what is published now. The publisher only
moves forward, so what was found stays a lower bound.

*HIP.* `CommitCovers` relates the client's phase to the gateway's files. Between
them are frames in three queues, so the invariant `HipInv` is about these: there is
one BEGIN of a file, in one place, and only before its stream exists (`Upload`); an
answer, on its way or received, tells what the gateway did (`Told`); a COMMIT exists
only when every job has ended well (`Commits`). The window needs a count: the jobs
that are active, failed or given up are never more than allowed (`Busy`).

*Worker pool.* `PoolStaysClean` and `FailuresAreOwned` need each other. A worker
goes back to the pool after a close that succeeded or was excused; it is excused only
after an image was skipped, and then the worker is dead (`LeaseClean`). An export may
get a dead worker and still does not fail for it, because its second attempt has a
fresh one (`Owns`).
`LeasesAreConserved` rests on both. A second attempt takes all permits of the pool,
an export otherwise one, so what is out is a sum over the leases. It is written as
the size of a set of pairs of a bundle and a number (`Permits`), for which adding and
removing one bundle's pairs is a fact about finite sets. `LeaseInv` has that sum, the
one of the CPU budget, and that an image is read or skipped once (`Counted`).

*Bundle scheduler.* The loop spawns a task when it joins one, so it would come to
an end early if it ever joined without spawning. `Underway` says that while tasks
are pending, some download job is still to be joined. `Tried` ties a job's stage to
the attempts it has left. For `PermitsFollow` and `WorkStaysBounded`, `PermitInv`
says that the free permits of each semaphore and those the jobs hold make up its
capacity, again as sets of pairs (`Permits`, `MiBInMemory`). A step of one job leaves
the pairs of the others alone (`Split`), so each action has to balance its own share
only (`Balanced`). The bound on post-processing needs in addition that the queue of
that semaphore is as long as there are jobs in stage "queued".

*Audio.* The three properties follow from one invariant, `IInv`. `Joined` says how
far the caller has come in starting and joining its threads; `EndsForAReason` that
a thread that has ended found its queue empty for good, or an error; `Collected`
that a container is queued, in work or collected for removal; `Apart` and
`Somewhere` that a track is in one stage at most, and in one at least while nothing
has failed. Together they give `Settled` when the caller begins to remove: every
thread has ended for want of work, so no track is in any stage but the last.

Only model-checked: everything that is not in the table.

- The liveness properties, since fairness and ENABLED are out of the prover's reach:
  `CatchesUp`, `PollTerminates`, `TriggerServed`, `PermitReached`,
  `ShutdownCompletes`, `BatchEnds`, `ExportsEnd`, `Served`, `ExecutionEnds`,
  `Returns`, `PostProcessingEnds`.
- `ExportAccounted` and `QueueBounded`: the objects of a bundle pass through folds
  over sequences, whose results can only be established by induction over data.
- `OutcomeExact`, `RemovedAfterUpload` and `SourceOutlivesProduct` of `PostProcess`:
  not attempted. An invariant for them has to follow every file through six stages
  and through the attempts before.
- `RecordKept`, as a property of the instance without HIP in `MCRegionLive`;
  `RecordIsAccounted` proves what it says of `RegionPoll` itself.

## Where the code and its documentation differ

What follows was met while modelling. The models do what the code does, and the
properties are stated so that they hold of it: the exceptions in them are these.

- A bundle whose job failed is not attempted again at the next tick: the poll
  completes and its watermark is written (`CompletionAccounted`). It waits for
  the next version.
- The download record claims a bundle before its upload is committed. After an
  upload that failed, or a crash between the two, the next attempt skips the bundle
  as known (`CompletionAccounted`).
- A cancelled poll drops the artefacts that are still queued (`CompletionAccounted`).
- A crash while the record is being written can leave a file that no later poll
  reads or replaces (`CatchesUp`).
- The watermark changes in memory before it changes on disk. When the write of the
  file fails in every attempt of a poll, layer 0 skips the version from then on, and
  the file stays behind until the next version, a restart, or a write for another
  region (`CatchesUp`).
- The comments at `poller.rs:613-619` and `652-660` say that a re-run skips the batches
  that were committed, since the snapshot was merged after each commit. When the
  uploader fails, `poller.rs:601` replaces the snapshot by one built from `old_info`, and
  the batches of this attempt are gone from it (`SnapshotKeepsBatches`).
- `docs/hip.md:259-261` and `316-318` want a client to respect a WINDOW that the gateway
  sends. `client.rs:570-573` ignores it ("MVP ignores window updates"); what is kept is
  the window of HELLO_ACK (`CommitCovers`).
- `docs/hip.md:268-269` treats a session without PONG for 60 s as broken. The client has
  no such limit: a gateway that stops reading holds the batch (`BatchEnds`).
- `README.md:174-177` describes `max_in_flight_bundle_bytes` as what the process may
  keep in memory. Every execution makes a limiter of its own (`asset_execution.rs:508`),
  and five regions run at a time by default (`WorkBounded`).
- The executor never calls `resolve_provider_versions`. With the example
  configuration (`game_version_url_template` set, `profile_hashes: {}`) layer 1
  finds the host hash and the executor fails with `MissingProfileHash`. With
  Nuverse, layer 1 follows the current `app_version` and the executor uses the
  configured one, which may get it an older asset version. When the game server names
  another profile than the configured one, layer 1 follows it and the executor does not
  (`CatalogueAgrees`).
- A push that fails leaves its commit behind. The retry in place finds nothing to
  download, so it does not sync, and the poll reports success; the commit waits
  until some region's charts change (`JobAccounted`, `ChartsAccounted`). Regions
  share the index, so a commit may contain another region's staged file. An
  `index.lock` that a crash left makes every later sync fail.
- The `__dup` suffix, which `payload.rs` calls deterministic, depends on the files
  an earlier export left on disk. The claim on an image looks for its PNG only, so
  that files in other formats are overwritten, and the entries of payload bundles, the
  layers of an array or the files of an animator, are not claimed at all. The manifest
  names a PNG even where the formats omit it (`ExportAccounted`).
- The image queue is flushed after a chunk, not, as a comment in `payload.rs` has
  it, after each read batch; in a bundle of images a chunk has at least 64 objects, if
  there are as many (`QueueBounded`).
- After a worker died on an image, the remaining images are skipped.
- Nothing removes what a failed attempt at a bundle left on disk. The next attempt
  writes beside it under `__dup` names, and the leftovers are uploaded with the rest
  (`OutcomeExact`). By category a bundle's scan uploads and removes files that another
  bundle is still writing (`RemovedAfterUpload`).
- An override of a section whose name is in lower case sorts after those of single
  settings and replaces them. A missing variable makes loading fail even where the
  field that refers to it is overridden (`SettingsResolved`).
- Converters that all panic under a full channel leave the extractors waiting
  (`Returns`), and a thread that panics or cannot be spawned leaves the others running
  (`QuietOnReturn`). The image flush of a bundle can wait in a circle for CPU permits
  (`ExportsEnd`; `Served` takes for granted that who holds a permit ends its work).
  Failed samples of the load lose encode slots (`PermitsCounted`, `Served`).

## What is not modelled

- Logging, telemetry and metrics: they change no state that a property could tell
  apart.
- Frame encoding, the bytes of the FFI protocol and of the payloads, decryption and
  the decoding of the catalogue, URL strings, media codecs, the native loader: pure
  conversions byte by byte, for which the unit tests of the files are the better
  check. Their steps succeed, fail or crash here.
- Times. A timeout is a step that may happen while the answer is out; the length
  of a backoff does not matter to any property.
- A thread of the image flush that panics or cannot be spawned; audio containers that
  the export keeps in memory are in `AudioPipeline` only.
- The pages of CHECK and the handshake of HIP: the poll's check is one step.
- Of `paths.rs` the cut-out rule for members, the shortening of long names, and the
  types without a rule of their own.
- Of `validate` every check but those on the modelled settings: they are one
  condition (`sound`) that holds or not.
- `run_haruki_3d_background_export`: no part of the service calls it.
- A merged video whose name is also that of a plain input (an assumption of
  `PostProcess`).

One test, `segmented_usm_post_process_uses_memory_without_merged_file`
(`impl/tests.rs:287`), expects merged segments to stay in memory; the code merges
them on disk, and so does the model.
