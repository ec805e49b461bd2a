------------------------------ MODULE RegionState ------------------------------
(***************************************************************************)
(* The state of one region: what survives a restart of the process, what   *)
(* lives on the other side of the network, and the local state of the four *)
(* tasks that run one poll:                                                *)
(*                                                                         *)
(*   main task   run_region_once .. execute_once_attempt   (poller.rs)     *)
(*   executor    AssetExecutionContext::execute_with_filter                *)
(*   forwarder   the progress -> artefact bridge           (poller.rs)     *)
(*   uploader    run_uploader and flush_batch              (poller.rs)     *)
(*                                                                         *)
(* Channels carry bundle names and are sets: a bundle passes through each  *)
(* of them at most once per attempt, the executor finishes bundles in an   *)
(* arbitrary order, so FIFO order tells the properties nothing.            *)
(***************************************************************************)
EXTENDS BundleDiff, FiniteSets

CONSTANTS
  Catalog,          \* [Versions -> FpMap]: what the CDN serves for a version, by the
                    \* bundle_hash that record and CHECK go by: detail.hash for
                    \* ColorfulPalette, detail.crc for Nuverse
  Crcs,             \* [Versions -> FpMap]: detail.crc, which layer 1 goes by
  Wanted,           \* bundles the region's category and skip patterns select
  HipEnabled,       \* hip.enabled
  LiveExecInfo,     \* Nuverse: the executor resolves the version afresh
  RemoveLocal,      \* region.upload.remove_local_after_upload
  RecordInWorkDir,  \* the download record lies below asset_save_dir
  BatchBundles,     \* hip.commit_batch_bundles (0: no bundle trigger)
  BytesTrigger,     \* hip.commit_batch_bytes > 0: a push may also trigger
  BatchSave,        \* execution.batch_save_size
  Capacity,         \* capacity of the artefact channel (32 in the code)
  MaxAttempts,      \* FAILED_REGION_RETRY_ATTEMPTS (10 in the code)
  PublishMidPoll,   \* may the CDN publish while a poll is running?
  Siblings,         \* do other regions commit to the gateway, too?
  Torn,             \* a record file cut off in the middle of its write: no JSON
  Faults,           \* the kinds of failure a run injects
  MaxFaults         \* bound: how many failures a behaviour may contain

FaultKinds ==
  { "fetch",      \* current_version, catalogue or cookie request fails
    "connect",    \* HIP connect or handshake fails
    "check",      \* CHECK_BATCH fails or times out
    "bundle",     \* download, export or post-process of one bundle fails
    "upload",     \* connect or UPLOAD of a batch fails
    "commit",     \* COMMIT not executed
    "lostAck",    \* COMMIT executed by the gateway, its ack never arrives
    "save",       \* the download record cannot be written
    "snapshot",   \* the layer-1 snapshot cannot be written
    "cleanup",    \* local files or the work dir cannot be removed
    "watermark",  \* the watermark file cannot be written
    "sync",       \* chart hash git sync fails
    "cancel",     \* SIGTERM: the CancellationToken fires
    "crash" }     \* the process dies

ASSUME CatalogAssumption == Catalog \in [Versions -> FpMap]
ASSUME CrcsAssumption ==
  /\ Crcs \in [Versions -> FpMap]
  /\ \A v \in Versions, b \in Bundles : Crcs[v][b] = NoFp <=> Catalog[v][b] = NoFp
ASSUME WantedAssumption == Wanted \subseteq Bundles
ASSUME BoundsAssumption ==
  /\ BatchBundles \in Nat /\ BatchSave \in Nat /\ MaxFaults \in Nat
  /\ Capacity \in Nat \ {0} /\ MaxAttempts \in Nat \ {0}
ASSUME FlagsAssumption ==
  {HipEnabled, LiveExecInfo, RemoveLocal, RecordInWorkDir, BytesTrigger, PublishMidPoll,
   Siblings}
    \subseteq BOOLEAN
ASSUME TornAssumption == Torn \notin FpMap
ASSUME FaultsAssumption == Faults \subseteq FaultKinds

VARIABLES
  \* the CDN and the gateway
  cdn,                  \* newest published version
  gateway,              \* bundle contents the gateway has: SUBSET (Bundles \X Fps)
  \* files
  snapshot,             \* last_info_dir/<region>.msgpack.zst
  record,               \* downloaded_assets.json, or Torn
  wmDisk,               \* the region's entry in the watermark file (0: none)
  \* main task
  wmMem,                \* the same entry in WatermarkStore.inner
  cancelled,            \* the poller's CancellationToken
  pc, cur, attempt, err, outcome,
  new_info, old_info,   \* version of the live catalogue; snapshot as loaded
  \* executor
  exec, execVer, downloaded_assets, pending_save_count, saving,
  todo, active, exported, failed, known, check_skipped, cancel_flag,
  \* forwarder
  fwd, progress,
  \* uploader
  up, artefacts, draining, batch, processed_all, first_commit_pending,
  \* bound
  faults

envVars   == <<cdn, gateway>>
diskVars  == <<snapshot, record, wmDisk>>
mainVars  == <<pc, cur, attempt, err, outcome, new_info, old_info>>
execVars  == <<exec, execVer, downloaded_assets, pending_save_count, saving,
               todo, active, exported, failed, known, check_skipped>>
fwdVars   == <<fwd, progress>>
upVars    == <<up, artefacts, draining, batch, processed_all, first_commit_pending>>

vars == <<envVars, diskVars, wmMem, cancelled, mainVars, execVars, cancel_flag,
          fwdVars, upVars, faults>>
--------------------------------------------------------------------------------
EmptyRecord == [b \in Bundles |-> NoFp]

(* The live catalogue of a version as an AssetBundleInfo. *)
Info(v) == [ver |-> v, fps |-> Crcs[v]]

(* The content of the bundles S under version v, as gateway pairs. *)
Content(v, S) == {<<b, Catalog[v][b]>> : b \in {c \in S : Catalog[v][c] # NoFp}}

(* The bundles of version v that the region must mirror. *)
Selected(v) == {b \in Wanted : Catalog[v][b] # NoFp}

Fault(kind) == kind \in Faults /\ faults > 0 /\ faults' = faults - 1
NoFault == faults' = faults

ExecDone == exec \in {"ok", "err"}
UpDone   == up \in {"ok", "err"}

PcStates ==
  {"idle", "layer0", "permit", "layer1", "connect", "select", "joinForwarder",
   "joinUploader", "awaitExecution", "settle", "cleanup", "mark", "failed", "backoff"}
ExecStates == {"off", "start", "plan", "check", "run", "save", "sync", "ok", "err"}
UpStates == {"off", "recv", "upload", "commit", "merge", "clean", "metadata", "ok", "err"}

StoreType ==
  /\ cdn \in 1..MaxVersion /\ gateway \subseteq Bundles \X Fps
  /\ snapshot \in BundleInfo /\ record \in FpMap \cup {Torn}
  /\ wmDisk \in 0..MaxVersion /\ wmMem \in 0..MaxVersion
  /\ cancelled \in BOOLEAN

MainType ==
  /\ pc \in PcStates /\ cur \in 0..MaxVersion /\ attempt \in 0..MaxAttempts
  /\ err \in {"none", "retry", "config"}
  /\ outcome \in {"none", "skipped", "completed", "error"}
  /\ new_info \in 0..MaxVersion /\ old_info \in BundleInfo

ExecType ==
  /\ exec \in ExecStates /\ execVer \in 0..MaxVersion /\ cancel_flag \in BOOLEAN
  /\ downloaded_assets \in FpMap /\ pending_save_count \in Nat
  /\ saving \in {"no", "batch", "final"}
  /\ todo \subseteq Bundles /\ active \subseteq Bundles /\ exported \subseteq Bundles
  /\ failed \subseteq Bundles /\ known \subseteq Bundles /\ check_skipped \subseteq Bundles

PipeType ==
  /\ fwd \in {"off", "on", "done"} /\ progress \subseteq Bundles
  /\ up \in UpStates /\ artefacts \subseteq Bundles /\ draining \in BOOLEAN
  /\ batch \subseteq Bundles /\ processed_all \subseteq Bundles
  /\ first_commit_pending \in BOOLEAN

(* Every variable has its type; in particular a poll never makes more than  *)
(* MaxAttempts attempts.                                                    *)
TypeOK == StoreType /\ MainType /\ ExecType /\ PipeType /\ faults \in 0..MaxFaults
================================================================================
