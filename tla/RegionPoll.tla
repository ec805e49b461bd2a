------------------------------ MODULE RegionPoll ------------------------------
(***************************************************************************)
(* One region of the poller: the main task of src/service/poller.rs        *)
(* (execute_once, retry_region_in_place, execute_once_attempt) composed    *)
(* with the executor, the forwarder and the uploader it starts, in an      *)
(* environment that publishes versions, uploads contents from other        *)
(* regions, cancels and crashes.                                           *)
(***************************************************************************)
EXTENDS RegionExecutor, RegionUploader

(* The tasks of an attempt are not running. *)
TasksOff ==
  /\ exec' = "off" /\ execVer' = 0 /\ downloaded_assets' = EmptyRecord
  /\ pending_save_count' = 0 /\ saving' = "no"
  /\ todo' = {} /\ active' = {} /\ exported' = {} /\ failed' = {} /\ known' = {}
  /\ check_skipped' = {} /\ cancel_flag' = FALSE
  /\ fwd' = "off" /\ progress' = {}
  /\ up' = "off" /\ artefacts' = {} /\ draining' = FALSE /\ batch' = {}
  /\ processed_all' = {} /\ first_commit_pending' = TRUE

Init ==
  /\ cdn = 1 /\ gateway = {}
  /\ snapshot = NoInfo /\ record = EmptyRecord /\ wmDisk = 0 /\ wmMem = 0
  /\ cancelled = FALSE
  /\ pc = "idle" /\ cur = 0 /\ attempt = 0 /\ err = "none" /\ outcome = "none"
  /\ new_info = 0 /\ old_info = NoInfo
  /\ exec = "off" /\ execVer = 0 /\ downloaded_assets = EmptyRecord
  /\ pending_save_count = 0 /\ saving = "no"
  /\ todo = {} /\ active = {} /\ exported = {} /\ failed = {} /\ known = {}
  /\ check_skipped = {} /\ cancel_flag = FALSE
  /\ fwd = "off" /\ progress = {}
  /\ up = "off" /\ artefacts = {} /\ draining = FALSE /\ batch = {}
  /\ processed_all = {} /\ first_commit_pending = TRUE
  /\ faults = MaxFaults

taskVars == <<execVars, cancel_flag, fwdVars, upVars>>

(* run_region_once returns: forget the poll, keep its outcome. *)
PollEnds(result) ==
  /\ pc' = "idle" /\ outcome' = result
  /\ cur' = 0 /\ attempt' = 0 /\ err' = "none" /\ new_info' = 0 /\ old_info' = NoInfo
  /\ TasksOff

(* execute_once_attempt returns an error: to the match of the retry loop. *)
AttemptFails(kind) ==
  /\ pc' = "failed" /\ err' = kind
  /\ UNCHANGED <<cur, attempt, outcome, new_info, old_info>>

(* remove_region_work_dir_after_success removes the record too when that    *)
(* is configured below the work dir.  A failed removal may have got at it.  *)
CleanedRecord ==
  IF HipEnabled /\ RemoveLocal /\ RecordInWorkDir THEN EmptyRecord ELSE record
--------------------------------------------------------------------------------
(* A tick or a trigger starts a poll.  The select of the loop picks any      *)
(* branch that is ready: a poll may still start when the token has fired.   *)
Tick ==
  /\ pc = "idle"
  /\ pc' = "layer0"
  /\ NoFault
  /\ UNCHANGED <<envVars, diskVars, wmMem, cancelled, cur, attempt, err, outcome, new_info,
                 old_info, taskVars>>

(* Layer 0: fetch current_version.json, compare it with the watermark. *)
EverMarked == wmMem # 0   \* mutant: a watermark of any version will do
UpToDate == wmMem = cdn

Layer0 ==
  /\ pc = "layer0"
  /\ \/ /\ ~UpToDate
        /\ cur' = cdn /\ pc' = "permit"
        /\ NoFault
        /\ UNCHANGED <<record, attempt, err, outcome, new_info, old_info, taskVars>>
     \/ UpToDate /\ record' = CleanedRecord /\ PollEnds("skipped") /\ NoFault
     \/ /\ UpToDate /\ HipEnabled /\ RemoveLocal
        /\ record' \in {record, CleanedRecord}
        /\ PollEnds("error") /\ Fault("cleanup")
     \/ UNCHANGED record /\ PollEnds("error") /\ Fault("fetch")
  /\ UNCHANGED <<envVars, snapshot, wmDisk, wmMem, cancelled>>

(* The region permit, or cancellation while waiting for it. *)
Permit ==
  /\ pc = "permit"
  /\ \/ /\ pc' = "layer1" /\ attempt' = 1
        /\ UNCHANGED <<cur, err, outcome, new_info, old_info, taskVars>>
     \/ cancelled /\ PollEnds("skipped")
  /\ NoFault
  /\ UNCHANGED <<envVars, diskVars, wmMem, cancelled>>

(* Layer 1: the live catalogue and the snapshot of the previous poll. *)
Layer1 ==
  /\ pc = "layer1"
  /\ \/ /\ new_info' = cdn /\ old_info' = snapshot
        /\ pc' = "connect"
        /\ NoFault
        /\ UNCHANGED <<cur, attempt, err, outcome>>
     \/ AttemptFails("retry") /\ Fault("fetch")
  /\ UNCHANGED <<envVars, diskVars, wmMem, cancelled, taskVars>>

(* Connect the check session, spawn uploader and forwarder, start the       *)
(* execution with a fresh cancel flag.                                      *)
Connect ==
  /\ pc = "connect"
  /\ \/ /\ pc' = "select" /\ exec' = "start" /\ fwd' = "on"
        /\ up' = IF HipEnabled THEN "recv" ELSE "off"
        /\ NoFault
        /\ UNCHANGED <<cur, attempt, err, outcome, new_info, old_info, execVer,
                       downloaded_assets, pending_save_count, saving, todo, active, exported,
                       failed, known, check_skipped, cancel_flag, progress, artefacts,
                       draining, batch, processed_all, first_commit_pending>>
     \/ /\ HipEnabled /\ AttemptFails("retry") /\ Fault("connect")
        /\ UNCHANGED taskVars
  /\ UNCHANGED <<envVars, diskVars, wmMem, cancelled>>

MainMoves(from, to) ==
  /\ pc = from /\ pc' = to
  /\ NoFault
  /\ UNCHANGED <<envVars, diskVars, wmMem, cancelled, cur, attempt, err, outcome, new_info,
                 old_info, execVars, fwdVars, upVars>>

(* The select: whichever of execution and uploader returns first. *)
SelectExecution ==
  /\ ExecDone
  /\ MainMoves("select", "joinForwarder") /\ UNCHANGED cancel_flag

(* A failed uploader stops the execution through the cancel flag. *)
SelectUploader ==
  /\ UpDone
  /\ MainMoves("select", "awaitExecution")
  /\ cancel_flag' = (cancel_flag \/ up = "err")

(* forwarder.await, after which the last artefact sender is dropped. *)
JoinForwarder ==
  /\ fwd = "done"
  /\ MainMoves("joinForwarder", IF HipEnabled THEN "joinUploader" ELSE "settle")
  /\ UNCHANGED cancel_flag

JoinUploader ==
  /\ UpDone
  /\ MainMoves("joinUploader", "settle") /\ UNCHANGED cancel_flag

AwaitExecution ==
  /\ ExecDone /\ fwd = "done"
  /\ MainMoves("awaitExecution", "settle") /\ UNCHANGED cancel_flag
--------------------------------------------------------------------------------
(* What an attempt counts as processed: nothing when the uploader failed. *)
ProcessedWithBatch == processed_all \cup check_skipped \cup batch   \* mutant: counts on failure
Processed == IF up = "err" THEN {} ELSE processed_all \cup check_skipped

(* persist_processed_snapshot replaces the snapshot (a failure is logged),  *)
(* then the attempt returns its error or goes on.                           *)
Settle ==
  /\ pc = "settle"
  /\ \/ snapshot' = NextSnapshot(Info(new_info), old_info, Processed) /\ NoFault
     \/ UNCHANGED snapshot /\ Fault("snapshot")
  /\ \/ /\ exec = "err" \/ up = "err"
        /\ AttemptFails("retry")
     \/ /\ exec = "ok" /\ up # "err"
        /\ pc' = "cleanup"
        /\ UNCHANGED <<cur, attempt, err, outcome, new_info, old_info>>
  /\ UNCHANGED <<envVars, record, wmDisk, wmMem, cancelled, taskVars>>

Cleanup ==
  /\ pc = "cleanup"
  /\ \/ /\ pc' = "mark" /\ record' = CleanedRecord
        /\ NoFault
        /\ UNCHANGED <<cur, attempt, err, outcome, new_info, old_info>>
     \/ /\ HipEnabled /\ RemoveLocal
        /\ \E kind \in {"retry", "config"} : AttemptFails(kind)
        /\ record' \in {record, CleanedRecord}
        /\ Fault("cleanup")
  /\ UNCHANGED <<envVars, snapshot, wmDisk, wmMem, cancelled, taskVars>>

(* WatermarkStore::set: memory first, then the file. *)
Mark ==
  /\ pc = "mark"
  /\ wmMem' = cur
  /\ \/ wmDisk' = cur /\ PollEnds("completed") /\ NoFault
     \/ UNCHANGED <<wmDisk, taskVars>> /\ AttemptFails("retry") /\ Fault("watermark")
  /\ UNCHANGED <<envVars, snapshot, record, cancelled>>

(* The match of retry_region_in_place. *)
MayRetry == attempt < MaxAttempts /\ err # "config" /\ ~cancelled

Retry ==
  /\ pc = "failed"
  /\ IF MayRetry
     THEN pc' = "backoff" /\ UNCHANGED <<cur, attempt, err, outcome, new_info, old_info, taskVars>>
     ELSE PollEnds("error")
  /\ NoFault
  /\ UNCHANGED <<envVars, diskVars, wmMem, cancelled>>

(* The backoff sleep ends, or is cut short by the cancellation. *)
Backoff ==
  /\ pc = "backoff"
  /\ \/ /\ pc' = "layer1" /\ attempt' = attempt + 1 /\ err' = "none"
        /\ new_info' = 0 /\ old_info' = NoInfo /\ TasksOff
        /\ UNCHANGED <<cur, outcome>>
     \/ cancelled /\ PollEnds("error")
  /\ NoFault
  /\ UNCHANGED <<envVars, diskVars, wmMem, cancelled>>

MainNext ==
  \/ Tick \/ Layer0 \/ Permit \/ Layer1 \/ Connect
  \/ SelectExecution \/ SelectUploader \/ JoinForwarder \/ JoinUploader \/ AwaitExecution
  \/ Settle \/ Cleanup \/ Mark \/ Retry \/ Backoff
--------------------------------------------------------------------------------
(* The task that copies the CancellationToken into the cancel flag of the   *)
(* running attempt.                                                         *)
CancelBridge ==
  /\ cancelled /\ exec # "off" /\ ~cancel_flag
  /\ cancel_flag' = TRUE
  /\ NoFault
  /\ UNCHANGED <<envVars, diskVars, wmMem, cancelled, mainVars, execVars, fwdVars, upVars>>

(* SIGTERM: main.rs cancels the token. *)
Cancel ==
  /\ ~cancelled /\ cancelled' = TRUE
  /\ Fault("cancel")
  /\ UNCHANGED <<envVars, diskVars, wmMem, mainVars, taskVars>>

(* The process starts anew on what is on disk. *)
Reopened ==
  /\ wmMem' = wmDisk /\ cancelled' = FALSE
  /\ PollEnds("none")
  /\ UNCHANGED <<envVars, snapshot, wmDisk>>

(* The process dies.  A record that was being written may be torn; snapshot *)
(* and watermark are replaced by a rename and are whole.                    *)
Crash ==
  /\ record' \in IF saving = "no" THEN {record} ELSE {record, Torn}
  /\ Reopened
  /\ Fault("crash")

(* The loop's select takes the cancellation; the process ends and is        *)
(* started again.                                                           *)
Restart ==
  /\ cancelled /\ pc = "idle"
  /\ Reopened
  /\ NoFault /\ UNCHANGED record

(* The CDN publishes the next version. *)
Publish ==
  /\ cdn < MaxVersion
  /\ PublishMidPoll \/ pc = "idle"
  /\ cdn' = cdn + 1
  /\ NoFault
  /\ UNCHANGED <<gateway, diskVars, wmMem, cancelled, mainVars, taskVars>>

(* Another region commits a content that this region's catalogue has too. *)
SiblingCommit ==
  /\ Siblings
  /\ \E b \in Bundles, v \in 1..cdn :
       /\ ~(Content(v, {b}) \subseteq gateway)
       /\ gateway' = gateway \cup Content(v, {b})
  /\ NoFault
  /\ UNCHANGED <<cdn, diskVars, wmMem, cancelled, mainVars, taskVars>>

(* Another region's WatermarkStore::set writes the whole map, this region's *)
(* entry as it is in memory included.                                       *)
SiblingWatermark ==
  /\ Siblings /\ wmDisk # wmMem
  /\ wmDisk' = wmMem
  /\ NoFault
  /\ UNCHANGED <<envVars, snapshot, record, wmMem, cancelled, mainVars, taskVars>>

EnvironmentNext ==
  CancelBridge \/ Cancel \/ Crash \/ Restart \/ Publish \/ SiblingCommit \/ SiblingWatermark

Next == MainNext \/ ExecutorNext \/ UploaderNext \/ EnvironmentNext

Spec == Init /\ [][Next]_vars

(* The steps of the region's own tasks. *)
TasksNext == MainNext \/ ExecutorNext \/ UploaderNext \/ CancelBridge

(* While some task is ready the tokio runtime polls one, and the ticker      *)
(* fires again and again.  No task is preferred: each takes finitely many    *)
(* steps in an attempt, so the others get their turn.  A stopped process     *)
(* need not be restarted, and nothing is assumed of the environment.         *)
FairSpec == Spec /\ WF_vars(TasksNext)
--------------------------------------------------------------------------------
(* The gateway has a published content of b with this crc. *)
HasCrc(b, crc) == \E v \in Versions : Crcs[v][b] = crc /\ <<b, Catalog[v][b]>> \in gateway

(* A name in the layer-1 snapshot stands for content the gateway has: what  *)
(* build_next_snapshot calls "bundles we can be sure the gateway has".  The *)
(* snapshot tells contents apart by their crc, the gateway by their hash.   *)
SnapshotTruthful == \A b \in Keys(snapshot) : HasCrc(b, snapshot.fps[b])

(* When a poll is about to write its watermark, every bundle the region     *)
(* mirrors is on the gateway, except those of the three ways the code lets  *)
(* one slip: its job failed, the download record claimed it, or the poller  *)
(* was being cancelled.                                                     *)
CompletionAccounted ==
  HipEnabled /\ pc \in {"cleanup", "mark"} =>
    \/ cancelled
    \/ \A b \in Selected(execVer) \ (failed \cup known) : <<b, Catalog[execVer][b]>> \in gateway

(* Within one version the snapshot only gains entries, with one exception:  *)
(* when its uploader fails, an attempt writes the snapshot from the one it  *)
(* loaded and so forgets the batches it committed and merged itself.  Even  *)
(* then it keeps all that earlier attempts at the version left there.       *)
SnapshotKeepsBatches ==
  [][snapshot'.ver = snapshot.ver =>
       \/ Keys(snapshot) \subseteq Keys(snapshot')
       \/ /\ pc = "settle" /\ up = "err"
          /\ old_info.ver = snapshot.ver => Keys(old_info) \subseteq Keys(snapshot')]_vars

(* As long as the uploader has not returned, every bundle the region        *)
(* mirrors is in exactly one stage: executor, forwarder and uploader hand   *)
(* it on without losing or duplicating it.                                  *)
PipelineConserves ==
  HipEnabled /\ exec \in {"run", "save", "sync", "ok"} /\ ~UpDone =>
    LET stages == <<todo, active, failed, progress, artefacts, batch, processed_all,
                    known, check_skipped>>
    IN  \A b \in Selected(execVer) : \E i \in DOMAIN stages :
          \A j \in DOMAIN stages : b \in stages[j] <=> j = i

(* Without HIP the download record is the memory of the region: when the    *)
(* watermark is about to be written, every selected bundle of the version   *)
(* is in the record on disk or its job failed.                              *)
RecordAccounted ==
  ~HipEnabled /\ pc \in {"cleanup", "mark"} =>
    record # Torn /\ \A b \in Selected(execVer) \ failed : record[b] = Catalog[execVer][b]

(* The region keeps the promise of Mirror. *)
Promise == INSTANCE Mirror WITH watermark <- wmDisk

ImplementsMirror == Promise!Spec

(* Every poll ends: executor, forwarder, uploader and main task never wait  *)
(* for each other in a circle, whatever fails or is cancelled.              *)
PollTerminates == pc # "idle" ~> pc = "idle"

(* Every attempt of some poll may have failed. *)
AttemptsExhausted == faults + MaxAttempts <= MaxFaults

(* Once the failures stop, the region catches up with the CDN, unless it    *)
(* was told to stop or its download record is torn, which no later poll can *)
(* read or replace.  The file may stay behind for one reason only: its      *)
(* write failed in a poll all of whose attempts failed.  Memory has the     *)
(* version then, so layer 0 skips it and nothing writes the file until the  *)
(* next version, a restart or the write of another region.                  *)
CatchesUp ==
  []<>(cancelled \/ record = Torn \/ wmDisk = cdn \/ (wmMem = cdn /\ AttemptsExhausted))
================================================================================
