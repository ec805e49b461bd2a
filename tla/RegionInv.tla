------------------------------- MODULE RegionInv ------------------------------
(*****************************************************************************)
(* The inductive invariants of RegionPoll: IndInv for every instance,        *)
(* TruthInv for the instances in which the CDN publishes between polls       *)
(* only.                                                                     *)
(*****************************************************************************)
EXTENDS RegionPoll

(* Phases of the main task. *)
Before  == {"idle", "layer0", "permit", "layer1", "connect"}
Joining == {"select", "joinForwarder", "joinUploader", "awaitExecution"}
After   == {"settle", "cleanup", "mark"}

(* The executor has planned its downloads. *)
Planned == {"check", "run", "save", "sync", "ok"}

(* Which combinations of task states exist. *)
Control ==
  /\ pc \in Before => exec = "off"
  /\ pc \in Joining \cup After => exec # "off"
  /\ exec = "off" => fwd = "off"
  /\ exec = "off" => up = "off"
  /\ exec # "off" => (up = "off" <=> ~HipEnabled)
  /\ pc = "joinForwarder" => ExecDone
  /\ pc = "joinUploader" => ExecDone /\ fwd = "done" /\ HipEnabled
  /\ pc = "awaitExecution" => UpDone
  /\ pc \in After => ExecDone /\ fwd = "done" /\ (UpDone \/ up = "off")
  /\ pc \in {"cleanup", "mark"} => exec = "ok" /\ up # "err"
  /\ pc \in {"failed", "backoff"} =>
       \/ exec = "off"
       \/ ExecDone /\ fwd = "done" /\ (UpDone \/ up = "off")
  /\ fwd = "done" => ExecDone /\ active = {} /\ progress = {}
  /\ saving = "final" <=> exec = "save"
  /\ saving = "batch" => exec = "run"
  /\ pc = "backoff" => attempt < MaxAttempts

(* The sets that are empty in each state of the tasks. *)
Stages ==
  /\ exec \in {"off", "start", "plan"} => todo = {} /\ known = {}
  /\ exec \in {"off", "start", "plan", "check"} =>
       /\ active = {} /\ exported = {} /\ failed = {} /\ progress = {}
       /\ artefacts = {} /\ batch = {} /\ processed_all = {} /\ check_skipped = {}
  /\ exec \in {"save", "sync", "ok"} => todo = {} /\ active = {} /\ exported = {}
  /\ up = "off" => artefacts = {} /\ batch = {}
  /\ up = "ok" => artefacts = {} /\ batch = {} /\ draining
  /\ up = "metadata" => batch = {} /\ draining
  /\ draining /\ ~cancelled => artefacts = {} /\ fwd = "done"

(* Versions are fetched before they are used. *)
InPipeline == active \cup exported \cup progress \cup artefacts \cup batch

Fetched ==
  /\ pc \notin {"idle", "layer0"} => cur \in Versions
  /\ pc \in {"connect"} \cup Joining \cup After => new_info \in Versions
  /\ exec \in Planned \/ InPipeline # {} => execVer \in Versions

(* The gateway has the content of S in version v. *)
OnGateway(v, S) == \A b \in S : Catalog[v][b] # NoFp => <<b, Catalog[v][b]>> \in gateway

(* A batch past its commit is on the gateway. *)
Committed == up \in {"merge", "clean"} => OnGateway(execVer, batch)

(* Every bundle to mirror is somewhere. *)
Conserved ==
  HipEnabled /\ exec \in Planned /\ ~cancelled /\ up # "err" =>
    \A b \in Selected(execVer) :
      \/ b \in known \cup failed \cup todo \cup active
      \/ b \in progress \cup artefacts \cup batch
      \/ <<b, Catalog[execVer][b]>> \in gateway

IndInv == TypeOK /\ Control /\ Stages /\ Fetched /\ Committed /\ Conserved

(* With no publication during a poll one version is in use at a time, and   *)
(* what is counted as processed is on the gateway.                          *)
OneVersion ==
  /\ pc \notin {"idle", "layer0"} => cur = cdn
  /\ pc \in {"connect"} \cup Joining \cup After => new_info = cdn
  /\ exec \in Planned \/ InPipeline # {} \/ processed_all \cup check_skipped # {} =>
       execVer = cdn

OldTruthful == \A b \in Keys(old_info) : HasCrc(b, old_info.fps[b])

ProcessedTruthful == OnGateway(execVer, processed_all \cup check_skipped)

TruthInv == OneVersion /\ SnapshotTruthful /\ OldTruthful /\ ProcessedTruthful
--------------------------------------------------------------------------------
(* While the uploader takes artefacts, no bundle is in two stages. *)
Apart(S, T) == S \cap T = {}

Partition ==
  HipEnabled /\ exec \in Planned /\ ~UpDone =>
    /\ Apart(todo, active)
    /\ Apart(todo \cup active, failed)
    /\ Apart(todo \cup active \cup failed, progress)
    /\ Apart(todo \cup active \cup failed \cup progress, artefacts)
    /\ Apart(todo \cup active \cup failed \cup progress \cup artefacts, batch)
    /\ Apart(todo \cup active \cup failed \cup progress \cup artefacts \cup batch,
             processed_all)
    /\ Apart(todo \cup active \cup failed \cup progress \cup artefacts \cup batch
               \cup processed_all, known)
    /\ Apart(todo \cup active \cup failed \cup progress \cup artefacts \cup batch
               \cup processed_all \cup known, check_skipped)
    /\ Selected(execVer) \subseteq
         todo \cup active \cup failed \cup progress \cup artefacts \cup batch
           \cup processed_all \cup known \cup check_skipped

--------------------------------------------------------------------------------
(* No fault makes the uploader return an error. *)
UploaderReliable ==
  /\ Faults \cap {"upload", "commit", "lostAck"} = {}
  /\ RemoveLocal => "cleanup" \notin Faults

(* A snapshot holds contents of the version it is labelled with. *)
Labelled(info) ==
  \A b \in Keys(info) : info.ver \in Versions /\ info.fps[b] = Crcs[info.ver][b]

(* Unless the uploader failed, what the snapshot has under the version of   *)
(* the attempt was in the one the attempt loaded, or was merged by a batch  *)
(* that counts as processed.                                                *)
MergedCounted ==
  pc \in {"connect", "settle"} \cup Joining /\ snapshot.ver = new_info /\ up # "err" =>
    \A b \in Keys(snapshot) :
      \/ b \in Keys(old_info) /\ old_info.ver = new_info
      \/ b \in processed_all
      \/ b \in batch /\ up = "clean"

KeepInv == Labelled(snapshot) /\ Labelled(old_info) /\ MergedCounted

--------------------------------------------------------------------------------
(* The circumstances in which the watermark keeps its promise: there is a   *)
(* gateway, executor and layer 0 see the same version, no job fails, no     *)
(* upload fails, and nothing stops the process.                             *)
Benign ==
  /\ HipEnabled /\ UploaderReliable
  /\ ~LiveExecInfo \/ ~PublishMidPoll
  /\ Faults \cap {"bundle", "cancel", "crash"} = {}

Quiet == ~cancelled /\ ~cancel_flag /\ up # "err" /\ failed = {}

(* Watermarks are published versions that the gateway has in full. *)
Mirrored(v) == v # 0 => OnGateway(v, Wanted)

Marks ==
  /\ wmDisk <= wmMem /\ wmMem <= cdn
  /\ Mirrored(wmDisk) /\ Mirrored(wmMem)
  /\ pc \notin {"idle", "layer0"} => wmMem <= cur /\ cur <= cdn
  /\ pc \notin {"idle", "layer0"} /\ ~PublishMidPoll => cur = cdn
  /\ exec \in Planned \/ InPipeline # {} => execVer = cur

(* What is recorded or joined is on the gateway or on its way there. *)
OnItsWay(b) == b \in progress \cup artefacts \cup batch

RecordHonest(rec) ==
  \A b \in Bundles : rec[b] # NoFp =>
    \/ <<b, rec[b]>> \in gateway
    \/ rec[b] = Catalog[execVer][b] /\ OnItsWay(b)

Claims ==
  /\ RecordHonest(downloaded_assets)
  /\ record # Torn => RecordHonest(record)
  /\ \A b \in exported : OnItsWay(b) \/ OnGateway(execVer, {b})
  /\ OnGateway(execVer, known)

MirrorInv == Quiet /\ Marks /\ Claims

--------------------------------------------------------------------------------
(* Without HIP nothing is ever processed in the sense of layer 1, so the    *)
(* snapshot stays empty and the diff lets every bundle through.             *)
NoLayer1 ==
  /\ Keys(snapshot) = {} /\ Keys(old_info) = {}
  /\ processed_all = {} /\ check_skipped = {}

RecordInv ==
  ~HipEnabled =>
    /\ NoLayer1
    /\ exec \in {"plan", "check", "sync", "ok"} => record = downloaded_assets
    /\ exec \in Planned =>
         \A b \in Selected(execVer) :
           \/ b \in todo \cup active \cup exported \cup failed
           \/ downloaded_assets[b] = Catalog[execVer][b]
================================================================================
