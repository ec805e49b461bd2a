--------------------------- MODULE RegionPollProofs ---------------------------
(*****************************************************************************)
(* The theorems about RegionPoll, for every number of bundles and versions,  *)
(* every batch size, channel capacity and number of attempts, and any number *)
(* and kind of failures.                                                     *)
(*                                                                           *)
(* First that IndInv is an invariant, and what follows from it alone.  Every *)
(* step keeps the types, then Control, Stages, Fetched, Committed and        *)
(* Conserved: which task states occur together, which stages are empty, and  *)
(* that every bundle to mirror is in some stage or on the gateway.           *)
(*                                                                           *)
(* Then what the snapshot, the record and the stages of a poll hold: no      *)
(* snapshot claims what the gateway lacks, no bundle is in two stages at     *)
(* once, and the record claims only what was exported.                       *)
(*                                                                           *)
(* Last what a region promises over several polls: SnapshotKeepsBatches, by  *)
(* KeepInv of RegionInv, and that it implements Mirror.  The latter needs    *)
(* circumstances in which it holds at all; MirrorInv is inductive there.     *)
(*****************************************************************************)
EXTENDS RegionInv, TLAPS

(* The operators on infos and contents have the types one expects. *)
LEMMA NoInfoType == NoInfo \in BundleInfo
BY MaxVersionAssumption DEF NoInfo, BundleInfo, FpMap

LEMMA EmptyRecordType == EmptyRecord \in FpMap
BY Zenon DEF EmptyRecord, FpMap

LEMMA InfoType ==
  ASSUME NEW v \in Versions
  PROVE  Info(v) \in BundleInfo /\ Info(v).ver = v /\ Info(v).fps = Crcs[v]
BY CrcsAssumption, MaxVersionAssumption DEF Info, BundleInfo, Versions

LEMMA CatalogType ==
  ASSUME NEW v \in Versions, NEW b \in Bundles
  PROVE  Catalog[v][b] \in Fps \cup {NoFp}
BY CatalogAssumption, Zenon DEF FpMap

LEMMA ContentType ==
  ASSUME NEW v \in Versions, NEW S \in SUBSET Bundles
  PROVE  Content(v, S) \subseteq Bundles \X Fps
BY CatalogType DEF Content

LEMMA NextSnapshotType ==
  ASSUME NEW new \in BundleInfo, NEW old \in BundleInfo, NEW S
  PROVE  NextSnapshot(new, old, S) \in BundleInfo
BY Zenon DEF NextSnapshot, BundleInfo, FpMap

LEMMA MergeSnapshotType ==
  ASSUME NEW disk \in BundleInfo, NEW new \in BundleInfo, NEW S
  PROVE  MergeSnapshot(disk, new, S) \in BundleInfo
BY NoInfoType, Zenon DEF MergeSnapshot, BundleInfo, FpMap

LEMMA FaultType ==
  ASSUME faults \in 0..MaxFaults, NEW kind, Fault(kind)
  PROVE  faults' \in 0..MaxFaults
BY BoundsAssumption DEF Fault

LEMMA NoFaultType ==
  ASSUME faults \in 0..MaxFaults, NoFault
  PROVE  faults' \in 0..MaxFaults
BY Zenon DEF NoFault

LEMMA TasksOffType ==
  ASSUME TasksOff
  PROVE  ExecType' /\ PipeType'
<1>1. cancel_flag' \in BOOLEAN /\ draining' \in BOOLEAN /\ first_commit_pending' \in BOOLEAN
  BY Zenon DEF TasksOff
<1>2. downloaded_assets' \in FpMap
  BY EmptyRecordType, Zenon DEF TasksOff
<1>3. ExecType'
  BY <1>1, <1>2, MaxVersionAssumption DEF TasksOff, ExecType, ExecStates
<1>4. PipeType'
  BY <1>1, Zenon DEF TasksOff, PipeType, UpStates
<1> QED
  BY <1>3, <1>4, Zenon

LEMMA PollEndsType ==
  ASSUME NEW result \in {"none", "skipped", "completed", "error"}, PollEnds(result)
  PROVE  MainType' /\ ExecType' /\ PipeType'
BY TasksOffType, NoInfoType, MaxVersionAssumption, BoundsAssumption DEF PollEnds, MainType, PcStates

LEMMA AttemptFailsType ==
  ASSUME MainType, NEW kind \in {"retry", "config"}, AttemptFails(kind)
  PROVE  MainType'
BY Zenon DEF AttemptFails, MainType, PcStates

--------------------------------------------------------------------------------
(* Every step spends one fault or none. *)
LEMMA FaultsStep ==
  ASSUME faults \in 0..MaxFaults, [Next]_vars
  PROVE  faults' \in 0..MaxFaults
<1>1. CASE MainNext
  BY <1>1, FaultType, NoFaultType, Zenon
  DEF MainNext, Tick, Layer0, Permit, Layer1, Connect, SelectExecution, SelectUploader,
      JoinForwarder, JoinUploader, AwaitExecution, Settle, Cleanup, Mark, Retry, Backoff,
      MainMoves
<1>2. CASE ExecutorNext
  BY <1>2, FaultType, NoFaultType, Zenon
  DEF ExecutorNext, ExecStart, ExecPlan, ExecCheck, JobStart, JobExport, JobFail,
      JobAborted, JobCancelled, JoinExported, ExecDrained, SaveEnds, ExecSync, Forward,
      ForwarderDone
<1>3. CASE UploaderNext
  BY <1>3, FaultType, NoFaultType, Zenon
  DEF UploaderNext, UpReceive, UpLeaveLoop, UpUpload, UpCommit, UpMerge, UpClean, UpMetadata
<1>4. CASE EnvironmentNext
  BY <1>4, FaultType, NoFaultType, Zenon
  DEF EnvironmentNext, CancelBridge, Cancel, Crash, Restart, Publish, SiblingCommit,
      SiblingWatermark
<1>5. CASE UNCHANGED vars
  BY <1>5, Zenon DEF vars
<1> QED
  BY <1>1, <1>2, <1>3, <1>4, <1>5, Zenon DEF Next

(* Every step keeps the type of what is stored. *)
LEMMA StoreTypeStep ==
  ASSUME TypeOK, Control, Fetched, [Next]_vars
  PROVE  StoreType'
<1>1. ASSUME UNCHANGED <<cdn, gateway, snapshot, record, wmDisk, wmMem, cancelled>>
      PROVE  StoreType'
  BY <1>1, Zenon DEF StoreType, TypeOK
<1>2. CASE MainNext
  <2>1. CASE Layer0
    BY <2>1, EmptyRecordType, Zenon DEF Layer0, CleanedRecord, TypeOK, StoreType, envVars
  <2>2. CASE Settle
    <3>1. new_info \in Versions
      BY <2>2, Zenon DEF Settle, Fetched, After
    <3>2. snapshot' \in BundleInfo
      BY <2>2, <3>1, NextSnapshotType, InfoType, Zenon DEF Settle, TypeOK, StoreType, MainType
    <3> QED
      BY <2>2, <3>2, Zenon DEF Settle, TypeOK, StoreType, envVars
  <2>3. CASE Cleanup
    BY <2>3, EmptyRecordType, Zenon DEF Cleanup, CleanedRecord, TypeOK, StoreType, envVars
  <2>4. CASE Mark
    <3>1. cur \in 0..MaxVersion
      BY Zenon DEF TypeOK, MainType
    <3> QED
      BY <2>4, <3>1, Zenon DEF Mark, TypeOK, StoreType, envVars
  <2>5. CASE Tick \/ Permit \/ Layer1 \/ Connect \/ SelectExecution \/ SelectUploader \/
             JoinForwarder \/ JoinUploader \/ AwaitExecution \/ Retry \/ Backoff
    BY <1>1, <2>5, Zenon
    DEF Tick, Permit, Layer1, Connect, SelectExecution, SelectUploader, JoinForwarder,
        JoinUploader, AwaitExecution, Retry, Backoff, MainMoves, taskVars, envVars, diskVars
  <2> QED
    BY <1>2, <2>1, <2>2, <2>3, <2>4, <2>5, Zenon DEF MainNext
<1>3. CASE ExecutorNext
  <2>1. CASE SaveEnds
    BY <2>1, Zenon DEF SaveEnds, TypeOK, StoreType, ExecType, envVars
  <2>2. CASE ExecStart \/ ExecPlan \/ ExecCheck \/ JobCancelled \/ ExecDrained \/ ExecSync
             \/ ForwarderDone \/ (\E b \in Bundles : JobStart(b) \/ JobExport(b) \/
             JobFail(b) \/ JobAborted(b) \/ JoinExported(b) \/ Forward(b))
    BY <1>1, <2>2, Zenon
    DEF ExecStart, ExecPlan, ExecCheck, JobStart, JobExport, JobFail, JobAborted,
        JobCancelled, JoinExported, ExecDrained, ExecSync, Forward, ForwarderDone, envVars,
        diskVars
  <2> QED
    BY <1>3, <2>1, <2>2, Zenon DEF ExecutorNext
<1>4. CASE UploaderNext
  <2>1. CASE UpCommit
    <3>1. Content(execVer, batch) \subseteq Bundles \X Fps
      <4>1. CASE batch = {}
        BY <4>1, Zenon DEF Content
      <4>2. CASE batch # {}
        BY <4>2, ContentType, Zenon DEF Fetched, InPipeline, TypeOK, PipeType
      <4> QED
        BY <4>1, <4>2, Zenon
    <3>2. gateway' \subseteq Bundles \X Fps
      BY <2>1, <3>1, Zenon DEF UpCommit, TypeOK, StoreType
    <3> QED
      BY <2>1, <3>2, Zenon DEF UpCommit, TypeOK, StoreType, diskVars
  <2>2. CASE UpMerge
    <3>1. new_info \in Versions
      BY <2>2, Zenon
      DEF UpMerge, Fetched, Control, TypeOK, MainType, PcStates, Before, Joining, After,
          UpDone
    <3>2. snapshot' \in BundleInfo
      BY <2>2, <3>1, MergeSnapshotType, InfoType, Zenon DEF UpMerge, TypeOK, StoreType
    <3> QED
      BY <2>2, <3>2, Zenon DEF UpMerge, TypeOK, StoreType, envVars
  <2>3. CASE UpLeaveLoop \/ UpUpload \/ UpClean \/ UpMetadata \/ (\E b \in Bundles :
             UpReceive(b))
    BY <1>1, <2>3, Zenon
    DEF UpReceive, UpLeaveLoop, UpUpload, UpClean, UpMetadata, envVars, diskVars
  <2> QED
    BY <1>4, <2>1, <2>2, <2>3, Zenon DEF UploaderNext
<1>5. CASE EnvironmentNext
  <2>1. CASE Cancel
    BY <2>1, Zenon DEF Cancel, TypeOK, StoreType, envVars, diskVars
  <2>2. CASE Crash
    <3>1. cancelled' \in BOOLEAN
      BY <2>2, Zenon DEF Crash, Reopened
    <3> QED
      BY <2>2, <3>1, Zenon DEF Crash, Reopened, TypeOK, StoreType, envVars
  <2>3. CASE Restart
    <3>1. cancelled' \in BOOLEAN
      BY <2>3, Zenon DEF Restart, Reopened
    <3> QED
      BY <2>3, <3>1, Zenon DEF Restart, Reopened, TypeOK, StoreType, envVars
  <2>4. CASE Publish
    BY <2>4, MaxVersionAssumption DEF Publish, TypeOK, StoreType, diskVars
  <2>5. CASE SiblingCommit
    BY <2>5, ContentType, MaxVersionAssumption
    DEF SiblingCommit, TypeOK, StoreType, diskVars, Versions
  <2>6. CASE SiblingWatermark
    BY <2>6, Zenon DEF SiblingWatermark, TypeOK, StoreType, envVars
  <2>7. CASE CancelBridge
    BY <1>1, <2>7, Zenon DEF CancelBridge, envVars, diskVars
  <2> QED
    BY <1>5, <2>1, <2>2, <2>3, <2>4, <2>5, <2>6, <2>7, Zenon DEF EnvironmentNext
<1>6. CASE UNCHANGED vars
  BY <1>1, <1>6, Zenon DEF vars, envVars, diskVars
<1> QED
  BY <1>2, <1>3, <1>4, <1>5, <1>6, Zenon DEF Next

(* Every step keeps the type of the main task. *)
LEMMA MainTypeStep ==
  ASSUME TypeOK, Control, [Next]_vars
  PROVE  MainType'
<1>1. ASSUME UNCHANGED <<pc, cur, attempt, err, outcome, new_info, old_info>>
      PROVE  MainType'
  BY <1>1, Zenon DEF MainType, TypeOK
<1>2. CASE MainNext
  <2>1. CASE Tick
    BY <2>1, Zenon DEF Tick, TypeOK, MainType, PcStates
  <2>2. CASE Layer0
    BY <2>2, PollEndsType DEF Layer0, TypeOK, StoreType, MainType, PcStates
  <2>3. CASE Permit
    BY <2>3, PollEndsType, BoundsAssumption DEF Permit, TypeOK, MainType, PcStates
  <2>4. CASE Layer1
    BY <2>4, AttemptFailsType DEF Layer1, TypeOK, StoreType, MainType, PcStates
  <2>5. CASE Connect
    BY <2>5, AttemptFailsType, Zenon DEF Connect, TypeOK, MainType, PcStates
  <2>6. CASE SelectExecution
    BY <2>6, Zenon DEF SelectExecution, MainMoves, TypeOK, MainType, PcStates
  <2>7. CASE SelectUploader
    BY <2>7, Zenon DEF SelectUploader, MainMoves, TypeOK, MainType, PcStates
  <2>8. CASE JoinForwarder
    BY <2>8, Zenon DEF JoinForwarder, MainMoves, TypeOK, MainType, PcStates
  <2>9. CASE JoinUploader
    BY <2>9, Zenon DEF JoinUploader, MainMoves, TypeOK, MainType, PcStates
  <2>10. CASE AwaitExecution
    BY <2>10, Zenon DEF AwaitExecution, MainMoves, TypeOK, MainType, PcStates
  <2>11. CASE Settle
    BY <2>11, AttemptFailsType, Zenon DEF Settle, TypeOK, MainType, PcStates
  <2>12. CASE Cleanup
    BY <2>12, AttemptFailsType, Zenon DEF Cleanup, TypeOK, MainType, PcStates
  <2>13. CASE Mark
    BY <2>13, PollEndsType, AttemptFailsType, Zenon DEF Mark, TypeOK
  <2>14. CASE Retry
    BY <2>14, PollEndsType, Zenon DEF Retry, MayRetry, TypeOK, MainType, PcStates
  <2>15. CASE Backoff
    <3>1. attempt < MaxAttempts
      BY <2>15, Zenon DEF Backoff, Control
    <3> QED
      BY <2>15, <3>1, PollEndsType, NoInfoType, MaxVersionAssumption, BoundsAssumption
      DEF Backoff, TypeOK, MainType, PcStates
  <2> QED
    BY <1>2, <2>1, <2>2, <2>3, <2>4, <2>5, <2>6, <2>7, <2>8, <2>9, <2>10, <2>11, <2>12,
       <2>13, <2>14, <2>15, Zenon
    DEF MainNext
<1>3. CASE ExecutorNext
  BY <1>1, <1>3, Zenon
  DEF ExecutorNext, ExecStart, ExecPlan, ExecCheck, JobStart, JobExport, JobFail,
      JobAborted, JobCancelled, JoinExported, ExecDrained, SaveEnds, ExecSync, Forward,
      ForwarderDone, mainVars
<1>4. CASE UploaderNext
  BY <1>1, <1>4, Zenon
  DEF UploaderNext, UpReceive, UpLeaveLoop, UpUpload, UpCommit, UpMerge, UpClean,
      UpMetadata, mainVars
<1>5. CASE EnvironmentNext
  <2>1. CASE Crash
    BY <2>1, PollEndsType, Zenon DEF Crash, Reopened
  <2>2. CASE Restart
    BY <2>2, PollEndsType, Zenon DEF Restart, Reopened
  <2>3. CASE CancelBridge \/ Cancel \/ Publish \/ SiblingCommit \/ SiblingWatermark
    BY <1>1, <2>3, Zenon
    DEF CancelBridge, Cancel, Publish, SiblingCommit, SiblingWatermark, taskVars, mainVars
  <2> QED
    BY <1>5, <2>1, <2>2, <2>3, Zenon DEF EnvironmentNext
<1>6. CASE UNCHANGED vars
  BY <1>1, <1>6, Zenon DEF vars, mainVars
<1> QED
  BY <1>2, <1>3, <1>4, <1>5, <1>6, Zenon DEF Next

(* Every step keeps the type of the executor. *)
LEMMA ExecTypeStep ==
  ASSUME TypeOK, Fetched, [Next]_vars
  PROVE  ExecType'
<1>1. ASSUME UNCHANGED <<exec, execVer, downloaded_assets, pending_save_count, saving, todo,
             active, exported, failed, known, check_skipped, cancel_flag>>
      PROVE  ExecType'
  BY <1>1, Zenon DEF ExecType, TypeOK
<1>2. CASE MainNext
  <2>1. CASE Layer0
    BY <2>1, <1>1, PollEndsType, Zenon DEF Layer0, taskVars, execVars
  <2>2. CASE Permit
    BY <2>2, <1>1, PollEndsType, Zenon DEF Permit, taskVars, execVars
  <2>3. CASE Connect
    BY <2>3, <1>1, Zenon DEF Connect, taskVars, execVars, TypeOK, ExecType, ExecStates
  <2>4. CASE SelectUploader
    <3>1. cancel_flag' \in BOOLEAN
      BY <2>4, Zenon DEF SelectUploader
    <3> QED
      BY <2>4, <3>1, Zenon DEF SelectUploader, MainMoves, execVars, TypeOK, ExecType
  <2>5. CASE Mark
    BY <2>5, <1>1, PollEndsType, Zenon DEF Mark, taskVars, execVars
  <2>6. CASE Retry
    BY <2>6, <1>1, PollEndsType, Zenon DEF Retry, taskVars, execVars
  <2>7. CASE Backoff
    BY <2>7, PollEndsType, TasksOffType, Zenon DEF Backoff
  <2>8. CASE Tick \/ Layer1 \/ SelectExecution \/ JoinForwarder \/ JoinUploader \/
             AwaitExecution \/ Settle \/ Cleanup
    BY <1>1, <2>8, Zenon
    DEF Tick, Layer1, SelectExecution, JoinForwarder, JoinUploader, AwaitExecution, Settle,
        Cleanup, MainMoves, taskVars, execVars
  <2> QED
    BY <1>2, <2>1, <2>2, <2>3, <2>4, <2>5, <2>6, <2>7, <2>8, Zenon DEF MainNext
<1>3. CASE ExecutorNext
  <2>1. CASE ExecStart
    BY <2>1, Zenon DEF ExecStart, TypeOK, StoreType, ExecType, ExecStates
  <2>2. CASE ExecPlan
    <3>1. ASSUME NEW v, NEW rec
          PROVE  DownloadTasks(v, rec) \subseteq Bundles /\ InRecord(v, rec) \subseteq Bundles
      BY WantedAssumption, Zenon DEF DownloadTasks, InRecord, Selected
    <3>2. todo' \subseteq Bundles /\ known' \subseteq Bundles
      BY <2>2, <3>1, SMTT(60) DEF ExecPlan, TypeOK, ExecType
    <3>3. execVer' \in 0..MaxVersion
      BY <2>2, SMTT(60) DEF ExecPlan, TypeOK, StoreType, MainType, ExecType, Fetched, Versions
    <3> QED
      BY <2>2, <3>2, <3>3, SMTT(60) DEF ExecPlan, TypeOK, ExecType, ExecStates
  <2>3. CASE ExecCheck
    BY <2>3, Zenon DEF ExecCheck, CheckSkips, TypeOK, ExecType, ExecStates
  <2>4. ASSUME NEW b \in Bundles, JobStart(b)
        PROVE  ExecType'
    BY <2>4, Zenon DEF JobStart, TypeOK, ExecType
  <2>5. ASSUME NEW b \in Bundles, JobExport(b)
        PROVE  ExecType'
    BY <2>5, Zenon DEF JobExport, TypeOK, ExecType
  <2>6. ASSUME NEW b \in Bundles, JobFail(b)
        PROVE  ExecType'
    BY <2>6, Zenon DEF JobFail, TypeOK, ExecType
  <2>7. ASSUME NEW b \in Bundles, JobAborted(b)
        PROVE  ExecType'
    BY <2>7, Zenon DEF JobAborted, TypeOK, ExecType
  <2>8. CASE JobCancelled
    BY <2>8, Zenon DEF JobCancelled, TypeOK, ExecType, ExecStates
  <2>9. ASSUME NEW b \in Bundles, JoinExported(b)
        PROVE  ExecType'
    <3>1. execVer \in Versions
      BY <2>9, Zenon DEF JoinExported, Fetched, InPipeline
    <3>2. downloaded_assets' \in FpMap
      BY <2>9, <3>1, CatalogType, Zenon DEF JoinExported, TypeOK, ExecType, FpMap
    <3> QED
      BY <2>9, <3>2 DEF JoinExported, TypeOK, ExecType
  <2>10. CASE ExecDrained
    BY <2>10, Zenon DEF ExecDrained, TypeOK, ExecType, ExecStates
  <2>11. CASE SaveEnds
    BY <2>11, Zenon DEF SaveEnds, TypeOK, ExecType, ExecStates
  <2>12. CASE ExecSync
    BY <2>12, Zenon DEF ExecSync, TypeOK, ExecType, ExecStates
  <2>13. CASE ForwarderDone \/ (\E b \in Bundles : Forward(b))
    BY <1>1, <2>13, Zenon DEF Forward, ForwarderDone, execVars
  <2> QED
    BY <1>3, <2>1, <2>2, <2>3, <2>4, <2>5, <2>6, <2>7, <2>8, <2>9, <2>10, <2>11, <2>12,
       <2>13, Zenon
    DEF ExecutorNext
<1>4. CASE UploaderNext
  BY <1>1, <1>4, Zenon
  DEF UploaderNext, UpReceive, UpLeaveLoop, UpUpload, UpCommit, UpMerge, UpClean,
      UpMetadata, execVars
<1>5. CASE EnvironmentNext
  <2>1. CASE CancelBridge
    <3>1. cancel_flag' \in BOOLEAN
      BY <2>1, Zenon DEF CancelBridge
    <3> QED
      BY <2>1, <3>1, Zenon DEF CancelBridge, execVars, TypeOK, ExecType
  <2>2. CASE Crash
    BY <2>2, PollEndsType, Zenon DEF Crash, Reopened
  <2>3. CASE Restart
    BY <2>3, PollEndsType, Zenon DEF Restart, Reopened
  <2>4. CASE Cancel \/ Publish \/ SiblingCommit \/ SiblingWatermark
    BY <1>1, <2>4, Zenon DEF Cancel, Publish, SiblingCommit, SiblingWatermark, taskVars, execVars
  <2> QED
    BY <1>5, <2>1, <2>2, <2>3, <2>4, Zenon DEF EnvironmentNext
<1>6. CASE UNCHANGED vars
  BY <1>1, <1>6, Zenon DEF vars, execVars
<1> QED
  BY <1>2, <1>3, <1>4, <1>5, <1>6, Zenon DEF Next

(* Every step keeps the type of forwarder and uploader. *)
LEMMA PipeTypeStep ==
  ASSUME TypeOK, [Next]_vars
  PROVE  PipeType'
<1>1. ASSUME UNCHANGED <<fwd, progress, up, artefacts, draining, batch, processed_all,
             first_commit_pending>>
      PROVE  PipeType'
  BY <1>1, Zenon DEF PipeType, TypeOK
<1>2. CASE MainNext
  <2>1. CASE Layer0
    BY <2>1, <1>1, PollEndsType, Zenon DEF Layer0, taskVars, fwdVars, upVars
  <2>2. CASE Permit
    BY <2>2, <1>1, PollEndsType, Zenon DEF Permit, taskVars, fwdVars, upVars
  <2>3. CASE Connect
    BY <2>3, <1>1, Zenon DEF Connect, taskVars, fwdVars, upVars, TypeOK, PipeType, UpStates
  <2>4. CASE Mark
    BY <2>4, <1>1, PollEndsType, Zenon DEF Mark, taskVars, fwdVars, upVars
  <2>5. CASE Retry
    BY <2>5, <1>1, PollEndsType, Zenon DEF Retry, taskVars, fwdVars, upVars
  <2>6. CASE Backoff
    BY <2>6, PollEndsType, TasksOffType, Zenon DEF Backoff
  <2>7. CASE Tick \/ Layer1 \/ SelectExecution \/ SelectUploader \/ JoinForwarder \/
             JoinUploader \/ AwaitExecution \/ Settle \/ Cleanup
    BY <1>1, <2>7, Zenon
    DEF Tick, Layer1, SelectExecution, SelectUploader, JoinForwarder, JoinUploader,
        AwaitExecution, Settle, Cleanup, MainMoves, taskVars, fwdVars, upVars
  <2> QED
    BY <1>2, <2>1, <2>2, <2>3, <2>4, <2>5, <2>6, <2>7, Zenon DEF MainNext
<1>3. CASE ExecutorNext
  <2>1. ASSUME NEW b \in Bundles, JobExport(b)
        PROVE  PipeType'
    BY <2>1, Zenon DEF JobExport, upVars, TypeOK, PipeType
  <2>2. ASSUME NEW b \in Bundles, Forward(b)
        PROVE  PipeType'
    BY <2>2, Zenon DEF Forward, TypeOK, PipeType
  <2>3. CASE ForwarderDone
    BY <2>3, Zenon DEF ForwarderDone, upVars, TypeOK, PipeType
  <2>4. CASE ExecStart \/ ExecPlan \/ ExecCheck \/ JobCancelled \/ ExecDrained \/ SaveEnds
             \/ ExecSync \/ (\E b \in Bundles : JobStart(b) \/ JobFail(b) \/ JobAborted(b)
             \/ JoinExported(b))
    BY <1>1, <2>4, Zenon
    DEF ExecStart, ExecPlan, ExecCheck, JobStart, JobFail, JobAborted, JobCancelled,
        JoinExported, ExecDrained, SaveEnds, ExecSync, fwdVars, upVars
  <2> QED
    BY <1>3, <2>1, <2>2, <2>3, <2>4, Zenon DEF ExecutorNext
<1>4. CASE UploaderNext
  <2>1. ASSUME NEW b \in Bundles, UpReceive(b)
        PROVE  PipeType'
    BY <2>1, Zenon DEF UpReceive, fwdVars, TypeOK, PipeType, UpStates
  <2>2. CASE UpLeaveLoop
    BY <2>2, Zenon DEF UpLeaveLoop, UpReturns, fwdVars, TypeOK, PipeType, UpStates
  <2>3. CASE UpUpload
    <3>1. first_commit_pending' \in BOOLEAN
      BY <2>3, Zenon DEF UpUpload, TypeOK, PipeType
    <3> QED
      BY <2>3, <3>1, Zenon DEF UpUpload, UpReturns, fwdVars, TypeOK, PipeType, UpStates
  <2>4. CASE UpCommit
    BY <2>4, Zenon DEF UpCommit, UpReturns, fwdVars, TypeOK, PipeType, UpStates
  <2>5. CASE UpMerge
    BY <2>5, Zenon DEF UpMerge, fwdVars, TypeOK, PipeType, UpStates
  <2>6. CASE UpClean
    BY <2>6, Zenon DEF UpClean, UpReturns, fwdVars, TypeOK, PipeType, UpStates
  <2>7. CASE UpMetadata
    <3>1. first_commit_pending' \in BOOLEAN
      BY <2>7, Zenon DEF UpMetadata
    <3> QED
      BY <2>7, <3>1, Zenon DEF UpMetadata, UpReturns, fwdVars, TypeOK, PipeType, UpStates
  <2> QED
    BY <1>4, <2>1, <2>2, <2>3, <2>4, <2>5, <2>6, <2>7, Zenon DEF UploaderNext
<1>5. CASE EnvironmentNext
  <2>1. CASE Crash
    BY <2>1, PollEndsType, Zenon DEF Crash, Reopened
  <2>2. CASE Restart
    BY <2>2, PollEndsType, Zenon DEF Restart, Reopened
  <2>3. CASE CancelBridge \/ Cancel \/ Publish \/ SiblingCommit \/ SiblingWatermark
    BY <1>1, <2>3, Zenon
    DEF CancelBridge, Cancel, Publish, SiblingCommit, SiblingWatermark, taskVars, fwdVars,
        upVars
  <2> QED
    BY <1>5, <2>1, <2>2, <2>3, Zenon DEF EnvironmentNext
<1>6. CASE UNCHANGED vars
  BY <1>1, <1>6, Zenon DEF vars, fwdVars, upVars
<1> QED
  BY <1>2, <1>3, <1>4, <1>5, <1>6, Zenon DEF Next

--------------------------------------------------------------------------------
(* Forgetting a poll and its tasks establishes all that is claimed of them. *)
LEMMA PollEndsInv ==
  ASSUME NEW result, PollEnds(result)
  PROVE  Control' /\ Stages' /\ Fetched' /\ Committed' /\ Conserved'
<1>1. Control'
  BY Zenon DEF PollEnds, TasksOff, Control, Before, Joining, After, ExecDone
<1>2. Stages' /\ Committed' /\ Conserved'
  BY Zenon DEF PollEnds, TasksOff, Stages, Committed, Conserved, Planned
<1>3. Fetched'
  BY Zenon DEF PollEnds, TasksOff, Fetched, InPipeline, Joining, After, Planned
<1> QED
  BY <1>1, <1>2, <1>3, Zenon

(* Every step keeps the states of the tasks compatible. *)
LEMMA ControlStep ==
  ASSUME TypeOK, Control, Stages, [Next]_vars
  PROVE  Control'
<1>1. ASSUME UNCHANGED <<pc, exec, fwd, up, active, progress, saving, attempt>>
      PROVE  Control'
  BY <1>1, Zenon DEF Control, Before, Joining, After, ExecDone, UpDone
<1>2. CASE MainNext
  <2>1. CASE Tick
    BY <2>1, Zenon
    DEF Tick, taskVars, execVars, fwdVars, upVars, Control, Before, Joining, After,
        ExecDone, UpDone
  <2>2. CASE Layer0
    BY <2>2, PollEndsInv, Zenon
    DEF Layer0, taskVars, execVars, fwdVars, upVars, Control, Before, Joining, After,
        ExecDone, UpDone
  <2>3. CASE Permit
    BY <2>3, PollEndsInv, Zenon
    DEF Permit, taskVars, execVars, fwdVars, upVars, Control, Before, Joining, After,
        ExecDone, UpDone
  <2>4. CASE Layer1
    BY <2>4, Zenon
    DEF Layer1, AttemptFails, taskVars, execVars, fwdVars, upVars, Control, Before, Joining,
        After, ExecDone, UpDone
  <2>5. CASE Connect
    BY <2>5, Zenon
    DEF Connect, AttemptFails, taskVars, execVars, fwdVars, upVars, Control, Before,
        Joining, After, ExecDone, UpDone
  <2>6. CASE SelectExecution
    BY <2>6, Zenon
    DEF SelectExecution, MainMoves, execVars, fwdVars, upVars, Control, Before, Joining,
        After, ExecDone, UpDone
  <2>7. CASE SelectUploader
    BY <2>7, Zenon
    DEF SelectUploader, MainMoves, execVars, fwdVars, upVars, Control, Before, Joining,
        After, ExecDone, UpDone
  <2>8. CASE JoinForwarder
    BY <2>8, Zenon
    DEF JoinForwarder, MainMoves, execVars, fwdVars, upVars, Control, Before, Joining,
        After, ExecDone, UpDone
  <2>9. CASE JoinUploader
    BY <2>9, Zenon
    DEF JoinUploader, MainMoves, execVars, fwdVars, upVars, Control, Before, Joining, After,
        ExecDone, UpDone
  <2>10. CASE AwaitExecution
    BY <2>10, Zenon
    DEF AwaitExecution, MainMoves, execVars, fwdVars, upVars, Control, Before, Joining,
        After, ExecDone, UpDone
  <2>11. CASE Settle
    BY <2>11, Zenon
    DEF Settle, AttemptFails, taskVars, execVars, fwdVars, upVars, Control, Before, Joining,
        After, ExecDone, UpDone
  <2>12. CASE Cleanup
    BY <2>12, Zenon
    DEF Cleanup, AttemptFails, taskVars, execVars, fwdVars, upVars, Control, Before,
        Joining, After, ExecDone, UpDone
  <2>13. CASE Mark
    BY <2>13, PollEndsInv, Zenon
    DEF Mark, AttemptFails, taskVars, execVars, fwdVars, upVars, Control, Before, Joining,
        After, ExecDone, UpDone
  <2>14. CASE Retry
    BY <2>14, PollEndsInv, Zenon
    DEF Retry, MayRetry, taskVars, execVars, fwdVars, upVars, Control, Before, Joining,
        After, ExecDone, UpDone
  <2>15. CASE Backoff
    BY <2>15, PollEndsInv, Zenon
    DEF Backoff, TasksOff, Control, Before, Joining, After, ExecDone, UpDone
  <2> QED
    BY <1>2, <2>1, <2>2, <2>3, <2>4, <2>5, <2>6, <2>7, <2>8, <2>9, <2>10, <2>11, <2>12,
       <2>13, <2>14, <2>15, Zenon
    DEF MainNext
<1>3. CASE ExecutorNext
  <2>1. CASE ExecStart
    BY <2>1, Zenon
    DEF ExecStart, mainVars, fwdVars, upVars, Control, Before, Joining, After, ExecDone,
        UpDone
  <2>2. CASE ExecPlan
    BY <2>2, Zenon
    DEF ExecPlan, mainVars, fwdVars, upVars, Control, Before, Joining, After, ExecDone,
        UpDone
  <2>3. CASE ExecCheck
    BY <2>3, Zenon
    DEF ExecCheck, mainVars, fwdVars, upVars, Control, Stages, Before, Joining, After,
        ExecDone, UpDone
  <2>4. ASSUME NEW b \in Bundles, JobStart(b)
        PROVE  Control'
    BY <2>4, Zenon
    DEF JobStart, mainVars, fwdVars, upVars, Control, Before, Joining, After, ExecDone,
        UpDone
  <2>5. ASSUME NEW b \in Bundles, JobExport(b)
        PROVE  Control'
    BY <2>5, Zenon
    DEF JobExport, mainVars, upVars, Control, Before, Joining, After, ExecDone, UpDone
  <2>6. ASSUME NEW b \in Bundles, JobFail(b)
        PROVE  Control'
    BY <2>6, Zenon
    DEF JobFail, Looping, mainVars, fwdVars, upVars, Control, Before, Joining, After,
        ExecDone, UpDone
  <2>7. ASSUME NEW b \in Bundles, JobAborted(b)
        PROVE  Control'
    BY <2>7, Zenon
    DEF JobAborted, mainVars, fwdVars, upVars, Control, Before, Joining, After, ExecDone,
        UpDone
  <2>8. CASE JobCancelled
    BY <2>8, Zenon
    DEF JobCancelled, Looping, mainVars, fwdVars, upVars, Control, Before, Joining, After,
        ExecDone, UpDone
  <2>9. ASSUME NEW b \in Bundles, JoinExported(b)
        PROVE  Control'
    BY <2>9, Zenon
    DEF JoinExported, Looping, mainVars, fwdVars, upVars, Control, Before, Joining, After,
        ExecDone, UpDone
  <2>10. CASE ExecDrained
    BY <2>10, Zenon
    DEF ExecDrained, Looping, mainVars, fwdVars, upVars, Control, Before, Joining, After,
        ExecDone, UpDone
  <2>11. CASE SaveEnds
    BY <2>11, Zenon
    DEF SaveEnds, mainVars, fwdVars, upVars, Control, Before, Joining, After, ExecDone,
        UpDone
  <2>12. CASE ExecSync
    BY <2>12, Zenon
    DEF ExecSync, mainVars, fwdVars, upVars, Control, Before, Joining, After, ExecDone,
        UpDone
  <2>13. ASSUME NEW b \in Bundles, Forward(b)
         PROVE  Control'
    BY <2>13, Zenon
    DEF Forward, mainVars, execVars, Control, Before, Joining, After, ExecDone, UpDone
  <2>14. CASE ForwarderDone
    BY <2>14, Zenon
    DEF ForwarderDone, mainVars, execVars, upVars, Control, Before, Joining, After,
        ExecDone, UpDone
  <2> QED
    BY <1>3, <2>1, <2>2, <2>3, <2>4, <2>5, <2>6, <2>7, <2>8, <2>9, <2>10, <2>11, <2>12,
       <2>13, <2>14, Zenon
    DEF ExecutorNext
<1>4. CASE UploaderNext
  <2>1. ASSUME NEW b \in Bundles, UpReceive(b)
        PROVE  Control'
    BY <2>1, Zenon
    DEF UpReceive, mainVars, execVars, fwdVars, Control, Before, Joining, After, ExecDone,
        UpDone
  <2>2. CASE UpLeaveLoop
    BY <2>2, Zenon
    DEF UpLeaveLoop, UpReturns, mainVars, execVars, fwdVars, Control, Before, Joining,
        After, ExecDone, UpDone
  <2>3. CASE UpUpload
    BY <2>3, Zenon
    DEF UpUpload, UpReturns, mainVars, execVars, fwdVars, Control, Before, Joining, After,
        ExecDone, UpDone
  <2>4. CASE UpCommit
    BY <2>4, Zenon
    DEF UpCommit, UpReturns, mainVars, execVars, fwdVars, Control, Before, Joining, After,
        ExecDone, UpDone
  <2>5. CASE UpMerge
    BY <2>5, Zenon
    DEF UpMerge, mainVars, execVars, fwdVars, Control, Before, Joining, After, ExecDone,
        UpDone
  <2>6. CASE UpClean
    BY <2>6, Zenon
    DEF UpClean, UpReturns, mainVars, execVars, fwdVars, Control, Before, Joining, After,
        ExecDone, UpDone
  <2>7. CASE UpMetadata
    BY <2>7, Zenon
    DEF UpMetadata, UpReturns, mainVars, execVars, fwdVars, Control, Before, Joining, After,
        ExecDone, UpDone
  <2> QED
    BY <1>4, <2>1, <2>2, <2>3, <2>4, <2>5, <2>6, <2>7, Zenon DEF UploaderNext
<1>5. CASE EnvironmentNext
  <2>1. CASE Crash
    BY <2>1, PollEndsInv, Zenon DEF Crash, Reopened
  <2>2. CASE Restart
    BY <2>2, PollEndsInv, Zenon DEF Restart, Reopened
  <2>3. CASE CancelBridge \/ Cancel \/ Publish \/ SiblingCommit \/ SiblingWatermark
    BY <1>1, <2>3, Zenon
    DEF CancelBridge, Cancel, Publish, SiblingCommit, SiblingWatermark, taskVars, mainVars,
        execVars, fwdVars, upVars
  <2> QED
    BY <1>5, <2>1, <2>2, <2>3, Zenon DEF EnvironmentNext
<1>6. CASE UNCHANGED vars
  BY <1>1, <1>6, Zenon DEF vars, mainVars, execVars, fwdVars, upVars
<1> QED
  BY <1>2, <1>3, <1>4, <1>5, <1>6, Zenon DEF Next

(* Every step keeps the stages empty that must be. *)
LEMMA StagesStep ==
  ASSUME TypeOK, Control, Stages, [Next]_vars
  PROVE  Stages'
<1>1. ASSUME UNCHANGED <<exec, todo, known, check_skipped, active, exported, failed,
             progress, artefacts, batch, processed_all, up, draining, cancelled, fwd>>
      PROVE  Stages'
  BY <1>1, Zenon DEF Stages
<1>2. CASE MainNext
  <2>1. CASE Layer0
    BY <2>1, <1>1, PollEndsInv, Zenon DEF Layer0, taskVars, execVars, fwdVars, upVars
  <2>2. CASE Permit
    BY <2>2, <1>1, PollEndsInv, Zenon DEF Permit, taskVars, execVars, fwdVars, upVars
  <2>3. CASE Connect
    <3>1. exec = "off" /\ fwd = "off"
      BY <2>3, Zenon DEF Connect, Control, Before
    <3>2. CASE /\ exec' = "start" /\ up' \in {"recv", "off"}
               /\ UNCHANGED <<todo, known, check_skipped, active, exported, failed, progress,
                              artefacts, batch, processed_all, draining, cancelled>>
      BY <3>1, <3>2, Zenon DEF Stages
    <3>3. CASE UNCHANGED <<taskVars, cancelled>>
      BY <1>1, <3>3, Zenon DEF taskVars, execVars, fwdVars, upVars
    <3> QED
      BY <2>3, <3>2, <3>3, Zenon DEF Connect
  <2>4. CASE Mark
    BY <2>4, <1>1, PollEndsInv, Zenon DEF Mark, taskVars, execVars, fwdVars, upVars
  <2>5. CASE Retry
    BY <2>5, <1>1, PollEndsInv, Zenon DEF Retry, taskVars, execVars, fwdVars, upVars
  <2>6. CASE Backoff
    BY <2>6, PollEndsInv, Zenon DEF Backoff, TasksOff, Stages
  <2>7. CASE Tick \/ Layer1 \/ SelectExecution \/ SelectUploader \/ JoinForwarder \/
             JoinUploader \/ AwaitExecution \/ Settle \/ Cleanup
    BY <1>1, <2>7, Zenon
    DEF Tick, Layer1, SelectExecution, SelectUploader, JoinForwarder, JoinUploader,
        AwaitExecution, Settle, Cleanup, MainMoves, taskVars, execVars, fwdVars, upVars
  <2> QED
    BY <1>2, <2>1, <2>2, <2>3, <2>4, <2>5, <2>6, <2>7, Zenon DEF MainNext
<1>3. CASE ExecutorNext
  <2>1. CASE ExecStart
    BY <2>1, Zenon DEF ExecStart, fwdVars, upVars, Stages
  <2>2. CASE ExecPlan
    BY <2>2, Zenon DEF ExecPlan, fwdVars, upVars, Stages
  <2>3. CASE ExecCheck
    BY <2>3, Zenon DEF ExecCheck, fwdVars, upVars, Stages
  <2>4. ASSUME NEW b \in Bundles, JobStart(b)
        PROVE  Stages'
    BY <2>4, Zenon DEF JobStart, fwdVars, upVars, Stages
  <2>5. ASSUME NEW b \in Bundles, JobExport(b)
        PROVE  Stages'
    BY <2>5, Zenon DEF JobExport, Control, upVars, Stages
  <2>6. ASSUME NEW b \in Bundles, JobFail(b)
        PROVE  Stages'
    BY <2>6, Zenon DEF JobFail, Looping, fwdVars, upVars, Stages
  <2>7. ASSUME NEW b \in Bundles, JobAborted(b)
        PROVE  Stages'
    BY <2>7, Zenon DEF JobAborted, fwdVars, upVars, Stages
  <2>8. CASE JobCancelled
    BY <2>8, Zenon DEF JobCancelled, Looping, fwdVars, upVars, Stages
  <2>9. ASSUME NEW b \in Bundles, JoinExported(b)
        PROVE  Stages'
    BY <2>9, Zenon DEF JoinExported, Looping, fwdVars, upVars, Stages
  <2>10. CASE ExecDrained
    BY <2>10, Zenon DEF ExecDrained, Looping, fwdVars, upVars, Stages
  <2>11. CASE SaveEnds
    BY <2>11, Zenon DEF SaveEnds, Control, fwdVars, upVars, Stages
  <2>12. CASE ExecSync
    BY <2>12, Zenon DEF ExecSync, fwdVars, upVars, Stages
  <2>13. ASSUME NEW b \in Bundles, Forward(b)
         PROVE  Stages'
    BY <2>13, Zenon DEF Forward, Control, NoReceiver, UpDone, execVars, Stages
  <2>14. CASE ForwarderDone
    BY <2>14, Zenon DEF ForwarderDone, Control, execVars, upVars, Stages
  <2> QED
    BY <1>3, <2>1, <2>2, <2>3, <2>4, <2>5, <2>6, <2>7, <2>8, <2>9, <2>10, <2>11, <2>12,
       <2>13, <2>14, Zenon
    DEF ExecutorNext
<1>4. CASE UploaderNext
  <2>1. ASSUME NEW b \in Bundles, UpReceive(b)
        PROVE  Stages'
    BY <2>1, Zenon DEF UpReceive, Control, execVars, fwdVars, Stages
  <2>2. CASE UpLeaveLoop
    BY <2>2, Zenon DEF UpLeaveLoop, UpReturns, ChannelClosed, Control, execVars, fwdVars, Stages
  <2>3. CASE UpUpload
    BY <2>3, Zenon DEF UpUpload, UpReturns, execVars, fwdVars, Stages
  <2>4. CASE UpCommit
    BY <2>4, Zenon DEF UpCommit, UpReturns, execVars, fwdVars, Stages
  <2>5. CASE UpMerge
    BY <2>5, Zenon DEF UpMerge, execVars, fwdVars, Stages
  <2>6. CASE UpClean
    BY <2>6, Zenon DEF UpClean, UpReturns, execVars, fwdVars, Stages
  <2>7. CASE UpMetadata
    BY <2>7, Zenon DEF UpMetadata, UpReturns, execVars, fwdVars, Stages
  <2> QED
    BY <1>4, <2>1, <2>2, <2>3, <2>4, <2>5, <2>6, <2>7, Zenon DEF UploaderNext
<1>5. CASE EnvironmentNext
  <2>1. CASE Cancel
    BY <2>1, Zenon DEF Cancel, taskVars, execVars, fwdVars, upVars, Stages
  <2>2. CASE Crash
    BY <2>2, PollEndsInv, Zenon DEF Crash, Reopened
  <2>3. CASE Restart
    BY <2>3, PollEndsInv, Zenon DEF Restart, Reopened
  <2>4. CASE CancelBridge \/ Publish \/ SiblingCommit \/ SiblingWatermark
    BY <1>1, <2>4, Zenon
    DEF CancelBridge, Publish, SiblingCommit, SiblingWatermark, taskVars, execVars, fwdVars,
        upVars
  <2> QED
    BY <1>5, <2>1, <2>2, <2>3, <2>4, Zenon DEF EnvironmentNext
<1>6. CASE UNCHANGED vars
  BY <1>1, <1>6, Zenon DEF vars, execVars, fwdVars, upVars
<1> QED
  BY <1>2, <1>3, <1>4, <1>5, <1>6, Zenon DEF Next

(* Every step keeps the versions in use fetched. *)
LEMMA FetchedStep ==
  ASSUME TypeOK, Control, Stages, Fetched, [Next]_vars
  PROVE  Fetched'
<1>1. ASSUME UNCHANGED <<pc, cur, new_info, exec, execVer, active, exported, progress,
             artefacts, batch>>
      PROVE  Fetched'
  BY <1>1, Zenon DEF Fetched, InPipeline, Planned, Joining, After
<1>2. CASE MainNext
  <2>1. CASE Tick
    BY <2>1, Zenon
    DEF Tick, taskVars, execVars, fwdVars, upVars, Fetched, InPipeline, Planned, Joining,
        After
  <2>2. CASE Layer0
    BY <2>2, PollEndsInv, Zenon
    DEF Layer0, taskVars, execVars, fwdVars, upVars, TypeOK, StoreType, Versions, Fetched,
        InPipeline, Planned, Joining, After
  <2>3. CASE Permit
    BY <2>3, PollEndsInv, Zenon
    DEF Permit, taskVars, execVars, fwdVars, upVars, Fetched, InPipeline, Planned, Joining,
        After
  <2>4. CASE Layer1
    BY <2>4, Zenon
    DEF Layer1, AttemptFails, TypeOK, StoreType, Versions, taskVars, execVars, fwdVars,
        upVars, Fetched, InPipeline, Planned, Joining, After
  <2>5. CASE Connect
    BY <2>5, Zenon
    DEF Connect, AttemptFails, taskVars, execVars, fwdVars, upVars, Fetched, InPipeline,
        Planned, Joining, After
  <2>6. CASE SelectExecution
    BY <2>6, Zenon
    DEF SelectExecution, MainMoves, execVars, fwdVars, upVars, Fetched, InPipeline, Planned,
        Joining, After
  <2>7. CASE SelectUploader
    BY <2>7, Zenon
    DEF SelectUploader, MainMoves, execVars, fwdVars, upVars, Fetched, InPipeline, Planned,
        Joining, After
  <2>8. CASE JoinForwarder
    BY <2>8, Zenon
    DEF JoinForwarder, MainMoves, execVars, fwdVars, upVars, Fetched, InPipeline, Planned,
        Joining, After
  <2>9. CASE JoinUploader
    BY <2>9, Zenon
    DEF JoinUploader, MainMoves, execVars, fwdVars, upVars, Fetched, InPipeline, Planned,
        Joining, After
  <2>10. CASE AwaitExecution
    BY <2>10, Zenon
    DEF AwaitExecution, MainMoves, execVars, fwdVars, upVars, Fetched, InPipeline, Planned,
        Joining, After
  <2>11. CASE Settle
    BY <2>11, Zenon
    DEF Settle, AttemptFails, taskVars, execVars, fwdVars, upVars, Fetched, InPipeline,
        Planned, Joining, After
  <2>12. CASE Cleanup
    BY <2>12, Zenon
    DEF Cleanup, AttemptFails, taskVars, execVars, fwdVars, upVars, Fetched, InPipeline,
        Planned, Joining, After
  <2>13. CASE Mark
    BY <2>13, PollEndsInv, Zenon
    DEF Mark, AttemptFails, taskVars, execVars, fwdVars, upVars, Fetched, InPipeline,
        Planned, Joining, After
  <2>14. CASE Retry
    BY <2>14, PollEndsInv, Zenon
    DEF Retry, taskVars, execVars, fwdVars, upVars, Fetched, InPipeline, Planned, Joining,
        After
  <2>15. CASE Backoff
    BY <2>15, PollEndsInv, Zenon
    DEF Backoff, TasksOff, Fetched, InPipeline, Planned, Joining, After
  <2> QED
    BY <1>2, <2>1, <2>2, <2>3, <2>4, <2>5, <2>6, <2>7, <2>8, <2>9, <2>10, <2>11, <2>12,
       <2>13, <2>14, <2>15, Zenon
    DEF MainNext
<1>3. CASE ExecutorNext
  <2>1. CASE ExecStart
    BY <2>1, Zenon
    DEF ExecStart, mainVars, fwdVars, upVars, Fetched, InPipeline, Planned, Joining, After
  <2>2. CASE ExecPlan
    BY <2>2, Zenon
    DEF ExecPlan, TypeOK, StoreType, Versions, Control, Before, mainVars, fwdVars, upVars,
        Fetched, InPipeline, Planned, Joining, After
  <2>3. CASE ExecCheck
    BY <2>3, Zenon
    DEF ExecCheck, mainVars, fwdVars, upVars, Fetched, InPipeline, Planned, Joining, After
  <2>4. ASSUME NEW b \in Bundles, JobStart(b)
        PROVE  Fetched'
    BY <2>4, Zenon
    DEF JobStart, mainVars, fwdVars, upVars, Fetched, InPipeline, Planned, Joining, After
  <2>5. ASSUME NEW b \in Bundles, JobExport(b)
        PROVE  Fetched'
    BY <2>5, Zenon DEF JobExport, mainVars, upVars, Fetched, InPipeline, Planned, Joining, After
  <2>6. ASSUME NEW b \in Bundles, JobFail(b)
        PROVE  Fetched'
    BY <2>6, Zenon
    DEF JobFail, Looping, mainVars, fwdVars, upVars, Fetched, InPipeline, Planned, Joining,
        After
  <2>7. ASSUME NEW b \in Bundles, JobAborted(b)
        PROVE  Fetched'
    BY <2>7, Zenon
    DEF JobAborted, mainVars, fwdVars, upVars, Fetched, InPipeline, Planned, Joining, After
  <2>8. CASE JobCancelled
    BY <2>8, Zenon
    DEF JobCancelled, Looping, mainVars, fwdVars, upVars, Fetched, InPipeline, Planned,
        Joining, After
  <2>9. ASSUME NEW b \in Bundles, JoinExported(b)
        PROVE  Fetched'
    BY <2>9, Zenon
    DEF JoinExported, Looping, mainVars, fwdVars, upVars, Fetched, InPipeline, Planned,
        Joining, After
  <2>10. CASE ExecDrained
    BY <2>10, Zenon
    DEF ExecDrained, Looping, mainVars, fwdVars, upVars, Fetched, InPipeline, Planned,
        Joining, After
  <2>11. CASE SaveEnds
    BY <2>11, Zenon
    DEF SaveEnds, Control, mainVars, fwdVars, upVars, Fetched, InPipeline, Planned, Joining,
        After
  <2>12. CASE ExecSync
    BY <2>12, Zenon
    DEF ExecSync, mainVars, fwdVars, upVars, Fetched, InPipeline, Planned, Joining, After
  <2>13. ASSUME NEW b \in Bundles, Forward(b)
         PROVE  Fetched'
    BY <2>13, Zenon DEF Forward, mainVars, execVars, Fetched, InPipeline, Planned, Joining, After
  <2>14. CASE ForwarderDone
    BY <1>1, <2>14, Zenon DEF ForwarderDone, mainVars, execVars, upVars
  <2> QED
    BY <1>3, <2>1, <2>2, <2>3, <2>4, <2>5, <2>6, <2>7, <2>8, <2>9, <2>10, <2>11, <2>12,
       <2>13, <2>14, Zenon
    DEF ExecutorNext
<1>4. CASE UploaderNext
  <2>1. ASSUME NEW b \in Bundles, UpReceive(b)
        PROVE  Fetched'
    BY <2>1, Zenon
    DEF UpReceive, mainVars, execVars, fwdVars, Fetched, InPipeline, Planned, Joining, After
  <2>2. CASE UpLeaveLoop
    BY <2>2, Zenon
    DEF UpLeaveLoop, UpReturns, mainVars, execVars, fwdVars, Fetched, InPipeline, Planned,
        Joining, After
  <2>3. CASE UpUpload
    BY <2>3, Zenon
    DEF UpUpload, UpReturns, mainVars, execVars, fwdVars, Fetched, InPipeline, Planned,
        Joining, After
  <2>4. CASE UpCommit
    BY <2>4, Zenon
    DEF UpCommit, UpReturns, mainVars, execVars, fwdVars, Fetched, InPipeline, Planned,
        Joining, After
  <2>5. CASE UpClean
    BY <2>5, Zenon
    DEF UpClean, UpReturns, mainVars, execVars, fwdVars, Fetched, InPipeline, Planned,
        Joining, After
  <2>6. CASE UpMetadata
    BY <2>6, Zenon
    DEF UpMetadata, UpReturns, mainVars, execVars, fwdVars, Fetched, InPipeline, Planned,
        Joining, After
  <2>7. CASE UpMerge
    BY <1>1, <2>7, Zenon DEF UpMerge, mainVars, execVars, fwdVars
  <2> QED
    BY <1>4, <2>1, <2>2, <2>3, <2>4, <2>5, <2>6, <2>7, Zenon DEF UploaderNext
<1>5. CASE EnvironmentNext
  <2>1. CASE Crash
    BY <2>1, PollEndsInv, Zenon DEF Crash, Reopened
  <2>2. CASE Restart
    BY <2>2, PollEndsInv, Zenon DEF Restart, Reopened
  <2>3. CASE CancelBridge \/ Cancel \/ Publish \/ SiblingCommit \/ SiblingWatermark
    BY <1>1, <2>3, Zenon
    DEF CancelBridge, Cancel, Publish, SiblingCommit, SiblingWatermark, taskVars, mainVars,
        execVars, fwdVars, upVars
  <2> QED
    BY <1>5, <2>1, <2>2, <2>3, Zenon DEF EnvironmentNext
<1>6. CASE UNCHANGED vars
  BY <1>1, <1>6, Zenon DEF vars, mainVars, execVars, fwdVars, upVars
<1> QED
  BY <1>2, <1>3, <1>4, <1>5, <1>6, Zenon DEF Next

(* Every step keeps a committed batch on the gateway. *)
LEMMA CommittedStep ==
  ASSUME TypeOK, Control, Stages, Committed, [Next]_vars
  PROVE  Committed'
<1>1. ASSUME UNCHANGED <<up, execVer, batch>>, gateway \subseteq gateway'
      PROVE  Committed'
  BY <1>1, Zenon DEF Committed, OnGateway
<1>2. CASE MainNext
  <2>1. CASE Layer0
    BY <2>1, <1>1, PollEndsInv, Zenon DEF Layer0, taskVars, envVars, execVars, upVars
  <2>2. CASE Permit
    BY <2>2, <1>1, PollEndsInv, Zenon DEF Permit, taskVars, envVars, execVars, upVars
  <2>3. CASE Connect
    BY <2>3, Zenon
    DEF Connect, AttemptFails, taskVars, envVars, execVars, upVars, Committed, OnGateway
  <2>4. CASE Mark
    BY <2>4, <1>1, PollEndsInv, Zenon DEF Mark, taskVars, envVars, execVars, upVars
  <2>5. CASE Retry
    BY <2>5, <1>1, PollEndsInv, Zenon DEF Retry, taskVars, envVars, execVars, upVars
  <2>6. CASE Backoff
    BY <2>6, PollEndsInv, Zenon DEF Backoff, TasksOff, Committed
  <2>7. CASE Tick \/ Layer1 \/ SelectExecution \/ SelectUploader \/ JoinForwarder \/
             JoinUploader \/ AwaitExecution \/ Settle \/ Cleanup
    BY <1>1, <2>7, Zenon
    DEF Tick, Layer1, SelectExecution, SelectUploader, JoinForwarder, JoinUploader,
        AwaitExecution, Settle, Cleanup, MainMoves, taskVars, envVars, execVars, upVars
  <2> QED
    BY <1>2, <2>1, <2>2, <2>3, <2>4, <2>5, <2>6, <2>7, Zenon DEF MainNext
<1>3. CASE ExecutorNext
  <2>1. CASE ExecPlan
    BY <2>1, Zenon DEF ExecPlan, Control, Stages, envVars, upVars, Committed, OnGateway
  <2>2. CASE ExecStart \/ ExecCheck \/ JobCancelled \/ ExecDrained \/ SaveEnds \/ ExecSync
             \/ ForwarderDone \/ (\E b \in Bundles : JobStart(b) \/ JobExport(b) \/
             JobFail(b) \/ JobAborted(b) \/ JoinExported(b) \/ Forward(b))
    BY <1>1, <2>2, Zenon
    DEF ExecStart, ExecCheck, JobStart, JobExport, JobFail, JobAborted, JobCancelled,
        JoinExported, ExecDrained, SaveEnds, ExecSync, Forward, ForwarderDone, envVars,
        execVars, upVars
  <2> QED
    BY <1>3, <2>1, <2>2, Zenon DEF ExecutorNext
<1>4. CASE UploaderNext
  <2>1. ASSUME NEW b \in Bundles, UpReceive(b)
        PROVE  Committed'
    BY <2>1, Zenon DEF UpReceive, envVars, execVars, Committed, OnGateway
  <2>2. CASE UpLeaveLoop
    BY <2>2, Zenon DEF UpLeaveLoop, UpReturns, envVars, execVars, Committed, OnGateway
  <2>3. CASE UpUpload
    BY <2>3, Zenon DEF UpUpload, UpReturns, envVars, execVars, Committed, OnGateway
  <2>4. CASE UpCommit
    BY <2>4, Zenon DEF UpCommit, UpReturns, Content, execVars, Committed, OnGateway
  <2>5. CASE UpMerge
    BY <2>5, Zenon DEF UpMerge, envVars, execVars, Committed, OnGateway
  <2>6. CASE UpClean
    BY <2>6, Zenon DEF UpClean, UpReturns, envVars, execVars, Committed, OnGateway
  <2>7. CASE UpMetadata
    BY <2>7, Zenon DEF UpMetadata, UpReturns, envVars, execVars, Committed, OnGateway
  <2> QED
    BY <1>4, <2>1, <2>2, <2>3, <2>4, <2>5, <2>6, <2>7, Zenon DEF UploaderNext
<1>5. CASE EnvironmentNext
  <2>1. CASE Crash
    BY <2>1, PollEndsInv, Zenon DEF Crash, Reopened
  <2>2. CASE Restart
    BY <2>2, PollEndsInv, Zenon DEF Restart, Reopened
  <2>3. CASE CancelBridge \/ Cancel \/ Publish \/ SiblingCommit \/ SiblingWatermark
    BY <1>1, <2>3, Zenon
    DEF CancelBridge, Cancel, Publish, SiblingCommit, SiblingWatermark, taskVars, envVars,
        execVars, upVars
  <2> QED
    BY <1>5, <2>1, <2>2, <2>3, Zenon DEF EnvironmentNext
<1>6. CASE UNCHANGED vars
  BY <1>1, <1>6, Zenon DEF vars, envVars, execVars, upVars
<1> QED
  BY <1>2, <1>3, <1>4, <1>5, <1>6, Zenon DEF Next

(* Every step keeps every bundle accounted for. *)
LEMMA ConservedStep ==
  ASSUME TypeOK, Control, Stages, Committed, Conserved, [Next]_vars
  PROVE  Conserved'
<1>1. ASSUME UNCHANGED <<exec, cancelled, up, execVer, known, failed, todo, active,
             progress, artefacts, batch>>, gateway \subseteq gateway'
      PROVE  Conserved'
  BY <1>1, Zenon DEF Conserved, Planned
<1>2. CASE MainNext
  <2>1. CASE Layer0
    BY <2>1, <1>1, PollEndsInv, Zenon DEF Layer0, taskVars, envVars, execVars, fwdVars, upVars
  <2>2. CASE Permit
    BY <2>2, <1>1, PollEndsInv, Zenon DEF Permit, taskVars, envVars, execVars, fwdVars, upVars
  <2>3. CASE Connect
    BY <2>3, Zenon
    DEF Connect, AttemptFails, Control, taskVars, envVars, execVars, fwdVars, upVars,
        Conserved, Planned
  <2>4. CASE Mark
    BY <2>4, <1>1, PollEndsInv, Zenon DEF Mark, taskVars, envVars, execVars, fwdVars, upVars
  <2>5. CASE Retry
    BY <2>5, <1>1, PollEndsInv, Zenon DEF Retry, taskVars, envVars, execVars, fwdVars, upVars
  <2>6. CASE Backoff
    BY <2>6, PollEndsInv, Zenon DEF Backoff, TasksOff, Conserved, Planned
  <2>7. CASE Tick \/ Layer1 \/ SelectExecution \/ SelectUploader \/ JoinForwarder \/
             JoinUploader \/ AwaitExecution \/ Settle \/ Cleanup
    BY <1>1, <2>7, Zenon
    DEF Tick, Layer1, SelectExecution, SelectUploader, JoinForwarder, JoinUploader,
        AwaitExecution, Settle, Cleanup, MainMoves, taskVars, envVars, execVars, fwdVars,
        upVars
  <2> QED
    BY <1>2, <2>1, <2>2, <2>3, <2>4, <2>5, <2>6, <2>7, Zenon DEF MainNext
<1>3. CASE ExecutorNext
  <2>1. CASE ExecStart
    BY <2>1, Zenon DEF ExecStart, envVars, fwdVars, upVars, Conserved, Planned
  <2>2. CASE ExecPlan
    BY <2>2, WantedAssumption, Zenon
    DEF ExecPlan, DownloadTasks, InRecord, envVars, fwdVars, upVars, Conserved, Planned
  <2>3. CASE ExecCheck
    BY <2>3, Zenon
    DEF ExecCheck, CheckSkips, Selected, envVars, fwdVars, upVars, Conserved, Planned
  <2>4. ASSUME NEW b \in Bundles, JobStart(b)
        PROVE  Conserved'
    BY <2>4, Zenon DEF JobStart, envVars, fwdVars, upVars, Conserved, Planned
  <2>5. ASSUME NEW b \in Bundles, JobExport(b)
        PROVE  Conserved'
    BY <2>5, Zenon DEF JobExport, envVars, upVars, Conserved, Planned
  <2>6. ASSUME NEW b \in Bundles, JobFail(b)
        PROVE  Conserved'
    BY <2>6, Zenon DEF JobFail, Looping, envVars, fwdVars, upVars, Conserved, Planned
  <2>7. ASSUME NEW b \in Bundles, JobAborted(b)
        PROVE  Conserved'
    BY <2>7, Zenon DEF JobAborted, envVars, fwdVars, upVars, Conserved, Planned
  <2>8. CASE JobCancelled
    BY <2>8, Zenon DEF JobCancelled, Looping, envVars, fwdVars, upVars, Conserved, Planned
  <2>9. CASE ExecDrained
    BY <2>9, Zenon DEF ExecDrained, Looping, envVars, fwdVars, upVars, Conserved, Planned
  <2>10. CASE SaveEnds
    BY <2>10, Zenon DEF SaveEnds, Control, envVars, fwdVars, upVars, Conserved, Planned
  <2>11. CASE ExecSync
    BY <2>11, Zenon DEF ExecSync, envVars, fwdVars, upVars, Conserved, Planned
  <2>12. ASSUME NEW b \in Bundles, Forward(b)
         PROVE  Conserved'
    BY <2>12, Zenon
    DEF Forward, NoReceiver, Control, Stages, UpDone, envVars, execVars, Conserved, Planned
  <2>13. CASE ForwarderDone \/ (\E b \in Bundles : JoinExported(b))
    BY <1>1, <2>13, Zenon DEF JoinExported, ForwarderDone, envVars, execVars, fwdVars, upVars
  <2> QED
    BY <1>3, <2>1, <2>2, <2>3, <2>4, <2>5, <2>6, <2>7, <2>8, <2>9, <2>10, <2>11, <2>12,
       <2>13, Zenon
    DEF ExecutorNext
<1>4. CASE UploaderNext
  <2>1. ASSUME NEW b \in Bundles, UpReceive(b)
        PROVE  Conserved'
    BY <2>1, Zenon DEF UpReceive, Stages, envVars, execVars, fwdVars, Conserved, Planned
  <2>2. CASE UpLeaveLoop
    BY <2>2, Zenon
    DEF UpLeaveLoop, UpReturns, Stages, ChannelClosed, envVars, execVars, fwdVars,
        Conserved, Planned
  <2>3. CASE UpUpload
    BY <2>3, Zenon DEF UpUpload, UpReturns, envVars, execVars, fwdVars, Conserved, Planned
  <2>4. CASE UpCommit
    BY <2>4, WantedAssumption, Zenon
    DEF UpCommit, UpReturns, Content, Selected, execVars, fwdVars, Conserved, Planned
  <2>5. CASE UpMerge
    BY <2>5, Zenon DEF UpMerge, envVars, execVars, fwdVars, Conserved, Planned
  <2>6. CASE UpClean
    BY <2>6, WantedAssumption, Zenon
    DEF UpClean, UpReturns, Committed, OnGateway, Selected, Stages, envVars, execVars,
        fwdVars, Conserved, Planned
  <2>7. CASE UpMetadata
    BY <2>7, Zenon
    DEF UpMetadata, UpReturns, Stages, envVars, execVars, fwdVars, Conserved, Planned
  <2> QED
    BY <1>4, <2>1, <2>2, <2>3, <2>4, <2>5, <2>6, <2>7, Zenon DEF UploaderNext
<1>5. CASE EnvironmentNext
  <2>1. CASE Cancel
    BY <2>1, Zenon DEF Cancel, taskVars, envVars, execVars, fwdVars, upVars, Conserved, Planned
  <2>2. CASE Crash
    BY <2>2, PollEndsInv, Zenon DEF Crash, Reopened
  <2>3. CASE Restart
    BY <2>3, PollEndsInv, Zenon DEF Restart, Reopened
  <2>4. CASE CancelBridge \/ Publish \/ SiblingCommit \/ SiblingWatermark
    BY <1>1, <2>4, Zenon
    DEF CancelBridge, Publish, SiblingCommit, SiblingWatermark, taskVars, envVars, execVars,
        fwdVars, upVars
  <2> QED
    BY <1>5, <2>1, <2>2, <2>3, <2>4, Zenon DEF EnvironmentNext
<1>6. CASE UNCHANGED vars
  BY <1>1, <1>6, Zenon DEF vars, envVars, execVars, fwdVars, upVars
<1> QED
  BY <1>2, <1>3, <1>4, <1>5, <1>6, Zenon DEF Next

--------------------------------------------------------------------------------
(* The initial states satisfy IndInv. *)
LEMMA InitIndInv ==
  ASSUME Init
  PROVE  IndInv
<1>1. /\ cancelled \in BOOLEAN /\ cancel_flag \in BOOLEAN
      /\ draining \in BOOLEAN /\ first_commit_pending \in BOOLEAN
  BY Zenon DEF Init
<1>2. StoreType /\ MainType
  <2>1. StoreType
    BY <1>1, NoInfoType, EmptyRecordType, MaxVersionAssumption DEF Init, StoreType
  <2>2. MainType
    BY NoInfoType, MaxVersionAssumption, BoundsAssumption DEF Init, MainType, PcStates
  <2> QED
    BY <2>1, <2>2, Zenon
<1>3. ExecType
  BY <1>1, EmptyRecordType, MaxVersionAssumption DEF Init, ExecType, ExecStates
<1>4. PipeType
  BY <1>1, Zenon DEF Init, PipeType, UpStates
<1>5. faults \in 0..MaxFaults
  BY BoundsAssumption DEF Init
<1>6. Control /\ Stages
  BY Zenon DEF Init, Control, Stages, Before, Joining, After, ExecDone
<1>7. Fetched /\ Committed /\ Conserved
  BY Zenon DEF Init, Fetched, InPipeline, Joining, After, Planned, Committed, Conserved
<1> QED
  BY <1>2, <1>3, <1>4, <1>5, <1>6, <1>7, Zenon DEF IndInv, TypeOK

(* IndInv is an invariant of the region. *)
LEMMA Invariance == Spec => []IndInv
<1>1. IndInv /\ [Next]_vars => IndInv'
  <2> SUFFICES ASSUME IndInv, [Next]_vars
               PROVE  IndInv'
    BY Zenon
  <2>1. TypeOK'
    BY StoreTypeStep, MainTypeStep, ExecTypeStep, PipeTypeStep, FaultsStep, Zenon DEF IndInv, TypeOK
  <2> QED
    BY <2>1, ControlStep, StagesStep, FetchedStep, CommittedStep, ConservedStep, Zenon DEF IndInv
<1> QED
  BY <1>1, InitIndInv, PTL DEF Spec

(* Type correctness of a region's state; a poll makes at most MaxAttempts   *)
(* attempts (retry_region_in_place).                                        *)
THEOREM TypeCorrect == Spec => []TypeOK
BY Invariance, PTL DEF IndInv

(* No bundle gets lost on the way from the plan of the executor through     *)
(* forwarder and uploader to the gateway, except through a failed job, the  *)
(* download record or a cancellation.                                       *)
THEOREM CompletionIsAccounted == Spec => []CompletionAccounted
<1>1. IndInv => CompletionAccounted
  <2> SUFFICES ASSUME IndInv, HipEnabled, pc \in {"cleanup", "mark"}, ~cancelled,
                      NEW b \in Selected(execVer) \ (failed \cup known)
               PROVE  <<b, Catalog[execVer][b]>> \in gateway
    BY Zenon DEF CompletionAccounted
  <2>1. exec = "ok" /\ fwd = "done" /\ up = "ok"
    BY Zenon DEF IndInv, Control, After, UpDone
  <2>2. /\ todo = {} /\ active = {} /\ progress = {} /\ artefacts = {} /\ batch = {}
    BY <2>1, Zenon DEF IndInv, Control, Stages
  <2> QED
    BY <2>1, <2>2, Zenon DEF IndInv, Conserved, Planned
<1> QED
  BY <1>1, Invariance, PTL

--------------------------------------------------------------------------------
(* What the executor and the forwarder leave alone. *)
LEMMA ExecutorFrame ==
  ASSUME ExecutorNext
  PROVE  UNCHANGED <<envVars, snapshot, wmDisk, wmMem, cancelled, mainVars, cancel_flag, up,
                     draining, batch, processed_all>>
BY Zenon
DEF ExecutorNext, ExecStart, ExecPlan, ExecCheck, JobStart, JobExport, JobFail,
    JobAborted, JobCancelled, JoinExported, ExecDrained, SaveEnds, ExecSync, Forward,
    ForwarderDone, diskVars, upVars

(* What the uploader leaves alone. *)
LEMMA UploaderFrame ==
  ASSUME UploaderNext
  PROVE  UNCHANGED <<cdn, record, wmDisk, wmMem, cancelled, mainVars, execVars, cancel_flag,
                     fwdVars>>
BY Zenon
DEF UploaderNext, UpReceive, UpLeaveLoop, UpUpload, UpCommit, UpMerge, UpClean,
    UpMetadata, envVars, diskVars

(* The gateway forgets nothing. *)
LEMMA GatewayGrows ==
  ASSUME [Next]_vars
  PROVE  gateway \subseteq gateway'
<1>1. CASE MainNext
  BY <1>1, Zenon
  DEF MainNext, Tick, Layer0, Permit, Layer1, Connect, SelectExecution, SelectUploader,
      JoinForwarder, JoinUploader, AwaitExecution, Settle, Cleanup, Mark, Retry, Backoff,
      MainMoves, envVars
<1>2. CASE ExecutorNext
  BY <1>2, ExecutorFrame, Zenon DEF envVars
<1>3. CASE UploaderNext
  BY <1>3, Zenon
  DEF UploaderNext, UpReceive, UpLeaveLoop, UpUpload, UpCommit, UpMerge, UpClean,
      UpMetadata, envVars
<1>4. CASE EnvironmentNext \/ UNCHANGED vars
  BY <1>4, Zenon
  DEF EnvironmentNext, CancelBridge, Cancel, Crash, Restart, Publish, SiblingCommit,
      SiblingWatermark, Reopened, envVars, vars
<1> QED
  BY <1>1, <1>2, <1>3, <1>4, Zenon DEF Next
--------------------------------------------------------------------------------
(* Forgetting a poll keeps what is claimed of its versions. *)
LEMMA PollEndsTruth ==
  ASSUME NEW result, PollEnds(result)
  PROVE  OneVersion' /\ OldTruthful' /\ ProcessedTruthful'
<1>1. OneVersion' /\ ProcessedTruthful'
  BY Zenon DEF PollEnds, TasksOff, InPipeline, Joining, After, Planned, OneVersion, OnGateway,
         ProcessedTruthful
<1>2. OldTruthful'
  BY Zenon DEF PollEnds, OldTruthful, NoInfo, Keys
<1> QED
  BY <1>1, <1>2, Zenon

(* Without a publication during a poll every step keeps to one version. *)
LEMMA OneVersionStep ==
  ASSUME ~PublishMidPoll, TypeOK, Control, Stages, OneVersion, [Next]_vars
  PROVE  OneVersion'
<1>1. ASSUME UNCHANGED <<pc, cur, cdn, new_info, exec, execVer, active, exported, progress,
             artefacts, batch, processed_all, check_skipped>>
      PROVE  OneVersion'
  BY <1>1, Zenon DEF OneVersion, InPipeline, Planned, Joining, After
<1>2. CASE MainNext
  <2>1. CASE Tick
    BY <2>1, Zenon
    DEF Tick, taskVars, envVars, execVars, fwdVars, upVars, OneVersion, InPipeline, Planned,
        Joining, After
  <2>2. CASE Layer0
    BY <2>2, PollEndsTruth, Zenon
    DEF Layer0, taskVars, execVars, fwdVars, upVars, envVars, OneVersion, InPipeline,
        Planned, Joining, After
  <2>3. CASE Permit
    BY <2>3, PollEndsTruth, Zenon
    DEF Permit, taskVars, execVars, fwdVars, upVars, envVars, OneVersion, InPipeline,
        Planned, Joining, After
  <2>4. CASE Layer1
    BY <2>4, Zenon
    DEF Layer1, AttemptFails, taskVars, envVars, execVars, fwdVars, upVars, OneVersion,
        InPipeline, Planned, Joining, After
  <2>5. CASE Connect
    BY <2>5, Zenon
    DEF Connect, AttemptFails, taskVars, envVars, execVars, fwdVars, upVars, OneVersion,
        InPipeline, Planned, Joining, After
  <2>6. CASE SelectExecution
    BY <2>6, Zenon
    DEF SelectExecution, MainMoves, envVars, execVars, fwdVars, upVars, OneVersion,
        InPipeline, Planned, Joining, After
  <2>7. CASE SelectUploader
    BY <2>7, Zenon
    DEF SelectUploader, MainMoves, envVars, execVars, fwdVars, upVars, OneVersion,
        InPipeline, Planned, Joining, After
  <2>8. CASE JoinForwarder
    BY <2>8, Zenon
    DEF JoinForwarder, MainMoves, envVars, execVars, fwdVars, upVars, OneVersion,
        InPipeline, Planned, Joining, After
  <2>9. CASE JoinUploader
    BY <2>9, Zenon
    DEF JoinUploader, MainMoves, envVars, execVars, fwdVars, upVars, OneVersion, InPipeline,
        Planned, Joining, After
  <2>10. CASE AwaitExecution
    BY <2>10, Zenon
    DEF AwaitExecution, MainMoves, envVars, execVars, fwdVars, upVars, OneVersion,
        InPipeline, Planned, Joining, After
  <2>11. CASE Settle
    BY <2>11, Zenon
    DEF Settle, AttemptFails, taskVars, envVars, execVars, fwdVars, upVars, OneVersion,
        InPipeline, Planned, Joining, After
  <2>12. CASE Cleanup
    BY <2>12, Zenon
    DEF Cleanup, AttemptFails, taskVars, envVars, execVars, fwdVars, upVars, OneVersion,
        InPipeline, Planned, Joining, After
  <2>13. CASE Mark
    BY <2>13, PollEndsTruth, Zenon
    DEF Mark, AttemptFails, taskVars, execVars, fwdVars, upVars, envVars, OneVersion,
        InPipeline, Planned, Joining, After
  <2>14. CASE Retry
    BY <2>14, PollEndsTruth, Zenon
    DEF Retry, taskVars, execVars, fwdVars, upVars, envVars, OneVersion, InPipeline,
        Planned, Joining, After
  <2>15. CASE Backoff
    BY <2>15, PollEndsTruth, Zenon
    DEF Backoff, TasksOff, envVars, OneVersion, InPipeline, Planned, Joining, After
  <2> QED
    BY <1>2, <2>1, <2>2, <2>3, <2>4, <2>5, <2>6, <2>7, <2>8, <2>9, <2>10, <2>11, <2>12,
       <2>13, <2>14, <2>15, Zenon
    DEF MainNext
<1>3. CASE ExecutorNext
  <2>1. CASE ExecStart
    BY <2>1, Zenon
    DEF ExecStart, envVars, mainVars, fwdVars, upVars, OneVersion, InPipeline, Planned,
        Joining, After
  <2>2. CASE ExecPlan
    BY <2>2, Zenon
    DEF ExecPlan, Control, Stages, Before, envVars, mainVars, fwdVars, upVars, OneVersion,
        InPipeline, Planned, Joining, After
  <2>3. CASE ExecCheck
    BY <2>3, Zenon
    DEF ExecCheck, envVars, mainVars, fwdVars, upVars, OneVersion, InPipeline, Planned,
        Joining, After
  <2>4. ASSUME NEW b \in Bundles, JobStart(b)
        PROVE  OneVersion'
    BY <2>4, Zenon
    DEF JobStart, envVars, mainVars, fwdVars, upVars, OneVersion, InPipeline, Planned,
        Joining, After
  <2>5. ASSUME NEW b \in Bundles, JobExport(b)
        PROVE  OneVersion'
    BY <2>5, Zenon
    DEF JobExport, envVars, mainVars, upVars, OneVersion, InPipeline, Planned, Joining,
        After
  <2>6. ASSUME NEW b \in Bundles, JobFail(b)
        PROVE  OneVersion'
    BY <2>6, Zenon
    DEF JobFail, Looping, envVars, mainVars, fwdVars, upVars, OneVersion, InPipeline,
        Planned, Joining, After
  <2>7. ASSUME NEW b \in Bundles, JobAborted(b)
        PROVE  OneVersion'
    BY <2>7, Zenon
    DEF JobAborted, envVars, mainVars, fwdVars, upVars, OneVersion, InPipeline, Planned,
        Joining, After
  <2>8. CASE JobCancelled
    BY <2>8, Zenon
    DEF JobCancelled, Looping, envVars, mainVars, fwdVars, upVars, OneVersion, InPipeline,
        Planned, Joining, After
  <2>9. ASSUME NEW b \in Bundles, JoinExported(b)
        PROVE  OneVersion'
    BY <2>9, Zenon
    DEF JoinExported, Looping, envVars, mainVars, fwdVars, upVars, OneVersion, InPipeline,
        Planned, Joining, After
  <2>10. CASE ExecDrained
    BY <2>10, Zenon
    DEF ExecDrained, Looping, envVars, mainVars, fwdVars, upVars, OneVersion, InPipeline,
        Planned, Joining, After
  <2>11. CASE SaveEnds
    BY <2>11, Zenon
    DEF SaveEnds, Control, envVars, mainVars, fwdVars, upVars, OneVersion, InPipeline,
        Planned, Joining, After
  <2>12. CASE ExecSync
    BY <2>12, Zenon
    DEF ExecSync, envVars, mainVars, fwdVars, upVars, OneVersion, InPipeline, Planned,
        Joining, After
  <2>13. ASSUME NEW b \in Bundles, Forward(b)
         PROVE  OneVersion'
    BY <2>13, Zenon
    DEF Forward, envVars, mainVars, execVars, OneVersion, InPipeline, Planned, Joining,
        After
  <2>14. CASE ForwarderDone
    BY <1>1, <2>14, Zenon DEF ForwarderDone, envVars, mainVars, execVars, upVars
  <2> QED
    BY <1>3, <2>1, <2>2, <2>3, <2>4, <2>5, <2>6, <2>7, <2>8, <2>9, <2>10, <2>11, <2>12,
       <2>13, <2>14, Zenon
    DEF ExecutorNext
<1>4. CASE UploaderNext
  <2>1. ASSUME NEW b \in Bundles, UpReceive(b)
        PROVE  OneVersion'
    BY <2>1, Zenon
    DEF UpReceive, envVars, mainVars, execVars, fwdVars, OneVersion, InPipeline, Planned,
        Joining, After
  <2>2. CASE UpLeaveLoop
    BY <2>2, Zenon
    DEF UpLeaveLoop, UpReturns, envVars, mainVars, execVars, fwdVars, OneVersion,
        InPipeline, Planned, Joining, After
  <2>3. CASE UpUpload
    BY <2>3, Zenon
    DEF UpUpload, UpReturns, envVars, mainVars, execVars, fwdVars, OneVersion, InPipeline,
        Planned, Joining, After
  <2>4. CASE UpCommit
    BY <2>4, Zenon
    DEF UpCommit, UpReturns, mainVars, execVars, fwdVars, OneVersion, InPipeline, Planned,
        Joining, After
  <2>5. CASE UpClean
    BY <2>5, Zenon
    DEF UpClean, UpReturns, envVars, mainVars, execVars, fwdVars, OneVersion, InPipeline,
        Planned, Joining, After
  <2>6. CASE UpMetadata
    BY <2>6, Zenon
    DEF UpMetadata, UpReturns, envVars, mainVars, execVars, fwdVars, OneVersion, InPipeline,
        Planned, Joining, After
  <2>7. CASE UpMerge
    BY <1>1, <2>7, Zenon DEF UpMerge, envVars, mainVars, execVars, fwdVars
  <2> QED
    BY <1>4, <2>1, <2>2, <2>3, <2>4, <2>5, <2>6, <2>7, Zenon DEF UploaderNext
<1>5. CASE EnvironmentNext
  <2>1. CASE Crash
    BY <2>1, PollEndsTruth, Zenon DEF Crash, Reopened
  <2>2. CASE Restart
    BY <2>2, PollEndsTruth, Zenon DEF Restart, Reopened
  <2>3. CASE Publish
    BY <2>3, Zenon
    DEF Publish, Control, Stages, Before, taskVars, mainVars, execVars, fwdVars, upVars,
        OneVersion, InPipeline, Planned, Joining, After
  <2>4. CASE CancelBridge \/ Cancel \/ SiblingCommit \/ SiblingWatermark
    BY <1>1, <2>4, Zenon
    DEF CancelBridge, Cancel, SiblingCommit, SiblingWatermark, taskVars, envVars, mainVars,
        execVars, fwdVars, upVars
  <2> QED
    BY <1>5, <2>1, <2>2, <2>3, <2>4, Zenon DEF EnvironmentNext
<1>6. CASE UNCHANGED vars
  BY <1>1, <1>6, Zenon DEF vars, envVars, mainVars, execVars, fwdVars, upVars
<1> QED
  BY <1>2, <1>3, <1>4, <1>5, <1>6, Zenon DEF Next

(* Every step keeps the loaded snapshot truthful. *)
LEMMA OldTruthfulStep ==
  ASSUME SnapshotTruthful, OldTruthful, [Next]_vars
  PROVE  OldTruthful'
<1>1. ASSUME UNCHANGED <<old_info>>, gateway \subseteq gateway'
      PROVE  OldTruthful'
  BY <1>1, Zenon DEF OldTruthful, HasCrc, Keys
<1>2. CASE MainNext
  <2>1. CASE Layer0
    BY <2>1, <1>1, PollEndsTruth, Zenon DEF Layer0, envVars
  <2>2. CASE Permit
    BY <2>2, <1>1, PollEndsTruth, Zenon DEF Permit, envVars
  <2>3. CASE Layer1
    BY <2>3, Zenon DEF Layer1, AttemptFails, envVars, SnapshotTruthful, OldTruthful, HasCrc,
       Keys
  <2>4. CASE Mark
    BY <2>4, <1>1, PollEndsTruth, Zenon DEF Mark, AttemptFails, envVars
  <2>5. CASE Retry
    BY <2>5, <1>1, PollEndsTruth, Zenon DEF Retry, envVars
  <2>6. CASE Backoff
    <3>1. CASE old_info' = NoInfo
      BY <3>1, Zenon DEF OldTruthful, NoInfo, Keys
    <3> QED
      BY <2>6, <3>1, PollEndsTruth, Zenon DEF Backoff
  <2>7. CASE Tick \/ Connect \/ SelectExecution \/ SelectUploader \/ JoinForwarder \/
             JoinUploader \/ AwaitExecution \/ Settle \/ Cleanup
    BY <1>1, <2>7, Zenon
    DEF Tick, Connect, SelectExecution, SelectUploader, JoinForwarder, JoinUploader,
        AwaitExecution, Settle, Cleanup, AttemptFails, MainMoves, taskVars, envVars
  <2> QED
    BY <1>2, <2>1, <2>2, <2>3, <2>4, <2>5, <2>6, <2>7, Zenon DEF MainNext
<1>3. CASE ExecutorNext
  BY <1>1, <1>3, Zenon
  DEF ExecutorNext, ExecStart, ExecPlan, ExecCheck, JobStart, JobExport, JobFail,
      JobAborted, JobCancelled, JoinExported, ExecDrained, SaveEnds, ExecSync, Forward,
      ForwarderDone, envVars, mainVars
<1>4. CASE UploaderNext
  BY <1>1, <1>4, Zenon
  DEF UploaderNext, UpReceive, UpLeaveLoop, UpUpload, UpCommit, UpMerge, UpClean,
      UpMetadata, envVars, mainVars
<1>5. CASE EnvironmentNext
  <2>1. CASE Crash
    BY <2>1, PollEndsTruth, Zenon DEF Crash, Reopened
  <2>2. CASE Restart
    BY <2>2, PollEndsTruth, Zenon DEF Restart, Reopened
  <2>3. CASE CancelBridge \/ Cancel \/ Publish \/ SiblingCommit \/ SiblingWatermark
    BY <1>1, <2>3, Zenon
    DEF CancelBridge, Cancel, Publish, SiblingCommit, SiblingWatermark, taskVars, envVars,
        mainVars
  <2> QED
    BY <1>5, <2>1, <2>2, <2>3, Zenon DEF EnvironmentNext
<1>6. CASE UNCHANGED vars
  BY <1>1, <1>6, Zenon DEF vars, envVars, mainVars
<1> QED
  BY <1>2, <1>3, <1>4, <1>5, <1>6, Zenon DEF Next

(* Every step keeps what was processed on the gateway. *)
LEMMA ProcessedStep ==
  ASSUME Control, Stages, Committed, ProcessedTruthful, [Next]_vars
  PROVE  ProcessedTruthful'
<1>1. ASSUME UNCHANGED <<execVer, processed_all, check_skipped>>, gateway \subseteq gateway'
      PROVE  ProcessedTruthful'
  BY <1>1, Zenon DEF ProcessedTruthful, OnGateway
<1>2. CASE MainNext
  <2>1. CASE Layer0
    BY <2>1, <1>1, PollEndsTruth, Zenon DEF Layer0, taskVars, envVars, execVars, upVars
  <2>2. CASE Permit
    BY <2>2, <1>1, PollEndsTruth, Zenon DEF Permit, taskVars, envVars, execVars, upVars
  <2>3. CASE Mark
    BY <2>3, <1>1, PollEndsTruth, Zenon DEF Mark, taskVars, envVars, execVars, upVars
  <2>4. CASE Retry
    BY <2>4, <1>1, PollEndsTruth, Zenon DEF Retry, taskVars, envVars, execVars, upVars
  <2>5. CASE Backoff
    BY <2>5, PollEndsTruth, Zenon DEF Backoff, TasksOff, ProcessedTruthful, OnGateway
  <2>6. CASE Tick \/ Layer1 \/ Connect \/ SelectExecution \/ SelectUploader \/ JoinForwarder
             \/ JoinUploader \/ AwaitExecution \/ Settle \/ Cleanup
    BY <1>1, <2>6, Zenon
    DEF Tick, Layer1, Connect, SelectExecution, SelectUploader, JoinForwarder, JoinUploader,
        AwaitExecution, Settle, Cleanup, MainMoves, taskVars, envVars, execVars, upVars
  <2> QED
    BY <1>2, <2>1, <2>2, <2>3, <2>4, <2>5, <2>6, Zenon DEF MainNext
<1>3. CASE ExecutorNext
  <2>1. CASE ExecPlan
    BY <2>1, Zenon DEF ExecPlan, Stages, envVars, upVars, ProcessedTruthful, OnGateway
  <2>2. CASE ExecCheck
    BY <2>2, Zenon DEF ExecCheck, CheckSkips, Stages, envVars, upVars, ProcessedTruthful, OnGateway
  <2>3. CASE ExecStart \/ JobCancelled \/ ExecDrained \/ SaveEnds \/ ExecSync \/
             ForwarderDone \/ (\E b \in Bundles : JobStart(b) \/ JobExport(b) \/ JobFail(b)
             \/ JobAborted(b) \/ JoinExported(b) \/ Forward(b))
    BY <1>1, <2>3, ZenonT(60)
    DEF ExecStart, JobStart, JobExport, JobFail, JobAborted, JobCancelled, JoinExported,
        ExecDrained, SaveEnds, ExecSync, Forward, ForwarderDone, envVars, execVars, upVars
  <2> QED
    BY <1>3, <2>1, <2>2, <2>3, Zenon DEF ExecutorNext
<1>4. CASE UploaderNext
  <2>1. CASE UpClean
    BY <2>1, Zenon
    DEF UpClean, UpReturns, Committed, envVars, execVars, ProcessedTruthful, OnGateway
  <2>2. CASE UpLeaveLoop \/ UpUpload \/ UpCommit \/ UpMerge \/ UpMetadata \/ (\E b \in
             Bundles : UpReceive(b))
    BY <1>1, <2>2, Zenon
    DEF UpReceive, UpLeaveLoop, UpUpload, UpCommit, UpMerge, UpMetadata, envVars, execVars
  <2> QED
    BY <1>4, <2>1, <2>2, Zenon DEF UploaderNext
<1>5. CASE EnvironmentNext
  <2>1. CASE Crash
    BY <2>1, PollEndsTruth, Zenon DEF Crash, Reopened
  <2>2. CASE Restart
    BY <2>2, PollEndsTruth, Zenon DEF Restart, Reopened
  <2>3. CASE CancelBridge \/ Cancel \/ Publish \/ SiblingCommit \/ SiblingWatermark
    BY <1>1, <2>3, Zenon
    DEF CancelBridge, Cancel, Publish, SiblingCommit, SiblingWatermark, taskVars, envVars,
        execVars, upVars
  <2> QED
    BY <1>5, <2>1, <2>2, <2>3, Zenon DEF EnvironmentNext
<1>6. CASE UNCHANGED vars
  BY <1>1, <1>6, Zenon DEF vars, envVars, execVars, upVars
<1> QED
  BY <1>2, <1>3, <1>4, <1>5, <1>6, Zenon DEF Next

(* Without a publication during a poll every step keeps the snapshot truthful. *)
LEMMA SnapshotStep ==
  ASSUME TypeOK, Control, Fetched, Committed, TruthInv, [Next]_vars
  PROVE  SnapshotTruthful'
<1>1. ASSUME UNCHANGED <<snapshot>>, gateway \subseteq gateway'
      PROVE  SnapshotTruthful'
  BY <1>1, Zenon DEF TruthInv, SnapshotTruthful, HasCrc, Keys
<1>2. CASE MainNext
  <2>1. CASE Settle
    <3> USE DEF TruthInv, SnapshotTruthful, HasCrc, Keys, envVars
    <3>1. new_info \in Versions /\ new_info = cdn
      BY <2>1, Zenon DEF Settle, Fetched, OneVersion, After
    <3>2. CASE snapshot' = snapshot
      BY <2>1, <3>2, Zenon DEF Settle
    <3>3. CASE snapshot' = NextSnapshot(Info(new_info), old_info, Processed)
      <4> SUFFICES ASSUME NEW b \in Bundles, snapshot'.fps[b] # NoFp
                   PROVE  \E v \in Versions : /\ Crcs[v][b] = snapshot'.fps[b]
                                             /\ <<b, Catalog[v][b]>> \in gateway'
        BY Zenon
      <4>1. gateway' = gateway
        BY <2>1, Zenon DEF Settle
      <4>2. snapshot'.fps[b] = Crcs[new_info][b] /\ Catalog[new_info][b] # NoFp
        <5>1. snapshot'.fps[b] = Crcs[new_info][b]
          BY <3>1, <3>3, InfoType, Zenon DEF NextSnapshot
        <5> QED
          BY <3>1, <5>1, CrcsAssumption, Zenon
      <4>3. b \in Processed \/ b \in Unchanged(old_info, Info(new_info))
        BY <3>3, Zenon DEF NextSnapshot
      <4>4. CASE b \in Processed
        <5>1. <<b, Catalog[new_info][b]>> \in gateway'
          BY <3>1, <4>1, <4>2, <4>4, Zenon DEF Processed, ProcessedTruthful, OnGateway, OneVersion
        <5> QED
          BY <3>1, <4>2, <5>1, Zenon
      <4>5. CASE b \in Unchanged(old_info, Info(new_info))
        <5>1. HasCrc(b, old_info.fps[b]) /\ old_info.fps[b] = Crcs[new_info][b]
          BY <3>1, <4>5, InfoType, Zenon DEF Unchanged, OldTruthful
        <5> QED
          BY <4>1, <4>2, <5>1, Zenon
      <4> QED
        BY <4>3, <4>4, <4>5, Zenon
    <3> QED
      BY <2>1, <3>2, <3>3, Zenon DEF Settle
  <2>2. CASE Tick \/ Layer0 \/ Permit \/ Layer1 \/ Connect \/ SelectExecution \/
             SelectUploader \/ JoinForwarder \/ JoinUploader \/ AwaitExecution \/ Cleanup \/
             Mark \/ Retry \/ Backoff
    BY <1>1, <2>2, Zenon
    DEF Tick, Layer0, Permit, Layer1, Connect, SelectExecution, SelectUploader,
        JoinForwarder, JoinUploader, AwaitExecution, Cleanup, Mark, Retry, Backoff,
        MainMoves, taskVars, envVars, diskVars
  <2> QED
    BY <1>2, <2>1, <2>2, Zenon DEF MainNext
<1>3. CASE ExecutorNext
  BY <1>1, <1>3, Zenon
  DEF ExecutorNext, ExecStart, ExecPlan, ExecCheck, JobStart, JobExport, JobFail,
      JobAborted, JobCancelled, JoinExported, ExecDrained, SaveEnds, ExecSync, Forward,
      ForwarderDone, envVars, diskVars
<1>4. CASE UploaderNext
  <2>1. CASE UpMerge
    <3> USE DEF TruthInv, SnapshotTruthful, HasCrc, Keys, envVars
    <3>1. new_info \in Versions /\ new_info = cdn
      BY <2>1, Zenon
      DEF UpMerge, Fetched, OneVersion, Control, TypeOK, MainType, PcStates, Before,
          Joining, After, UpDone
    <3>2. CASE snapshot' = snapshot
      BY <2>1, <3>2, Zenon DEF UpMerge
    <3>3. CASE snapshot' = MergeSnapshot(snapshot, Info(new_info), batch)
      <4> SUFFICES ASSUME NEW b \in Bundles, snapshot'.fps[b] # NoFp
                   PROVE  \E v \in Versions : /\ Crcs[v][b] = snapshot'.fps[b]
                                             /\ <<b, Catalog[v][b]>> \in gateway'
        BY Zenon
      <4>1. gateway' = gateway
        BY <2>1, Zenon DEF UpMerge
      <4>2. CASE b \in batch /\ Crcs[new_info][b] # NoFp
        <5>1. snapshot'.fps[b] = Crcs[new_info][b]
          BY <3>1, <3>3, <4>2, InfoType DEF MergeSnapshot
        <5>2. Catalog[new_info][b] # NoFp /\ new_info = execVer
          BY <3>1, <4>2, CrcsAssumption, Zenon DEF OneVersion, InPipeline
        <5>3. <<b, Catalog[new_info][b]>> \in gateway'
          BY <2>1, <4>1, <4>2, <5>2, Zenon DEF UpMerge, Committed, OnGateway
        <5> QED
          BY <3>1, <5>1, <5>3, Zenon
      <4>3. CASE ~(b \in batch /\ Crcs[new_info][b] # NoFp)
        <5>1. snapshot'.fps[b] = snapshot.fps[b]
          BY <3>1, <3>3, <4>3, InfoType, Zenon DEF MergeSnapshot, NoInfo
        <5> QED
          BY <4>1, <5>1, Zenon
      <4> QED
        BY <4>2, <4>3, Zenon
    <3> QED
      BY <2>1, <3>2, <3>3, Zenon DEF UpMerge
  <2>2. CASE UpLeaveLoop \/ UpUpload \/ UpCommit \/ UpClean \/ UpMetadata \/ (\E b \in
             Bundles : UpReceive(b))
    BY <1>1, <2>2, Zenon
    DEF UpReceive, UpLeaveLoop, UpUpload, UpCommit, UpClean, UpMetadata, envVars, diskVars
  <2> QED
    BY <1>4, <2>1, <2>2, Zenon DEF UploaderNext
<1>5. CASE EnvironmentNext
  BY <1>1, <1>5, Zenon
  DEF EnvironmentNext, CancelBridge, Cancel, Crash, Restart, Publish, SiblingCommit,
      SiblingWatermark, Reopened, taskVars, envVars, diskVars
<1>6. CASE UNCHANGED vars
  BY <1>1, <1>6, Zenon DEF vars, envVars, diskVars
<1> QED
  BY <1>2, <1>3, <1>4, <1>5, <1>6, Zenon DEF Next

(* If the CDN publishes only between polls, the layer-1 snapshot never      *)
(* names content that the gateway lacks.                                    *)
THEOREM SnapshotIsTruthful ==
  ASSUME ~PublishMidPoll
  PROVE  Spec => []SnapshotTruthful
<1>1. Init => TruthInv
  BY DEF Init, TruthInv, OneVersion, SnapshotTruthful, OldTruthful, ProcessedTruthful,
         OnGateway, Keys, NoInfo, Planned, InPipeline, Joining, After
<1>2. IndInv /\ TruthInv /\ [Next]_vars => TruthInv'
  BY OneVersionStep, SnapshotStep, OldTruthfulStep, ProcessedStep, Zenon DEF IndInv, TruthInv
<1>3. TruthInv => SnapshotTruthful
  BY Zenon DEF TruthInv
<1> QED
  BY <1>1, <1>2, <1>3, Invariance, PTL DEF Spec

--------------------------------------------------------------------------------
(* What leaves one stage for a later one keeps the two apart. *)
LEMMA ApartMove ==
  ASSUME NEW before, NEW S, NEW T, NEW b \in S, Apart(before, S), Apart(before \cup S, T)
  PROVE  Apart(before \cup (S \ {b}), T \cup {b})
<1> SUFFICES ASSUME NEW c \in before \cup (S \ {b}), c \in T \cup {b} PROVE FALSE
  BY Zenon DEF Apart
<1>1. c \in before \cup S
  BY Zenon
<1>2. c = b
  BY <1>1, Zenon DEF Apart
<1> QED
  BY <1>2, Zenon DEF Apart

(* Every step keeps the stages of the pipeline apart. *)
LEMMA PartitionStep ==
  ASSUME Control, Stages, Partition, [Next]_vars
  PROVE  Partition'
<1> USE DEF Partition, Planned, UpDone, Selected
<1>1. ASSUME UNCHANGED <<execVars, fwdVars, upVars>>
      PROVE  Partition'
  BY <1>1, Zenon DEF Apart, execVars, fwdVars, upVars
<1>2. ASSUME TasksOff
      PROVE  Partition'
  BY <1>2, Zenon DEF TasksOff
<1>3. CASE MainNext
  <2>1. CASE Layer0 \/ Permit \/ Mark \/ Retry \/ Backoff
    BY <1>1, <1>2, <2>1, Zenon
    DEF Layer0, Permit, Mark, Retry, Backoff, PollEnds, taskVars
  <2>2. CASE Connect
    BY <2>2, <1>1, Zenon DEF Connect, taskVars
  <2>3. CASE Tick \/ Layer1 \/ SelectExecution \/ SelectUploader \/ JoinForwarder \/
             JoinUploader \/ AwaitExecution \/ Settle \/ Cleanup
    BY <1>1, <2>3, Zenon
    DEF Tick, Layer1, SelectExecution, SelectUploader, JoinForwarder, JoinUploader,
        AwaitExecution, Settle, Cleanup, MainMoves, taskVars
  <2> QED
    BY <1>3, <2>1, <2>2, <2>3, Zenon DEF MainNext
<1>4. CASE ExecutorNext
  <2> USE DEF fwdVars, upVars, execVars
  <2>1. CASE ExecStart
    BY <2>1, Zenon DEF ExecStart
  <2>2. CASE ExecPlan
    BY <2>2, Zenon DEF Apart, ExecPlan, Stages, DownloadTasks, InRecord
  <2>3. CASE ExecCheck
    BY <2>3, Zenon DEF Apart, ExecCheck, CheckSkips, Stages
  <2>4. ASSUME NEW b \in Bundles, JobStart(b)
        PROVE  Partition'
    <3>1. /\ UNCHANGED <<exec, execVer, up, failed, progress, artefacts, batch, processed_all,
                         known, check_skipped>>
          /\ b \in todo /\ todo' = todo \ {b} /\ active' = active \cup {b}
      BY <2>4, Zenon DEF JobStart
    <3>2. /\ todo' \cup active' = todo \cup active
          /\ Apart(todo, active) => Apart(todo', active')
      BY <3>1 DEF Apart
    <3> QED
      BY <3>1, <3>2, Zenon
  <2>5. ASSUME NEW b \in Bundles, JobExport(b)
        PROVE  Partition'
    <3>1. /\ UNCHANGED <<exec, execVer, up, todo, failed, artefacts, batch, processed_all, known,
                         check_skipped>>
          /\ b \in active /\ active' = active \ {b} /\ progress' = progress \cup {b}
      BY <2>5, Zenon DEF JobExport
    <3>2. /\ todo' \cup active' \cup failed' \cup progress'
               = todo \cup active \cup failed \cup progress
          /\ Apart(todo, active) => Apart(todo', active')
          /\ Apart(todo \cup active, failed) => Apart(todo' \cup active', failed')
      BY <3>1 DEF Apart
    <3>3. Apart(todo, active) /\ Apart(todo \cup active, failed)
            /\ Apart(todo \cup active \cup failed, progress)
          => Apart(todo' \cup active' \cup failed', progress')
      BY <3>1 DEF Apart
    <3> QED
      BY <3>1, <3>2, <3>3, Zenon
  <2>6. ASSUME NEW b \in Bundles, JobFail(b)
        PROVE  Partition'
    <3>1. /\ UNCHANGED <<exec, execVer, up, todo, progress, artefacts, batch, processed_all, known,
                         check_skipped>>
          /\ b \in active /\ active' = active \ {b} /\ failed' = failed \cup {b}
      BY <2>6, Zenon DEF JobFail
    <3>2. /\ todo' \cup active' \cup failed' = todo \cup active \cup failed
          /\ Apart(todo, active) => Apart(todo', active')
      BY <3>1 DEF Apart
    <3>3. Apart(todo, active) /\ Apart(todo \cup active, failed)
          => Apart(todo' \cup active', failed')
      BY <3>1 DEF Apart
    <3> QED
      BY <3>1, <3>2, <3>3, Zenon
  <2>7. ASSUME NEW b \in Bundles, JobAborted(b)
        PROVE  Partition'
    BY <2>7, Zenon DEF JobAborted
  <2>8. ASSUME NEW b \in Bundles, Forward(b)
        PROVE  Partition'
    <3> DEFINE before == todo \cup active \cup failed
    <3>1. /\ UNCHANGED <<exec, execVer, up, todo, active, failed, batch, processed_all, known,
                         check_skipped>>
          /\ b \in progress /\ progress' = progress \ {b}
      BY <2>8, Zenon DEF Forward
    <3>2. HipEnabled /\ exec \in Planned /\ ~UpDone => artefacts' = artefacts \cup {b}
      BY <2>8, Zenon DEF Forward, NoReceiver, Control
    <3>3. CASE artefacts' = artefacts \cup {b}
      <4> HIDE DEF before
      <4>1. before \cup progress' \cup artefacts' = before \cup progress \cup artefacts
        BY <3>1, <3>3, Zenon
      <4>2. Apart(before, progress) => Apart(before, progress')
        BY <3>1, Zenon DEF Apart
      <4>3. Apart(before, progress) /\ Apart(before \cup progress, artefacts)
            => Apart(before \cup progress', artefacts')
        BY <3>1, <3>3, ApartMove, Zenon
      <4> QED
        BY <3>1, <4>1, <4>2, <4>3, Zenon DEF before
    <3> QED
      BY <3>1, <3>2, <3>3, Zenon
  <2>9. CASE JobCancelled \/ ExecDrained \/ SaveEnds \/ ExecSync \/ ForwarderDone \/
             (\E b \in Bundles : JoinExported(b))
    BY <2>9, Zenon
    DEF JobCancelled, ExecDrained, SaveEnds, ExecSync, ForwarderDone, JoinExported, Looping,
        Control
  <2> QED
    BY <1>4, <2>1, <2>2, <2>3, <2>4, <2>5, <2>6, <2>7, <2>8, <2>9, Zenon DEF ExecutorNext
<1>5. CASE UploaderNext
  <2> USE DEF fwdVars, execVars
  <2>1. ASSUME NEW b \in Bundles, UpReceive(b)
        PROVE  Partition'
    <3> DEFINE before == todo \cup active \cup failed \cup progress
    <3>1. /\ UNCHANGED <<exec, execVer, todo, active, failed, progress, processed_all, known,
                         check_skipped>>
          /\ ~UpDone /\ b \in artefacts /\ artefacts' = artefacts \ {b} /\ batch' = batch \cup {b}
      BY <2>1, Zenon DEF UpReceive
    <3>2. before' = before
      BY <3>1, Zenon
    <3> HIDE DEF before
    <3>3. /\ before \cup artefacts' \cup batch' = before \cup artefacts \cup batch
          /\ Apart(before, artefacts) => Apart(before, artefacts')
      BY <3>1 DEF Apart
    <3>4. Apart(before, artefacts) /\ Apart(before \cup artefacts, batch)
          => Apart(before \cup artefacts', batch')
      BY <3>1, ApartMove, Zenon
    <3> QED
      BY <3>1, <3>2, <3>3, <3>4, Zenon DEF before
  <2>2. CASE UpClean
    BY <2>2, Zenon DEF Apart, UpClean, UpReturns
  <2>3. CASE UpLeaveLoop \/ UpUpload \/ UpCommit \/ UpMerge \/ UpMetadata
    BY <2>3, Zenon
    DEF UpLeaveLoop, UpUpload, UpCommit, UpMerge, UpMetadata, UpReturns
  <2> QED
    BY <1>5, <2>1, <2>2, <2>3, Zenon DEF UploaderNext
<1>6. CASE EnvironmentNext
  BY <1>1, <1>2, <1>6, Zenon
  DEF EnvironmentNext, CancelBridge, Cancel, Crash, Restart, Publish, SiblingCommit,
      SiblingWatermark, Reopened, PollEnds, taskVars
<1>7. CASE UNCHANGED vars
  BY <1>1, <1>7, Zenon DEF vars
<1> QED
  BY <1>3, <1>4, <1>5, <1>6, <1>7, Zenon DEF Next

(* The hand-over from executor to forwarder to uploader neither loses nor   *)
(* duplicates a bundle: as long as the uploader takes artefacts, every      *)
(* selected bundle is in exactly one stage, whatever fails or crashes.      *)
THEOREM PipelineIsConserved == Spec => []PipelineConserves
<1>1. Partition => PipelineConserves
  <2> DEFINE s == <<todo, active, failed, progress, artefacts, batch, processed_all,
                    known, check_skipped>>
  <2> SUFFICES ASSUME Partition, HipEnabled, exec \in {"run", "save", "sync", "ok"}, ~UpDone,
                      NEW b \in Selected(execVer)
               PROVE  \E i \in DOMAIN s : \A j \in DOMAIN s : b \in s[j] <=> j = i
    BY Zenon DEF PipelineConserves
  <2>1. DOMAIN s = 1..9
    OBVIOUS
  <2>2. /\ s[1] = todo /\ s[2] = active /\ s[3] = failed /\ s[4] = progress
        /\ s[5] = artefacts /\ s[6] = batch /\ s[7] = processed_all /\ s[8] = known
        /\ s[9] = check_skipped
    BY Zenon
  <2>3. \E i \in 1..9 : \A j \in 1..9 : b \in s[j] <=> j = i
    <3> HIDE DEF s
    <3>1. \/ b \in todo \/ b \in active \/ b \in failed \/ b \in progress \/ b \in artefacts
          \/ b \in batch \/ b \in processed_all \/ b \in known \/ b \in check_skipped
      BY Zenon DEF Partition, Planned
    <3>2. /\ b \in active => b \notin todo
          /\ b \in failed => b \notin todo \cup active
          /\ b \in progress => b \notin todo \cup active \cup failed
          /\ b \in artefacts => b \notin todo \cup active \cup failed \cup progress
          /\ b \in batch => b \notin todo \cup active \cup failed \cup progress \cup artefacts
          /\ b \in processed_all =>
               b \notin todo \cup active \cup failed \cup progress \cup artefacts \cup batch
          /\ b \in known =>
               b \notin todo \cup active \cup failed \cup progress \cup artefacts \cup batch
                          \cup processed_all
          /\ b \in check_skipped =>
               b \notin todo \cup active \cup failed \cup progress \cup artefacts \cup batch
                          \cup processed_all \cup known
      BY Zenon DEF Partition, Planned, Apart
    <3>3. \A j : j \in 1..9 <=> \/ j = 1 \/ j = 2 \/ j = 3 \/ j = 4 \/ j = 5 \/ j = 6 \/ j = 7
                               \/ j = 8 \/ j = 9
      OBVIOUS
    <3>4. \E i \in 1..9 : b \in s[i]
      BY <2>2, <3>1, <3>3, Zenon
    <3>5. ASSUME NEW i \in 1..9, NEW j \in 1..9, i < j, b \in s[i], b \in s[j] PROVE FALSE
      <4>2. j # 2
        BY <2>2, <3>2, <3>5
      <4>3. j # 3
        BY <2>2, <3>2, <3>5
      <4>4. j # 4
        BY <2>2, <3>2, <3>5
      <4>5. j # 5
        BY <2>2, <3>2, <3>5
      <4>6. j # 6
        BY <2>2, <3>2, <3>5
      <4>7. j # 7
        BY <2>2, <3>2, <3>5
      <4>8. j # 8
        BY <2>2, <3>2, <3>5
      <4>9. j # 9
        BY <2>2, <3>2, <3>5
      <4> QED
        BY <3>5, <4>2, <4>3, <4>4, <4>5, <4>6, <4>7, <4>8, <4>9
    <3>6. \A i, j \in 1..9 : b \in s[i] /\ b \in s[j] => i = j
      BY <3>5
    <3> QED
      BY <3>4, <3>6, Zenon
  <2> HIDE DEF s
  <2> QED
    BY <2>1, <2>3
<1>2. Init => Partition
  BY Zenon DEF Init, Partition, Planned
<1>3. IndInv /\ Partition /\ [Next]_vars => Partition'
  BY PartitionStep, Zenon DEF IndInv
<1> QED
  BY <1>1, <1>2, <1>3, Invariance, PTL DEF Spec

--------------------------------------------------------------------------------
(* Without HIP the snapshot stays empty. *)
LEMMA NoLayer1Step ==
  ASSUME ~HipEnabled, TypeOK, Control, NoLayer1, Fetched, [Next]_vars
  PROVE  NoLayer1'
<1> USE DEF NoLayer1
<1>1. Keys(NoInfo) = {}
  BY Zenon DEF Keys, NoInfo
<1>2. CASE /\ UNCHANGED <<snapshot, processed_all, check_skipped>>
           /\ old_info' \in {old_info, snapshot, NoInfo}
  BY <1>1, <1>2, Zenon DEF Keys
<1>3. CASE UNCHANGED snapshot /\ TasksOff /\ old_info' = NoInfo
  BY <1>1, <1>3, Zenon DEF TasksOff, Keys
<1>4. CASE MainNext
  <2>1. CASE Settle
    <3>1. new_info \in Versions /\ Processed = {}
      BY <2>1, Zenon DEF Settle, Fetched, After, Processed
    <3>2. UNCHANGED <<old_info, processed_all, check_skipped>>
      BY <2>1, Zenon DEF Settle, AttemptFails, taskVars, execVars, upVars
    <3>3. CASE snapshot' = NextSnapshot(Info(new_info), old_info, Processed)
      BY <3>1, <3>2, <3>3, Zenon DEF NextSnapshot, Unchanged, Keys
    <3>4. CASE snapshot' = snapshot
      BY <3>2, <3>4, Zenon DEF Keys
    <3> QED
      BY <2>1, <3>3, <3>4, Zenon DEF Settle
  <2>2. CASE Layer0 \/ Permit \/ Mark \/ Retry \/ Backoff
    BY <1>2, <1>3, <2>2, Zenon
    DEF Layer0, Permit, Mark, Retry, Backoff, PollEnds, AttemptFails, taskVars, execVars,
        upVars, diskVars
  <2>3. CASE Tick \/ Layer1 \/ Connect \/ SelectExecution \/ SelectUploader \/ JoinForwarder \/
             JoinUploader \/ AwaitExecution \/ Cleanup
    BY <1>2, <2>3, Zenon
    DEF Tick, Layer1, Connect, SelectExecution, SelectUploader, JoinForwarder, JoinUploader,
        AwaitExecution, Cleanup, AttemptFails, MainMoves, taskVars, execVars, upVars, diskVars
  <2> QED
    BY <1>4, <2>1, <2>2, <2>3, Zenon DEF MainNext
<1>5. CASE ExecutorNext
  <2>1. check_skipped' = {}
    BY <1>5, Zenon
    DEF ExecutorNext, ExecStart, ExecPlan, ExecCheck, JobStart, JobExport, JobFail,
        JobAborted, JobCancelled, JoinExported, ExecDrained, SaveEnds, ExecSync, Forward,
        ForwarderDone, execVars
  <2> QED
    BY <1>5, <2>1, ExecutorFrame, Zenon DEF mainVars, Keys
<1>6. CASE UploaderNext
  <2>1. up = "off"
    BY <1>6, Zenon DEF Control, UploaderNext, UpReceive, UpLeaveLoop, UpUpload, UpCommit, UpMerge,
       UpClean, UpMetadata
  <2> QED
    BY <1>6, <2>1, Zenon
    DEF UploaderNext, UpReceive, UpLeaveLoop, UpUpload, UpCommit, UpMerge, UpClean, UpMetadata
<1>7. CASE EnvironmentNext \/ UNCHANGED vars
  BY <1>2, <1>3, <1>7, Zenon
  DEF EnvironmentNext, CancelBridge, Cancel, Crash, Restart, Publish, SiblingCommit,
      SiblingWatermark, Reopened, PollEnds, mainVars, taskVars, execVars, upVars, diskVars, vars
<1> QED
  BY <1>4, <1>5, <1>6, <1>7, Zenon DEF Next

(* Without HIP the executor works through the selected bundles into the     *)
(* record, and what it has saved is what it has in memory.                  *)
LEMMA RecordStep ==
  ASSUME ~HipEnabled, TypeOK, Control, Stages, Fetched, OneVersion, RecordInv, [Next]_vars
  PROVE  /\ exec' \in {"plan", "check", "sync", "ok"} => record' = downloaded_assets'
         /\ exec' \in Planned =>
              \A b \in Selected(execVer') :
                \/ b \in todo' \cup active' \cup exported' \cup failed'
                \/ downloaded_assets'[b] = Catalog[execVer'][b]
<1> USE DEF RecordInv, Planned, Selected
<1>1. CASE UNCHANGED <<record, execVars>>
  BY <1>1, Zenon DEF execVars
<1>2. CASE TasksOff
  BY <1>2, Zenon DEF TasksOff
<1>3. CASE MainNext
  <2>1. CASE Layer0 \/ Permit \/ Mark \/ Retry \/ Backoff
    BY <1>1, <1>2, <2>1, Zenon
    DEF Layer0, Permit, Mark, Retry, Backoff, PollEnds, CleanedRecord, taskVars, diskVars
  <2>2. CASE Connect
    BY <1>1, <2>2, Zenon DEF Connect, taskVars, diskVars
  <2>3. CASE Tick \/ Layer1 \/ SelectExecution \/ SelectUploader \/ JoinForwarder \/
             JoinUploader \/ AwaitExecution \/ Settle \/ Cleanup
    BY <1>1, <2>3, Zenon
    DEF Tick, Layer1, SelectExecution, SelectUploader, JoinForwarder, JoinUploader,
        AwaitExecution, Settle, Cleanup, MainMoves, CleanedRecord, taskVars, diskVars
  <2> QED
    BY <1>3, <2>1, <2>2, <2>3, Zenon DEF MainNext
<1>4. CASE ExecutorNext
  <2> USE DEF diskVars
  <2>1. CASE ExecStart
    BY <2>1, Zenon DEF ExecStart
  <2>2. CASE ExecPlan
    BY <2>2, Zenon DEF ExecPlan, DownloadTasks, InRecord
  <2>3. CASE ExecCheck
    <3>1. new_info = execVer
      BY <2>3, Zenon DEF ExecCheck, OneVersion, Control, TypeOK, MainType, PcStates, Before,
         Joining,
         After, ExecDone
    <3>2. todo \cap Selected(execVer) \subseteq Diff(old_info, Info(new_info))
      <4>1. execVer \in Versions
        BY <2>3, Zenon DEF ExecCheck, Fetched, Planned
      <4>2. \A b \in Selected(execVer) : b \in Bundles /\ Crcs[execVer][b] # NoFp
        BY <4>1, WantedAssumption, CrcsAssumption, Zenon DEF Selected
      <4> QED
        BY <3>1, <4>2, Zenon DEF NoLayer1, Diff, Added, Keys, Info
    <3> QED
      BY <2>3, <3>2, Zenon DEF ExecCheck
  <2>4. CASE JobCancelled \/ ExecDrained \/ ExecSync \/ ForwarderDone \/
             (\E b \in Bundles : JobStart(b) \/ JobExport(b) \/ JobFail(b) \/ JobAborted(b)
             \/ Forward(b))
    BY <2>4, Zenon
    DEF JobCancelled, ExecDrained, ExecSync, ForwarderDone, JobStart, JobExport, JobFail,
        JobAborted, Forward, Looping, execVars
  <2>5. ASSUME NEW b \in Bundles, JoinExported(b)
        PROVE  \A c \in Selected(execVer') :
                \/ c \in todo' \cup active' \cup exported' \cup failed'
                \/ downloaded_assets'[c] = Catalog[execVer'][c]
    BY <2>5, WantedAssumption, Zenon DEF JoinExported, Looping, TypeOK, ExecType, FpMap
  <2>6. CASE SaveEnds
    BY <2>6, Zenon DEF SaveEnds, Control, TypeOK, ExecType
  <2> QED
    BY <1>4, <2>1, <2>2, <2>3, <2>4, <2>5, <2>6, Zenon DEF ExecutorNext, JoinExported, Looping
<1>5. CASE UploaderNext
  BY <1>1, <1>5, UploaderFrame, Zenon
<1>6. CASE EnvironmentNext \/ UNCHANGED vars
  BY <1>1, <1>2, <1>6, Zenon
  DEF EnvironmentNext, CancelBridge, Cancel, Crash, Restart, Publish, SiblingCommit,
      SiblingWatermark, Reopened, PollEnds, taskVars, diskVars, vars
<1> QED
  BY <1>3, <1>4, <1>5, <1>6, Zenon DEF Next

(* Without HIP, and if the CDN publishes only between polls, a poll that is *)
(* about to write its watermark has every selected bundle of its version in *)
(* the download record on disk, or its job failed.                          *)
THEOREM RecordIsAccounted ==
  ASSUME ~PublishMidPoll
  PROVE  Spec => []RecordAccounted
<1>1. Init => RecordInv /\ OneVersion
  <2> SUFFICES ASSUME Init PROVE RecordInv /\ OneVersion
    BY Zenon
  <2>1. pc = "idle" /\ exec = "off"
    BY Zenon DEF Init
  <2>2. InPipeline = {} /\ processed_all \cup check_skipped = {}
    BY Zenon DEF Init, InPipeline
  <2>3. NoLayer1
    BY Zenon DEF Init, NoLayer1, Keys, NoInfo
  <2>4. RecordInv
    BY <2>1, <2>3, Zenon DEF RecordInv, Planned
  <2>5. OneVersion
    BY <2>1, <2>2, Zenon DEF OneVersion, Joining, After, Planned
  <2> QED
    BY <2>4, <2>5, Zenon
<1>2. IndInv /\ OneVersion /\ RecordInv /\ [Next]_vars => RecordInv' /\ OneVersion'
  <2> SUFFICES ASSUME IndInv, OneVersion, RecordInv, [Next]_vars
               PROVE  RecordInv' /\ OneVersion'
    BY Zenon
  <2>1. OneVersion'
    BY OneVersionStep, Zenon DEF IndInv
  <2>2. CASE HipEnabled
    BY <2>1, <2>2, Zenon DEF RecordInv
  <2>3. CASE ~HipEnabled
    <3>1. NoLayer1'
      BY <2>3, NoLayer1Step, Zenon DEF IndInv, RecordInv
    <3> QED
      BY <2>1, <2>3, <3>1, RecordStep, Zenon DEF IndInv, RecordInv, Selected
  <2> QED
    BY <2>2, <2>3, Zenon
<1>3. IndInv /\ RecordInv => RecordAccounted
  <2> SUFFICES ASSUME IndInv, RecordInv, ~HipEnabled, pc \in {"cleanup", "mark"}
               PROVE  record # Torn /\ \A b \in Selected(execVer) \ failed :
                                         record[b] = Catalog[execVer][b]
    BY Zenon DEF RecordAccounted
  <2>1. exec = "ok"
    BY Zenon DEF IndInv, Control
  <2>2. record = downloaded_assets /\ todo = {} /\ active = {} /\ exported = {}
    BY <2>1, Zenon DEF RecordInv, IndInv, Stages
  <2> QED
    BY <2>1, <2>2, TornAssumption, Zenon DEF RecordInv, IndInv, TypeOK, ExecType, Planned
<1> QED
  BY <1>1, <1>2, <1>3, Invariance, PTL DEF Spec
-------------------------------------------------------------------------------
(* With reliable uploads no step makes the uploader return an error. *)
LEMMA UploaderStep ==
  ASSUME UploaderReliable, up # "err", [Next]_vars
  PROVE  up' # "err"
<1>1. CASE MainNext
  BY <1>1, Zenon
  DEF MainNext, Tick, Layer0, Permit, Layer1, Connect, SelectExecution, SelectUploader,
      JoinForwarder, JoinUploader, AwaitExecution, Settle, Cleanup, Mark, Retry, Backoff,
      PollEnds, TasksOff, MainMoves, taskVars, upVars
<1>2. CASE ExecutorNext
  BY <1>2, Zenon
  DEF ExecutorNext, ExecStart, ExecPlan, ExecCheck, JobStart, JobExport, JobFail,
      JobAborted, JobCancelled, JoinExported, ExecDrained, SaveEnds, ExecSync, Forward,
      ForwarderDone, upVars
<1>3. CASE UploaderNext
  BY <1>3, Zenon
  DEF UploaderNext, UpReceive, UpLeaveLoop, UpUpload, UpCommit, UpMerge, UpClean,
      UpMetadata, UpReturns, Fault, UploaderReliable
<1>4. CASE EnvironmentNext \/ UNCHANGED vars
  BY <1>4, Zenon
  DEF EnvironmentNext, CancelBridge, Cancel, Crash, Restart, Publish, SiblingCommit,
      SiblingWatermark, Reopened, PollEnds, TasksOff, taskVars, upVars, vars
<1> QED
  BY <1>1, <1>2, <1>3, <1>4, Zenon DEF Next

(* The uploader merges while the main task waits for it. *)
LEMMA MergeWhileJoining ==
  ASSUME TypeOK, Control, up \notin {"off", "ok", "err"}
  PROVE  pc \in Joining
BY Zenon DEF TypeOK, MainType, PcStates, Control, Before, Joining, After, UpDone

(* Every step labels the snapshot with the version of its contents. *)
LEMMA LabelledStep ==
  ASSUME TypeOK, Control, Fetched, Labelled(snapshot), Labelled(old_info), [Next]_vars
  PROVE  Labelled(snapshot)' /\ Labelled(old_info)'
<1>1. Labelled(NoInfo)
  BY Zenon DEF NoInfo, Labelled, Keys
<1>2. CASE Settle
  <2>1. new_info \in Versions /\ old_info' = old_info
    BY <1>2, Zenon DEF Settle, AttemptFails, Fetched, After
  <2>2. CASE snapshot' = snapshot
    BY <2>1, <2>2, Zenon
  <2>3. CASE snapshot' = NextSnapshot(Info(new_info), old_info, Processed)
    <3>1. snapshot'.ver = new_info
      BY <2>1, <2>3, InfoType, Zenon DEF NextSnapshot
    <3>2. \A b \in Bundles : snapshot'.fps[b] # NoFp => snapshot'.fps[b] = Crcs[new_info][b]
      BY <2>1, <2>3, InfoType, Zenon DEF NextSnapshot
    <3> QED
      BY <2>1, <3>1, <3>2, Zenon DEF Labelled, Keys
  <2> QED
    BY <1>2, <2>2, <2>3, Zenon DEF Settle
<1>3. CASE UpMerge
  <2>1. pc \in Joining
    BY <1>3, MergeWhileJoining, Zenon DEF UpMerge
  <2>2. new_info \in Versions /\ old_info' = old_info
    BY <1>3, <2>1, Zenon DEF UpMerge, mainVars, Fetched
  <2>3. CASE snapshot' = snapshot
    BY <2>2, <2>3, Zenon
  <2>4. CASE snapshot' = MergeSnapshot(snapshot, Info(new_info), batch)
    <3>1. snapshot'.ver = new_info
      BY <2>2, <2>4, InfoType, Zenon DEF MergeSnapshot
    <3>2. ASSUME NEW b \in Bundles, snapshot'.fps[b] # NoFp
          PROVE  snapshot'.fps[b] = Crcs[new_info][b]
      <4>1. CASE b \in batch /\ Crcs[new_info][b] # NoFp
        BY <2>2, <2>4, <4>1, InfoType, Zenon DEF MergeSnapshot, Labelled, Keys
      <4>2. CASE ~(b \in batch /\ Crcs[new_info][b] # NoFp)
        BY <2>2, <2>4, <3>2, <4>2, InfoType DEF MergeSnapshot, NoInfo, Labelled, Keys
      <4> QED
        BY <4>1, <4>2, Zenon
    <3> QED
      BY <2>2, <3>1, <3>2, Zenon DEF Labelled, Keys
  <2> QED
    BY <1>3, <2>3, <2>4, Zenon DEF UpMerge
<1>4. CASE /\ snapshot' = snapshot
           /\ old_info' = old_info \/ old_info' = snapshot \/ old_info' = NoInfo
  BY <1>1, <1>4, Zenon
<1>5. CASE MainNext \/ ExecutorNext \/ UploaderNext
  <2>1. CASE MainNext
    BY <1>2, <1>4, <2>1, Zenon DEF MainNext, Tick, Layer0, Permit, Layer1, Connect,
       SelectExecution, SelectUploader, JoinForwarder, JoinUploader, AwaitExecution, Cleanup,
       Mark, Retry, Backoff, PollEnds, AttemptFails, MainMoves, diskVars
  <2>2. CASE ExecutorNext
    BY <1>4, <2>2, Zenon DEF ExecutorNext, ExecStart, ExecPlan, ExecCheck, JobStart, JobExport,
       JobFail, JobAborted, JobCancelled, JoinExported, ExecDrained, SaveEnds, ExecSync, Forward,
       ForwarderDone, diskVars, mainVars
  <2>3. CASE UploaderNext
    BY <1>3, <1>4, <2>3, Zenon DEF UploaderNext, UpReceive, UpLeaveLoop, UpUpload, UpCommit,
       UpClean, UpMetadata, diskVars, mainVars
  <2> QED
    BY <1>5, <2>1, <2>2, <2>3, Zenon
<1>6. CASE EnvironmentNext \/ UNCHANGED vars
  BY <1>4, <1>6, Zenon DEF EnvironmentNext, CancelBridge, Cancel, Crash, Restart, Publish,
     SiblingCommit, SiblingWatermark, Reopened, PollEnds, diskVars, mainVars, vars
<1> QED
  BY <1>5, <1>6, Zenon DEF Next

(* Every step keeps account of the batches in the snapshot. *)
LEMMA MergedCountedStep ==
  ASSUME TypeOK, Control, Stages, Fetched, MergedCounted, [Next]_vars
  PROVE  MergedCounted'
<1>0. CASE up' = "err"
  BY <1>0, Zenon DEF MergedCounted
<1>1. CASE pc' \notin {"connect", "settle"} \cup Joining
  BY <1>1, Zenon DEF MergedCounted, Keys, Joining
<1>2. CASE UNCHANGED <<snapshot, new_info, old_info>> /\ pc \in {"connect", "settle"} \cup Joining
           /\ (up = "err" => up' = "err")
           /\ processed_all \subseteq processed_all'
           /\ (up = "clean" => batch \subseteq processed_all' \cup batch')
           /\ (up = "clean" => up' = "clean" \/ batch \subseteq processed_all')
  BY <1>0, <1>2, Zenon DEF MergedCounted, Keys, Joining
<1>3. CASE MainNext
  <2>1. CASE Layer1
    BY <1>1, <2>1, Zenon DEF Layer1, AttemptFails, diskVars, MergedCounted, Keys, Joining
  <2>2. CASE Connect
    BY <1>1, <1>2, <2>2, Zenon DEF Connect, AttemptFails, diskVars, Control, Before, MergedCounted,
       Keys, Joining
  <2>3. CASE SelectExecution \/ SelectUploader \/ JoinForwarder \/ JoinUploader \/ AwaitExecution
    BY <1>1, <1>2, <2>3, Zenon DEF SelectExecution, SelectUploader, JoinForwarder, JoinUploader,
       AwaitExecution, MainMoves, diskVars, upVars, MergedCounted, Keys, Joining
  <2>4. CASE Tick \/ Layer0 \/ Permit \/ Settle \/ Cleanup \/ Mark \/ Retry \/ Backoff
    BY <1>1, <2>4, Zenon DEF Tick, Layer0, Permit, Settle, Cleanup, Mark, Retry, Backoff, PollEnds,
       AttemptFails, MergedCounted, Keys, Joining
  <2> QED
    BY <1>3, <2>1, <2>2, <2>3, <2>4, Zenon DEF MainNext
<1>4. CASE ExecutorNext
  <2>1. \/ UNCHANGED <<snapshot, mainVars, upVars>>
        \/ UNCHANGED <<snapshot, mainVars, up, batch, processed_all>>
    BY <1>4, Zenon DEF ExecutorNext, ExecStart, ExecPlan, ExecCheck, JobStart, JobExport,
       JobFail, JobAborted, JobCancelled, JoinExported, ExecDrained, SaveEnds, ExecSync, Forward,
       ForwarderDone, diskVars
  <2> QED
    BY <1>1, <1>2, <2>1, Zenon DEF mainVars, upVars
<1>5. CASE UploaderNext
  <2>0. pc \in Joining /\ UNCHANGED mainVars
    BY <1>5, MergeWhileJoining, Zenon DEF UploaderNext, UpReceive, UpLeaveLoop, UpUpload,
       UpCommit, UpMerge, UpClean, UpMetadata
  <2>1. CASE UpMerge
    <3>1. new_info \in Versions
      BY <2>0, Zenon DEF Fetched
    <3>2. CASE snapshot' = snapshot
      BY <2>0, <2>1, <3>2, Zenon DEF UpMerge, mainVars, MergedCounted, Keys, Joining
    <3>3. CASE snapshot' = MergeSnapshot(snapshot, Info(new_info), batch)
      <4> SUFFICES ASSUME NEW b \in Bundles, snapshot'.fps[b] # NoFp, b \notin batch
                   PROVE  snapshot.ver = new_info /\ snapshot.fps[b] # NoFp
        BY <2>0, <2>1, Zenon DEF UpMerge, mainVars, MergedCounted, Keys, Joining
      <4> QED
        BY <3>1, <3>3, InfoType, Zenon DEF MergeSnapshot, NoInfo
    <3> QED
      BY <2>1, <3>2, <3>3, Zenon DEF UpMerge
  <2>2. CASE UpLeaveLoop \/ UpUpload \/ UpCommit \/ UpMetadata \/ UpClean \/
             (\E b \in Bundles : UpReceive(b))
    BY <1>0, <1>2, <2>0, <2>2, Zenon
    DEF UpLeaveLoop, UpUpload, UpCommit, UpMetadata, UpClean, UpReceive,
       UpReturns, diskVars, mainVars
  <2> QED
    BY <1>5, <2>1, <2>2, Zenon DEF UploaderNext
<1>6. CASE EnvironmentNext
  BY <1>1, <1>2, <1>6, Zenon DEF EnvironmentNext, CancelBridge, Cancel, Crash, Restart, Publish,
     SiblingCommit, SiblingWatermark, Reopened, PollEnds, diskVars, mainVars, upVars, taskVars,
     MergedCounted, Keys, Joining
<1>7. CASE UNCHANGED vars
  BY <1>1, <1>2, <1>7, Zenon DEF vars, diskVars, mainVars, upVars
<1> QED
  BY <1>3, <1>4, <1>5, <1>6, <1>7, Zenon DEF Next

(* What SnapshotKeepsBatches allows a step. *)
KeepsBatches ==
  snapshot'.ver = snapshot.ver =>
    \/ Keys(snapshot) \subseteq Keys(snapshot')
    \/ /\ pc = "settle" /\ up = "err"
       /\ old_info.ver = snapshot.ver => Keys(old_info) \subseteq Keys(snapshot')

(* Within one version the snapshot gains entries, or falls back to the one  *)
(* that the attempt loaded.                                                 *)
LEMMA KeepsBatchesStep ==
  ASSUME TypeOK, Control, Fetched, KeepInv, [Next]_vars
  PROVE  KeepsBatches
<1> SUFFICES ASSUME snapshot'.ver = snapshot.ver
             PROVE  \/ Keys(snapshot) \subseteq Keys(snapshot')
                    \/ /\ pc = "settle" /\ up = "err"
                       /\ old_info.ver = snapshot.ver => Keys(old_info) \subseteq Keys(snapshot')
  BY Zenon DEF KeepsBatches
<1>1. CASE snapshot' = snapshot
  BY <1>1, Zenon
<1>2. CASE UpMerge
  <2>1. new_info \in Versions
    BY <1>2, MergeWhileJoining, Zenon DEF UpMerge, Fetched
  <2>2. CASE snapshot' = MergeSnapshot(snapshot, Info(new_info), batch)
    <3>1. snapshot.ver = new_info
      BY <2>1, <2>2, InfoType, Zenon DEF MergeSnapshot
    <3> QED
      BY <2>1, <2>2, <3>1, InfoType, Zenon DEF MergeSnapshot, Keys
  <2> QED
    BY <1>1, <1>2, <2>2, Zenon DEF UpMerge
<1>3. CASE Settle
  <2>1. new_info \in Versions /\ pc = "settle"
    BY <1>3, Zenon DEF Settle, Fetched, After
  <2>2. CASE snapshot' = NextSnapshot(Info(new_info), old_info, Processed)
    <3>1. snapshot.ver = new_info
      BY <2>1, <2>2, InfoType, Zenon DEF NextSnapshot
    <3>2. ASSUME NEW b \in Bundles, Crcs[new_info][b] # NoFp,
                 \/ b \in Keys(old_info) /\ old_info.ver = new_info
                 \/ b \in processed_all /\ up # "err"
          PROVE  b \in Keys(snapshot')
      <4>1. b \in Processed \/ b \in Unchanged(old_info, Info(new_info))
        BY <2>1, <3>2, InfoType DEF KeepInv, Processed, Unchanged, Labelled, Keys
      <4> QED
        BY <2>1, <2>2, <3>2, <4>1, InfoType, Zenon DEF NextSnapshot, Keys
    <3>3. CASE up = "err"
      <4>1. ASSUME NEW b \in Keys(old_info), old_info.ver = snapshot.ver
            PROVE  b \in Keys(snapshot')
        BY <3>1, <3>2, <4>1, Zenon DEF KeepInv, Labelled, Keys
      <4> QED
        BY <2>1, <3>3, <4>1, Zenon
    <3>4. CASE up # "err"
      <4>1. ASSUME NEW b \in Keys(snapshot)
            PROVE  b \in Keys(snapshot')
        <5>1. b \in Bundles /\ Crcs[new_info][b] # NoFp
          BY <3>1, Zenon DEF KeepInv, Labelled, Keys
        <5>2. (b \in Keys(old_info) /\ old_info.ver = new_info) \/ b \in processed_all
          BY <1>3, <2>1, <3>1, <3>4, Zenon DEF KeepInv, MergedCounted, Control, After, UpDone
        <5> QED
          BY <3>2, <3>4, <5>1, <5>2, Zenon
      <4> QED
        BY <4>1, Zenon
    <3> QED
      BY <3>3, <3>4, Zenon
  <2> QED
    BY <1>1, <1>3, <2>2, Zenon DEF Settle
<1>4. \/ snapshot' = snapshot \/ UpMerge \/ Settle
  <2>1. CASE MainNext
    BY <2>1, Zenon
    DEF MainNext, Tick, Layer0, Permit, Layer1, Connect, SelectExecution, SelectUploader,
        JoinForwarder, JoinUploader, AwaitExecution, Cleanup, Mark, Retry, Backoff,
        MainMoves, diskVars
  <2>2. CASE ExecutorNext
    BY <2>2, Zenon
    DEF ExecutorNext, ExecStart, ExecPlan, ExecCheck, JobStart, JobExport, JobFail,
        JobAborted, JobCancelled, JoinExported, ExecDrained, SaveEnds, ExecSync, Forward,
        ForwarderDone, diskVars
  <2>3. CASE UploaderNext
    BY <2>3, Zenon
    DEF UploaderNext, UpReceive, UpLeaveLoop, UpUpload, UpCommit, UpClean, UpMetadata,
        diskVars
  <2>4. CASE EnvironmentNext \/ UNCHANGED vars
    BY <2>4, Zenon
    DEF EnvironmentNext, CancelBridge, Cancel, Crash, Restart, Publish, SiblingCommit,
        SiblingWatermark, Reopened, diskVars, vars
  <2> QED
    BY <2>1, <2>2, <2>3, <2>4, Zenon DEF Next
<1> QED
  BY <1>1, <1>2, <1>3, <1>4, Zenon

(* Whatever fails, no attempt makes the snapshot forget what earlier        *)
(* attempts at the same version left there, and only one whose uploader     *)
(* failed forgets batches of its own: it counts nothing as processed, and   *)
(* persist_processed_snapshot writes the snapshot from old_info.            *)
THEOREM BatchesAreKept == Spec => SnapshotKeepsBatches
<1>1. Init => KeepInv
  BY DEF Init, KeepInv, Labelled, MergedCounted, Keys, NoInfo, Joining
<1>2. IndInv /\ KeepInv /\ [Next]_vars => KeepInv'
  BY LabelledStep, MergedCountedStep, Zenon DEF IndInv, KeepInv
<1>3. IndInv /\ KeepInv /\ [Next]_vars => [KeepsBatches]_vars
  BY KeepsBatchesStep, Zenon DEF IndInv
<1>4. Spec => [][KeepsBatches]_vars
  BY <1>1, <1>2, <1>3, Invariance, PTL DEF Spec
<1> QED
  BY <1>4, Zenon DEF SnapshotKeepsBatches, KeepsBatches

--------------------------------------------------------------------------------
(* In benign circumstances nothing fails for good and nothing is cancelled. *)
LEMMA QuietStep ==
  ASSUME Benign, Quiet, [Next]_vars
  PROVE  Quiet'
<1>1. up' # "err"
  BY UploaderStep, Zenon DEF Benign, Quiet
<1>2. CASE MainNext
  <2>1. CASE SelectUploader
    BY <1>1, <2>1, Zenon DEF SelectUploader, MainMoves, execVars, Quiet
  <2>2. CASE UNCHANGED <<cancelled, cancel_flag, failed>>
    BY <1>1, <2>2, Zenon DEF Quiet
  <2>3. CASE cancelled' = cancelled /\ cancel_flag' = FALSE /\ failed' = {}
    BY <1>1, <2>3, Zenon DEF Quiet
  <2>4. CASE Layer0 \/ Permit \/ Mark \/ Retry \/ Backoff
    BY <2>2, <2>3, <2>4, Zenon DEF Layer0, Permit, Mark, Retry, Backoff, PollEnds, TasksOff,
       taskVars, execVars
  <2>5. CASE Tick \/ Layer1 \/ Connect \/ SelectExecution \/ JoinForwarder \/ JoinUploader \/
             AwaitExecution \/ Settle \/ Cleanup
    BY <2>2, <2>5, Zenon DEF Tick, Layer1, Connect, SelectExecution, JoinForwarder, JoinUploader,
       AwaitExecution, Settle, Cleanup, MainMoves, taskVars, execVars
  <2> QED
    BY <1>2, <2>1, <2>4, <2>5, Zenon DEF MainNext
<1>3. CASE ExecutorNext
  <2>1. failed' = {}
    BY <1>3, Zenon DEF ExecutorNext, ExecStart, ExecPlan, ExecCheck, JobStart, JobExport, JobFail,
       JobAborted, JobCancelled, JoinExported, ExecDrained, SaveEnds, ExecSync, Forward,
       ForwarderDone, Fault, Benign, execVars, Quiet
  <2> QED
    BY <1>1, <1>3, <2>1, ExecutorFrame DEF Quiet
<1>4. CASE UploaderNext
  BY <1>1, <1>4, UploaderFrame DEF execVars, Quiet
<1>5. CASE EnvironmentNext
  BY <1>1, <1>5 DEF EnvironmentNext, CancelBridge, Cancel, Crash, Restart, Publish,
     SiblingCommit, SiblingWatermark, Fault, Benign, taskVars, execVars, Quiet
<1>6. CASE UNCHANGED vars
  BY <1>1, <1>6, Zenon DEF vars, taskVars, execVars, Quiet
<1> QED
  BY <1>2, <1>3, <1>4, <1>5, <1>6, Zenon DEF Next

(* At the end of an attempt nothing is under way. *)
LEMMA NothingUnderWay ==
  ASSUME TypeOK, Control, Stages, Quiet,
         pc \notin Joining \/ exec = "off"
  PROVE  progress = {} /\ artefacts = {} /\ batch = {}
BY Zenon DEF TypeOK, MainType, PcStates, Control, Stages, Quiet, Before, Joining, After, ExecDone,
       UpDone

(* A poll that is about to write its watermark has mirrored its version. *)
LEMMA PollMirrored ==
  ASSUME Benign, IndInv, Quiet, Marks, Claims, pc = "mark"
  PROVE  cur \in Versions /\ OnGateway(cur, Wanted)
<1>1. exec = "ok" /\ fwd = "done" /\ up = "ok"
  BY Zenon DEF Benign, Quiet, IndInv, Control, After, UpDone
<1>2. /\ todo = {} /\ active = {} /\ progress = {} /\ artefacts = {} /\ batch = {}
  BY <1>1, Zenon DEF IndInv, Control, Stages
<1>3. execVer = cur /\ cur \in Versions
  BY <1>1, Zenon DEF Marks, Planned, IndInv, Fetched
<1>4. \A b \in Selected(cur) : b \in known \/ <<b, Catalog[cur][b]>> \in gateway
  BY <1>1, <1>2, <1>3, Zenon DEF Benign, Quiet, IndInv, Conserved, Planned
<1> QED
  BY <1>3, <1>4, Zenon DEF Claims, OnGateway, Selected

(* Every step keeps the watermarks in order. *)
LEMMA WatermarkStep ==
  ASSUME Benign, IndInv, Quiet, Marks, Claims, [Next]_vars
  PROVE  wmDisk' <= wmMem' /\ wmMem' <= cdn' /\ Mirrored(wmDisk)' /\ Mirrored(wmMem)'
<1>1. gateway \subseteq gateway'
  BY GatewayGrows, Zenon
<1>2. /\ cdn \in Nat /\ wmMem \in Nat /\ wmDisk \in Nat /\ cur \in Nat
  BY MaxVersionAssumption DEF IndInv, TypeOK, StoreType, MainType
<1>3. CASE UNCHANGED <<wmDisk, wmMem>> /\ cdn' \in Nat /\ cdn <= cdn'
  BY <1>1, <1>2, <1>3 DEF Marks, Mirrored, OnGateway
<1>4. CASE MainNext
  <2>1. CASE Mark
    <3>1. cur <= cdn /\ wmMem <= cur /\ cur \in Versions /\ OnGateway(cur, Wanted)
      BY <2>1, PollMirrored, Zenon DEF Mark, Marks, Mirrored, OnGateway
    <3>2. wmMem' = cur /\ wmDisk' \in {wmDisk, cur} /\ cdn' = cdn
      BY <2>1, Zenon DEF Mark, envVars
    <3> QED
      BY <1>1, <1>2, <3>1, <3>2 DEF Marks, Mirrored, OnGateway
  <2>2. CASE Tick \/ Layer0 \/ Permit \/ Layer1 \/ Connect \/ SelectExecution \/
             SelectUploader \/ JoinForwarder \/ JoinUploader \/ AwaitExecution \/ Settle \/
             Cleanup \/ Retry \/ Backoff
    <3>1. UNCHANGED <<wmDisk, wmMem, cdn>>
      BY <2>2, Zenon DEF Tick, Layer0, Permit, Layer1, Connect, SelectExecution, SelectUploader,
         JoinForwarder, JoinUploader, AwaitExecution, Settle, Cleanup, Retry, Backoff, MainMoves,
         diskVars, envVars
    <3> QED
      BY <1>2, <1>3, <3>1
  <2> QED
    BY <1>4, <2>1, <2>2, Zenon DEF MainNext
<1>5. CASE ExecutorNext
  BY <1>2, <1>3, <1>5, ExecutorFrame DEF envVars
<1>6. CASE UploaderNext
  BY <1>2, <1>3, <1>6, UploaderFrame
<1>7. CASE EnvironmentNext
  <2>1. CASE SiblingWatermark
    BY <1>1, <1>2, <2>1 DEF SiblingWatermark, envVars, Marks, Mirrored, OnGateway
  <2>2. CASE Publish
    BY <1>2, <1>3, <2>2 DEF Publish, diskVars
  <2>3. CASE CancelBridge \/ Cancel \/ SiblingCommit
    BY <1>2, <1>3, <2>3 DEF CancelBridge, Cancel, SiblingCommit, diskVars, envVars
  <2>4. ~Crash /\ ~Restart
    BY Zenon DEF Crash, Restart, Fault, Benign, Quiet
  <2> QED
    BY <1>7, <2>1, <2>2, <2>3, <2>4, Zenon DEF EnvironmentNext
<1>8. CASE UNCHANGED vars
  BY <1>2, <1>3, <1>8 DEF vars, diskVars, envVars
<1> QED
  BY <1>4, <1>5, <1>6, <1>7, <1>8, Zenon DEF Next

(* Every step keeps the version of the poll between watermark and CDN. *)
LEMMA CurrentStep ==
  ASSUME Benign, IndInv, Quiet, Marks, [Next]_vars
  PROVE  pc' \notin {"idle", "layer0"} =>
           wmMem' <= cur' /\ cur' <= cdn' /\ (~PublishMidPoll => cur' = cdn')
<1>2. /\ cdn \in Nat /\ wmMem \in Nat /\ cur \in Nat
  BY MaxVersionAssumption DEF IndInv, TypeOK, StoreType, MainType
<1>3. CASE pc' = "idle"
  BY <1>3, Zenon
<1>4. CASE UNCHANGED <<wmMem, cur, cdn>> /\ pc \notin {"idle", "layer0"}
  BY <1>4, Zenon DEF Marks
<1>5. CASE UNCHANGED <<wmMem, cur, cdn, pc>>
  BY <1>5, Zenon DEF Marks
<1>6. CASE MainNext
  <2>1. CASE Layer0
    BY <1>2, <1>3, <2>1 DEF Layer0, PollEnds, envVars, Marks
  <2>2. CASE Tick
    BY <2>2, Zenon DEF Tick
  <2>3. CASE Mark
    BY <1>2, <1>3, <2>3 DEF Mark, PollEnds, AttemptFails, envVars, Marks
  <2>4. CASE Permit \/ Retry \/ Backoff
    BY <1>3, <1>4, <2>4, Zenon DEF Permit, Retry, Backoff, PollEnds, envVars
  <2>5. CASE Layer1 \/ Connect \/ SelectExecution \/ SelectUploader \/ JoinForwarder \/
             JoinUploader \/ AwaitExecution \/ Settle \/ Cleanup
    BY <1>4, <2>5, Zenon DEF Layer1, Connect, SelectExecution, SelectUploader, JoinForwarder,
       JoinUploader, AwaitExecution, Settle, Cleanup, AttemptFails, MainMoves, envVars
  <2> QED
    BY <1>6, <2>1, <2>2, <2>3, <2>4, <2>5, Zenon DEF MainNext
<1>7. CASE ExecutorNext
  BY <1>5, <1>7, ExecutorFrame, Zenon DEF envVars, mainVars
<1>8. CASE UploaderNext
  BY <1>5, <1>8, UploaderFrame, Zenon DEF mainVars
<1>9. CASE EnvironmentNext
  <2>1. CASE Publish
    BY <1>2, <2>1 DEF Publish, mainVars, Marks
  <2>2. CASE CancelBridge \/ Cancel \/ Crash \/ Restart \/ SiblingCommit \/ SiblingWatermark
    BY <1>3, <1>5, <2>2, Zenon DEF CancelBridge, Cancel, Crash, Restart, SiblingCommit,
       SiblingWatermark, Reopened, PollEnds, envVars, mainVars
  <2> QED
    BY <1>9, <2>1, <2>2, Zenon DEF EnvironmentNext
<1>10. CASE UNCHANGED vars
  BY <1>5, <1>10, Zenon DEF vars, envVars, mainVars
<1> QED
  BY <1>6, <1>7, <1>8, <1>9, <1>10, Zenon DEF Next

(* Every step of the tasks is about the version of the poll. *)
LEMMA ExecVersionStep ==
  ASSUME Benign, IndInv, Marks, [Next]_vars
  PROVE  exec' \in Planned \/ InPipeline' # {} => execVer' = cur'
<1>1. CASE TasksOff
  BY <1>1, Zenon DEF TasksOff, Planned, InPipeline
<1>2. CASE UNCHANGED <<cur, execVer>> /\ (exec' \in Planned => exec \in Planned)
           /\ (InPipeline' # {} => InPipeline # {} \/ exec \in Planned)
  BY <1>2, Zenon DEF Marks
<1>3. CASE UNCHANGED <<cur, execVars, fwdVars, upVars>>
  BY <1>2, <1>3, Zenon DEF execVars, fwdVars, upVars, Planned, InPipeline
<1>4. CASE MainNext
  <2>1. CASE Layer0
    BY <1>1, <2>1, Zenon DEF Layer0, PollEnds, taskVars, execVars, fwdVars, upVars, IndInv, Control,
       Stages, Before, Planned, InPipeline
  <2>2. CASE Connect
    BY <1>3, <2>2, Zenon DEF Connect, AttemptFails, taskVars, fwdVars, upVars, IndInv, Control,
       Stages,
       Before, Planned, InPipeline
  <2>3. CASE Permit \/ Mark \/ Retry \/ Backoff
    BY <1>1, <1>3, <2>3, Zenon DEF Permit, Mark, Retry, Backoff, PollEnds, AttemptFails, taskVars
  <2>4. CASE Tick \/ Layer1 \/ SelectExecution \/ SelectUploader \/ JoinForwarder \/
             JoinUploader \/ AwaitExecution \/ Settle \/ Cleanup
    BY <1>3, <2>4, Zenon DEF Tick, Layer1, SelectExecution, SelectUploader, JoinForwarder,
       JoinUploader, AwaitExecution, Settle, Cleanup, AttemptFails, MainMoves, taskVars
  <2> QED
    BY <1>4, <2>1, <2>2, <2>3, <2>4, Zenon DEF MainNext
<1>5. CASE ExecutorNext
  <2>1. CASE ExecPlan
    <3>1. pc \notin {"idle", "layer0"} /\ InPipeline = {}
      BY <2>1, Zenon DEF ExecPlan, IndInv, Control, Stages, Before, Planned, InPipeline
    <3>2. LiveExecInfo => cur = cdn
      BY <3>1, Zenon DEF Benign, Marks
    <3> QED
      BY <2>1, <3>1, <3>2, Zenon DEF ExecPlan, mainVars, fwdVars, upVars, Planned, InPipeline
  <2>2. CASE ExecStart \/ ExecCheck \/ JobCancelled \/ ExecDrained \/ SaveEnds \/ ExecSync \/
             ForwarderDone
    BY <1>2, <2>2, Zenon DEF ExecStart, ExecCheck, JobCancelled, ExecDrained, SaveEnds, ExecSync,
       ForwarderDone, Looping, IndInv, Control, mainVars, execVars, fwdVars, upVars, Planned,
       InPipeline
  <2>3. ASSUME NEW b \in Bundles,
               JobStart(b) \/ JobExport(b) \/ JobFail(b) \/ JobAborted(b) \/ JoinExported(b)
        PROVE  execVer' = cur'
    BY <2>3, Zenon DEF JobStart, JobExport, JobFail, JobAborted, JoinExported, Looping, Marks,
       mainVars,
       Planned, InPipeline
  <2>4. ASSUME NEW b \in Bundles, Forward(b)
        PROVE  execVer' = cur'
    BY <2>4, Zenon DEF Forward, Marks, mainVars, execVars, Planned, InPipeline
  <2> QED
    BY <1>5, <2>1, <2>2, <2>3, <2>4, Zenon DEF ExecutorNext
<1>6. CASE UploaderNext
  <2>1. UNCHANGED <<cur, execVars, fwdVars>>
    BY <1>6, UploaderFrame, Zenon DEF mainVars
  <2>2. artefacts' \cup batch' \subseteq artefacts \cup batch
    BY <1>6, Zenon DEF UploaderNext, UpReceive, UpLeaveLoop, UpUpload, UpCommit, UpMerge, UpClean,
       UpMetadata, UpReturns
  <2> QED
    BY <1>2, <2>1, <2>2, Zenon DEF execVars, fwdVars, Planned, InPipeline
<1>7. CASE EnvironmentNext \/ UNCHANGED vars
  BY <1>1, <1>3, <1>7, Zenon DEF EnvironmentNext, CancelBridge, Cancel, Crash, Restart, Publish,
     SiblingCommit, SiblingWatermark, Reopened, PollEnds, mainVars, taskVars, vars
<1> QED
  BY <1>4, <1>5, <1>6, <1>7, Zenon DEF Next

(* Every step keeps the record honest: what it claims is on the gateway or  *)
(* on its way there.                                                        *)
LEMMA ClaimsStep ==
  ASSUME Benign, IndInv, Quiet, Claims, [Next]_vars
  PROVE  Claims'
<1>1. gateway \subseteq gateway'
  BY GatewayGrows, Zenon
<1>2. CASE /\ TasksOff /\ progress = {} /\ artefacts = {} /\ batch = {}
           /\ record' \in {record, EmptyRecord}
  <2>1. RecordHonest(downloaded_assets)'
    BY <1>2, Zenon DEF TasksOff, EmptyRecord, Claims, RecordHonest, OnItsWay, OnGateway
  <2>2. record' # Torn => RecordHonest(record)'
    BY <1>1, <1>2, Zenon DEF EmptyRecord, Claims, RecordHonest, OnItsWay, OnGateway
  <2>3. exported' = {} /\ known' = {}
    BY <1>2, Zenon DEF TasksOff
  <2> QED
    BY <2>1, <2>2, <2>3, Zenon DEF Claims, RecordHonest, OnItsWay, OnGateway
<1>3. CASE UNCHANGED <<downloaded_assets, execVer, exported, known, progress, artefacts, batch>>
           /\ record' \in {record, EmptyRecord}
  BY <1>1, <1>3, Zenon DEF EmptyRecord, Claims, RecordHonest, OnItsWay, OnGateway
<1>4. CASE MainNext
  <2>1. CASE Layer0 \/ Permit \/ Mark \/ Retry \/ Backoff
    <3>1. progress = {} /\ artefacts = {} /\ batch = {}
      BY <2>1, NothingUnderWay, Zenon DEF Layer0, Permit, Mark, Retry, Backoff, IndInv, Joining
    <3>2. record' \in {record, EmptyRecord}
      BY <2>1, Zenon DEF Layer0, Permit, Mark, Retry, Backoff, CleanedRecord, diskVars
    <3>3. TasksOff \/ UNCHANGED taskVars
      BY <2>1, Zenon DEF Layer0, Permit, Mark, Retry, Backoff, PollEnds
    <3> QED
      BY <1>2, <1>3, <3>1, <3>2, <3>3, Zenon DEF taskVars, execVars, fwdVars, upVars
  <2>2. CASE Connect
    BY <1>3, <2>2, Zenon DEF Connect, taskVars, execVars, fwdVars, upVars, diskVars
  <2>3. CASE Tick \/ Layer1 \/ SelectExecution \/ SelectUploader \/ JoinForwarder \/
             JoinUploader \/ AwaitExecution \/ Settle \/ Cleanup
    <3>1. record' \in {record, EmptyRecord}
      BY <2>3, Zenon DEF Tick, Layer1, SelectExecution, SelectUploader, JoinForwarder, JoinUploader,
         AwaitExecution, Settle, Cleanup, MainMoves, CleanedRecord, diskVars
    <3>2. UNCHANGED <<execVars, fwdVars, upVars>>
      BY <2>3, Zenon DEF Tick, Layer1, SelectExecution, SelectUploader, JoinForwarder,
         JoinUploader, AwaitExecution, Settle, Cleanup, MainMoves, taskVars
    <3> QED
      BY <1>3, <3>1, <3>2, Zenon DEF execVars, fwdVars, upVars
  <2> QED
    BY <1>4, <2>1, <2>2, <2>3, Zenon DEF MainNext
<1>5. CASE ExecutorNext
  <2>1. CASE ExecStart
    BY <2>1, Zenon DEF ExecStart, Claims, RecordHonest, OnItsWay, OnGateway, envVars, mainVars,
       diskVars, fwdVars, upVars
  <2>2. CASE ExecPlan
    <3>1. progress = {} /\ artefacts = {} /\ batch = {} /\ exported = {} /\ known = {}
      BY <2>2, Zenon DEF ExecPlan, IndInv, Stages
    <3>2. UNCHANGED <<gateway, record, downloaded_assets, exported, progress, artefacts, batch>>
      BY <2>2, Zenon DEF ExecPlan, Claims, RecordHonest, OnItsWay, OnGateway, envVars, mainVars,
         diskVars, fwdVars, upVars
    <3>3. known' = {} \/ known' = InRecord(execVer', downloaded_assets)
      BY <2>2, <3>1, Zenon DEF ExecPlan
    <3> QED
      BY <3>1, <3>2, <3>3, WantedAssumption, Zenon DEF InRecord, Selected, Claims, RecordHonest,
         OnItsWay, OnGateway, envVars, mainVars, diskVars, fwdVars, upVars
  <2>3. CASE ExecCheck \/ JobCancelled \/ ExecDrained \/ ExecSync \/ ForwarderDone \/
             (\E b \in Bundles : JobStart(b) \/ JobFail(b) \/ JobAborted(b))
    BY <1>3, <2>3, Zenon DEF ExecCheck, JobCancelled, ExecDrained, ExecSync, ForwarderDone,
       JobStart,
       JobFail, JobAborted, execVars, Claims, RecordHonest, OnItsWay, OnGateway, envVars,
       mainVars, diskVars, fwdVars, upVars
  <2>4. ASSUME NEW b \in Bundles, JobExport(b)
        PROVE  Claims'
    BY <2>4, Zenon DEF JobExport, Claims, RecordHonest, OnItsWay, OnGateway, envVars, mainVars,
       diskVars, fwdVars, upVars
  <2>5. ASSUME NEW b \in Bundles, JoinExported(b)
        PROVE  Claims'
    <3>1. OnItsWay(b) \/ OnGateway(execVer, {b})
      BY <2>5, Zenon DEF JoinExported, Claims, RecordHonest, OnItsWay, OnGateway, envVars, mainVars,
         diskVars, fwdVars, upVars
    <3>2. \A c \in Bundles : downloaded_assets'[c] = IF c = b THEN Catalog[execVer][b]
                                                     ELSE downloaded_assets[c]
      BY <2>5, Zenon DEF JoinExported, IndInv, TypeOK, ExecType, FpMap
    <3>3. UNCHANGED <<gateway, record, execVer, known, progress, artefacts, batch>>
          /\ exported' \subseteq exported
      BY <2>5, Zenon DEF JoinExported, Claims, RecordHonest, OnItsWay, OnGateway, envVars, mainVars,
         diskVars, fwdVars, upVars
    <3> QED
      BY <3>1, <3>2, <3>3, Zenon DEF Claims, RecordHonest, OnItsWay, OnGateway, envVars, mainVars,
         diskVars, fwdVars, upVars
  <2>6. CASE SaveEnds
    BY <2>6, Zenon DEF SaveEnds, Claims, RecordHonest, OnItsWay, OnGateway, envVars, mainVars,
       diskVars,
       fwdVars, upVars
  <2>7. ASSUME NEW b \in Bundles, Forward(b)
        PROVE  Claims'
    <3>1. ~NoReceiver
      BY <2>7, Zenon DEF Forward, NoReceiver, UpDone, Benign, Quiet, IndInv, Control, Stages
    <3>2. progress' \cup artefacts' = progress \cup artefacts
      BY <2>7, <3>1, Zenon DEF Forward, NoReceiver
    <3>3. UNCHANGED <<gateway, record, downloaded_assets, execVer, exported, known, batch>>
      BY <2>7, Zenon DEF Forward, execVars, Claims, RecordHonest, OnItsWay, OnGateway, envVars,
         mainVars, diskVars, fwdVars, upVars
    <3> QED
      BY <3>2, <3>3, Zenon DEF Claims, RecordHonest, OnItsWay, OnGateway, envVars, mainVars,
         diskVars,
         fwdVars, upVars
  <2> QED
    BY <1>5, <2>1, <2>2, <2>3, <2>4, <2>5, <2>6, <2>7, Zenon DEF ExecutorNext
<1>6. CASE UploaderNext
  <2>1. UNCHANGED <<record, downloaded_assets, execVer, exported, known, progress>>
    BY <1>6, UploaderFrame, Zenon DEF execVars, fwdVars
  <2>2. CASE artefacts' \cup batch' = artefacts \cup batch
    BY <1>1, <2>1, <2>2, Zenon DEF Claims, RecordHonest, OnItsWay, OnGateway
  <2>3. CASE UpClean
    <3>1. artefacts' = artefacts /\ batch' = {} /\ OnGateway(execVer, batch) /\ gateway' = gateway
      BY <2>3, Zenon DEF UpClean, UpReturns, Fault, Benign, UploaderReliable, Quiet, IndInv,
         Committed,
         Stages, envVars
    <3> QED
      BY <2>1, <3>1, Zenon DEF Claims, RecordHonest, OnItsWay, OnGateway
  <2>4. CASE UpLeaveLoop \/ UpUpload \/ UpCommit \/ UpMerge \/ UpMetadata
    <3>1. batch' = batch
      BY <2>4, Zenon DEF UpLeaveLoop, UpUpload, UpCommit, UpMerge, UpMetadata
    <3>2. artefacts' = artefacts
      BY <2>4, Zenon DEF UpLeaveLoop, UpUpload, UpCommit, UpMerge, UpMetadata, UpReturns,
         ChannelClosed,
         Fault, Benign, UploaderReliable, Quiet, IndInv, Stages
    <3> QED
      BY <2>2, <3>1, <3>2, Zenon
  <2>5. ASSUME NEW b \in Bundles, UpReceive(b)
        PROVE  Claims'
    BY <2>2, <2>5, Zenon DEF UpReceive
  <2> QED
    BY <1>6, <2>3, <2>4, <2>5, Zenon DEF UploaderNext
<1>7. CASE EnvironmentNext
  <2>1. ~Crash /\ ~Restart
    BY Zenon DEF Crash, Restart, Fault, Benign, Quiet
  <2> QED
    BY <1>3, <1>7, <2>1, Zenon DEF EnvironmentNext, CancelBridge, Cancel, Publish, SiblingCommit,
       SiblingWatermark, diskVars, taskVars, execVars, fwdVars, upVars
<1>8. CASE UNCHANGED vars
  BY <1>3, <1>8, Zenon DEF vars, diskVars, execVars, fwdVars, upVars
<1> QED
  BY <1>4, <1>5, <1>6, <1>7, <1>8, Zenon DEF Next

(* Every step of the region is a step of Mirror, or one that Mirror does    *)
(* not see.                                                                 *)
LEMMA MirrorStep ==
  ASSUME Benign, IndInv, MirrorInv, [Next]_vars
  PROVE  [Promise!Next]_<<cdn, gateway, wmDisk>>
<1>1. CASE UNCHANGED <<cdn, gateway, wmDisk>>
  BY <1>1, Zenon
<1>2. ASSUME NEW v \in 1..cdn, NEW S \in SUBSET Bundles,
             gateway' = gateway \cup Content(v, S), UNCHANGED <<cdn, wmDisk>>
      PROVE  Promise!Next
  BY <1>2, Zenon DEF Promise!Next, Promise!Store, Promise!ContentOf, Content
<1>3. ASSUME NEW v \in wmDisk..cdn, v # 0, OnGateway(v, Wanted), wmDisk' = v,
             UNCHANGED <<cdn, gateway>>
      PROVE  Promise!Next
  BY <1>3, Zenon DEF Promise!Next, Promise!Advance, Promise!ContentOf, OnGateway
<1>4. /\ cdn \in Nat /\ wmMem \in Nat /\ wmDisk \in Nat /\ cur \in Nat
  BY MaxVersionAssumption DEF IndInv, TypeOK, StoreType, MainType
<1>5. CASE MainNext
  <2>1. CASE Mark
    <3>1. cur \in wmDisk..cdn /\ cur # 0 /\ OnGateway(cur, Wanted)
      BY <1>4, <2>1, PollMirrored DEF Mark, MirrorInv, Marks, Versions
    <3> QED
      BY <1>1, <1>3, <2>1, <3>1, Zenon DEF Mark, envVars
  <2>2. CASE Tick \/ Layer0 \/ Permit \/ Layer1 \/ Connect \/ SelectExecution \/
             SelectUploader \/ JoinForwarder \/ JoinUploader \/ AwaitExecution \/ Settle \/
             Cleanup \/ Retry \/ Backoff
    BY <1>1, <2>2, Zenon
    DEF Tick, Layer0, Permit, Layer1, Connect, SelectExecution, SelectUploader,
        JoinForwarder, JoinUploader, AwaitExecution, Settle, Cleanup, Retry, Backoff,
        MainMoves, diskVars, envVars
  <2> QED
    BY <1>5, <2>1, <2>2, Zenon DEF MainNext
<1>6. CASE ExecutorNext
  BY <1>1, <1>6, ExecutorFrame, Zenon DEF envVars
<1>7. CASE UploaderNext
  <2>1. CASE UpCommit
    <3>1. CASE batch = {}
      <4>1. Content(execVer, batch) = {}
        BY <3>1, Zenon DEF Content
      <4> QED
        BY <1>1, <2>1, <4>1, Zenon DEF UpCommit, diskVars
    <3>2. CASE batch # {}
      <4>1. execVer \in 1..cdn /\ batch \in SUBSET Bundles
        <5>1. pc \notin {"idle", "layer0"}
          BY <2>1, MergeWhileJoining, Zenon DEF UpCommit, IndInv, Joining
        <5>2. execVer = cur /\ cur \in Versions /\ cur <= cdn
          BY <3>2, <5>1, Zenon DEF MirrorInv, Marks, InPipeline, IndInv, Fetched
        <5> QED
          BY <1>4, <5>2 DEF Versions, IndInv, TypeOK, PipeType
      <4> QED
        BY <1>1, <1>2, <2>1, <4>1, Zenon DEF UpCommit, diskVars
    <3> QED
      BY <3>1, <3>2, Zenon
  <2>2. CASE UpLeaveLoop \/ UpUpload \/ UpMerge \/ UpClean \/ UpMetadata \/
             (\E b \in Bundles : UpReceive(b))
    BY <1>1, <2>2, Zenon
    DEF UpReceive, UpLeaveLoop, UpUpload, UpMerge, UpClean, UpMetadata, envVars, diskVars
  <2> QED
    BY <1>7, <2>1, <2>2, Zenon DEF UploaderNext
<1>8. CASE EnvironmentNext
  <2>1. CASE Publish
    BY <2>1, Zenon DEF Publish, Promise!Next, Promise!Publish, diskVars
  <2>2. CASE SiblingCommit
    BY <1>2, <2>2 DEF SiblingCommit, diskVars
  <2>3. CASE SiblingWatermark
    <3>1. wmMem \in wmDisk..cdn /\ wmMem # 0 /\ OnGateway(wmMem, Wanted)
      BY <1>4, <2>3 DEF SiblingWatermark, MirrorInv, Marks, Mirrored
    <3> QED
      BY <1>3, <2>3, <3>1, Zenon DEF SiblingWatermark, envVars
  <2>4. CASE CancelBridge \/ Cancel \/ Crash \/ Restart
    BY <1>1, <2>4, Zenon DEF CancelBridge, Cancel, Crash, Restart, Reopened, envVars, diskVars
  <2> QED
    BY <1>8, <2>1, <2>2, <2>3, <2>4, Zenon DEF EnvironmentNext
<1>9. CASE UNCHANGED vars
  BY <1>1, <1>9, Zenon DEF vars, envVars, diskVars
<1> QED
  BY <1>5, <1>6, <1>7, <1>8, <1>9, Zenon DEF Next

(* In benign circumstances the poller implements Mirror: the gateway only   *)
(* gains published contents, and the watermark only moves forward, to       *)
(* versions all of whose selected bundles are on the gateway.               *)
THEOREM MirrorIsImplemented ==
  ASSUME Benign
  PROVE  Spec => ImplementsMirror
<1>1. Init => MirrorInv
  BY DEF Init, MirrorInv, Quiet, Marks, Mirrored, Claims, RecordHonest, EmptyRecord, OnGateway,
         Planned, InPipeline
<1>2. IndInv /\ MirrorInv /\ [Next]_vars => MirrorInv'
  BY QuietStep, WatermarkStep, CurrentStep, ExecVersionStep, ClaimsStep, Zenon DEF MirrorInv,
     Marks, IndInv
<1>3. Init => Promise!Init
  BY Zenon DEF Init, Promise!Init
<1>4. IndInv /\ MirrorInv /\ [Next]_vars => [Promise!Next]_<<cdn, gateway, wmDisk>>
  BY MirrorStep, Zenon
<1> QED
  BY <1>1, <1>2, <1>3, <1>4, Invariance, PTL DEF Spec, ImplementsMirror, Promise!Spec
=================================================================================
