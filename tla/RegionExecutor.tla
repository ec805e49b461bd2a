---------------------------- MODULE RegionExecutor ----------------------------
(***************************************************************************)
(* One call of AssetExecutionContext::execute_with_filter, with the bundle *)
(* jobs it spawns (src/core/asset_execution.rs), the pre-download filter   *)
(* and the forwarder task that consumes its progress (poller.rs).          *)
(*                                                                         *)
(* A bundle goes todo -> active -> exported -> (joined and recorded), or   *)
(* todo -> active -> failed.  The artefact event is sent when a job leaves *)
(* active; the join that records the bundle comes later.                   *)
(***************************************************************************)
EXTENDS RegionState

(* The main loop of the executor is parked in the save of the record while  *)
(* it is being written; jobs run on.                                        *)
Looping == exec = "run" /\ saving = "no"

(* ensure_not_cancelled, then load_download_record. *)
ExecStart ==
  /\ exec = "start"
  /\ \/ /\ ~cancel_flag /\ record # Torn
        /\ exec' = "plan" /\ downloaded_assets' = record
     \/ /\ cancel_flag \/ record = Torn
        /\ exec' = "err" /\ UNCHANGED downloaded_assets
  /\ NoFault
  /\ UNCHANGED <<envVars, diskVars, wmMem, cancelled, mainVars, execVer, pending_save_count,
                 saving, todo, active, exported, failed, known, check_skipped, cancel_flag,
                 fwdVars, upVars>>

(* build_download_tasks skips what the record already has. *)
InRecordByName(v, rec) == {b \in Selected(v) : rec[b] # NoFp}   \* mutant: ignores the hash
InRecord(v, rec) == {b \in Selected(v) : rec[b] = Catalog[v][b]}
DownloadTasks(v, rec) == Selected(v) \ InRecord(v, rec)

(* Cookies, ensure_not_cancelled, fetch_asset_bundle_info, planning. *)
ExecPlan ==
  /\ exec = "plan"
  /\ \/ LET v == IF LiveExecInfo THEN cdn ELSE cur
        IN  /\ ~cancel_flag
            /\ execVer' = v
            /\ todo' = DownloadTasks(v, downloaded_assets)
            /\ known' = InRecord(v, downloaded_assets)
            /\ exec' = "check"
            /\ NoFault
     \/ /\ \/ cancel_flag /\ NoFault
           \/ Fault("fetch")
        /\ exec' = "err"
        /\ UNCHANGED <<execVer, todo, known>>
  /\ UNCHANGED <<envVars, diskVars, wmMem, cancelled, mainVars, downloaded_assets,
                 pending_save_count, saving, active, exported, failed, check_skipped,
                 cancel_flag, fwdVars, upVars>>

(* The gateway answers SKIP for contents it has, from whatever region. *)
CheckSkipsByName(v, tasks) == {b \in tasks : \E f \in Fps : <<b, f>> \in gateway}   \* mutant
CheckSkips(v, tasks) == {b \in tasks : <<b, Catalog[v][b]>> \in gateway}

(* CombinedFilter: CHECK every task when HIP is on, else keep what layer 1  *)
(* found changed.  An empty task list ends the execution without a save.    *)
ExecCheck ==
  /\ exec = "check"
  /\ \/ LET skips == IF HipEnabled THEN CheckSkips(execVer, todo) ELSE {}
            kept  == IF HipEnabled THEN todo \ skips
                     ELSE todo \cap Diff(old_info, Info(new_info))
        IN  /\ check_skipped' = skips
            /\ todo' = kept
            /\ exec' = IF kept = {} THEN "ok" ELSE "run"
            /\ NoFault
     \/ /\ HipEnabled /\ todo # {} /\ Fault("check")
        /\ exec' = "err"
        /\ UNCHANGED <<todo, check_skipped>>
  /\ UNCHANGED <<envVars, diskVars, wmMem, cancelled, mainVars, execVer, downloaded_assets,
                 pending_save_count, saving, active, exported, failed, known, cancel_flag,
                 fwdVars, upVars>>
--------------------------------------------------------------------------------
(* A download job passes its cancel check and starts. *)
JobStart(b) ==
  /\ exec = "run" /\ b \in todo /\ ~cancel_flag
  /\ todo' = todo \ {b}
  /\ active' = active \cup {b}
  /\ NoFault
  /\ UNCHANGED <<envVars, diskVars, wmMem, cancelled, mainVars, exec, execVer,
                 downloaded_assets, pending_save_count, saving, exported, failed, known,
                 check_skipped, cancel_flag, fwdVars, upVars>>

(* A download job sees the flag; joining it makes the execution return      *)
(* Err(Cancelled), which drops both JoinSets.  A job that is being polled   *)
(* at that moment runs on to its next await: it stays active, and JobEnds.  *)
JobCancelled ==
  /\ Looping /\ todo # {} /\ cancel_flag
  /\ exec' = "err"
  /\ NoFault
  /\ UNCHANGED <<envVars, diskVars, wmMem, cancelled, mainVars, execVer, downloaded_assets,
                 pending_save_count, saving, todo, active, exported, failed, known,
                 check_skipped, cancel_flag, fwdVars, upVars>>

(* The end of finish_native_bundle_post_process: BundleArtefactsProduced. *)
JobExport(b) ==
  /\ exec \in {"run", "err"} /\ b \in active
  /\ active' = active \ {b}
  /\ exported' = exported \cup {b}
  /\ progress' = progress \cup {b}
  /\ NoFault
  /\ UNCHANGED <<envVars, diskVars, wmMem, cancelled, mainVars, exec, execVer,
                 downloaded_assets, pending_save_count, saving, todo, failed, known,
                 check_skipped, cancel_flag, fwd, upVars>>

(* Download, export, image flush or post-process returned an error; the     *)
(* join only counts it.                                                     *)
JobFail(b) ==
  /\ Looping /\ b \in active
  /\ active' = active \ {b}
  /\ failed' = failed \cup {b}
  /\ Fault("bundle")
  /\ UNCHANGED <<envVars, diskVars, wmMem, cancelled, mainVars, exec, execVer,
                 downloaded_assets, pending_save_count, saving, todo, exported, known,
                 check_skipped, cancel_flag, fwdVars, upVars>>

(* A job of an execution that has returned is aborted at an await. *)
JobAborted(b) ==
  /\ exec = "err" /\ b \in active
  /\ active' = active \ {b}
  /\ NoFault
  /\ UNCHANGED <<envVars, diskVars, wmMem, cancelled, mainVars, exec, execVer,
                 downloaded_assets, pending_save_count, saving, todo, exported, failed, known,
                 check_skipped, cancel_flag, fwdVars, upVars>>
--------------------------------------------------------------------------------
BatchSaveDue(count) == BatchSave > 0 /\ count >= BatchSave

(* The join of an exported bundle: record_completed_bundle. *)
JoinExported(b) ==
  /\ Looping /\ b \in exported
  /\ exported' = exported \ {b}
  /\ downloaded_assets' = [downloaded_assets EXCEPT ![b] = Catalog[execVer][b]]
  /\ IF BatchSaveDue(pending_save_count + 1)
     THEN saving' = "batch" /\ pending_save_count' = 0
     ELSE pending_save_count' = pending_save_count + 1 /\ UNCHANGED saving
  /\ NoFault
  /\ UNCHANGED <<envVars, diskVars, wmMem, cancelled, mainVars, exec, execVer, todo,
                 active, failed, known, check_skipped, cancel_flag, fwdVars, upVars>>

(* Both JoinSets are empty: ensure_not_cancelled, then the final save. *)
ExecDrained ==
  /\ Looping /\ todo = {} /\ active = {} /\ exported = {}
  /\ \/ ~cancel_flag /\ exec' = "save" /\ saving' = "final"
     \/ cancel_flag /\ exec' = "err" /\ UNCHANGED saving
  /\ NoFault
  /\ UNCHANGED <<envVars, diskVars, wmMem, cancelled, mainVars, execVer,
                 downloaded_assets, pending_save_count, todo, active, exported, failed, known,
                 check_skipped, cancel_flag, fwdVars, upVars>>

(* save_download_record returns.  It rewrites the file in place, so while   *)
(* saving is not "no" the file is the old one or Torn, and a failure leaves *)
(* either.  A failed batch save is only logged, a failed final save ends    *)
(* the execution.                                                           *)
SaveEnds ==
  /\ saving # "no"
  /\ saving' = "no"
  /\ \/ /\ record' = downloaded_assets
        /\ exec' = IF saving = "final" THEN "sync" ELSE exec
        /\ NoFault
     \/ /\ record' \in {record, Torn}
        /\ exec' = IF saving = "final" THEN "err" ELSE exec
        /\ Fault("save")
  /\ UNCHANGED <<envVars, snapshot, wmDisk, wmMem, cancelled, mainVars, execVer,
                 downloaded_assets, pending_save_count, todo, active, exported, failed, known,
                 check_skipped, cancel_flag, fwdVars, upVars>>

(* sync_chart_hashes, and the execution returns. *)
ExecSync ==
  /\ exec = "sync"
  /\ \/ exec' = "ok" /\ NoFault
     \/ exec' = "err" /\ Fault("sync")
  /\ UNCHANGED <<envVars, diskVars, wmMem, cancelled, mainVars, execVer, downloaded_assets,
                 pending_save_count, saving, todo, active, exported, failed, known,
                 check_skipped, cancel_flag, fwdVars, upVars>>
--------------------------------------------------------------------------------
(* The forwarder takes one artefact event.  It waits while the artefact     *)
(* channel is full and drops the event when the uploader is gone; without   *)
(* HIP there is no artefact channel at all.                                 *)
DropWhenFull == up = "off" \/ UpDone \/ Cardinality(artefacts) >= Capacity   \* mutant: try_send
NoReceiver == up = "off" \/ UpDone

Forward(b) ==
  /\ fwd = "on" /\ b \in progress
  /\ progress' = progress \ {b}
  /\ \/ /\ NoReceiver
        /\ UNCHANGED artefacts
     \/ /\ up # "off" /\ ~UpDone
        /\ Cardinality(artefacts) < Capacity
        /\ artefacts' = artefacts \cup {b}
  /\ NoFault
  /\ UNCHANGED <<envVars, diskVars, wmMem, cancelled, mainVars, execVars, cancel_flag, fwd,
                 up, draining, batch, processed_all, first_commit_pending>>

(* recv returns None: the executor and all of its jobs dropped progress_tx. *)
ForwarderDone ==
  /\ fwd = "on" /\ progress = {} /\ ExecDone /\ active = {}
  /\ fwd' = "done"
  /\ NoFault
  /\ UNCHANGED <<envVars, diskVars, wmMem, cancelled, mainVars, execVars, cancel_flag,
                 progress, upVars>>

ExecutorNext ==
  \/ ExecStart \/ ExecPlan \/ ExecCheck
  \/ \E b \in Bundles : JobStart(b) \/ JobExport(b) \/ JobFail(b) \/ JobAborted(b)
  \/ JobCancelled
  \/ \E b \in Bundles : JoinExported(b)
  \/ ExecDrained \/ SaveEnds \/ ExecSync
  \/ \E b \in Bundles : Forward(b)
  \/ ForwarderDone
================================================================================
