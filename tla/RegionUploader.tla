---------------------------- MODULE RegionUploader ----------------------------
(***************************************************************************)
(* run_uploader (src/service/poller.rs): takes artefacts from the bounded  *)
(* channel, uploads and COMMITs them batch by batch, one HIP session per   *)
(* batch, and merges every committed batch into the layer-1 snapshot.      *)
(* flush_batch is split at its awaits: upload, commit, merge, clean.       *)
(* `draining` holds once the receive loop has been left.                   *)
(***************************************************************************)
EXTENDS RegionState

(* Returning drops the receiver, and with it whatever is still queued. *)
UpReturns(result) == up' = result /\ artefacts' = {}

(* Bytes are not modelled: when the byte trigger is configured any push may *)
(* cross it.                                                                *)
FlushDue(n) ==
  \/ BatchBundles > 0 /\ n >= BatchBundles
  \/ BytesTrigger

FlushNotDue(n) == ~(BatchBundles > 0 /\ n >= BatchBundles)

(* recv yields an artefact; `biased` polls the cancellation first. *)
UpReceive(b) ==
  /\ up = "recv" /\ ~cancelled /\ b \in artefacts
  /\ artefacts' = artefacts \ {b}
  /\ batch' = batch \cup {b}
  /\ \/ FlushDue(Cardinality(batch) + 1) /\ up' = "upload"
     \/ FlushNotDue(Cardinality(batch) + 1) /\ up' = up
  /\ NoFault
  /\ UNCHANGED <<envVars, diskVars, wmMem, cancelled, mainVars, execVars, cancel_flag, fwdVars,
                 draining, processed_all, first_commit_pending>>

(* All senders are gone: the forwarder's, and the main task's own copy,     *)
(* which the main task drops after it joined the forwarder.                 *)
ClosedBeforeJoin ==   \* mutant: the main task drops its sender too early
  artefacts = {} /\ pc \in {"joinForwarder", "joinUploader"}
ChannelClosed == artefacts = {} /\ fwd = "done" /\ pc = "joinUploader"

(* The loop ends on cancellation, with artefacts still queued, or on the    *)
(* closed channel; the residual batch, if any, is flushed.                  *)
UpLoopsOn == up = "recv" /\ (cancelled \/ ChannelClosed) /\ UNCHANGED vars   \* mutant: no break

UpLeaveLoop ==
  /\ up = "recv"
  /\ cancelled \/ ChannelClosed
  /\ draining' = TRUE
  /\ \/ batch # {} /\ up' = "upload" /\ UNCHANGED artefacts
     \/ batch = {} /\ first_commit_pending /\ up' = "metadata" /\ UNCHANGED artefacts
     \/ batch = {} /\ ~first_commit_pending /\ UpReturns("ok")
  /\ NoFault
  /\ UNCHANGED <<envVars, diskVars, wmMem, cancelled, mainVars, execVars, cancel_flag, fwdVars,
                 batch, processed_all, first_commit_pending>>
--------------------------------------------------------------------------------
(* connect_hip_with and upload_bundle_artefacts, then the extras of the     *)
(* first commit are taken, whether or not that commit will succeed.         *)
UpUpload ==
  /\ up = "upload"
  /\ \/ /\ up' = "commit" /\ first_commit_pending' = FALSE
        /\ UNCHANGED artefacts /\ NoFault
     \/ /\ UpReturns("err") /\ Fault("upload")
        /\ UNCHANGED first_commit_pending
  /\ UNCHANGED <<envVars, diskVars, wmMem, cancelled, mainVars, execVars, cancel_flag, fwdVars,
                 draining, batch, processed_all>>

(* COMMIT of the batch: the gateway takes all of the session or nothing,    *)
(* and its ack may get lost.                                                *)
UpCommit ==
  /\ up = "commit"
  /\ \/ /\ gateway' = gateway \cup Content(execVer, batch)
        /\ up' = "merge" /\ UNCHANGED artefacts /\ NoFault
     \/ /\ gateway' = gateway \cup Content(execVer, batch)
        /\ UpReturns("err") /\ Fault("lostAck")
     \/ /\ UpReturns("err") /\ Fault("commit")
        /\ UNCHANGED gateway
  /\ UNCHANGED <<cdn, diskVars, wmMem, cancelled, mainVars, execVars, cancel_flag, fwdVars,
                 draining, batch, processed_all, first_commit_pending>>

(* merge_snapshot, skipped when the live catalogue has none of the batch;   *)
(* a failure is only logged.                                                *)
UpMerge ==
  /\ up = "merge"
  /\ up' = "clean"
  /\ \/ /\ snapshot' = IF batch \cap Keys(Info(new_info)) = {} THEN snapshot
                       ELSE MergeSnapshot(snapshot, Info(new_info), batch)
        /\ NoFault
     \/ UNCHANGED snapshot /\ Fault("snapshot")
  /\ UNCHANGED <<envVars, record, wmDisk, wmMem, cancelled, mainVars, execVars, cancel_flag,
                 fwdVars, artefacts, draining, batch, processed_all, first_commit_pending>>

(* remove_committed_bundle_artefacts; a file that cannot be removed fails   *)
(* the uploader although its batch is committed.                            *)
UpClean ==
  /\ up = "clean"
  /\ \/ /\ processed_all' = processed_all \cup batch
        /\ batch' = {}
        /\ \/ draining /\ UpReturns("ok")
           \/ ~draining /\ up' = "recv" /\ UNCHANGED artefacts
        /\ NoFault
     \/ /\ RemoveLocal /\ UpReturns("err") /\ Fault("cleanup")
        /\ UNCHANGED <<batch, processed_all>>
  /\ UNCHANGED <<envVars, diskVars, wmMem, cancelled, mainVars, execVars, cancel_flag, fwdVars,
                 draining, first_commit_pending>>

(* flush_metadata_only_commit: completions of the CHECK skips, no content.  *)
UpMetadata ==
  /\ up = "metadata"
  /\ first_commit_pending' = FALSE
  /\ \/ UpReturns("ok") /\ NoFault
     \/ check_skipped # {} /\ UpReturns("err") /\ (Fault("upload") \/ Fault("commit"))
  /\ UNCHANGED <<envVars, diskVars, wmMem, cancelled, mainVars, execVars, cancel_flag, fwdVars,
                 draining, batch, processed_all>>

UploaderNext ==
  \/ \E b \in Bundles : UpReceive(b)
  \/ UpLeaveLoop \/ UpUpload \/ UpCommit \/ UpMerge \/ UpClean \/ UpMetadata
================================================================================
