----------------------------- MODULE MCRegionLive -----------------------------
(* The instances of MCRegionPoll with and without a gateway: hip.enabled is *)
(* chosen once, at the start of a behaviour.                                *)
EXTENDS MCRegionPoll

VARIABLE hip

Direct == INSTANCE RegionPoll WITH HipEnabled <- FALSE

LiveVars == <<vars, hip>>

LiveNext == (IF hip = "on" THEN Next ELSE Direct!Next) /\ UNCHANGED hip

LiveTasks == (IF hip = "on" THEN TasksNext ELSE Direct!TasksNext) /\ UNCHANGED hip

(* Fairness as in FairSpec. *)
LiveSpec ==
  /\ Init /\ hip \in {"on", "off"} /\ [][LiveNext]_LiveVars
  /\ WF_LiveVars(LiveTasks)

(* Without HIP the download record is the memory of the region: when the    *)
(* watermark is about to be written, every selected bundle of the version   *)
(* is in the record on disk or its job failed.                              *)
RecordKept == hip = "off" => Direct!RecordAccounted
===============================================================================
