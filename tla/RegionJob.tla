------------------------------- MODULE RegionJob -------------------------------
(***************************************************************************)
(* The life of a process around the downloads of its regions: it loads its *)
(* settings, one region's poll finds its catalogue, and once the bundles   *)
(* are recorded the regions push their charts to one repository.  The      *)
(* downloads in between are those of BundleScheduler, the poll's other     *)
(* tasks those of RegionPoll.                                              *)
(*                                                                         *)
(* The polls of the other regions are not followed, only their syncs.      *)
(* They run while the followed region syncs and come to an end before it   *)
(* asks for its next catalogue: its requests touch nothing that a sync     *)
(* touches, so any other order of the two has the same outcome.            *)
(***************************************************************************)
EXTENDS Settings, CataloguePlan, ChartSync

CONSTANT Here   \* the region whose poll is followed

ASSUME HereAssumption == Here \in Regions

vars == <<settingVars, planVars, chartVars, attempts, faults>>

Init == SettingsInit /\ PlanInit /\ ChartInit /\ faults = MaxFaults

Load ==
  \/ SettingsNext /\ UNCHANGED <<planVars, chartVars>>
  \/ Start /\ Configure /\ UNCHANGED chartVars

Running == stage = "running" /\ UNCHANGED <<settingVars, attempts>>

Plan ==
  /\ Running /\ \A r \in Regions : sync[r] = "idle"
  /\ PlanNext /\ UNCHANGED chartVars

(* Everything new is downloaded and recorded, then the charts are synced. *)
Downloaded ==
  /\ Running
  /\ at = "planned" /\ info.asset # recorded
  /\ at' = "charts" /\ recorded' = info.asset
  /\ StartSync(Here)
  /\ UNCHANGED <<who, provider, live, round, tried, cur, ctx, new_info, info, why>>

OthersMove == at \in {"charts", "failed", "completed"}

Sync ==
  /\ Running /\ OthersMove
  /\ \/ \E r \in Regions : SyncStep(r)
     \/ \E r \in Regions \ {Here} : StartSync(r)
  /\ UNCHANGED planVars

(* The error of a sync is the error of the attempt.  The next round finds   *)
(* everything in the record and so never comes to the sync.                 *)
Swallowed == PollOver("completed") /\ UNCHANGED <<provider, live, recorded>>   \* mutant
Passed == IF result[Here] = "failed" THEN AttemptFails("charts")
          ELSE PollOver("completed") /\ UNCHANGED <<provider, live, recorded>>

SyncReturns ==
  /\ Running /\ at = "charts" /\ sync[Here] = "idle"
  /\ Passed
  /\ NoFault /\ UNCHANGED chartVars

Crash ==
  /\ Running /\ CrashSync /\ PollOver("idle") /\ UNCHANGED <<provider, live, recorded>>

Next == Load \/ Plan \/ Downloaded \/ Sync \/ SyncReturns \/ Crash

Spec == Init /\ [][Next]_vars
--------------------------------------------------------------------------------
(* A poll that downloaded something and reports success has its charts on   *)
(* the remote, or at least committed while an earlier failure keeps commits *)
(* waiting.  A poll that found nothing new may cover up a failed sync: that *)
(* of its own previous round, or of a process that died.                    *)
JobAccounted ==
  /\ at = "completed" => \/ Published(Here)
                         \/ result[Here] = "unchanged" /\ origin < Len(log)
  /\ at = "nothing" /\ ~Published(Here) =>
       \/ result[Here] \in {"failed", "none"}
       \/ result[Here] = "unchanged" /\ origin < Len(log)
===============================================================================
