------------------------------- MODULE ChartSync -------------------------------
(***************************************************************************)
(* sync_chart_hashes of src/core/git_sync.rs: after an execution that      *)
(* downloaded something, a region writes the hashes of its charts to its   *)
(* own file of one git repository, commits and pushes.                     *)
(*                                                                         *)
(* The repository is the same for all regions, and as many regions execute *)
(* at a time as poller.max_concurrent_regions allows.  Each git command is *)
(* a process of its own, so the commands of two regions interleave on one  *)
(* index, one branch and one remote.  The commands themselves are          *)
(* external: they are modelled by what the code relies on.                 *)
(***************************************************************************)
EXTENDS JobState, Sequences, FiniteSets

CONSTANTS
  Regions,
  Nobody,
  MaxCharts,   \* bound: how often the charts of a region change
  MaxSyncs     \* bound: how many executions reach the sync

ASSUME ChartBounds == Nobody \notin Regions /\ MaxCharts \in Nat /\ MaxSyncs \in Nat

VARIABLES
  sync,        \* per region: where its sync is
  charts,      \* per region: its charts, as a number; 0 while it has none
  file,        \* per region: the chart file in the working tree
  index,       \* the staged files: Regions -> Nat
  log,         \* the branch: a sequence of trees Regions -> Nat
  origin,      \* how much of the branch the remote has
  lock,        \* .git/index.lock: the region whose command holds it
  push,        \* per region: its push: the attempt, and the branch's two ends
  result,      \* per region: what the last sync returned
  syncs        \* executions still to come

chartVars == <<sync, charts, file, index, log, origin, lock, push, result, syncs>>

Torn == MaxCharts + 1   \* a file cut off in the middle of its write

LastTree == log[Len(log)]   \* the tree of the branch's last commit

NoCharts == [r \in Regions |-> 0]

NoPush == [try |-> 0, from |-> 0, to |-> 0]

ChartInit ==
  /\ sync = [r \in Regions |-> "idle"] /\ charts = NoCharts
  /\ file = NoCharts /\ index = NoCharts /\ log = <<NoCharts>> /\ origin = 1
  /\ lock = Nobody /\ push = [r \in Regions |-> NoPush]
  /\ result = [r \in Regions |-> "none"]
  /\ syncs = MaxSyncs

Goes(r, from, to) == sync[r] = from /\ sync' = [sync EXCEPT ![r] = to]

(* The sync returns. *)
Returns(r, from, what) ==
  /\ Goes(r, from, "idle") /\ result' = [result EXCEPT ![r] = what]
  /\ push' = [push EXCEPT ![r] = NoPush]

tree == <<charts, file, index, log, origin>>
--------------------------------------------------------------------------------
(* An execution has saved its record and calls the sync; the charts in the  *)
(* record are those of the last time or others.  Without charts the sync    *)
(* does nothing.                                                            *)
StartSync(r) ==
  /\ syncs > 0 /\ syncs' = syncs - 1
  /\ sync[r] = "idle"
  /\ \/ UNCHANGED charts
     \/ charts[r] < MaxCharts /\ charts' = [charts EXCEPT ![r] = @ + 1]
  /\ IF charts'[r] = 0 THEN Returns(r, "idle", "nothing")
                       ELSE Goes(r, "idle", "write") /\ UNCHANGED <<result, push>>
  /\ NoFault
  /\ UNCHANGED <<file, index, log, origin, lock>>

WriteFile(r) ==
  /\ \/ /\ Goes(r, "write", "status") /\ NoFault
        /\ file' = [file EXCEPT ![r] = charts[r]] /\ UNCHANGED <<result, push>>
     \/ /\ Fault("write") /\ Returns(r, "write", "failed")
        /\ \E left \in {file[r], Torn} : file' = [file EXCEPT ![r] = left]
  /\ UNCHANGED <<charts, index, log, origin, lock, syncs>>

(* current_branch and path_has_changes: git status compares the file, the   *)
(* index and the last commit.  It does not ask whether that is pushed.      *)
(* The lock that git status may take to refresh the index is let go at      *)
(* once; a command that meets it fails, and fails as by a fault.            *)
UnstagedOnly(r) == file[r] # index[r]   \* mutant: a staged file counts as committed
HasChanges(r) == file[r] # index[r] \/ index[r] # LastTree[r]

Status(r) ==
  /\ \/ HasChanges(r) /\ Goes(r, "status", "add") /\ NoFault /\ UNCHANGED <<result, push>>
     \/ ~HasChanges(r) /\ Returns(r, "status", "unchanged") /\ NoFault
     \/ Fault("git") /\ Returns(r, "status", "failed")
  /\ UNCHANGED <<tree, lock, syncs>>

(* git add and git commit take the lock of the index, and fail when another *)
(* command has it.                                                          *)
Locks(r, from, to) ==
  /\ \/ /\ lock = Nobody /\ lock' = r
        /\ Goes(r, from, to) /\ UNCHANGED <<result, push>>
     \/ /\ lock # Nobody /\ UNCHANGED lock
        /\ Returns(r, from, "failed")
  /\ NoFault
  /\ UNCHANGED <<tree, syncs>>

Unlocks(r) == lock = r /\ lock' = Nobody

AddBegins(r) == Locks(r, "add", "adding")
AddEnds(r) ==
  /\ Unlocks(r)
  /\ \/ /\ NoFault /\ Goes(r, "adding", "commit")
        /\ index' = [index EXCEPT ![r] = file[r]] /\ UNCHANGED <<result, push>>
     \/ Fault("git") /\ Returns(r, "adding", "failed") /\ UNCHANGED index
  /\ UNCHANGED <<charts, file, log, origin, syncs>>

(* A commit takes the whole index, the files of other regions included; it  *)
(* fails when another region's commit has left nothing to commit.           *)
CommitBegins(r) == Locks(r, "commit", "committing")
CommitEnds(r) ==
  /\ Unlocks(r)
  /\ \/ /\ index # LastTree /\ NoFault
        /\ Goes(r, "committing", "head")
        /\ log' = Append(log, index) /\ UNCHANGED <<result, push>>
     \/ /\ index = LastTree /\ NoFault
        /\ Returns(r, "committing", "failed") /\ UNCHANGED log
     \/ Fault("git") /\ Returns(r, "committing", "failed") /\ UNCHANGED log
  /\ UNCHANGED <<charts, file, index, origin, syncs>>

(* head_oid and the address of the remote, each a command that may fail     *)
(* while the commit is there already.                                       *)
FindRemote(r) ==
  /\ \/ /\ Goes(r, "head", "push") /\ NoFault
        /\ push' = [push EXCEPT ![r].try = 1] /\ UNCHANGED result
     \/ Fault("git") /\ Returns(r, "head", "failed")
  /\ UNCHANGED <<tree, lock, syncs>>

(* push_origin: the push reads both ends of the branch, then asks the       *)
(* remote to move from the one to the other.                                *)
PushBegins(r) ==
  /\ Goes(r, "push", "pushing")
  /\ push' = [push EXCEPT ![r].from = origin, ![r].to = Len(log)]
  /\ NoFault
  /\ UNCHANGED <<tree, lock, result, syncs>>

(* The remote takes a push of what it has already, and any other only if it *)
(* has not moved since.                                                     *)
Accepts(r) ==
  \/ push[r].from = push[r].to /\ UNCHANGED origin
  \/ origin = push[r].from /\ origin' = push[r].to

PushEnds(r) ==
  /\ Accepts(r) /\ NoFault
  /\ Returns(r, "pushing", "pushed")
  /\ UNCHANGED <<charts, file, index, log, lock, syncs>>

(* retry_sync repeats what is_retryable_git_error calls transient, at least *)
(* one attempt in all.                                                      *)
PushFails(r) ==
  /\ \/ Fault("network") /\ UNCHANGED origin
     \/ Fault("lostAck") /\ Accepts(r)
  /\ IF MayRetry(push[r].try)
     THEN /\ Goes(r, "pushing", "push") /\ UNCHANGED result
          /\ push' = [push EXCEPT ![r] = [NoPush EXCEPT !.try = push[r].try + 1]]
     ELSE Returns(r, "pushing", "failed")
  /\ UNCHANGED <<charts, file, index, log, lock, syncs>>

PushRejected(r) ==
  /\ \/ Fault("rejected")
     \/ origin # push[r].from /\ push[r].from # push[r].to /\ NoFault
  /\ Returns(r, "pushing", "failed")
  /\ UNCHANGED <<tree, lock, syncs>>

(* The process dies between two commands, in the middle of a write or       *)
(* together with a command, which may leave its lock behind.                *)
CrashSync ==
  /\ Fault("crash") /\ lock' \in {lock, Nobody}
  /\ \E r \in Regions : sync[r] # "idle"
  /\ sync' = [r \in Regions |-> "idle"] /\ push' = [r \in Regions |-> NoPush]
  /\ \E torn \in SUBSET {r \in Regions : sync[r] = "write"} :
       file' = [r \in Regions |-> IF r \in torn THEN Torn ELSE file[r]]
  /\ result' = [r \in Regions |-> IF sync[r] = "idle" THEN result[r] ELSE "none"]
  /\ UNCHANGED <<charts, index, log, origin, syncs>>

SyncStep(r) ==
  \/ WriteFile(r) \/ Status(r) \/ AddBegins(r) \/ AddEnds(r) \/ CommitBegins(r)
  \/ CommitEnds(r) \/ FindRemote(r) \/ PushBegins(r) \/ PushEnds(r) \/ PushFails(r) \/ PushRejected(r)
--------------------------------------------------------------------------------
SyncStates == {"idle", "write", "status", "add", "adding", "commit", "committing",
               "head", "push", "pushing"}

(* Every variable has its type. *)
ChartTypeOK ==
  /\ sync \in [Regions -> SyncStates] /\ charts \in [Regions -> 0..MaxCharts]
  /\ file \in [Regions -> 0..Torn] /\ index \in [Regions -> 0..Torn]
  /\ log \in Seq([Regions -> 0..Torn]) /\ origin \in 1..Len(log)
  /\ lock \in Regions \cup {Nobody}
  /\ result \in [Regions -> {"none", "nothing", "unchanged", "pushed", "failed"}]

Published(r) == log[origin][r] = charts[r]

(* The answer of a sync is worth something although the commands of several *)
(* regions interleave: "pushed" means that the remote has the region's      *)
(* charts, and that no commit has a file that was cut off or charts that    *)
(* are older than an earlier commit's.  "unchanged" means no more than that *)
(* they are committed: the commits that a failed push or a crash left       *)
(* behind wait until some region commits again.  When every region's last   *)
(* answer is "pushed" or "nothing", no commit waits.                        *)
ChartsAccounted ==
  /\ ChartTypeOK
  /\ \A r \in Regions : sync[r] = "idle" =>
       /\ result[r] = "pushed" => Published(r)
       /\ result[r] = "unchanged" => LastTree[r] = charts[r]
                                     /\ (Published(r) \/ origin < Len(log))
  /\ (\A r \in Regions : sync[r] = "idle" /\ result[r] \in {"pushed", "nothing"})
       => origin = Len(log)
  /\ \A i \in 1..Len(log), r \in Regions :
       log[i][r] # Torn /\ (i > 1 => log[i - 1][r] <= log[i][r])
===============================================================================
