--------------------------- MODULE BundleScheduler ---------------------------
(***************************************************************************)
(* How one execution runs its bundles (src/core/asset_execution.rs): the   *)
(* download jobs and the post-processing jobs of execute_with_filter, and  *)
(* the jobs of prefetch_asset_bundles.  RegionExecutor treats a job as its *)
(* start and its end; here are the four semaphores it passes in between,   *)
(* the download with its retries, the temporary file, the joins and the    *)
(* cancellation.                                                           *)
(*                                                                         *)
(* A download job takes a download slot, a place in the backlog of the     *)
(* post-processing and a share of the memory limit.  The slot ends with    *)
(* the job; the other two go on with the bundle into its post-processing.  *)
(***************************************************************************)
EXTENDS Naturals, Sequences, FiniteSets, FiniteSetsExt

CONSTANTS
  N,            \* the number of download tasks
  Size,         \* per task: the MiB its bundle takes, rounded up
  DownloadMax,  \* concurrency.download
  PostMax,      \* post_process_concurrency
  Limit,        \* max_in_flight_bundle_bytes in MiB; 0 disables it
  Attempts,     \* retry.attempts
  Entries,      \* the entry points to look at: "execute", "prefetch"
  Faults,       \* the kinds of failure a run injects
  MaxFaults     \* bound: how many of them a behaviour may contain

Tasks == 1..N

FaultKinds ==
  { "transient",  \* the connection fails, or a status of 500 and above
    "final",      \* another status
    "disk",       \* a file cannot be written, read or removed
    "export",     \* the export fails
    "post",       \* the post-processing fails
    "panic",      \* a task panics
    "cancel" }    \* the cancel flag is set

ASSUME TasksAssumption == N \in Nat \ {0} /\ Size \in [Tasks -> Nat \ {0}]
ASSUME LimitsAssumption ==
  /\ DownloadMax \in Nat \ {0} /\ PostMax \in Nat \ {0} /\ Attempts \in Nat \ {0}
  /\ Limit \in Nat /\ Entries \subseteq {"execute", "prefetch"}
  /\ Faults \subseteq FaultKinds /\ MaxFaults \in Nat

VARIABLES
  entry,      \* execute_with_filter or prefetch_asset_bundles
  spawned,    \* tasks taken from pending_tasks
  at,         \* per task: where it is
  free, line, \* per semaphore: its free permits, and who waits for it
  tries,      \* per task: requests the download may still make
  fatal,      \* tasks that met a failure that is not retried
  temp,       \* tasks whose temporary file exists
  torn,       \* tasks whose temporary file could not be written or removed
  cancelled,  \* the cancel flag
  outcome,    \* of the execution
  faults

semaphores == <<free, line>>
files == <<temp, torn>>
vars == <<entry, spawned, at, semaphores, tries, fatal, files, cancelled, outcome, faults>>

Prefetch == entry = "prefetch"

Fault(kind) == kind \in Faults /\ faults > 0 /\ faults' = faults - 1
NoFault == faults' = faults

Semaphores == {"slot", "backlog", "memory", "post"}
CapacityWithDownloads(s) ==   \* mutant: a backlog place for every download as well
  CASE s = "slot" -> DownloadMax [] s = "memory" -> Limit
    [] s = "backlog" -> DownloadMax + PostMax [] OTHER -> PostMax

(* post_process_backlog_capacity is the post-processing concurrency. *)
Capacity(s) == CASE s = "slot" -> DownloadMax [] s = "memory" -> Limit [] OTHER -> PostMax

(* BundleMemoryLimiter::acquire: a bundle larger than the limit takes it all. *)
UnitsUnclamped(t) == IF Limit = 0 THEN 0 ELSE Size[t]   \* mutant: without min
Units(t) == IF Limit = 0 THEN 0 ELSE Min({Size[t], Limit})

Need(s, t) == IF s = "memory" THEN Units(t) ELSE 1

(* What a task holds, by where it is. *)
Held(t) ==
  CASE at[t] = "backlog" -> {"slot"}
    [] at[t] = "memory" -> {"slot"} \cup (IF Prefetch THEN {} ELSE {"backlog"})
    [] at[t] \in {"fetch", "export"} ->
         {"slot", "memory"} \cup (IF Prefetch THEN {} ELSE {"backlog"})
    [] at[t] \in {"exported", "queued"} -> {"backlog", "memory"}
    [] at[t] = "post" -> {"backlog", "memory", "post"}
    [] OTHER -> {}

Downloading == {"new", "slot", "backlog", "memory", "fetch", "export"}
Joinable == {"exported", "errored", "stopped", "panicked", "prefetched"}
PostProcessing == {"queued", "post", "posted", "postErrored", "postPanicked"}
Settled == {"done", "failed"}

(* Every variable has its type; no semaphore has more permits than it was   *)
(* made with.                                                               *)
TypeOK ==
  /\ entry \in Entries /\ spawned \in 0..N
  /\ at \in [Tasks -> {"pending", "aborted"} \cup Downloading \cup Joinable \cup PostProcessing
                        \cup Settled]
  /\ \A s \in Semaphores : free[s] \in 0..Capacity(s) /\ line[s] \in Seq(Tasks)
  /\ tries \in [Tasks -> 0..Attempts] /\ fatal \subseteq Tasks
  /\ temp \subseteq Tasks /\ torn \subseteq Tasks
  /\ cancelled \in BOOLEAN /\ outcome \in {"running", "ok", "cancelled", "panicked"}
  /\ faults \in 0..MaxFaults

(* The first download_concurrency jobs are spawned, or all of them. *)
Init ==
  /\ entry \in Entries
  /\ spawned = IF Prefetch THEN N ELSE Min({N, DownloadMax})
  /\ at = [t \in Tasks |-> IF t <= spawned THEN "new" ELSE "pending"]
  /\ free = [s \in Semaphores |-> Capacity(s)] /\ line = [s \in Semaphores |-> <<>>]
  /\ tries = [t \in Tasks |-> Attempts] /\ fatal = {}
  /\ temp = {} /\ torn = {} /\ cancelled = FALSE /\ outcome = "running" /\ faults = MaxFaults

Moves(t, from, to) ==
  /\ outcome = "running" /\ at[t] = from
  /\ at' = [at EXCEPT ![t] = to]
--------------------------------------------------------------------------------
(* The semaphores are fair.  The head of the line takes its permits and     *)
(* goes on to the next line, if there is one.                               *)
Turn(s, t) == line[s] # <<>> /\ Head(line[s]) = t /\ free[s] >= Need(s, t)

Take(s, t) ==
  /\ Turn(s, t)
  /\ free' = [free EXCEPT ![s] = @ - Need(s, t)]

Releases(t, held) ==
  free' = [s \in Semaphores |-> free[s] + (IF s \in held THEN Need(s, t) ELSE 0)]

AskSlot(t) ==
  /\ Moves(t, "new", "slot")
  /\ line' = [line EXCEPT !["slot"] = Append(@, t)]
  /\ NoFault
  /\ UNCHANGED <<spawned, free, tries, fatal, files, cancelled, outcome>>

(* The cancel flag is looked at once, when the slot has been taken. *)
AfterSlot == IF Prefetch THEN "memory" ELSE "backlog"

TakeSlot(t) ==
  /\ \/ /\ ~cancelled
        /\ Moves(t, "slot", AfterSlot) /\ Take("slot", t)
        /\ line' = [line EXCEPT !["slot"] = Tail(@), ![AfterSlot] = Append(@, t)]
     \/ /\ cancelled
        /\ Moves(t, "slot", "stopped") /\ Turn("slot", t)
        /\ line' = [line EXCEPT !["slot"] = Tail(@)] /\ UNCHANGED free
  /\ NoFault
  /\ UNCHANGED <<spawned, tries, fatal, files, cancelled, outcome>>

TakeBacklog(t) ==
  /\ Moves(t, "backlog", "memory") /\ Take("backlog", t)
  /\ line' = [line EXCEPT !["backlog"] = Tail(@), !["memory"] = Append(@, t)]
  /\ NoFault
  /\ UNCHANGED <<spawned, tries, fatal, files, cancelled, outcome>>

TakeMemory(t) ==
  /\ Moves(t, "memory", "fetch") /\ Take("memory", t)
  /\ line' = [line EXCEPT !["memory"] = Tail(@)]
  /\ NoFault
  /\ UNCHANGED <<spawned, tries, fatal, files, cancelled, outcome>>
--------------------------------------------------------------------------------
(* get_with_retry, then deobfuscation and the temporary file.  Prefetch     *)
(* writes the raw bundle and is done.                                       *)
Fetched(t) ==
  /\ \/ /\ ~Prefetch /\ Moves(t, "fetch", "export")
        /\ temp' = temp \cup {t} /\ UNCHANGED free
     \/ /\ Prefetch /\ Moves(t, "fetch", "prefetched")
        /\ Releases(t, Held(t)) /\ UNCHANGED temp
  /\ NoFault
  /\ UNCHANGED <<spawned, line, tries, fatal, torn, cancelled, outcome>>

(* retry_async: another request while there are attempts left. *)
LastAttempt(t) == tries[t] = 1

RequestFails(t) ==
  /\ Fault("transient")
  /\ tries' = [tries EXCEPT ![t] = @ - 1]
  /\ \/ ~LastAttempt(t) /\ Moves(t, "fetch", "fetch") /\ UNCHANGED free
     \/ LastAttempt(t) /\ Moves(t, "fetch", "errored") /\ Releases(t, Held(t))
  /\ UNCHANGED <<spawned, line, fatal, files, cancelled, outcome>>

(* Errors of the download job that are final: a status below 500, or a file *)
(* that cannot be written.                                                  *)
FetchFails(t) ==
  /\ Moves(t, "fetch", "errored") /\ Releases(t, Held(t))
  /\ fatal' = fatal \cup {t}
  /\ \/ Fault("final") /\ UNCHANGED files
     \/ /\ Fault("disk")
        /\ \/ ~Prefetch /\ temp' = temp \cup {t} /\ torn' = torn \cup {t}
           \/ UNCHANGED files
  /\ UNCHANGED <<spawned, line, tries, cancelled, outcome>>

(* export_unity_asset_bundle_payloads and the flush of its images; the      *)
(* temporary file goes first, whatever came of the export.  The error of a  *)
(* removal is dropped, so the file stays behind a bundle that goes on.  The *)
(* slot is given back, backlog and memory are handed to the post-processing. *)
RemoveTempOnSuccess(t, ok) == IF ok THEN temp \ {t} ELSE temp   \* mutant: `?` before remove
RemoveTemp(t, ok) == temp \ {t}

TempGoes(t, ok) == temp' = RemoveTemp(t, ok) /\ UNCHANGED torn
TempStays(t) == UNCHANGED temp /\ torn' = torn \cup {t}

HandOverNothing(t) == Held(t)   \* mutant: backlog and memory end with the job
GivenBack(t) == {"slot"}

Exported(t) ==
  /\ \/ /\ Moves(t, "export", "exported") /\ Releases(t, GivenBack(t))
        /\ UNCHANGED fatal
        /\ (TempGoes(t, TRUE) /\ NoFault) \/ (TempStays(t) /\ Fault("disk"))
     \/ /\ Moves(t, "export", "errored") /\ Releases(t, Held(t))
        /\ fatal' = fatal \cup {t}
        /\ (TempGoes(t, FALSE) /\ Fault("export")) \/ (TempStays(t) /\ Fault("disk"))
  /\ UNCHANGED <<spawned, line, tries, cancelled, outcome>>

(* A panic unwinds the task: it gives back what it holds. *)
Panics(t) ==
  /\ Fault("panic")
  /\ \/ \E from \in {"fetch", "export"} : Moves(t, from, "panicked")
     \/ Moves(t, "post", "postPanicked")
  /\ Releases(t, Held(t))
  /\ UNCHANGED <<spawned, line, tries, fatal, files, cancelled, outcome>>
--------------------------------------------------------------------------------
(* execute_with_filter joins a download job: its bundle goes on to the      *)
(* post-processing, or has failed, and the next task is spawned.            *)
SpawnsOnSuccess(t) == spawned < N /\ at[t] = "exported"   \* mutant: not after a failure
SpawnsNext(t) == spawned < N

Join(t) ==
  /\ outcome = "running" /\ at[t] \in {"exported", "errored", "prefetched"}
  /\ LET to == CASE at[t] = "exported" -> "queued"
                 [] at[t] = "errored" -> "failed"
                 [] OTHER -> "done"
     IN  at' = [q \in Tasks |-> IF q = t THEN to
                                ELSE IF SpawnsNext(t) /\ q = spawned + 1 THEN "new"
                                ELSE at[q]]
  /\ spawned' = IF SpawnsNext(t) THEN spawned + 1 ELSE spawned
  /\ line' = IF at[t] = "exported" THEN [line EXCEPT !["post"] = Append(@, t)] ELSE line
  /\ NoFault
  /\ UNCHANGED <<free, tries, fatal, files, cancelled, outcome>>

(* A cancelled job ends the execution, and so does one that panicked: its   *)
(* JoinSets are dropped and every task with them.                           *)
JoinEndsAll(t) ==
  /\ outcome = "running" /\ at[t] \in {"stopped", "panicked", "postPanicked"}
  /\ outcome' = IF at[t] = "stopped" THEN "cancelled" ELSE "panicked"
  /\ at' = [q \in Tasks |-> IF at[q] \in Settled \cup {"pending"} THEN at[q] ELSE "aborted"]
  /\ free' = [s \in Semaphores |-> Capacity(s)] /\ line' = [s \in Semaphores |-> <<>>]
  /\ NoFault
  /\ UNCHANGED <<spawned, tries, fatal, files, cancelled>>

TakePost(t) ==
  /\ Moves(t, "queued", "post") /\ Take("post", t)
  /\ line' = [line EXCEPT !["post"] = Tail(@)]
  /\ NoFault
  /\ UNCHANGED <<spawned, tries, fatal, files, cancelled, outcome>>

(* finish_native_bundle_post_process; its permits go with the job. *)
PostEnds(t) ==
  /\ \/ Moves(t, "post", "posted") /\ UNCHANGED fatal /\ NoFault
     \/ Moves(t, "post", "postErrored") /\ fatal' = fatal \cup {t} /\ Fault("post")
  /\ Releases(t, Held(t))
  /\ UNCHANGED <<spawned, line, tries, files, cancelled, outcome>>

JoinPost(t) ==
  /\ \/ Moves(t, "posted", "done")
     \/ Moves(t, "postErrored", "failed")
  /\ NoFault
  /\ UNCHANGED <<spawned, semaphores, tries, fatal, files, cancelled, outcome>>

(* The loop ends when both JoinSets are empty. *)
LoopEnds ==
  /\ outcome = "running"
  /\ \A t \in Tasks : at[t] \in Settled \cup {"pending"}
  /\ outcome' = "ok"
  /\ NoFault
  /\ UNCHANGED <<spawned, at, semaphores, tries, fatal, files, cancelled>>

Cancel ==
  /\ ~cancelled /\ outcome = "running" /\ Fault("cancel")
  /\ cancelled' = TRUE
  /\ UNCHANGED <<spawned, at, semaphores, tries, fatal, files, outcome>>

Runs(t) ==
  \/ AskSlot(t) \/ TakeSlot(t) \/ TakeBacklog(t) \/ TakeMemory(t)
  \/ Fetched(t) \/ RequestFails(t) \/ FetchFails(t) \/ Exported(t)
  \/ TakePost(t) \/ PostEnds(t) \/ Join(t) \/ JoinPost(t) \/ JoinEndsAll(t)

Next ==
  /\ (\E t \in Tasks : Runs(t) \/ Panics(t)) \/ LoopEnds \/ Cancel
  /\ UNCHANGED entry

Spec == Init /\ [][Next]_vars

(* Tasks that are ready are polled, downloads and exports end. *)
FairSpec ==
  /\ Spec /\ WF_vars(LoopEnds /\ UNCHANGED entry)
  /\ \A t \in Tasks : WF_vars(Runs(t) /\ UNCHANGED entry)
--------------------------------------------------------------------------------
At(states) == {t \in Tasks : at[t] \in states}
InMemory == At({"fetch", "export", "exported", "queued", "post"})

(* The permits that are out, each a task and a number. *)
Permits(s) == UNION {{t} \X (1..Need(s, t)) : t \in {u \in Tasks : s \in Held(u)}}

(* What a semaphore has lost is held by the tasks whose stage entitles them *)
(* to it, whichever way the others ended.                                   *)
PermitsFollowBundles ==
  /\ TypeOK
  /\ \A s \in Semaphores : free[s] + Cardinality(Permits(s)) = Capacity(s)

(* The MiB the bundles take, each a task and a number. *)
MiBInMemory == UNION {{t} \X (1..Size[t]) : t \in InMemory}

(* max_in_flight_bundle_bytes, for one execution: each one makes a          *)
(* BundleMemoryLimiter of its own, so that the process as a whole may hold  *)
(* as much again for every other region that runs.  From its download to    *)
(* the end of its post-processing a bundle counts; one that is larger than  *)
(* the limit has it to itself.                                              *)
MemoryBounded ==
  Limit > 0 =>
    Cardinality(MiBInMemory) <= Limit \/ Cardinality(InMemory) = 1

(* Bundles pile up nowhere: no more are under way between download and the  *)
(* end of the post-processing than can be post-processed at once, and one   *)
(* that is exported finds its permit free; and they fit into the memory     *)
(* that one execution may use.                                              *)
WorkBounded ==
  /\ MemoryBounded
  /\ ~Prefetch =>
       /\ Cardinality(InMemory) <= PostMax
       /\ Len(line["post"]) <= free["post"]

(* Every task has been seen to when the execution returns Ok, also those    *)
(* behind a bundle that failed; and a bundle fails only when it met an      *)
(* error that is not retried, or when every attempt of its download failed. *)
NoTaskLeftBehind ==
  /\ outcome = "ok" => \A t \in Tasks : at[t] \in Settled
  /\ \A t \in At({"errored", "failed"}) : t \in fatal \/ tries[t] = 0

(* A temporary file outlives its export only where the file system would    *)
(* not have it, at the write or at the removal, or where the export was cut *)
(* off by a panic or an abort: never for an error of the export itself.     *)
TempFilesRemoved == temp \subseteq torn \cup At({"export", "panicked", "aborted"})

(* Every execution ends: no bundle waits for a permit that another holds    *)
(* while it waits itself, and a bundle larger than the memory limit has its *)
(* turn.                                                                    *)
ExecutionEnds == <>(outcome # "running")
===============================================================================
