------------------------------ MODULE WorkerPool ------------------------------
(***************************************************************************)
(* The export of bundles through the pool of AssetStudio worker processes: *)
(* run_assetstudio_ffi_object_export and what it calls in assetstudio.rs   *)
(* and payload.rs of src/core/export_pipeline/implementation, over the     *)
(* pool of crates/assetstudio-ffi/src/worker_pool.rs.                      *)
(*                                                                         *)
(* An export takes a CPU permit, then a permit of the pool and a worker,   *)
(* and makes its calls: open, the listing, one read of the objects that    *)
(* are not images, one read per image, close.  Images that were read may   *)
(* be encoded between the reads, by threads that take CPU permits of their *)
(* own.  A worker that died by a signal is answered with one more attempt  *)
(* on a fresh worker while the pool is otherwise empty.  CpuBudget has the *)
(* protocol behind the CPU permits, which are a counter here.              *)
(***************************************************************************)
EXTENDS Naturals, Sequences, FiniteSets

CONSTANTS
  Bundles,      \* exports that run at the same time, or one after the other
  Flushers,     \* bundles whose queued images may exceed image_flush_bytes
  Images,       \* the number of images of each bundle
  Threads,      \* image_concurrency: threads of one flush
  PoolSize,     \* process_concurrency
  CpuMax,       \* the CPU budget
  MaxCalls,     \* worker_max_calls; 0 disables recycling
  Faults,       \* the kinds of failure a run injects
  MaxFaults,    \* bound: how many of them a behaviour may contain
  NoWorker

FaultKinds ==
  { "crash",     \* a worker dies by a signal during a call
    "unreaped",  \* the same, but try_wait does not see the status yet
    "error",     \* a call is answered with an error
    "spawn",     \* a worker cannot be spawned
    "idle",      \* an idle worker is killed by a signal
    "abort" }    \* the task of the export is dropped

ASSUME BundlesAssumption == IsFiniteSet(Bundles) /\ Flushers \subseteq Bundles
ASSUME LimitsAssumption ==
  /\ Images \in [Bundles -> Nat] /\ Threads \in Nat \ {0}
  /\ PoolSize \in Nat \ {0} /\ CpuMax \in Nat \ {0}
  /\ MaxCalls \in Nat /\ MaxFaults \in Nat /\ Faults \subseteq FaultKinds

VARIABLES
  at,         \* per bundle: where its export is
  exclusive,  \* per bundle: is this the second attempt?
  unpack,     \* per bundle: unpack_result so far: none, signal or other error
  images,     \* per bundle: images still to read
  skipped,    \* per bundle: images skipped because the worker had crashed
  hurt,       \* per bundle: failures that hit its own calls in this attempt
  queued,     \* images that were read and wait to be encoded
  encoding,   \* images whose thread holds a CPU permit
  cpu,        \* CPU permits taken
  permits,    \* free permits of the pool's semaphore
  queue,      \* exports that wait for it, first come first served
  available,  \* the idle workers, a stack
  lease,      \* per bundle: its worker
  recovery,   \* the recovery lock: its holder, then those that wait for it
  faults

progress == <<exclusive, unpack, images, skipped, hurt>>
flush == <<queued, encoding>>
pool == <<permits, queue, available>>
vars == <<at, progress, flush, cpu, pool, lease, recovery, faults>>

Fault(kind) == kind \in Faults /\ faults > 0 /\ faults' = faults - 1
NoFault == faults' = faults

Leased == {"open", "list", "data", "image", "flush", "close", "finish", "kill"}
Over == {"done", "failed", "aborted"}

Image == Bundles \X Nat
Of(b, S) == {i \in S : i[1] = b}

Worker == [dead : BOOLEAN, open : BOOLEAN, calls : Nat]
ASSUME NoWorkerAssumption == NoWorker \notin Worker

FreshWorker == [dead |-> FALSE, open |-> FALSE, calls |-> 0]

(* Every variable has its type; no more CPU permits are out than there are. *)
TypeOK ==
  /\ at \in [Bundles -> {"cpu", "queue"} \cup Leased \cup Over]
  /\ exclusive \in [Bundles -> BOOLEAN] /\ unpack \in [Bundles -> {"none", "signal", "other"}]
  /\ images \in [Bundles -> Nat] /\ skipped \in [Bundles -> Nat] /\ hurt \in [Bundles -> Nat]
  /\ \A b \in Bundles : images[b] + skipped[b] <= Images[b]
  /\ queued \subseteq Image /\ encoding \subseteq Image
  /\ cpu \in 0..CpuMax /\ permits \in 0..PoolSize /\ queue \in Seq(Bundles)
  /\ available \in Seq(Worker) /\ lease \in [Bundles -> Worker \cup {NoWorker}]
  /\ recovery \in Seq(Bundles) /\ faults \in 0..MaxFaults

Init ==
  /\ at = [b \in Bundles |-> "cpu"]
  /\ exclusive = [b \in Bundles |-> FALSE] /\ unpack = [b \in Bundles |-> "none"]
  /\ images = Images /\ skipped = [b \in Bundles |-> 0]
  /\ hurt = [b \in Bundles |-> 0] /\ queued = {} /\ encoding = {}
  /\ cpu = 0 /\ permits = PoolSize /\ queue = <<>> /\ available = <<>>
  /\ lease = [b \in Bundles |-> NoWorker] /\ recovery = <<>> /\ faults = MaxFaults

Moves(b, from, to) == at[b] = from /\ at' = [at EXCEPT ![b] = to]

(* Vec::pop and Vec::remove. *)
Top(s) == s[Len(s)]
Pop(s) == SubSeq(s, 1, Len(s) - 1)
RemoveAt(s, i) == SubSeq(s, 1, i - 1) \o SubSeq(s, i + 1, Len(s))
--------------------------------------------------------------------------------
(* The semaphore is fair: an acquire waits behind the earlier ones, an      *)
(* exclusive one until every permit is back.                                *)
Need(b) == IF exclusive[b] THEN PoolSize ELSE 1

FreeCpu == cpu < CpuMax

(* call_assetstudio_ffi_object_export_pooled: the CPU permit comes first,   *)
(* also for the second attempt, whose turn it is when it holds the lock.    *)
TakeCpu(b) ==
  /\ exclusive[b] => recovery # <<>> /\ Head(recovery) = b
  /\ FreeCpu
  /\ Moves(b, "cpu", "queue")
  /\ cpu' = cpu + 1 /\ queue' = Append(queue, b)
  /\ NoFault
  /\ UNCHANGED <<progress, flush, permits, available, lease, recovery>>

(* acquire takes an idle worker before it spawns one; acquire_exclusive     *)
(* spawns always.                                                           *)
AcquireWorker(b) ==
  /\ queue # <<>> /\ Head(queue) = b /\ permits >= Need(b)
  /\ Moves(b, "queue", "open")
  /\ permits' = permits - Need(b) /\ queue' = Tail(queue)
  /\ \/ /\ ~exclusive[b] /\ available # <<>>
        /\ lease' = [lease EXCEPT ![b] = Top(available)]
        /\ available' = Pop(available)
     \/ /\ exclusive[b] \/ available = <<>>
        /\ lease' = [lease EXCEPT ![b] = FreshWorker]
        /\ UNCHANGED available
  /\ NoFault
  /\ UNCHANGED <<progress, flush, cpu, recovery>>

(* A future that is dropped leaves its line, in which it is once at most. *)
Drop(line, b) ==
  LET places == {i \in DOMAIN line : line[i] = b}
  IN  IF places = {} THEN line ELSE RemoveAt(line, CHOOSE i \in places : TRUE)

EndRecovery(b) == Drop(recovery, b)

SpawnFails(b) ==
  /\ Fault("spawn")
  /\ queue # <<>> /\ Head(queue) = b /\ permits >= Need(b)
  /\ exclusive[b] \/ available = <<>>
  /\ Moves(b, "queue", "failed")
  /\ queue' = Tail(queue) /\ cpu' = cpu - 1
  /\ hurt' = [hurt EXCEPT ![b] = @ + 1]
  /\ recovery' = EndRecovery(b)
  /\ UNCHANGED <<exclusive, unpack, images, skipped, flush, permits, available, lease>>
--------------------------------------------------------------------------------
(* PooledWorker::call: what the caller sees.  A call to a worker that is    *)
(* dead already fails with the signal it died of.                           *)
Call(b, outcome) ==
  \/ /\ outcome = "ok" /\ ~lease[b].dead
     /\ lease' = [lease EXCEPT ![b].calls = @ + 1,
                               ![b].open = IF at[b] \in {"open", "close"} THEN ~@ ELSE @]
     /\ UNCHANGED hurt /\ NoFault
  \/ /\ outcome = "signal" /\ lease[b].dead
     /\ UNCHANGED <<lease, hurt>> /\ NoFault
  \/ /\ ~lease[b].dead
     /\ \/ outcome = "signal" /\ Fault("crash") /\ lease' = [lease EXCEPT ![b].dead = TRUE]
        \/ outcome = "other" /\ Fault("unreaped") /\ lease' = [lease EXCEPT ![b].dead = TRUE]
        \/ outcome = "other" /\ Fault("error") /\ UNCHANGED lease
     /\ hurt' = [hurt EXCEPT ![b] = @ + 1]

Outcomes == {"ok", "signal", "other"}
ErrorOf(outcome) == IF outcome = "ok" THEN "none" ELSE outcome

(* ContextOpen, whose answer may have the whole listing.  An error returns  *)
(* without a close.                                                         *)
Open(b) ==
  \E outcome \in Outcomes, next \in {"list", "data"} :
    /\ Moves(b, "open", IF outcome = "ok" THEN next ELSE "kill")
    /\ Call(b, outcome)
    /\ unpack' = [unpack EXCEPT ![b] = ErrorOf(outcome)]
    /\ UNCHANGED <<exclusive, images, skipped, flush, cpu, pool, recovery>>

(* ContextListObjects, and ContextReadObjects for the objects that are not  *)
(* images, which have been sorted to the front.  The context is closed      *)
(* after an error.                                                          *)
Read(b, from, to) ==
  \E outcome \in Outcomes :
    /\ Moves(b, from, IF outcome = "ok" THEN to ELSE "close")
    /\ Call(b, outcome)
    /\ unpack' = [unpack EXCEPT ![b] = ErrorOf(outcome)]
    /\ UNCHANGED <<exclusive, images, skipped, flush, cpu, pool, recovery>>

EndsInFlush(left) == IF left > 0 THEN "image" ELSE "flush"   \* mutant: no close after it
AfterRead(left) == IF left > 0 THEN "image" ELSE "close"

ListObjects(b) == Read(b, "list", "data")
ReadData(b) == Read(b, "data", AfterRead(Images[b]))

(* The read of one image.  It is skipped when its worker died, and queued   *)
(* for the encoders otherwise; the queue is flushed when it is over its     *)
(* threshold.                                                               *)
ReadImage(b) ==
  \E outcome \in Outcomes, over \in BOOLEAN :
    /\ over => b \in Flushers
    /\ queued' = IF outcome = "ok" THEN queued \cup {<<b, images[b]>>} ELSE queued
    /\ Moves(b, "image", IF outcome = "other" THEN "close"
                         ELSE IF over /\ Of(b, queued') # {} THEN "flush"
                         ELSE AfterRead(images[b] - 1))
    /\ Call(b, outcome)
    /\ images' = [images EXCEPT ![b] = @ - 1]
    /\ skipped' = [skipped EXCEPT ![b] = IF outcome = "signal" THEN @ + 1 ELSE @]
    /\ unpack' = [unpack EXCEPT ![b] = IF outcome = "other" THEN "other" ELSE "none"]
    /\ UNCHANGED <<exclusive, encoding, cpu, pool, recovery>>

(* flush_queued_native_images_if_over_threshold and run_tasks: each thread  *)
(* takes the next image, and a CPU permit for it while the export keeps its *)
(* own.                                                                     *)
FlushTakesCpu(b) ==
  /\ at[b] = "flush" /\ FreeCpu /\ Cardinality(Of(b, encoding)) < Threads
  /\ \E i \in Of(b, queued) :
       /\ \A j \in Of(b, queued) : j[2] <= i[2]
       /\ queued' = queued \ {i} /\ encoding' = encoding \cup {i}
  /\ cpu' = cpu + 1
  /\ NoFault
  /\ UNCHANGED <<at, progress, pool, lease, recovery>>

(* After an error no thread takes another image, but those taken already    *)
(* are encoded.                                                             *)
Encoded(b) ==
  /\ at[b] = "flush"
  /\ \E i \in Of(b, encoding) : encoding' = encoding \ {i}
  /\ cpu' = cpu - 1
  /\ \/ NoFault /\ UNCHANGED <<unpack, hurt, queued>>
     \/ /\ Fault("error")
        /\ unpack' = [unpack EXCEPT ![b] = "other"] /\ hurt' = [hurt EXCEPT ![b] = @ + 1]
        /\ \E taken \in SUBSET Of(b, queued) :
             /\ Cardinality(taken) + Cardinality(Of(b, encoding)) <= Threads
             /\ queued' = (queued \ Of(b, queued)) \cup taken
  /\ UNCHANGED <<at, exclusive, images, skipped, pool, lease, recovery>>

(* All threads are joined. *)
FlushEnds(b) ==
  /\ Of(b, queued \cup encoding) = {}
  /\ Moves(b, "flush", IF unpack[b] # "none" THEN "close" ELSE AfterRead(images[b]))
  /\ NoFault
  /\ UNCHANGED <<progress, flush, cpu, pool, lease, recovery>>

(* ContextClose, and what becomes of the export: a failed close is excused  *)
(* only after a crash that cost images.                                     *)
AlwaysExcused(b) == TRUE   \* mutant: any failed close is excused
Excused(b) == skipped[b] > 0

Close(b) ==
  \E outcome \in Outcomes :
    /\ Moves(b, "close", IF unpack[b] = "none" /\ (outcome = "ok" \/ Excused(b))
                         THEN "finish" ELSE "kill")
    /\ Call(b, outcome)
    /\ unpack' = [unpack EXCEPT ![b] = IF @ # "none" THEN @ ELSE ErrorOf(outcome)]
    /\ UNCHANGED <<exclusive, images, skipped, flush, cpu, pool, recovery>>
--------------------------------------------------------------------------------
(* The lease is dropped: its permits come back, then the CPU permit. *)
ReleaseCpuOnly(b) == cpu' = cpu - 1 /\ UNCHANGED permits   \* mutant: a permit leaks
Release(b) == cpu' = cpu - 1 /\ permits' = permits + Need(b)

(* Images that were not flushed leave with the export. *)
HandsOver(b) == queued' = queued \ Of(b, queued) /\ UNCHANGED encoding

(* finish_success and return_or_recycle_worker. *)
Recycles(w) == MaxCalls > 0 /\ w.calls >= MaxCalls

FinishSuccess(b) ==
  /\ Moves(b, "finish", "done")
  /\ available' = IF Recycles(lease[b]) THEN available ELSE Append(available, lease[b])
  /\ lease' = [lease EXCEPT ![b] = NoWorker]
  /\ Release(b) /\ HandsOver(b)
  /\ recovery' = EndRecovery(b)
  /\ NoFault
  /\ UNCHANGED <<progress, queue>>

(* lease.kill(), and the second attempt: only for a worker that died by a   *)
(* signal, and only once.                                                   *)
NeverRetries(b) == FALSE   \* mutant: a crash is an error like any other
Retries(b) == unpack[b] = "signal" /\ ~exclusive[b]

KillLease(b) ==
  /\ Moves(b, "kill", IF Retries(b) THEN "cpu" ELSE "failed")
  /\ lease' = [lease EXCEPT ![b] = NoWorker]
  /\ Release(b) /\ HandsOver(b)
  /\ IF Retries(b)
     THEN /\ exclusive' = [exclusive EXCEPT ![b] = TRUE]
          /\ recovery' = Append(recovery, b)
          /\ images' = [images EXCEPT ![b] = Images[b]] /\ skipped' = [skipped EXCEPT ![b] = 0]
          /\ hurt' = [hurt EXCEPT ![b] = 0]
     ELSE /\ recovery' = EndRecovery(b)
          /\ UNCHANGED <<exclusive, images, skipped, hurt>>
  /\ NoFault
  /\ UNCHANGED <<unpack, queue, available>>

(* The task of the export is dropped at an await: its worker is killed on   *)
(* drop, and it leaves the queue and the lock.                              *)
Abort(b) ==
  /\ Fault("abort")
  /\ at[b] \notin {"flush"} \cup Over
  /\ at' = [at EXCEPT ![b] = "aborted"]
  /\ lease' = [lease EXCEPT ![b] = NoWorker]
  /\ queue' = Drop(queue, b) /\ recovery' = EndRecovery(b) /\ HandsOver(b)
  /\ \/ at[b] \in Leased /\ Release(b)
     \/ at[b] = "queue" /\ cpu' = cpu - 1 /\ UNCHANGED permits
     \/ at[b] = "cpu" /\ UNCHANGED <<cpu, permits>>
  /\ UNCHANGED <<progress, available>>

(* reap_idle_workers, for a worker that has been idle for long enough. *)
Reap ==
  /\ \E i \in DOMAIN available : available' = RemoveAt(available, i)
  /\ NoFault
  /\ UNCHANGED <<at, progress, flush, cpu, permits, queue, lease, recovery>>

IdleWorkerDies ==
  /\ Fault("idle")
  /\ \E i \in DOMAIN available : available' = [available EXCEPT ![i].dead = TRUE]
  /\ UNCHANGED <<at, progress, flush, cpu, permits, queue, lease, recovery>>

Export(b) ==
  \/ TakeCpu(b) \/ AcquireWorker(b) \/ SpawnFails(b)
  \/ Open(b) \/ ListObjects(b) \/ ReadData(b) \/ ReadImage(b) \/ Close(b)
  \/ FlushTakesCpu(b) \/ Encoded(b) \/ FlushEnds(b)
  \/ FinishSuccess(b) \/ KillLease(b)

Next == (\E b \in Bundles : Export(b) \/ Abort(b)) \/ Reap \/ IdleWorkerDies

Spec == Init /\ [][Next]_vars

(* As long as an export can go on, one of them does: the runtime polls a    *)
(* task that is ready, calls are answered and encoders end.  Which one it   *)
(* is, and whom a free CPU permit reaches, is not assumed.                  *)
FairSpec == Spec /\ WF_vars(\E b \in Bundles : Export(b))
--------------------------------------------------------------------------------
InLease == {b \in Bundles : at[b] \in Leased}

(* The permits of the pool that are out, each a bundle and a number. *)
Permits == UNION {{b} \X (1..Need(b)) : b \in InLease}

(* Permits of the pool and of the CPU budget are neither lost nor made up,  *)
(* whichever way an export ends; an export has a worker exactly as long as  *)
(* it holds permits, and a second attempt has the pool to itself.  No       *)
(* encoder outlives the flush of its export.                                *)
LeasesConserved ==
  /\ TypeOK
  /\ permits + Cardinality(Permits) = PoolSize
  /\ cpu = Cardinality(InLease) + Cardinality({b \in Bundles : at[b] = "queue"})
             + Cardinality(encoding)
  /\ \A i \in encoding : at[i[1]] = "flush"
  /\ \A b \in Bundles : b \in InLease <=> lease[b] # NoWorker
  /\ \A b \in InLease : exclusive[b] => InLease = {b}

(* What waits in the pool can serve the next export: it is below the call   *)
(* limit and has no context of an earlier bundle open, unless it is dead.   *)
PoolClean ==
  \A i \in DOMAIN available :
    available[i].dead \/ (~available[i].open /\ ~Recycles(available[i]))

(* One bundle's crash does not fail another: an export fails only when a    *)
(* failure hit one of its own calls in its last attempt, even if it was     *)
(* handed a worker that had died under another bundle or in the pool.       *)
FailuresOwned == \A b \in Bundles : at[b] = "failed" => hurt[b] > 0

(* The image flush takes CPU permits while its export holds one, and a      *)
(* worker: exports that wait for that worker may hold all the others.       *)
FlushCircle ==
  /\ ~FreeCpu /\ encoding = {} /\ \E b \in Bundles : at[b] = "flush"
  /\ \A b \in Bundles : at[b] \in {"cpu", "queue", "flush"} \cup Over
  /\ \A b \in Bundles : at[b] = "flush" => Of(b, queued) # {}
  /\ queue # <<>> => permits < Need(Head(queue))

(* Every export ends, in a summary or an error, whatever crashes.  The only *)
(* circle in which exports can wait for each other is that of the flush.    *)
ExportsEnd == <>(FlushCircle \/ \A b \in Bundles : at[b] \in Over)
===============================================================================
