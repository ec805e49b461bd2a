------------------------------ MODULE PollerLoop ------------------------------
(***************************************************************************)
(* The service around the polls (src/service/poller.rs, http.rs, main.rs): *)
(* one loop per enabled region woken by its ticker or by a trigger, the    *)
(* region permits, the runtime state that /healthz shows, and shutdown.    *)
(* A poll is reduced to what the loops see of it: it is skipped or fails   *)
(* in layer 0, or it takes a permit, runs and ends.  RegionPoll has the    *)
(* rest, and shows that it ends.                                           *)
(***************************************************************************)
EXTENDS Naturals, Sequences, FiniteSets

CONSTANTS
  Regions,          \* the enabled regions
  MaxConcurrent,    \* poller.max_concurrent_regions, at least 1
  TriggerCapacity,  \* capacity of the trigger channel (64 in the code)
  Panics,           \* may a poll panic?
  Triggered,        \* bound: the regions that triggers are for
  MaxTriggers       \* bound: triggers a behaviour may contain

ASSUME RegionsAssumption == IsFiniteSet(Regions) /\ Triggered \subseteq Regions
ASSUME LimitsAssumption ==
  /\ MaxConcurrent \in Nat \ {0} /\ TriggerCapacity \in Nat \ {0}
  /\ MaxTriggers \in Nat /\ Panics \in BOOLEAN

VARIABLES
  cancelled,   \* the CancellationToken
  loop,        \* per region: where run_region_loop is
  permits,     \* region_permits: free permits,
  waiters,     \*   the queue of acquires, first come first served,
  granted,     \*   acquires that own a permit but have not been polled yet
  sent,        \* trigger_tx: the messages so far
  cursor,      \* per region: how many of them its receiver has passed
  in_flight,   \* per region: RegionRuntimeState, of which the rest is left out
  main         \* main.rs: serving, or past poller_task.await

semaphore == <<permits, waiters, granted>>
triggers  == <<sent, cursor>>
vars      == <<cancelled, loop, semaphore, triggers, in_flight, main>>

Busy  == {"layer0", "permit", "run", "markOk", "markErr"}
Ended == {"returned", "panicked"}

(* Every variable has its type.  What /healthz shows of a region is what its *)
(* loop does: a poll is in flight from its start to its end, except that    *)
(* one that panicked stays in flight for ever.                              *)
TypeOK ==
  /\ cancelled \in BOOLEAN /\ main \in {"up", "stopped"}
  /\ loop \in [Regions -> {"new", "select"} \cup Busy \cup Ended]
  /\ permits \in 0..MaxConcurrent /\ waiters \in Seq(Regions) /\ granted \subseteq Regions
  /\ sent \in Seq(Regions) /\ cursor \in [Regions -> Nat]
  /\ in_flight = [r \in Regions |-> loop[r] \in Busy \cup {"panicked"}]

Init ==
  /\ cancelled = FALSE /\ main = "up"
  /\ loop = [r \in Regions |-> "new"]
  /\ permits = MaxConcurrent /\ waiters = <<>> /\ granted = {}
  /\ sent = <<>> /\ cursor = [r \in Regions |-> 0]
  /\ in_flight = [r \in Regions |-> FALSE]

LoopMoves(r, from, to) == loop[r] = from /\ loop' = [loop EXCEPT ![r] = to]

(* run subscribes the region to the channel and spawns its loop. *)
Boot(r) ==
  /\ LoopMoves(r, "new", "select")
  /\ cursor' = [cursor EXCEPT ![r] = Len(sent)]
  /\ UNCHANGED <<cancelled, semaphore, sent, in_flight, main>>
--------------------------------------------------------------------------------
(* The head of run_region_once: the runtime state says that a poll runs. *)
PollStarts(r) ==
  /\ LoopMoves(r, "select", "layer0")
  /\ in_flight' = [in_flight EXCEPT ![r] = TRUE]

(* The select of run_region_loop takes any branch that is ready: the        *)
(* ticker,                                                                  *)
Tick(r) ==
  /\ PollStarts(r)
  /\ UNCHANGED <<cancelled, semaphore, triggers, main>>

(* a message of the trigger channel, or the news that some were overwritten *)
(* before this receiver got to them,                                        *)
Lagging(r) == Len(sent) - cursor[r] > TriggerCapacity

PassedAll(r) == Len(sent)   \* mutant: drops what was queued behind the message
Passed(r) == IF Lagging(r) THEN Len(sent) - TriggerCapacity ELSE cursor[r] + 1

Receive(r) ==
  /\ loop[r] = "select" /\ cursor[r] < Len(sent)
  /\ cursor' = [cursor EXCEPT ![r] = Passed(r)]
  /\ \/ ~Lagging(r) /\ sent[cursor[r] + 1] = r /\ PollStarts(r)
     \/ /\ Lagging(r) \/ sent[cursor[r] + 1] # r
        /\ UNCHANGED <<loop, in_flight>>
  /\ UNCHANGED <<cancelled, semaphore, sent, main>>

(* or the cancellation.                                                     *)
LoopContinues(r) ==   \* mutant: `continue` for `return`
  /\ cancelled /\ loop[r] = "select"
  /\ UNCHANGED vars

LoopCancelled(r) ==
  /\ cancelled
  /\ LoopMoves(r, "select", "returned")
  /\ UNCHANGED <<cancelled, semaphore, triggers, in_flight, main>>
--------------------------------------------------------------------------------
(* A released permit goes to the first waiter, if there is one. *)
Release ==
  IF waiters = <<>>
  THEN permits' = permits + 1 /\ UNCHANGED <<waiters, granted>>
  ELSE /\ waiters' = Tail(waiters) /\ granted' = granted \cup {Head(waiters)}
       /\ UNCHANGED permits

AcquireFirst(r) ==   \* mutant: the last to come is the first to be served
  IF permits > 0
  THEN permits' = permits - 1 /\ granted' = granted \cup {r} /\ UNCHANGED waiters
  ELSE waiters' = <<r>> \o waiters /\ UNCHANGED <<permits, granted>>

Acquire(r) ==
  IF permits > 0
  THEN permits' = permits - 1 /\ granted' = granted \cup {r} /\ UNCHANGED waiters
  ELSE waiters' = Append(waiters, r) /\ UNCHANGED <<permits, granted>>

(* execute_once up to the permit: the version is unchanged, cannot be       *)
(* fetched, or has changed.                                                 *)
Layer0(r) ==
  /\ \/ LoopMoves(r, "layer0", "markOk") /\ UNCHANGED semaphore
     \/ LoopMoves(r, "layer0", "markErr") /\ UNCHANGED semaphore
     \/ LoopMoves(r, "layer0", "permit") /\ Acquire(r)
  /\ UNCHANGED <<cancelled, triggers, in_flight, main>>

PermitGranted(r) ==
  /\ r \in granted
  /\ LoopMoves(r, "permit", "run")
  /\ granted' = granted \ {r}
  /\ UNCHANGED <<cancelled, permits, waiters, triggers, in_flight, main>>

(* The other branch of that select.  Dropping the acquire leaves the queue, *)
(* in which it is once at most, or gives back the permit it had been handed. *)
Leave(line, r) ==
  LET places == {i \in DOMAIN line : line[i] = r}
      i == CHOOSE place \in places : TRUE
  IN  IF places = {} THEN line ELSE SubSeq(line, 1, i - 1) \o SubSeq(line, i + 1, Len(line))

ForgetAcquire(r) ==   \* mutant: a permit handed over is lost
  /\ waiters' = Leave(waiters, r)
  /\ granted' = granted \ {r} /\ UNCHANGED permits

DropAcquire(r) ==
  IF r \in granted
  THEN IF waiters = <<>>
       THEN permits' = permits + 1 /\ granted' = granted \ {r} /\ UNCHANGED waiters
       ELSE /\ granted' = (granted \ {r}) \cup {Head(waiters)} /\ waiters' = Tail(waiters)
            /\ UNCHANGED permits
  ELSE waiters' = Leave(waiters, r) /\ UNCHANGED <<permits, granted>>

PermitCancelled(r) ==
  /\ cancelled
  /\ LoopMoves(r, "permit", "markOk")
  /\ DropAcquire(r)
  /\ UNCHANGED <<cancelled, triggers, in_flight, main>>

(* retry_region_in_place returns; the permit is dropped with execute_once.  *)
PollEnds(r) ==
  /\ \E result \in {"markOk", "markErr"} : LoopMoves(r, "run", result)
  /\ Release
  /\ UNCHANGED <<cancelled, triggers, in_flight, main>>

(* A panic unwinds the loop's task: the permit is dropped, the runtime      *)
(* state stays as it is.                                                    *)
PollPanics(r) ==
  /\ Panics
  /\ LoopMoves(r, "run", "panicked")
  /\ Release
  /\ UNCHANGED <<cancelled, triggers, in_flight, main>>

(* The tail of run_region_once. *)
MarkState(r) ==
  /\ \E result \in {"markOk", "markErr"} : LoopMoves(r, result, "select")
  /\ in_flight' = [in_flight EXCEPT ![r] = FALSE]
  /\ UNCHANGED <<cancelled, semaphore, triggers, main>>
--------------------------------------------------------------------------------
(* POST /trigger/{region}: the message reaches the receivers that exist;    *)
(* with none the send fails, and the request is accepted all the same.      *)
Trigger(r) ==
  /\ main = "up" /\ Len(sent) < MaxTriggers
  /\ \E q \in Regions : loop[q] \notin {"new"} \cup Ended
  /\ sent' = Append(sent, r)
  /\ UNCHANGED <<cancelled, loop, semaphore, cursor, in_flight, main>>

(* SIGTERM or ctrl-c. *)
Shutdown ==
  /\ ~cancelled /\ cancelled' = TRUE
  /\ UNCHANGED <<loop, semaphore, triggers, in_flight, main>>

(* Poller::run has joined every loop, and main returns. *)
Stop ==
  /\ cancelled /\ main = "up"
  /\ \A r \in Regions : loop[r] \in Ended
  /\ main' = "stopped"
  /\ UNCHANGED <<cancelled, loop, semaphore, triggers, in_flight>>

(* What the region's own task does when it is ready. *)
Works(r) ==
  \/ Boot(r) \/ Receive(r) \/ Layer0(r) \/ PermitGranted(r) \/ PermitCancelled(r)
  \/ PollEnds(r) \/ PollPanics(r) \/ MarkState(r)

Next ==
  \/ \E r \in Regions : Works(r) \/ Tick(r) \/ LoopCancelled(r)
  \/ \E r \in Triggered : Trigger(r)
  \/ Shutdown \/ Stop

Spec == Init /\ [][Next]_vars

(* A task that is ready is polled, and polls end (RegionPoll).  The select  *)
(* picks its branch at random, so neither a trigger nor the cancellation is *)
(* passed over for ever.  Ticks are not assumed: the interval may be long.  *)
Fairness ==
  /\ \A r \in Regions : WF_vars(Works(r)) /\ SF_vars(Receive(r)) /\ SF_vars(LoopCancelled(r))
  /\ WF_vars(Stop)

FairSpec == Spec /\ Fairness
--------------------------------------------------------------------------------
(* Permits are neither lost nor made up: not by a poll that panics, not by  *)
(* a shutdown that reaches a region whose permit is already under way; and  *)
(* none lies idle while a region waits.                                     *)
PermitsConserved ==
  /\ TypeOK
  /\ permits + Cardinality(granted) + Cardinality({r \in Regions : loop[r] = "run"})
       = MaxConcurrent
  /\ \A r \in Regions :
       loop[r] = "permit" <=> r \in granted \cup {waiters[i] : i \in DOMAIN waiters}
  /\ permits > 0 => waiters = <<>>

Unread(r, i) == i \in cursor[r] + 1 .. Len(sent) /\ sent[i] = r
Overwritten(i) == Len(sent) - i >= TriggerCapacity

(* A trigger that arrives while the region's poll is already under way is   *)
(* followed by another poll of the region.  The only way to lose one is to  *)
(* send so many that the channel overwrites it.                             *)
TriggerServed ==
  \A r \in Triggered, i \in 1..MaxTriggers :
    loop[r] \in Busy \ {"layer0"} /\ Unread(r, i)
      ~> loop[r] \in {"layer0"} \cup Ended \/ Overwritten(i)

(* A region that waits for a permit gets one in the end, however the other  *)
(* regions are ticked and triggered.                                        *)
PermitReached == \A r \in Regions : loop[r] = "permit" ~> loop[r] # "permit"

(* After the signal the process ends, with every loop joined.               *)
ShutdownCompletes == cancelled ~> main = "stopped"
===============================================================================
