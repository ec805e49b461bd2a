------------------------ MODULE BundleSchedulerProofs ------------------------
(***************************************************************************)
(* NoTaskLeftBehind, TempFilesRemoved, PermitsFollowBundles and            *)
(* WorkBounded for any number of tasks, limits and failures.               *)
(*                                                                         *)
(* A loop that spawns its next task only when it joins one comes to an end *)
(* early if it ever joins without spawning.  Underway says that this does  *)
(* not happen: while tasks are pending, some download job is still to be   *)
(* joined.  The permits are counted as pairs of a task and a number, those *)
(* of the job that moves apart from those of the others.                   *)
(***************************************************************************)
EXTENDS BundleScheduler, FiniteSetTheorems, TLAPS

(* Where a task can be. *)
States ==
  {"pending", "aborted"} \cup Downloading \cup Joinable \cup PostProcessing \cup Settled

(* The jobs in the download JoinSet. *)
ToJoin == Downloading \cup Joinable

(* The jobs whose temporary file may exist. *)
CutOff == {"export", "panicked", "aborted"}

(* A job that has not downloaded yet has an attempt left, and one that      *)
(* failed met a final error or has none.                                    *)
Tried(t) ==
  /\ at[t] \in {"pending", "new", "slot", "backlog", "memory", "fetch"} => tries[t] > 0
  /\ at[t] \in {"errored", "failed", "postErrored"} => t \in fatal \/ tries[t] = 0

(* Tasks are spawned in their order, and while there are more, one of those *)
(* that were spawned is still to be joined.                                 *)
Underway ==
  /\ \A t \in Tasks : at[t] = "pending" <=> t > spawned
  /\ outcome = "running" /\ spawned < N => \E t \in Tasks : at[t] \in ToJoin

(* The inductive invariant. *)
TaskInv ==
  /\ at \in [Tasks -> States] /\ spawned \in 0..N /\ tries \in [Tasks -> Nat]
  /\ \A t \in Tasks : Tried(t) /\ (t \in temp => t \in torn \/ at[t] \in CutOff)
  /\ temp \subseteq Tasks
  /\ Underway
  /\ outcome = "ok" => \A t \in Tasks : at[t] \in Settled
--------------------------------------------------------------------------------
(* A step of one job, a panic included, that is neither its join nor the    *)
(* end of the execution.                                                    *)
JobStep(t) ==
  \/ AskSlot(t) \/ TakeSlot(t) \/ TakeBacklog(t) \/ TakeMemory(t)
  \/ Fetched(t) \/ RequestFails(t) \/ FetchFails(t) \/ Exported(t)
  \/ TakePost(t) \/ PostEnds(t) \/ JoinPost(t) \/ Panics(t)

(* What such a step does to the other jobs: nothing. *)
LEMMA OthersStay ==
  ASSUME TaskInv, NEW t \in Tasks, JobStep(t)
  PROVE  /\ outcome = "running" /\ UNCHANGED <<outcome, spawned>>
         /\ \E to \in States : at' = [at EXCEPT ![t] = to]
         /\ tries' \in {tries, [tries EXCEPT ![t] = @ - 1]}
         /\ fatal' \in {fatal, fatal \cup {t}}
         /\ torn' \in {torn, torn \cup {t}}
         /\ temp' \in {temp, temp \cup {t}, temp \ {t}}
<1> USE DEF Moves, files, semaphores, States, Downloading, Joinable, PostProcessing, Settled
<1>1. CASE AskSlot(t)
  BY <1>1, Zenon DEF AskSlot
<1>2. CASE TakeSlot(t)
  BY <1>2, Zenon DEF TakeSlot, AfterSlot
<1>3. CASE TakeBacklog(t)
  BY <1>3, Zenon DEF TakeBacklog
<1>4. CASE TakeMemory(t)
  BY <1>4, Zenon DEF TakeMemory
<1>5. CASE Fetched(t)
  BY <1>5, Zenon DEF Fetched
<1>6. CASE RequestFails(t)
  BY <1>6, Zenon DEF RequestFails
<1>7. CASE FetchFails(t)
  BY <1>7, Zenon DEF FetchFails
<1>8. CASE Exported(t)
  BY <1>8, Zenon DEF Exported, TempGoes, TempStays, RemoveTemp
<1>9. CASE TakePost(t)
  BY <1>9, Zenon DEF TakePost
<1>10. CASE PostEnds(t)
  BY <1>10, Zenon DEF PostEnds
<1>11. CASE JoinPost(t)
  BY <1>11, Zenon DEF JoinPost
<1>12. CASE Panics(t)
  BY <1>12, Zenon DEF Panics
<1> QED
  BY <1>1, <1>2, <1>3, <1>4, <1>5, <1>6, <1>7, <1>8, <1>9, <1>10, <1>11, <1>12, Zenon DEF JobStep

(* What it does to its own: it stays in its JoinSet or leaves that of the   *)
(* post-processing, an error is final or that of its last attempt, and the  *)
(* temporary file goes with the export.                                     *)
LEMMA JobMoves ==
  ASSUME TaskInv, NEW t \in Tasks, JobStep(t)
  PROVE  /\ at[t] # "pending" /\ at'[t] # "pending"
         /\ at[t] \in ToJoin => at'[t] \in ToJoin
         /\ tries'[t] \in Nat
         /\ Tried(t)'
         /\ t \in temp' => t \in torn' \/ at'[t] \in CutOff
<1>0. at \in [Tasks -> States] /\ tries \in [Tasks -> Nat] /\ Tried(t)
      /\ (t \in temp => t \in torn \/ at[t] \in CutOff)
  BY Zenon DEF TaskInv
<1> USE <1>0 DEF Moves, files, semaphores, Tried, CutOff, ToJoin, Downloading, Joinable
<1>1. CASE AskSlot(t)
  BY <1>1, Zenon DEF AskSlot
<1>2. CASE TakeSlot(t)
  BY <1>2, Zenon DEF TakeSlot, AfterSlot
<1>3. CASE TakeBacklog(t)
  BY <1>3, Zenon DEF TakeBacklog
<1>4. CASE TakeMemory(t)
  BY <1>4, Zenon DEF TakeMemory
<1>5. CASE Fetched(t)
  BY <1>5, Zenon DEF Fetched
<1>6. CASE RequestFails(t)
  BY <1>6 DEF RequestFails, LastAttempt
<1>7. CASE FetchFails(t)
  BY <1>7, Zenon DEF FetchFails
<1>8. CASE Exported(t)
  BY <1>8, Zenon DEF Exported, TempGoes, TempStays, RemoveTemp
<1>9. CASE TakePost(t)
  BY <1>9, Zenon DEF TakePost
<1>10. CASE PostEnds(t)
  BY <1>10, Zenon DEF PostEnds
<1>11. CASE JoinPost(t)
  BY <1>11, Zenon DEF JoinPost
<1>12. CASE Panics(t)
  BY <1>12, Zenon DEF Panics
<1> QED
  BY <1>1, <1>2, <1>3, <1>4, <1>5, <1>6, <1>7, <1>8, <1>9, <1>10, <1>11, <1>12, Zenon DEF JobStep

(* Every step keeps the invariant. *)
LEMMA TaskStep == TaskInv /\ [Next]_vars => TaskInv'
<1> SUFFICES ASSUME TaskInv, [Next]_vars PROVE TaskInv'
  BY Zenon
<1>0. /\ at \in [Tasks -> States] /\ spawned \in 0..N /\ tries \in [Tasks -> Nat]
      /\ N \in Nat /\ Tasks = 1..N
  BY TasksAssumption, Zenon DEF TaskInv, Tasks
<1>1. ASSUME NEW t \in Tasks, JobStep(t) PROVE TaskInv'
  <2>1. /\ outcome = "running" /\ UNCHANGED <<outcome, spawned>>
        /\ \E to \in States : at' = [at EXCEPT ![t] = to]
        /\ tries' \in {tries, [tries EXCEPT ![t] = @ - 1]}
        /\ fatal' \in {fatal, fatal \cup {t}}
        /\ torn' \in {torn, torn \cup {t}}
        /\ temp' \in {temp, temp \cup {t}, temp \ {t}}
    BY <1>1, OthersStay, Zenon
  <2>2. /\ at[t] # "pending" /\ at'[t] # "pending"
        /\ at[t] \in ToJoin => at'[t] \in ToJoin
        /\ tries'[t] \in Nat
        /\ Tried(t)'
        /\ t \in temp' => t \in torn' \/ at'[t] \in CutOff
    BY <1>1, JobMoves, Zenon
  <2>3. /\ at' \in [Tasks -> States]
        /\ \A q \in Tasks : q # t => at'[q] = at[q]
    BY <1>0, <2>1, Zenon
  <2>4. /\ tries' \in [Tasks -> Nat]
        /\ \A q \in Tasks : q # t => tries'[q] = tries[q]
    BY <1>0, <2>1, <2>2, Zenon
  <2>5. \A q \in Tasks : Tried(q)' /\ (q \in temp' => q \in torn' \/ at'[q] \in CutOff)
    <3> SUFFICES ASSUME NEW q \in Tasks, q # t
                 PROVE  Tried(q)' /\ (q \in temp' => q \in torn' \/ at'[q] \in CutOff)
      BY <2>2, Zenon
    <3>1. at'[q] = at[q] /\ tries'[q] = tries[q]
      BY <2>3, <2>4, Zenon
    <3>2. /\ q \in temp' => q \in temp
          /\ q \in fatal => q \in fatal'
          /\ q \in torn => q \in torn'
      BY <2>1, Zenon
    <3> QED
      BY <3>1, <3>2, Zenon DEF TaskInv, Tried
  <2>6. temp' \subseteq Tasks
    BY <2>1, Zenon DEF TaskInv
  <2>7. Underway'
    <3>1. \A q \in Tasks : at'[q] = "pending" <=> q > spawned'
      BY <2>1, <2>2, <2>3, Zenon DEF TaskInv, Underway
    <3>2. ASSUME spawned < N PROVE \E q \in Tasks : at'[q] \in ToJoin
      BY <2>1, <2>2, <2>3, <3>2, Zenon DEF TaskInv, Underway
    <3> QED
      BY <2>1, <3>1, <3>2, Zenon DEF Underway
  <2> QED
    BY <1>0, <2>1, <2>3, <2>4, <2>5, <2>6, <2>7, Zenon DEF TaskInv
<1>2. ASSUME NEW t \in Tasks, Join(t) PROVE TaskInv'
  <2>1. /\ outcome = "running" /\ at[t] \in {"exported", "errored", "prefetched"}
        /\ UNCHANGED <<outcome, tries, fatal, temp, torn>>
    BY <1>2, Zenon DEF Join, files
  <2>2. /\ at'[t] = "queued" \/ (at'[t] = "failed" /\ at[t] = "errored") \/ at'[t] = "done"
        /\ at' \in [Tasks -> States]
    BY <1>0, <1>2, Zenon DEF Join, States, Downloading, PostProcessing, Settled
  <2>3. CASE spawned < N
    <3>1. /\ spawned' = spawned + 1 /\ spawned + 1 \in Tasks
          /\ at[spawned + 1] = "pending"
      BY <1>0, <1>2, <2>3 DEF Join, SpawnsNext, TaskInv, Underway
    <3>2. /\ at'[spawned + 1] = "new"
          /\ \A q \in Tasks \ {t, spawned + 1} : at'[q] = at[q]
      BY <1>2, <2>1, <2>3, <3>1, Zenon DEF Join, SpawnsNext
    <3>3. ASSUME NEW q \in Tasks
          PROVE  Tried(q)' /\ (q \in temp' => q \in torn' \/ at'[q] \in CutOff)
      BY <2>1, <2>2, <3>1, <3>2, Zenon DEF TaskInv, Tried, CutOff
    <3>4. \A q \in Tasks : at'[q] = "pending" <=> q > spawned'
      BY <1>0, <2>1, <2>2, <3>1, <3>2 DEF TaskInv, Underway
    <3>5. Underway'
      BY <3>1, <3>2, <3>4, Zenon DEF Underway, ToJoin, Downloading
    <3> QED
      BY <1>0, <2>1, <2>2, <3>1, <3>3, <3>5 DEF TaskInv
  <2>4. CASE ~(spawned < N)
    <3>1. spawned' = spawned /\ \A q \in Tasks \ {t} : at'[q] = at[q]
      BY <1>2, <2>4, Zenon DEF Join, SpawnsNext
    <3>2. ASSUME NEW q \in Tasks
          PROVE  Tried(q)' /\ (q \in temp' => q \in torn' \/ at'[q] \in CutOff)
      BY <2>1, <2>2, <3>1, Zenon DEF TaskInv, Tried, CutOff
    <3>3. Underway'
      BY <1>0, <2>1, <2>2, <2>4, <3>1, Zenon DEF TaskInv, Underway
    <3> QED
      BY <1>0, <2>1, <2>2, <3>1, <3>2, <3>3, Zenon DEF TaskInv
  <2> QED
    BY <2>3, <2>4, Zenon
<1>3. ASSUME NEW t \in Tasks, JoinEndsAll(t) PROVE TaskInv'
  <2>1. /\ outcome' \in {"cancelled", "panicked"}
        /\ UNCHANGED <<spawned, tries, fatal, temp, torn>>
        /\ at' = [q \in Tasks |-> IF at[q] \in Settled \cup {"pending"} THEN at[q] ELSE "aborted"]
    BY <1>3, Zenon DEF JoinEndsAll, files
  <2>2. ASSUME NEW q \in Tasks
        PROVE  /\ at'[q] \in States /\ (at'[q] = "pending" <=> at[q] = "pending")
               /\ Tried(q)' /\ (q \in temp' => q \in torn' \/ at'[q] \in CutOff)
    BY <1>0, <2>1, Zenon DEF TaskInv, Tried, CutOff, States, Settled
  <2>3. at' \in [Tasks -> States]
    BY <2>1, <2>2, Zenon
  <2> QED
    BY <1>0, <2>1, <2>2, <2>3, Zenon DEF TaskInv, Underway
<1>4. CASE LoopEnds
  <2>1. /\ UNCHANGED <<at, spawned, tries, fatal, temp, torn>>
        /\ outcome = "running" /\ outcome' = "ok"
        /\ \A t \in Tasks : at[t] \in Settled \cup {"pending"}
    BY <1>4, Zenon DEF LoopEnds, files
  <2>2. ~(spawned < N)
    BY <2>1, Zenon DEF TaskInv, Underway, ToJoin, Downloading, Joinable, Settled
  <2>3. \A t \in Tasks : at[t] \in Settled
    BY <1>0, <2>1, <2>2 DEF TaskInv, Underway
  <2> QED
    BY <2>1, <2>3, Zenon DEF TaskInv, Tried, Underway
<1>5. CASE Cancel \/ UNCHANGED vars
  <2>1. UNCHANGED <<at, spawned, tries, fatal, temp, torn, outcome>>
    BY <1>5, Zenon DEF Cancel, vars, files
  <2> QED
    BY <2>1, Zenon DEF TaskInv, Tried, Underway
<1> QED
  BY <1>1, <1>2, <1>3, <1>4, <1>5, Zenon DEF Next, Runs, JobStep

(* It holds at first: some task is spawned. *)
LEMMA TaskInit == Init => TaskInv
<1> SUFFICES ASSUME Init PROVE TaskInv
  BY Zenon
<1>1. N \in Nat \ {0} /\ DownloadMax \in Nat \ {0} /\ Attempts \in Nat \ {0} /\ Tasks = 1..N
  BY TasksAssumption, LimitsAssumption, Zenon DEF Tasks
<1>2. Min({N, DownloadMax}) \in 1..N
  <2>1. \E x \in {N, DownloadMax} : \A y \in {N, DownloadMax} : x <= y
    BY <1>1
  <2>2. /\ Min({N, DownloadMax}) \in {N, DownloadMax}
        /\ \A y \in {N, DownloadMax} : Min({N, DownloadMax}) <= y
    BY <2>1, Zenon DEF Min
  <2> QED
    BY <1>1, <2>2
<1>3. spawned \in 1..N
  BY <1>1, <1>2 DEF Init
<1>4. /\ at \in [Tasks -> States]
      /\ \A t \in Tasks : at[t] = IF t <= spawned THEN "new" ELSE "pending"
  BY Zenon DEF Init, States, Downloading
<1>5. Underway
  <2>1. \A t \in Tasks : at[t] = "pending" <=> t > spawned
    BY <1>1, <1>3, <1>4
  <2>2. 1 \in Tasks /\ at[1] \in ToJoin
    BY <1>1, <1>3, <1>4 DEF ToJoin, Downloading
  <2> QED
    BY <2>1, <2>2, Zenon DEF Underway
<1>6. tries \in [Tasks -> Nat] /\ \A t \in Tasks : tries[t] > 0
  BY <1>1 DEF Init
<1>7. \A t \in Tasks : Tried(t)
  BY <1>4, <1>6, Zenon DEF Tried
<1>8. temp = {} /\ outcome = "running"
  BY Zenon DEF Init
<1> QED
  BY <1>1, <1>3, <1>4, <1>5, <1>6, <1>7, <1>8 DEF TaskInv

(* execute_with_filter: when it returns Ok every task has been seen to, and *)
(* no bundle counts as failed that met no final error and has attempts left. *)
THEOREM NoTaskIsLeft == Spec => []NoTaskLeftBehind
<1>1. TaskInv => NoTaskLeftBehind
  BY Zenon DEF TaskInv, Tried, NoTaskLeftBehind, At
<1> QED
  BY <1>1, TaskInit, TaskStep, PTL DEF Spec

(* The download job: whatever the export answers, its temporary file goes,  *)
(* unless the file system refused it or a panic or an abort cut it off.     *)
THEOREM TempFilesGo == Spec => []TempFilesRemoved
<1>1. TaskInv => TempFilesRemoved
  BY Zenon DEF TaskInv, CutOff, TempFilesRemoved, At
<1> QED
  BY <1>1, TaskInit, TaskStep, PTL DEF Spec
--------------------------------------------------------------------------------
(* The permits.  A job takes or gives back what its state entitles it to,   *)
(* and the others keep theirs, so the sum stays; Without and Share divide   *)
(* it between them.                                                         *)

Without(s, t) == UNION {{u} \X (1..Need(s, u)) : u \in {v \in Tasks \ {t} : s \in Held(v)}}
Share(s, t) == IF s \in Held(t) THEN Need(s, t) ELSE 0

(* The states only a bundle that is post-processed passes through. *)
PostStates == {"backlog", "export", "exported"} \cup PostProcessing

(* TypeOK but for what TaskInv has. *)
PermitTypes ==
  /\ entry \in Entries /\ tries \in [Tasks -> 0..Attempts]
  /\ fatal \subseteq Tasks /\ torn \subseteq Tasks
  /\ cancelled \in BOOLEAN /\ outcome \in {"running", "ok", "cancelled", "panicked"}
  /\ faults \in 0..MaxFaults
  /\ free \in [Semaphores -> Nat] /\ line \in [Semaphores -> Seq(Tasks)]

(* The inductive invariant of the permits.  It speaks of the jobs' states,  *)
(* which TaskInv has; a prefetched bundle never enters the post-processing, *)
(* and the line for it is as long as there are bundles queued.              *)
PermitInv ==
  /\ PermitTypes
  /\ \A s \in Semaphores : free[s] + Cardinality(Permits(s)) = Capacity(s)
  /\ Len(line["post"]) = Cardinality(At({"queued"}))
  /\ Prefetch => \A t \in Tasks : at[t] \notin PostStates

(* A share is no larger than the semaphore, that of the memory included. *)
LEMMA NeedFacts ==
  ASSUME NEW s \in Semaphores, NEW t \in Tasks
  PROVE  /\ Capacity(s) \in Nat /\ Need(s, t) \in 0..Capacity(s)
         /\ s # "memory" => Need(s, t) = 1
         /\ Limit > 0 => /\ Units(t) \in 1..Limit
                         /\ Size[t] <= Limit => Units(t) = Size[t]
                         /\ Size[t] > Limit => Units(t) = Limit
<1>1. Size[t] \in Nat \ {0} /\ Limit \in Nat /\ DownloadMax \in Nat \ {0} /\ PostMax \in Nat \ {0}
  BY TasksAssumption, LimitsAssumption, Zenon
<1>2. /\ Min({Size[t], Limit}) \in {Size[t], Limit}
      /\ \A y \in {Size[t], Limit} : Min({Size[t], Limit}) <= y
  <2>1. \E x \in {Size[t], Limit} : \A y \in {Size[t], Limit} : x <= y
    BY <1>1
  <2> QED
    BY <2>1, Zenon DEF Min
<1> DEFINE m == Min({Size[t], Limit})
<1>3. /\ m \in 0..Limit /\ (Limit > 0 => m \in 1..Limit)
      /\ (Size[t] <= Limit => m = Size[t]) /\ (Size[t] > Limit => m = Limit)
  <2> HIDE DEF m
  <2>1. m \in {Size[t], Limit} /\ m <= Size[t] /\ m <= Limit
    BY <1>2, Zenon DEF m
  <2> QED
    BY <1>1, <2>1
<1>4. /\ Units(t) \in 0..Limit
      /\ Limit > 0 => /\ Units(t) \in 1..Limit
                      /\ Size[t] <= Limit => Units(t) = Size[t]
                      /\ Size[t] > Limit => Units(t) = Limit
  <2>1. Units(t) = IF Limit = 0 THEN 0 ELSE m
    BY Zenon DEF Units
  <2> QED
    BY <1>1, <1>3, <2>1
<1>5. /\ Capacity(s) \in Nat /\ (s # "memory" => Capacity(s) \in Nat \ {0})
      /\ (s = "memory" => Capacity(s) = Limit)
  BY <1>1, Zenon DEF Capacity, Semaphores
<1> QED
  BY <1>4, <1>5 DEF Need

(* n permits of one job. *)
LEMMA Column ==
  ASSUME NEW t, NEW n \in Nat
  PROVE  IsFiniteSet({t} \X (1..n)) /\ Cardinality({t} \X (1..n)) = n
<1> DEFINE name == {t}
           numbers == 1..n
<1>1. IsFiniteSet(numbers) /\ Cardinality(numbers) = n
  BY FS_Interval
<1>2. IsFiniteSet(name) /\ Cardinality(name) = 1
  BY FS_Singleton, Zenon
<1>3. name \X numbers = {t} \X (1..n)
  OBVIOUS
<1> HIDE DEF name, numbers
<1>4. /\ IsFiniteSet(name \X numbers)
      /\ Cardinality(name \X numbers) = Cardinality(name) * Cardinality(numbers)
  BY <1>1, <1>2, FS_Product, Zenon
<1>5. Cardinality(name) * Cardinality(numbers) = n
  BY <1>1, <1>2
<1> QED
  BY <1>3, <1>4, <1>5, Zenon

(* One permit each. *)
LEMMA Row ==
  ASSUME NEW S, IsFiniteSet(S) PROVE Cardinality(S \X {1}) = Cardinality(S)
<1>1. IsFiniteSet({1}) /\ Cardinality({1}) = 1
  BY FS_Singleton, Zenon
<1>2. Cardinality(S \X {1}) = Cardinality(S) * Cardinality({1}) /\ Cardinality(S) \in Nat
  BY <1>1, FS_Product, FS_CardinalityType, Zenon
<1> QED
  BY <1>1, <1>2

(* The permits of one job and those of the others. *)
Divides ==
  \A s \in Semaphores, t \in Tasks :
    /\ IsFiniteSet(Permits(s)) /\ Cardinality(Permits(s)) \in Nat
    /\ Cardinality(Without(s, t)) \in Nat
    /\ Cardinality(Permits(s)) = Cardinality(Without(s, t)) + Share(s, t)

(* They do: both sets are finite, and the job's own have its name on them. *)
LEMMA Split == Divides
<1> SUFFICES ASSUME NEW s \in Semaphores, NEW t \in Tasks
             PROVE  /\ IsFiniteSet(Permits(s)) /\ Cardinality(Permits(s)) \in Nat
                    /\ Cardinality(Without(s, t)) \in Nat
                    /\ Cardinality(Permits(s)) = Cardinality(Without(s, t)) + Share(s, t)
  BY Zenon DEF Divides
<1>1. IsFiniteSet(Tasks \X (1..Capacity(s)))
  <2>1. IsFiniteSet(Tasks)
    BY TasksAssumption, FS_Interval DEF Tasks
  <2>2. IsFiniteSet(1..Capacity(s))
    BY NeedFacts, FS_Interval
  <2> QED
    BY <2>1, <2>2, FS_Product, Zenon
<1>2. \A u \in Tasks : {u} \X (1..Need(s, u)) \subseteq Tasks \X (1..Capacity(s))
  <2> SUFFICES ASSUME NEW u \in Tasks, NEW k \in 1..Need(s, u) PROVE k \in 1..Capacity(s)
    BY Zenon
  <2>1. Capacity(s) \in Nat /\ Need(s, u) \in 0..Capacity(s)
    BY NeedFacts, Zenon
  <2> QED
    BY <2>1
<1>3. /\ Permits(s) \subseteq Tasks \X (1..Capacity(s))
      /\ Without(s, t) \subseteq Tasks \X (1..Capacity(s))
  BY <1>2, Zenon DEF Permits, Without
<1>4. /\ IsFiniteSet(Permits(s)) /\ Cardinality(Permits(s)) \in Nat
      /\ IsFiniteSet(Without(s, t)) /\ Cardinality(Without(s, t)) \in Nat
  BY <1>1, <1>3, FS_Subset, FS_CardinalityType, Zenon
<1>5. CASE s \notin Held(t)
  <2>1. Permits(s) = Without(s, t)
    BY <1>5, Zenon DEF Permits, Without
  <2> QED
    BY <1>4, <1>5, <2>1 DEF Share
<1>6. CASE s \in Held(t)
  <2> DEFINE own == {t} \X (1..Need(s, t))
  <2>1. IsFiniteSet(own) /\ Cardinality(own) = Need(s, t)
    <3>1. Need(s, t) \in Nat
      BY NeedFacts
    <3> QED
      BY <3>1, Column, Zenon
  <2>2. Permits(s) = Without(s, t) \cup own
    BY <1>6, Zenon DEF Permits, Without
  <2>3. Without(s, t) \cap own = {}
    <3>1. ASSUME NEW p \in Without(s, t) PROVE p[1] # t
      <4>1. PICK u \in Tasks \ {t} : p \in {u} \X (1..Need(s, u))
        BY <3>1, Zenon DEF Without
      <4> QED
        BY <4>1
    <3>2. ASSUME NEW p \in own PROVE p[1] = t
      BY <3>2
    <3> QED
      BY <3>1, <3>2, Zenon
  <2> HIDE DEF own
  <2>4. /\ Cardinality(Without(s, t) \cup own)
             = Cardinality(Without(s, t)) + Cardinality(own) - Cardinality(Without(s, t) \cap own)
        /\ Cardinality(Without(s, t) \cap own) = 0
    BY <1>4, <2>1, <2>3, FS_Union, FS_EmptySet, Zenon
  <2>5. Need(s, t) \in Nat
    BY NeedFacts
  <2> QED
    BY <1>4, <1>6, <2>1, <2>2, <2>4, <2>5 DEF Share
<1> QED
  BY <1>5, <1>6, Zenon

(* There is a task, so that every semaphore's permits are finitely many. *)
LEMMA FinitePermits ==
  ASSUME NEW s \in Semaphores
  PROVE  IsFiniteSet(Permits(s)) /\ Cardinality(Permits(s)) \in Nat
<1>1. 1 \in Tasks
  BY TasksAssumption DEF Tasks
<1> QED
  BY <1>1, Split, Zenon DEF Divides

(* A job that takes or gives back a permit along with the right to it keeps *)
(* the count, when the others stay where they are.                          *)
LEMMA Balanced ==
  ASSUME NEW s \in Semaphores, NEW t \in Tasks,
         free[s] \in Nat, free'[s] \in Nat,
         free[s] + Cardinality(Permits(s)) = Capacity(s),
         \A q \in Tasks \ {t} : Held(q)' = Held(q),
         free'[s] + Share(s, t)' = free[s] + Share(s, t)
  PROVE  free'[s] + Cardinality(Permits(s))' = Capacity(s)
<1>1. /\ Cardinality(Without(s, t)) \in Nat
      /\ Cardinality(Permits(s)) = Cardinality(Without(s, t)) + Share(s, t)
  BY Split, Zenon DEF Divides
<1>2. Divides'
  BY Split, PTL
<1>3. Cardinality(Permits(s))' = Cardinality(Without(s, t))' + Share(s, t)'
  BY <1>2, Zenon DEF Divides
<1>4. Without(s, t)' = Without(s, t)
  BY Zenon DEF Without, Need, Units
<1>5. Need(s, t) \in Nat /\ Capacity(s) \in Nat
  BY NeedFacts
<1>6. Share(s, t) \in Nat /\ Share(s, t)' \in Nat
  BY <1>5 DEF Share, Need, Units
<1> QED
  BY <1>1, <1>3, <1>4, <1>5, <1>6

(* The three things a job does with its permits. *)
Keeps(t) == Held(t)' = Held(t) /\ free' = free
Takes(s, t) ==
  /\ s \in Semaphores \ Held(t) /\ Held(t)' = Held(t) \cup {s}
  /\ free[s] >= Need(s, t) /\ free' = [free EXCEPT ![s] = @ - Need(s, t)]
GivesBack(held, t) ==
  held \subseteq Held(t) /\ Held(t)' = Held(t) \ held /\ Releases(t, held)

(* Each of them is balanced. *)
LEMMA Accounts ==
  ASSUME NEW t \in Tasks, free \in [Semaphores -> Nat],
         \/ Keeps(t) \/ (\E s \in Semaphores : Takes(s, t))
         \/ (\E held \in SUBSET Semaphores : GivesBack(held, t))
  PROVE  /\ free' \in [Semaphores -> Nat]
         /\ \A s \in Semaphores : free'[s] + Share(s, t)' = free[s] + Share(s, t)
<1>1. \A s \in Semaphores : Need(s, t) \in Nat /\ Need(s, t)' = Need(s, t)
  BY NeedFacts DEF Need, Units
<1>2. CASE Keeps(t)
  BY <1>1, <1>2, Zenon DEF Keeps, Share
<1>3. ASSUME NEW x \in Semaphores, Takes(x, t)
      PROVE  /\ free' \in [Semaphores -> Nat]
             /\ \A s \in Semaphores : free'[s] + Share(s, t)' = free[s] + Share(s, t)
  <2>1. /\ x \notin Held(t) /\ Held(t)' = Held(t) \cup {x}
        /\ free[x] >= Need(x, t) /\ free' = [free EXCEPT ![x] = @ - Need(x, t)]
    BY <1>3, Zenon DEF Takes
  <2>2. free' \in [Semaphores -> Nat]
    BY <1>1, <2>1
  <2>3. ASSUME NEW s \in Semaphores
        PROVE  free'[s] + Share(s, t)' = free[s] + Share(s, t)
    <3>1. CASE s = x
      <4>1. Share(s, t) = 0 /\ Share(s, t)' = Need(s, t)
        BY <1>1, <2>1, <3>1, Zenon DEF Share
      <4> QED
        BY <1>1, <2>1, <3>1, <4>1
    <3>2. CASE s # x
      BY <1>1, <2>1, <3>2, Zenon DEF Share
    <3> QED
      BY <3>1, <3>2, Zenon
  <2> QED
    BY <2>2, <2>3, Zenon
<1>4. ASSUME NEW held \in SUBSET Semaphores, GivesBack(held, t)
      PROVE  /\ free' \in [Semaphores -> Nat]
             /\ \A s \in Semaphores : free'[s] + Share(s, t)' = free[s] + Share(s, t)
  <2>1. /\ held \subseteq Held(t) /\ Held(t)' = Held(t) \ held
        /\ free' = [s \in Semaphores |-> free[s] + (IF s \in held THEN Need(s, t) ELSE 0)]
    BY <1>4, Zenon DEF GivesBack, Releases
  <2>2. free' \in [Semaphores -> Nat]
    BY <1>1, <2>1
  <2>3. ASSUME NEW s \in Semaphores
        PROVE  free'[s] + Share(s, t)' = free[s] + Share(s, t)
    <3>1. CASE s \in held
      <4>1. Share(s, t) = Need(s, t) /\ Share(s, t)' = 0 /\ free'[s] = free[s] + Need(s, t)
        BY <1>1, <2>1, <3>1, Zenon DEF Share
      <4> QED
        BY <1>1, <4>1
    <3>2. CASE s \notin held
      <4>1. Share(s, t)' = Share(s, t) /\ free'[s] = free[s] + 0
        BY <1>1, <2>1, <3>2, Zenon DEF Share
      <4> QED
        BY <4>1
    <3> QED
      BY <3>1, <3>2, Zenon
  <2> QED
    BY <2>2, <2>3, Zenon
<1> QED
  BY <1>2, <1>3, <1>4, Zenon

(* Every step of a job is one of the three. *)
LEMMA JobPermits ==
  ASSUME TaskInv, PermitInv, NEW t \in Tasks, JobStep(t), entry' = entry
  PROVE  \/ Keeps(t) \/ (\E s \in Semaphores : Takes(s, t))
         \/ (\E held \in SUBSET Semaphores : GivesBack(held, t))
<1>0. /\ at \in [Tasks -> States] /\ Prefetch' = Prefetch
      /\ Prefetch => at[t] \notin PostStates
      /\ Held(t) \in SUBSET Semaphores /\ Held(t) \ Held(t) = {}
  BY Zenon DEF TaskInv, PermitInv, Prefetch, Held, Semaphores
<1> USE <1>0 DEF Moves, semaphores, Held, PostStates, PostProcessing
<1>1. CASE AskSlot(t)
  BY <1>1, Zenon DEF AskSlot, Keeps
<1>2. CASE TakeSlot(t)
  <2>1. CASE cancelled
    BY <1>2, <2>1, Zenon DEF TakeSlot, Keeps
  <2>2. CASE ~cancelled
    <3>1. /\ at[t] = "slot" /\ at'[t] = AfterSlot
          /\ free["slot"] >= Need("slot", t)
          /\ free' = [free EXCEPT !["slot"] = @ - Need("slot", t)]
      BY <1>2, <2>2, Zenon DEF TakeSlot, Take, Turn
    <3>2. Held(t) = {} /\ Held(t)' = {"slot"}
      BY <3>1, Zenon DEF AfterSlot
    <3> QED
      BY <3>1, <3>2, Zenon DEF Takes, Semaphores
  <2> QED
    BY <2>1, <2>2, Zenon
<1>3. CASE TakeBacklog(t)
  <2>1. /\ at[t] = "backlog" /\ at'[t] = "memory" /\ ~Prefetch
        /\ free["backlog"] >= Need("backlog", t)
        /\ free' = [free EXCEPT !["backlog"] = @ - Need("backlog", t)]
    BY <1>3, Zenon DEF TakeBacklog, Take, Turn
  <2>2. Held(t) = {"slot"} /\ Held(t)' = {"slot"} \cup {"backlog"}
    BY <2>1, Zenon
  <2> QED
    BY <2>1, <2>2, Zenon DEF Takes, Semaphores
<1>4. CASE TakeMemory(t)
  <2>1. /\ at[t] = "memory" /\ at'[t] = "fetch"
        /\ free["memory"] >= Need("memory", t)
        /\ free' = [free EXCEPT !["memory"] = @ - Need("memory", t)]
    BY <1>4, Zenon DEF TakeMemory, Take, Turn
  <2>2. "memory" \notin Held(t) /\ Held(t)' = Held(t) \cup {"memory"}
    BY <2>1, Zenon
  <2> QED
    BY <2>1, <2>2, Zenon DEF Takes, Semaphores
<1>5. CASE Fetched(t)
  <2>1. CASE Prefetch
    BY <1>5, <2>1, Zenon DEF Fetched, GivesBack
  <2>2. CASE ~Prefetch
    BY <1>5, <2>2, Zenon DEF Fetched, Keeps
  <2> QED
    BY <2>1, <2>2, Zenon
<1>6. CASE RequestFails(t)
  <2>1. CASE LastAttempt(t)
    BY <1>6, <2>1, Zenon DEF RequestFails, GivesBack
  <2>2. CASE ~LastAttempt(t)
    BY <1>6, <2>2, Zenon DEF RequestFails, Keeps
  <2> QED
    BY <2>1, <2>2, Zenon
<1>7. CASE FetchFails(t)
  BY <1>7, Zenon DEF FetchFails, GivesBack
<1>8. CASE Exported(t)
  <2>1. CASE Moves(t, "export", "exported") /\ Releases(t, GivenBack(t))
    <3>1. at[t] = "export" /\ at'[t] = "exported" /\ ~Prefetch /\ Releases(t, {"slot"})
      BY <2>1, Zenon DEF GivenBack
    <3>2. Held(t) = {"slot", "memory"} \cup {"backlog"} /\ Held(t)' = {"backlog", "memory"}
      BY <3>1, Zenon
    <3> QED
      BY <3>1, <3>2, Zenon DEF GivesBack, Semaphores
  <2>2. CASE Moves(t, "export", "errored") /\ Releases(t, Held(t))
    BY <2>2, Zenon DEF GivesBack
  <2> QED
    BY <1>8, <2>1, <2>2, Zenon DEF Exported
<1>9. CASE TakePost(t)
  <2>1. /\ at[t] = "queued" /\ at'[t] = "post"
        /\ free["post"] >= Need("post", t)
        /\ free' = [free EXCEPT !["post"] = @ - Need("post", t)]
    BY <1>9, Zenon DEF TakePost, Take, Turn
  <2>2. "post" \notin Held(t) /\ Held(t)' = Held(t) \cup {"post"}
    BY <2>1, Zenon
  <2> QED
    BY <2>1, <2>2, Zenon DEF Takes, Semaphores
<1>10. CASE PostEnds(t)
  BY <1>10, Zenon DEF PostEnds, GivesBack
<1>11. CASE JoinPost(t)
  BY <1>11, Zenon DEF JoinPost, Keeps
<1>12. CASE Panics(t)
  BY <1>12, Zenon DEF Panics, GivesBack
<1> HIDE <1>0 DEF Moves, semaphores, Held, PostStates, PostProcessing
<1> QED
  BY <1>1, <1>2, <1>3, <1>4, <1>5, <1>6, <1>7, <1>8, <1>9, <1>10, <1>11, <1>12, Zenon DEF JobStep

(* What else a step of a job changes. *)
LEMMA JobFields ==
  ASSUME TaskInv, PermitInv, NEW t \in Tasks, JobStep(t), entry' = entry
  PROVE  /\ tries' \in [Tasks -> 0..Attempts] /\ faults' \in {faults, faults - 1}
         /\ faults' # faults => faults > 0
         /\ cancelled' = cancelled
         /\ Prefetch => at'[t] \notin PostStates
<1>0. /\ at \in [Tasks -> States] /\ tries \in [Tasks -> 0..Attempts]
      /\ Prefetch => at[t] \notin PostStates
      /\ at[t] = "fetch" => tries[t] > 0
  BY Zenon DEF TaskInv, PermitInv, PermitTypes, Tried
<1>1. \/ tries' = tries
      \/ at[t] = "fetch" /\ tries' = [tries EXCEPT ![t] = @ - 1]
  BY Zenon DEF JobStep, AskSlot, TakeSlot, TakeBacklog, TakeMemory, Fetched, RequestFails,
     FetchFails,
     Exported, TakePost, PostEnds, JoinPost, Panics, Moves
<1>2. tries' \in [Tasks -> 0..Attempts]
  <2>1. Attempts \in Nat
    BY LimitsAssumption, Zenon
  <2> QED
    BY <1>0, <1>1, <2>1
<1>3. faults' \in {faults, faults - 1} /\ (faults' # faults => faults > 0) /\ cancelled' = cancelled
  BY Zenon DEF JobStep, AskSlot, TakeSlot, TakeBacklog, TakeMemory, Fetched, RequestFails,
     FetchFails,
     Exported, TakePost, PostEnds, JoinPost, Panics, NoFault, Fault
<1>4. Prefetch => at'[t] \notin PostStates
  BY <1>0, Zenon DEF JobStep, AskSlot, TakeSlot, TakeBacklog, TakeMemory, Fetched, RequestFails,
     FetchFails, Exported, TakePost, PostEnds, JoinPost, Panics, Moves, PostStates, PostProcessing,
     AfterSlot
<1> QED
  BY <1>2, <1>3, <1>4, Zenon

(* A job leaves the line of the post-processing with its permit, and no     *)
(* other step of it changes that line or who waits in it.                   *)
LEMMA JobLines ==
  ASSUME TaskInv, PermitInv, NEW t \in Tasks, JobStep(t)
  PROVE  /\ line' \in [Semaphores -> Seq(Tasks)]
         /\ \/ /\ line'["post"] = line["post"] /\ at[t] # "queued" /\ at'[t] # "queued"
            \/ /\ line["post"] # <<>> /\ line'["post"] = Tail(line["post"])
               /\ at[t] = "queued" /\ at'[t] = "post"
<1>0. at \in [Tasks -> States] /\ line \in [Semaphores -> Seq(Tasks)]
  BY Zenon DEF TaskInv, PermitInv, PermitTypes
<1>1. \A s \in Semaphores :
        Append(line[s], t) \in Seq(Tasks) /\ (line[s] # <<>> => Tail(line[s]) \in Seq(Tasks))
  BY <1>0
<1> USE <1>0, <1>1 DEF Moves, semaphores, Semaphores
<1>2. CASE AskSlot(t)
  BY <1>2, Zenon DEF AskSlot
<1>3. CASE TakeSlot(t)
  <2>1. CASE cancelled
    <3>1. /\ at[t] = "slot" /\ at'[t] = "stopped" /\ line["slot"] # <<>>
          /\ line' = [line EXCEPT !["slot"] = Tail(@)]
      BY <1>3, <2>1, Zenon DEF TakeSlot, Turn
    <3> QED
      BY <3>1, Zenon
  <2>2. CASE ~cancelled
    <3>1. /\ at[t] = "slot" /\ at'[t] = AfterSlot /\ AfterSlot \in {"memory", "backlog"}
          /\ line["slot"] # <<>>
          /\ line' = [line EXCEPT !["slot"] = Tail(@), ![AfterSlot] = Append(@, t)]
      BY <1>3, <2>2, Zenon DEF TakeSlot, Take, Turn, AfterSlot
    <3> QED
      BY <3>1, Zenon
  <2> QED
    BY <2>1, <2>2, Zenon
<1>4. CASE TakeBacklog(t)
  <2>1. /\ at[t] = "backlog" /\ at'[t] = "memory" /\ line["backlog"] # <<>>
        /\ line' = [line EXCEPT !["backlog"] = Tail(@), !["memory"] = Append(@, t)]
    BY <1>4, Zenon DEF TakeBacklog, Take, Turn
  <2> QED
    BY <2>1, Zenon
<1>5. CASE TakeMemory(t)
  BY <1>5, Zenon DEF TakeMemory, Take, Turn
<1>6. CASE TakePost(t)
  BY <1>6, Zenon DEF TakePost, Take, Turn
<1>7. CASE \/ Fetched(t) \/ RequestFails(t) \/ FetchFails(t) \/ Exported(t)
           \/ PostEnds(t) \/ JoinPost(t) \/ Panics(t)
  BY <1>7, Zenon DEF Fetched, RequestFails, FetchFails, Exported, PostEnds, JoinPost, Panics
<1> QED
  BY <1>2, <1>3, <1>4, <1>5, <1>6, <1>7, Zenon DEF JobStep

(* The line of the post-processing counts the bundles that wait. *)
LEMMA QueueCounts ==
  ASSUME NEW t \in Tasks, line["post"] \in Seq(Tasks), at \in [Tasks -> States],
         \A q \in Tasks \ {t} : at'[q] = "queued" <=> at[q] = "queued",
         Len(line["post"]) = Cardinality(At({"queued"})),
         \/ line'["post"] = line["post"] /\ (at[t] = "queued" <=> at'[t] = "queued")
         \/ /\ line["post"] # <<>> /\ line'["post"] = Tail(line["post"])
            /\ at[t] = "queued" /\ at'[t] # "queued"
         \/ /\ line'["post"] = Append(line["post"], t)
            /\ at[t] # "queued" /\ at'[t] = "queued"
  PROVE  Len(line'["post"]) = Cardinality(At({"queued"})')
<1>1. IsFiniteSet(At({"queued"}))
  <2>1. IsFiniteSet(Tasks)
    BY TasksAssumption, FS_Interval DEF Tasks
  <2> QED
    BY <2>1, FS_Subset, Zenon DEF At
<1>2. CASE line'["post"] = line["post"] /\ (at[t] = "queued" <=> at'[t] = "queued")
  <2>1. At({"queued"})' = At({"queued"})
    BY <1>2, Zenon DEF At
  <2> QED
    BY <1>2, <2>1, Zenon
<1>3. CASE /\ line["post"] # <<>> /\ line'["post"] = Tail(line["post"])
           /\ at[t] = "queued" /\ at'[t] # "queued"
  <2>1. At({"queued"})' = At({"queued"}) \ {t} /\ t \in At({"queued"})
    BY <1>3, Zenon DEF At
  <2>2. Cardinality(At({"queued"}) \ {t}) = Cardinality(At({"queued"})) - 1
    BY <1>1, <2>1, FS_RemoveElement, Zenon
  <2>3. Len(line'["post"]) = Len(line["post"]) - 1
    BY <1>3
  <2> QED
    BY <2>1, <2>2, <2>3, Zenon
<1>4. CASE /\ line'["post"] = Append(line["post"], t)
           /\ at[t] # "queued" /\ at'[t] = "queued"
  <2>1. At({"queued"})' = At({"queued"}) \cup {t} /\ t \notin At({"queued"})
    BY <1>4, Zenon DEF At
  <2>2. Cardinality(At({"queued"}) \cup {t}) = Cardinality(At({"queued"})) + 1
    BY <1>1, <2>1, FS_AddElement, Zenon
  <2>3. Len(line'["post"]) = Len(line["post"]) + 1
    BY <1>4
  <2> QED
    BY <2>1, <2>2, <2>3, Zenon
<1> QED
  BY <1>2, <1>3, <1>4, Zenon

(* Where no job holds a permit all of them are free, and none waits. *)
IdleSums ==
  /\ \A t \in Tasks : Held(t) = {} /\ at[t] # "queued"
  /\ free = [s \in Semaphores |-> Capacity(s)] /\ line = [s \in Semaphores |-> <<>>]
  => /\ \A s \in Semaphores : free[s] + Cardinality(Permits(s)) = Capacity(s)
     /\ Len(line["post"]) = Cardinality(At({"queued"}))

(* It follows from the definitions of the two sets. *)
LEMMA AllIdle == IdleSums
<1> SUFFICES ASSUME \A t \in Tasks : Held(t) = {} /\ at[t] # "queued",
                    free = [s \in Semaphores |-> Capacity(s)],
                    line = [s \in Semaphores |-> <<>>]
             PROVE  /\ \A s \in Semaphores : free[s] + Cardinality(Permits(s)) = Capacity(s)
                    /\ Len(line["post"]) = Cardinality(At({"queued"}))
  BY Zenon DEF IdleSums
<1>1. At({"queued"}) = {} /\ Cardinality({}) = 0
  BY FS_EmptySet, Zenon DEF At
<1>2. line["post"] = <<>> /\ Len(<<>>) = 0
  BY DEF Semaphores
<1>3. ASSUME NEW s \in Semaphores PROVE free[s] + Cardinality(Permits(s)) = Capacity(s)
  <2>1. Permits(s) = {}
    BY Zenon DEF Permits
  <2>2. Capacity(s) \in Nat
    BY TasksAssumption, LimitsAssumption DEF Capacity
  <2>3. free[s] = Capacity(s)
    BY Zenon
  <2> QED
    BY <1>1, <2>1, <2>2, <2>3
<1> QED
  BY <1>1, <1>2, <1>3, Zenon

(* Every step keeps the permits and the line.  A join moves a job between   *)
(* states with the same rights; the end of the execution drops every job.   *)
LEMMA PermitStep == TaskInv /\ PermitInv /\ [Next]_vars => PermitInv'
<1> SUFFICES ASSUME TaskInv, PermitInv, [Next]_vars PROVE PermitInv'
  BY Zenon
<1>0. /\ at \in [Tasks -> States]
      /\ free \in [Semaphores -> Nat] /\ line \in [Semaphores -> Seq(Tasks)]
      /\ "post" \in Semaphores /\ line["post"] \in Seq(Tasks)
      /\ entry' = entry /\ Prefetch' = Prefetch
  BY Zenon DEF TaskInv, PermitInv, PermitTypes, Prefetch, Next, vars, Semaphores
<1>1. ASSUME NEW t \in Tasks, JobStep(t) PROVE PermitInv'
  <2>1. \A q \in Tasks \ {t} : at'[q] = at[q]
    BY <1>0, <1>1, OthersStay, Zenon
  <2>2. \A q \in Tasks \ {t} : Held(q)' = Held(q)
    BY <1>0, <2>1, Zenon DEF Held
  <2>3. /\ free' \in [Semaphores -> Nat]
        /\ \A s \in Semaphores : free'[s] + Share(s, t)' = free[s] + Share(s, t)
    BY <1>0, <1>1, JobPermits, Accounts, Zenon
  <2>4. \A s \in Semaphores : free'[s] + Cardinality(Permits(s))' = Capacity(s)
    <3> TAKE s \in Semaphores
    <3>1. free[s] \in Nat /\ free'[s] \in Nat /\ free[s] + Cardinality(Permits(s)) = Capacity(s)
      BY <1>0, <2>3, Zenon DEF PermitInv
    <3> QED
      BY <2>2, <2>3, <3>1, Balanced, Zenon
  <2>5. line' \in [Semaphores -> Seq(Tasks)]
    BY <1>1, JobLines, Zenon
  <2>6. Len(line'["post"]) = Cardinality(At({"queued"})')
    <3>1. \/ line'["post"] = line["post"] /\ (at[t] = "queued" <=> at'[t] = "queued")
          \/ /\ line["post"] # <<>> /\ line'["post"] = Tail(line["post"])
             /\ at[t] = "queued" /\ at'[t] # "queued"
      BY <1>1, JobLines, Zenon
    <3>2. Len(line["post"]) = Cardinality(At({"queued"}))
      BY Zenon DEF PermitInv
    <3> QED
      BY <1>0, <2>1, <3>1, <3>2, QueueCounts, Zenon
  <2>7. Prefetch' => \A q \in Tasks : at'[q] \notin PostStates
    BY <1>0, <1>1, <2>1, JobFields, Zenon DEF PermitInv
  <2>8. PermitTypes'
    <3>1. /\ fatal' \subseteq Tasks /\ torn' \subseteq Tasks /\ outcome' = outcome
      BY <1>1, OthersStay, Zenon DEF PermitInv, PermitTypes
    <3>2. faults' \in 0..MaxFaults
      <4>1. faults' \in {faults, faults - 1} /\ (faults' # faults => faults > 0)
        BY <1>0, <1>1, JobFields, Zenon
      <4>2. faults \in 0..MaxFaults /\ MaxFaults \in Nat
        BY LimitsAssumption, Zenon DEF PermitInv, PermitTypes
      <4> QED
        BY <4>1, <4>2
    <3> QED
      BY <1>0, <1>1, <2>3, <2>5, <3>1, <3>2, JobFields, Zenon DEF PermitInv, PermitTypes
  <2> QED
    BY <2>4, <2>6, <2>7, <2>8, Zenon DEF PermitInv
<1>2. ASSUME NEW t \in Tasks, Join(t) PROVE PermitInv'
  <2>1. /\ UNCHANGED <<free, tries, fatal, torn, cancelled, outcome, faults>>
        /\ at[t] \in {"exported", "errored", "prefetched"}
        /\ line' = IF at[t] = "exported" THEN [line EXCEPT !["post"] = Append(@, t)] ELSE line
    BY <1>2, Zenon DEF Join, NoFault, files
  <2>2. ASSUME NEW q \in Tasks \ {t}
        PROVE  at'[q] = at[q] \/ (at[q] = "pending" /\ at'[q] = "new")
    <3>1. CASE SpawnsNext(t) /\ q = spawned + 1
      <4>1. at'[q] = "new"
        BY <1>2, <3>1, Zenon DEF Join
      <4>2. spawned \in 0..N /\ N \in Nat /\ (at[q] = "pending" <=> q > spawned)
        BY TasksAssumption, Zenon DEF TaskInv, Underway
      <4> QED
        BY <3>1, <4>1, <4>2
    <3>2. CASE ~(SpawnsNext(t) /\ q = spawned + 1)
      BY <1>2, <3>2, Zenon DEF Join
    <3> QED
      BY <3>1, <3>2, Zenon
  <2>3. at'[t] = CASE at[t] = "exported" -> "queued"
                   [] at[t] = "errored" -> "failed"
                   [] OTHER -> "done"
    BY <1>2, Zenon DEF Join
  <2>4. \A q \in Tasks : Held(q)' = Held(q)
    <3>1. Held(t)' = Held(t)
      BY <2>1, <2>3, Zenon DEF Held
    <3>2. ASSUME NEW q \in Tasks \ {t} PROVE Held(q)' = Held(q)
      BY <1>0, <2>2, Zenon DEF Held
    <3> QED
      BY <3>1, <3>2, Zenon
  <2>5. \A s \in Semaphores : free'[s] + Cardinality(Permits(s))' = Capacity(s)
    <3> TAKE s \in Semaphores
    <3>1. Permits(s)' = Permits(s)
      BY <2>4, Zenon DEF Permits, Need, Units
    <3> QED
      BY <2>1, <3>1, Zenon DEF PermitInv
  <2>6. line' \in [Semaphores -> Seq(Tasks)]
    <3>1. Append(line["post"], t) \in Seq(Tasks)
      BY <1>0
    <3> QED
      BY <1>0, <2>1, <3>1, Zenon
  <2>7. Len(line'["post"]) = Cardinality(At({"queued"})')
    <3>1. \/ line'["post"] = line["post"] /\ (at[t] = "queued" <=> at'[t] = "queued")
          \/ /\ line'["post"] = Append(line["post"], t)
             /\ at[t] # "queued" /\ at'[t] = "queued"
      BY <1>0, <2>1, <2>3, Zenon
    <3>2. \A q \in Tasks \ {t} : at'[q] = "queued" <=> at[q] = "queued"
      BY <2>2, Zenon
    <3>3. Len(line["post"]) = Cardinality(At({"queued"}))
      BY Zenon DEF PermitInv
    <3> QED
      BY <1>0, <3>1, <3>2, <3>3, QueueCounts, Zenon
  <2>8. Prefetch' => \A q \in Tasks : at'[q] \notin PostStates
    BY <1>0, <2>1, <2>2, <2>3, Zenon DEF PermitInv, PostStates, PostProcessing
  <2> QED
    BY <1>0, <2>1, <2>5, <2>6, <2>7, <2>8, Zenon DEF PermitInv, PermitTypes
<1>3. ASSUME NEW t \in Tasks, JoinEndsAll(t) PROVE PermitInv'
  <2>1. /\ UNCHANGED <<tries, fatal, torn, cancelled, faults>>
        /\ outcome' \in {"cancelled", "panicked"}
        /\ \A q \in Tasks : at'[q] \in Settled \cup {"pending", "aborted"}
        /\ free' = [s \in Semaphores |-> Capacity(s)] /\ line' = [s \in Semaphores |-> <<>>]
    BY <1>3, Zenon DEF JoinEndsAll, NoFault, files, Settled
  <2>2. Prefetch' => \A q \in Tasks : at'[q] \notin PostStates
    BY <2>1, Zenon DEF PostStates, PostProcessing, Settled
  <2>3. PermitTypes'
    <3>1. <<>> \in Seq(Tasks) /\ \A s \in Semaphores : Capacity(s) \in Nat
      BY TasksAssumption, LimitsAssumption DEF Capacity
    <3>2. free' \in [Semaphores -> Nat] /\ line' \in [Semaphores -> Seq(Tasks)]
      BY <2>1, <3>1, Zenon
    <3> QED
      BY <1>0, <2>1, <3>2, Zenon DEF PermitInv, PermitTypes
  <2>4. \A q \in Tasks : Held(q)' = {}
    BY <2>1, Zenon DEF Held, Settled
  <2>5. IdleSums'
    BY AllIdle, PTL
  <2>6. \A q \in Tasks : at'[q] # "queued"
    BY <2>1, Zenon DEF Settled
  <2> QED
    BY <2>1, <2>2, <2>3, <2>4, <2>5, <2>6, Zenon DEF PermitInv, IdleSums
<1>4. CASE LoopEnds \/ Cancel \/ UNCHANGED vars
  <2>1. /\ UNCHANGED <<at, free, line, tries, fatal, torn>>
        /\ cancelled' \in BOOLEAN /\ outcome' \in {outcome, "ok"}
        /\ faults' \in {faults, faults - 1} /\ (faults' # faults => faults > 0)
    BY <1>4, Zenon DEF LoopEnds, Cancel, vars, semaphores, files, Fault, NoFault, PermitInv,
       PermitTypes
  <2>2. faults' \in 0..MaxFaults
    <3>1. faults \in 0..MaxFaults /\ MaxFaults \in Nat
      BY LimitsAssumption, Zenon DEF PermitInv, PermitTypes
    <3> QED
      BY <2>1, <3>1
  <2>3. \A s \in Semaphores : Permits(s)' = Permits(s)
    BY <1>0, <2>1, Zenon DEF Permits, Held, Need, Units
  <2> QED
    BY <1>0, <2>1, <2>2, <2>3, Zenon DEF PermitInv, PermitTypes, At
<1> QED
  BY <1>1, <1>2, <1>3, <1>4, Zenon DEF Next, Runs, JobStep

(* They hold at first: every permit is free. *)
LEMMA PermitInit == Init => PermitInv
<1> SUFFICES ASSUME Init PROVE PermitInv
  BY Zenon
<1>1. PermitTypes
  <2>1. /\ <<>> \in Seq(Tasks) /\ (\A s \in Semaphores : Capacity(s) \in Nat)
        /\ Attempts \in 0..Attempts /\ MaxFaults \in 0..MaxFaults
    BY TasksAssumption, LimitsAssumption DEF Capacity
  <2> QED
    BY <2>1, Zenon DEF Init, PermitTypes
<1>2. \A t \in Tasks : at[t] \in {"new", "pending"}
  BY Zenon DEF Init
<1>3. \A t \in Tasks : Held(t) = {}
  BY <1>2, Zenon DEF Held
<1>4. \A t \in Tasks : at[t] \notin PostStates
  BY <1>2, Zenon DEF PostStates, PostProcessing
<1>5. free = [s \in Semaphores |-> Capacity(s)] /\ line = [s \in Semaphores |-> <<>>]
  BY Zenon DEF Init
<1>6. IdleSums
  BY AllIdle, Zenon
<1> QED
  BY <1>1, <1>2, <1>3, <1>4, <1>5, <1>6, Zenon DEF PermitInv, IdleSums

(* The semaphores of execute_with_filter and prefetch_asset_bundles: what   *)
(* each has lost is held by the jobs whose stage entitles them to it.       *)
THEOREM PermitsFollow == Spec => []PermitsFollowBundles
<1>1. TaskInv /\ PermitInv => PermitsFollowBundles
  <2> SUFFICES ASSUME TaskInv, PermitInv PROVE PermitsFollowBundles
    BY Zenon
  <2>1. ASSUME NEW s \in Semaphores PROVE free[s] \in 0..Capacity(s)
    <3>1. /\ free[s] \in Nat /\ Cardinality(Permits(s)) \in Nat
          /\ free[s] + Cardinality(Permits(s)) = Capacity(s)
      BY FinitePermits, Zenon DEF PermitInv, PermitTypes
    <3> QED
      BY <3>1
  <2> QED
    BY <2>1, Zenon DEF TaskInv, PermitInv, PermitTypes, PermitsFollowBundles, TypeOK, States
<1> QED
  BY <1>1, TaskInit, TaskStep, PermitInit, PermitStep, PTL DEF Spec

(* Bundles in memory have their share of it, and unless they were only      *)
(* prefetched a place in the backlog.                                       *)
LEMMA MemoryHeld ==
  ASSUME NEW t \in InMemory
  PROVE  t \in Tasks /\ "memory" \in Held(t) /\ (~Prefetch => "backlog" \in Held(t))
BY Zenon DEF InMemory, At, Held

(* BundleMemoryLimiter: a bundle over the limit has taken all of it, so     *)
(* that no other has any; without one the shares are the sizes.             *)
LEMMA MemoryLimited ==
  ASSUME PermitInv PROVE MemoryBounded
<1> SUFFICES ASSUME Limit > 0
             PROVE  Cardinality(MiBInMemory) <= Limit \/ Cardinality(InMemory) = 1
  BY Zenon DEF MemoryBounded
<1>1. /\ "memory" \in Semaphores /\ free["memory"] \in Nat /\ Capacity("memory") = Limit
      /\ free["memory"] + Cardinality(Permits("memory")) = Limit
      /\ IsFiniteSet(Permits("memory")) /\ Cardinality(Permits("memory")) \in Nat
  <2>1. "memory" \in Semaphores /\ Capacity("memory") = Limit
    BY Zenon DEF Semaphores, Capacity
  <2> QED
    BY <2>1, FinitePermits, Zenon DEF PermitInv, PermitTypes
<1>2. Limit \in Nat /\ \A t \in Tasks : Size[t] \in Nat
  BY TasksAssumption, LimitsAssumption, Zenon
<1>3. ASSUME NEW t \in InMemory, Size[t] > Limit PROVE InMemory = {t}
  <2>1. t \in Tasks /\ Share("memory", t) = Units(t) /\ Units(t) = Limit
    BY <1>1, <1>3, NeedFacts, MemoryHeld, Zenon DEF Share, Need
  <2>2. /\ Cardinality(Without("memory", t)) \in Nat
        /\ Cardinality(Permits("memory")) = Cardinality(Without("memory", t)) + Limit
    BY <1>1, <2>1, Split, Zenon DEF Divides
  <2>3. Cardinality(Without("memory", t)) = 0
    BY <1>1, <1>2, <2>2
  <2>4. Without("memory", t) = {}
    <3>1. Without("memory", t) \subseteq Permits("memory")
      BY Zenon DEF Without, Permits
    <3> QED
      BY <1>1, <2>3, <3>1, FS_Subset, FS_EmptySet, Zenon
  <2>5. ASSUME NEW u \in InMemory, u # t PROVE FALSE
    <3>1. u \in Tasks \ {t} /\ "memory" \in Held(u)
      BY <2>5, MemoryHeld, Zenon
    <3>2. 1 \in 1..Need("memory", u)
      <4>1. Need("memory", u) \in 1..Limit
        BY <1>1, <3>1, NeedFacts, Zenon DEF Need
      <4> QED
        BY <1>2, <4>1
    <3>3. {u} \X (1..Need("memory", u)) \subseteq Without("memory", t)
      BY <3>1, Zenon DEF Without
    <3>4. <<u, 1>> \in {u} \X (1..Need("memory", u))
      BY <3>2
    <3> QED
      BY <2>4, <3>3, <3>4, Zenon
  <2> QED
    BY <2>5, Zenon
<1>4. CASE \A t \in InMemory : Size[t] <= Limit
  <2>1. ASSUME NEW t \in InMemory PROVE {t} \X (1..Size[t]) \subseteq Permits("memory")
    <3>1. t \in Tasks /\ "memory" \in Held(t) /\ Need("memory", t) = Size[t]
      BY <1>1, <1>4, NeedFacts, MemoryHeld, Zenon DEF Need
    <3> QED
      BY <3>1, Zenon DEF Permits
  <2>2. MiBInMemory \subseteq Permits("memory")
    BY <2>1, Zenon DEF MiBInMemory
  <2>3. /\ Cardinality(MiBInMemory) \in Nat
        /\ Cardinality(MiBInMemory) <= Cardinality(Permits("memory"))
    BY <1>1, <2>2, FS_Subset, FS_CardinalityType, Zenon
  <2> QED
    BY <1>1, <1>2, <2>3
<1>5. CASE ~ \A t \in InMemory : Size[t] <= Limit
  <2>1. PICK t \in InMemory : ~ (Size[t] <= Limit)
    BY <1>5, Zenon
  <2>2. t \in Tasks
    BY MemoryHeld, Zenon
  <2>3. Size[t] > Limit
    BY <1>2, <2>1, <2>2
  <2>4. InMemory = {t}
    BY <1>3, <2>3, Zenon
  <2> QED
    BY <2>4, FS_Singleton, Zenon
<1> QED
  BY <1>4, <1>5, Zenon

(* post_process_backlog: bundles that are exported or on their way to it    *)
(* hold a place, and there are as many places as permits to post-process.   *)
LEMMA BacklogLimited ==
  ASSUME PermitInv, ~Prefetch
  PROVE  Cardinality(InMemory) <= PostMax /\ Len(line["post"]) <= free["post"]
<1> DEFINE Queued == At({"queued"})
           Post == At({"post"})
<1>1. \A s \in {"backlog", "post"} :
        /\ s \in Semaphores /\ free[s] \in Nat /\ (\A t \in Tasks : Need(s, t) = 1)
        /\ free[s] + Cardinality(Permits(s)) = PostMax
        /\ IsFiniteSet(Permits(s)) /\ Cardinality(Permits(s)) \in Nat
  <2> TAKE s \in {"backlog", "post"}
  <2>1. s \in Semaphores /\ Capacity(s) = PostMax
    BY Zenon DEF Semaphores, Capacity
  <2>2. \A t \in Tasks : Need(s, t) = 1
    BY Zenon DEF Need
  <2> QED
    BY <2>1, <2>2, FinitePermits, Zenon DEF PermitInv, PermitTypes
<1>2. IsFiniteSet(Tasks)
  BY TasksAssumption, FS_Interval DEF Tasks
<1>3. /\ IsFiniteSet(InMemory) /\ IsFiniteSet(Queued) /\ IsFiniteSet(Post)
      /\ Cardinality(InMemory) \in Nat /\ Cardinality(Queued) \in Nat /\ Cardinality(Post) \in Nat
  BY <1>2, FS_Subset, FS_CardinalityType, Zenon DEF At, InMemory
<1>4. 1..1 = {1} /\ PostMax \in Nat
  BY LimitsAssumption
<1>5. Cardinality(InMemory) <= PostMax
  <2>1. InMemory \X {1} \subseteq Permits("backlog")
    <3>1. ASSUME NEW t \in InMemory PROVE {t} \X {1} \subseteq Permits("backlog")
      <4>1. t \in Tasks /\ "backlog" \in Held(t) /\ 1..Need("backlog", t) = {1}
        BY <1>1, <1>4, MemoryHeld, Zenon
      <4>2. {t} \X (1..Need("backlog", t)) \subseteq Permits("backlog")
        BY <4>1, Zenon DEF Permits
      <4> QED
        BY <4>1, <4>2, Zenon
    <3> QED
      BY <3>1
  <2>2. Cardinality(InMemory \X {1}) = Cardinality(InMemory)
    BY <1>3, Row, Zenon
  <2>3. Cardinality(InMemory \X {1}) <= Cardinality(Permits("backlog"))
    BY <1>1, <2>1, FS_Subset, Zenon
  <2> QED
    BY <1>1, <1>3, <1>4, <2>2, <2>3
<1>6. Permits("post") = Post \X {1}
  <2>1. \A t \in Tasks : "post" \in Held(t) <=> at[t] = "post"
    BY Zenon DEF Held
  <2>2. {u \in Tasks : "post" \in Held(u)} = Post
    BY <2>1, Zenon DEF At
  <2>3. \A t \in Post : {t} \X (1..Need("post", t)) = {t} \X {1}
    BY <1>1, <1>4, Zenon DEF At
  <2>4. Permits("post") = UNION {{t} \X {1} : t \in Post}
    BY <2>2, <2>3, Zenon DEF Permits
  <2> HIDE DEF Post
  <2> QED
    BY <2>4
<1>7. Cardinality(Post \X {1}) = Cardinality(Post)
  BY <1>3, Row, Zenon
<1>8. Cardinality(Queued) + Cardinality(Post) <= Cardinality(InMemory)
  <2>1. Queued \cap Post = {} /\ Queued \cup Post \subseteq InMemory
    BY Zenon DEF At, InMemory
  <2> HIDE DEF Queued, Post
  <2>2. /\ Cardinality(Queued \cup Post)
             = Cardinality(Queued) + Cardinality(Post) - Cardinality(Queued \cap Post)
        /\ Cardinality(Queued \cap Post) = 0
        /\ Cardinality(Queued \cup Post) <= Cardinality(InMemory)
    BY <1>3, <2>1, FS_Union, FS_EmptySet, FS_Subset, Zenon
  <2> QED
    BY <1>3, <2>2
<1>9. Len(line["post"]) = Cardinality(Queued) /\ free["post"] + Cardinality(Post) = PostMax
  BY <1>1, <1>6, <1>7, Zenon DEF PermitInv
<1> HIDE DEF Queued, Post
<1>10. free["post"] \in Nat
  BY <1>1, Zenon
<1> QED
  BY <1>3, <1>4, <1>5, <1>8, <1>9, <1>10

(* Memory and backlog keep the work of one execution within their limits,   *)
(* and no exported bundle has to wait for its post-processing.              *)
THEOREM WorkStaysBounded == Spec => []WorkBounded
<1>1. PermitInv => WorkBounded
  BY MemoryLimited, BacklogLimited, Zenon DEF WorkBounded
<1> QED
  BY <1>1, TaskInit, TaskStep, PermitInit, PermitStep, PTL DEF Spec
===============================================================================
