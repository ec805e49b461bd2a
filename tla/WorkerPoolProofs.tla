--------------------------- MODULE WorkerPoolProofs ---------------------------
(***************************************************************************)
(* PoolClean, FailuresOwned and LeasesConserved for any number of bundles, *)
(* workers, images and failures.                                           *)
(*                                                                         *)
(* The first two need each other.  A worker goes back to the pool after a  *)
(* close that succeeded or was excused; it is excused only after an image  *)
(* was skipped, and then the worker is dead.  An export may be handed a    *)
(* dead worker and still never fail for it: its second attempt has a fresh *)
(* one.  The permits are counted as pairs of a bundle and a number, those  *)
(* of the export that moves apart from those of the others.                *)
(***************************************************************************)
EXTENDS WorkerPool, SequenceTheorems, FiniteSetTheorems, TLAPS

(* What return_or_recycle_worker may put back. *)
Usable(w) == w.dead \/ (~w.open /\ ~Recycles(w))

(* The stages at which the context of the bundle is open. *)
Reading == {"list", "data", "image", "flush", "close"}

(* The types of what the proofs are about. *)
PoolTypes ==
  /\ at \in [Bundles -> {"cpu", "queue"} \cup Leased \cup Over]
  /\ exclusive \in [Bundles -> BOOLEAN] /\ unpack \in [Bundles -> {"none", "signal", "other"}]
  /\ skipped \in [Bundles -> Nat] /\ hurt \in [Bundles -> Nat]
  /\ available \in Seq(Worker) /\ lease \in [Bundles -> Worker \cup {NoWorker}]

(* The worker of an export knows its context, unless it is dead. *)
LeaseClean(b) ==
  /\ at[b] \in Leased => lease[b] \in Worker
  /\ at[b] \in {"cpu", "queue", "open"} => skipped[b] = 0
  /\ at[b] \in Leased /\ skipped[b] > 0 => lease[b].dead
  /\ at[b] \in {"open", "finish"} => lease[b].dead \/ ~lease[b].open
  /\ at[b] \in Reading => lease[b].dead \/ lease[b].open

(* What an export has suffered: an error of its own, or a dead worker, which *)
(* in its second attempt is its own as well.                                 *)
Owns(b) ==
  /\ at[b] \in Leased /\ exclusive[b] /\ lease[b].dead => hurt[b] > 0
  /\ at[b] \in Reading \cup {"kill"} /\ unpack[b] = "other" => hurt[b] > 0
  /\ at[b] \in Reading \cup {"kill"} /\ unpack[b] = "signal" => lease[b].dead
  /\ at[b] = "kill" => unpack[b] # "none"
  /\ at[b] = "failed" => hurt[b] > 0

(* The inductive invariant. *)
PoolInv ==
  /\ PoolTypes
  /\ \A b \in Bundles : LeaseClean(b) /\ Owns(b)
  /\ PoolClean
--------------------------------------------------------------------------------
(* Taking workers out of the pool leaves a part of it ... *)
LEMMA PoolPart ==
  ASSUME NEW W, NEW s \in Seq(W), NEW i \in DOMAIN s
  PROVE  /\ RemoveAt(s, i) \in Seq(W)
         /\ \A k \in DOMAIN RemoveAt(s, i) : \E j \in DOMAIN s : RemoveAt(s, i)[k] = s[j]
<1>1. Len(s) \in Nat /\ i \in 1..Len(s) /\ DOMAIN s = 1..Len(s)
  OBVIOUS
<1> DEFINE p == SubSeq(s, 1, i - 1)
           q == SubSeq(s, i + 1, Len(s))
<1>2. p \in Seq(W) /\ Len(p) = i - 1 /\ \A k \in 1..(i - 1) : p[k] = s[k]
  BY <1>1
<1>3. q \in Seq(W) /\ Len(q) = Len(s) - i /\ \A k \in 1..(Len(s) - i) : q[k] = s[i + k]
  BY <1>1
<1> HIDE DEF p, q
<1> DEFINE t == p \o q
<1>4. /\ t \in Seq(W) /\ Len(t) = Len(p) + Len(q)
      /\ \A k \in 1..(Len(p) + Len(q)) : t[k] = IF k <= Len(p) THEN p[k] ELSE q[k - Len(p)]
  BY <1>2, <1>3, ConcatProperties, Zenon
<1> HIDE DEF t
<1>5. DOMAIN t = 1..Len(t)
  BY <1>4
<1>6. \A k \in DOMAIN t : /\ k \in 1..(Len(s) - 1)
                         /\ t[k] = IF k <= i - 1 THEN p[k] ELSE q[k - (i - 1)]
  BY <1>1, <1>2, <1>3, <1>4, <1>5
<1>7. ASSUME NEW k \in DOMAIN t PROVE \E j \in DOMAIN s : t[k] = s[j]
  <2>1. CASE k <= i - 1
    BY <1>1, <1>2, <1>6, <2>1
  <2>2. CASE ~(k <= i - 1)
    <3>1. k - (i - 1) \in 1..(Len(s) - i) /\ i + (k - (i - 1)) \in DOMAIN s
      BY <1>1, <1>6, <2>2
    <3>2. t[k] = s[i + (k - (i - 1))]
      BY <1>3, <1>6, <2>2, <3>1, Zenon
    <3> QED
      BY <3>1, <3>2, Zenon
  <2> QED
    BY <2>1, <2>2, Zenon
<1> QED
  BY <1>4, <1>7, Zenon DEF RemoveAt, t, p, q

(* ... and so does taking the one that was used last. *)
LEMMA PoolPopped ==
  ASSUME NEW s \in Seq(Worker), s # <<>>
  PROVE  /\ Top(s) \in Worker /\ \E j \in DOMAIN s : Top(s) = s[j]
         /\ Pop(s) \in Seq(Worker)
         /\ \A k \in DOMAIN Pop(s) : \E j \in DOMAIN s : Pop(s)[k] = s[j]
<1>1. Len(s) \in Nat \ {0} /\ DOMAIN s = 1..Len(s)
  OBVIOUS
<1>2. /\ SubSeq(s, 1, Len(s) - 1) \in Seq(Worker) /\ Len(SubSeq(s, 1, Len(s) - 1)) = Len(s) - 1
      /\ DOMAIN SubSeq(s, 1, Len(s) - 1) = 1..(Len(s) - 1)
      /\ \A k \in 1..(Len(s) - 1) : SubSeq(s, 1, Len(s) - 1)[k] = s[k]
  BY <1>1
<1>3. Len(s) \in DOMAIN s /\ s[Len(s)] \in Worker
  BY <1>1
<1> QED
  BY <1>1, <1>2, <1>3 DEF Top, Pop
--------------------------------------------------------------------------------
(* What a call that succeeds changes of a worker ... *)
LEMMA WorkerAnswers ==
  ASSUME NEW v \in Worker, NEW n \in Nat, NEW o \in BOOLEAN
  PROVE  LET w == [v EXCEPT !.calls = n, !.open = o]
         IN  w \in Worker /\ (w.dead <=> v.dead) /\ (w.open <=> o)
BY Zenon DEF Worker

(* ... and one that kills it. *)
LEMMA WorkerDies ==
  ASSUME NEW v \in Worker
  PROVE  LET w == [v EXCEPT !.dead = TRUE] IN w \in Worker /\ w.dead /\ (w.open <=> v.open)
BY Zenon DEF Worker

(* PooledWorker::call, as the invariant sees it. *)
LEMMA Called ==
  ASSUME PoolTypes, NEW b \in Bundles, NEW outcome \in Outcomes, Call(b, outcome),
         lease[b] \in Worker
  PROVE  /\ lease' \in [Bundles -> Worker \cup {NoWorker}] /\ lease'[b] \in Worker
         /\ hurt' \in [Bundles -> Nat]
         /\ \A c \in Bundles \ {b} : lease'[c] = lease[c] /\ hurt'[c] = hurt[c]
         /\ hurt[b] > 0 => hurt'[b] > 0
         /\ outcome = "ok" =>
              /\ ~lease[b].dead /\ ~lease'[b].dead
              /\ at[b] \in {"open", "close"} => (lease'[b].open <=> ~lease[b].open)
              /\ at[b] \notin {"open", "close"} => (lease'[b].open <=> lease[b].open)
         /\ outcome # "ok" => (lease'[b].open <=> lease[b].open)
         /\ outcome = "signal" => lease'[b].dead
         /\ outcome = "other" => hurt'[b] > 0
         /\ lease[b].dead => lease'[b].dead
         /\ lease'[b].dead => lease[b].dead \/ hurt'[b] > 0
<1>0. /\ lease \in [Bundles -> Worker \cup {NoWorker}] /\ hurt \in [Bundles -> Nat]
      /\ lease[b] = [dead |-> lease[b].dead, open |-> lease[b].open, calls |-> lease[b].calls]
      /\ lease[b].dead \in BOOLEAN /\ lease[b].open \in BOOLEAN /\ lease[b].calls \in Nat
  BY Zenon DEF PoolTypes, Worker
<1>1. CASE outcome = "ok"
  <2>1. ~lease[b].dead /\ UNCHANGED hurt
    BY <1>1, Zenon DEF Call
  <2>2. lease' = [lease EXCEPT ![b].calls = @ + 1,
                               ![b].open = IF at[b] \in {"open", "close"} THEN ~@ ELSE @]
    BY <1>1, Zenon DEF Call
  <2> DEFINE o == IF at[b] \in {"open", "close"} THEN ~lease[b].open ELSE lease[b].open
             n == lease[b].calls + 1
             w == [lease[b] EXCEPT !.calls = n, !.open = o]
  <2>3. o \in BOOLEAN
    BY <1>0, Zenon
  <2>n. n \in Nat
    BY <1>0
  <2>4. lease' = [lease EXCEPT ![b] = w]
    BY <1>0, <2>2, Zenon
  <2> HIDE DEF o, n
  <2>5. w \in Worker /\ (w.dead <=> lease[b].dead) /\ (w.open <=> o)
    BY <2>3, <2>n, WorkerAnswers, Zenon
  <2> HIDE DEF w
  <2>6. /\ lease' \in [Bundles -> Worker \cup {NoWorker}] /\ lease'[b] = w
        /\ \A c \in Bundles \ {b} : lease'[c] = lease[c]
    BY <1>0, <2>4, <2>5, Zenon
  <2> QED
    BY <1>0, <1>1, <2>1, <2>5, <2>6, Zenon DEF o
<1>2. CASE outcome # "ok"
  <2>1. CASE outcome = "signal" /\ lease[b].dead /\ UNCHANGED <<lease, hurt>>
    BY <1>0, <2>1, Zenon
  <2>2. CASE hurt' = [hurt EXCEPT ![b] = @ + 1] /\ lease' = [lease EXCEPT ![b].dead = TRUE]
    <3> DEFINE w == [lease[b] EXCEPT !.dead = TRUE]
    <3>1. lease' = [lease EXCEPT ![b] = w]
      BY <1>0, <2>2, Zenon
    <3>2. w \in Worker /\ w.dead /\ (w.open <=> lease[b].open)
      BY WorkerDies, Zenon
    <3> HIDE DEF w
    <3>3. /\ lease' \in [Bundles -> Worker \cup {NoWorker}] /\ lease'[b] = w
          /\ \A c \in Bundles \ {b} : lease'[c] = lease[c]
      BY <1>0, <3>1, <3>2, Zenon
    <3>4. hurt' \in [Bundles -> Nat] /\ hurt'[b] > 0 /\ \A c \in Bundles \ {b} : hurt'[c] = hurt[c]
      BY <1>0, <2>2
    <3> QED
      BY <1>0, <1>2, <3>2, <3>3, <3>4, Zenon
  <2>3. CASE outcome = "other" /\ hurt' = [hurt EXCEPT ![b] = @ + 1] /\ UNCHANGED lease
    BY <1>0, <2>3
  <2> QED
    BY <1>2, <2>1, <2>2, <2>3, Zenon DEF Call
<1> QED
  BY <1>1, <1>2, Zenon
--------------------------------------------------------------------------------
(* A step leaves the export of c as it is. *)
Same(c) ==
  /\ at'[c] = at[c] /\ exclusive'[c] = exclusive[c] /\ unpack'[c] = unpack[c]
  /\ skipped'[c] = skipped[c] /\ hurt'[c] = hurt[c] /\ lease'[c] = lease[c]

(* A step of one export disturbs nothing that the invariant says of another. *)
LEMMA StepOfOne ==
  ASSUME PoolInv, NEW b \in Bundles, PoolTypes', \A c \in Bundles \ {b} : Same(c),
         LeaseClean(b)', Owns(b)', PoolClean'
  PROVE  PoolInv'
<1>1. ASSUME NEW c \in Bundles \ {b} PROVE LeaseClean(c)'
  BY <1>1, Zenon DEF PoolInv, Same, LeaseClean
<1>2. ASSUME NEW c \in Bundles \ {b} PROVE Owns(c)'
  BY <1>2 DEF PoolInv, Same, Owns
<1> QED
  BY <1>1, <1>2, Zenon DEF PoolInv

(* A call of the export of b: what it may do to at, unpack and skipped. *)
CallStep(b, outcome, to, error, n) ==
  /\ Call(b, outcome) /\ at[b] \in Leased
  /\ at' = [at EXCEPT ![b] = to] /\ unpack' = [unpack EXCEPT ![b] = error]
  /\ skipped' = [skipped EXCEPT ![b] = n] /\ UNCHANGED <<exclusive, available>>
  /\ n > 0 => skipped[b] > 0 \/ outcome = "signal"
  /\ to \in Reading => \/ at[b] \in Reading \ {"close"}
                       \/ at[b] = "open" /\ outcome = "ok"
  /\ to = "finish" => at[b] = "close" /\ (outcome = "ok" \/ skipped[b] > 0)
  /\ error = "other" => outcome = "other" \/ (at[b] = "close" /\ unpack[b] = "other")
  /\ error = "signal" => outcome = "signal" \/ (at[b] = "close" /\ unpack[b] = "signal")
  /\ to = "kill" => error # "none"

(* Every such call keeps the invariant. *)
LEMMA StepOfCall ==
  ASSUME PoolInv, NEW b \in Bundles, NEW outcome \in Outcomes,
         NEW to \in Reading \cup {"finish", "kill"}, NEW error \in {"none", "signal", "other"},
         NEW n \in Nat, CallStep(b, outcome, to, error, n)
  PROVE  PoolInv'
<1>0. lease[b] \in Worker /\ PoolTypes /\ LeaseClean(b) /\ Owns(b) /\ PoolClean
  BY Zenon DEF PoolInv, LeaseClean, CallStep
<1>1. PoolTypes'
  <2>1. to \in {"cpu", "queue"} \cup Leased \cup Over
    BY Zenon DEF Reading, Leased, Over
  <2> QED
    BY <1>0, <2>1, Called, Zenon DEF PoolTypes, CallStep
<1>2. \A c \in Bundles \ {b} : Same(c)
  BY <1>0, Called DEF Same, PoolTypes, CallStep
<1>3. /\ at'[b] = to /\ unpack'[b] = error /\ skipped'[b] = n /\ exclusive'[b] = exclusive[b]
  BY <1>0, Zenon DEF PoolTypes, CallStep
<1>4. LeaseClean(b)'
  <2>1. lease'[b] \in Worker
    BY <1>0, Called, Zenon DEF CallStep
  <2>2. n > 0 => lease'[b].dead
    BY <1>0, Called, Zenon DEF CallStep, LeaseClean
  <2>3. to = "finish" => lease'[b].dead \/ ~lease'[b].open
    BY <1>0, Called, Zenon DEF CallStep, LeaseClean, Reading, Outcomes
  <2>4. to \in Reading => lease'[b].dead \/ lease'[b].open
    BY <1>0, Called, Zenon DEF CallStep, LeaseClean, Reading, Outcomes
  <2> QED
    BY <1>3, <2>1, <2>2, <2>3, <2>4, Zenon DEF LeaseClean, Reading
<1>5. Owns(b)'
  <2>1. exclusive[b] /\ lease'[b].dead => hurt'[b] > 0
    BY <1>0, Called, Zenon DEF CallStep, Owns
  <2>2. to \in Reading \cup {"kill"} /\ error = "other" => hurt'[b] > 0
    BY <1>0, Called, Zenon DEF CallStep, Owns, Reading
  <2>3. to \in Reading \cup {"kill"} /\ error = "signal" => lease'[b].dead
    BY <1>0, Called, Zenon DEF CallStep, Owns, Reading
  <2> QED
    BY <1>3, <2>1, <2>2, <2>3, Zenon DEF CallStep, Owns, Reading
<1>6. PoolClean'
  BY <1>0, Zenon DEF PoolClean, Recycles, CallStep
<1> QED
  BY <1>1, <1>2, <1>4, <1>5, <1>6, StepOfOne, Zenon

(* The calls of an export. *)
LEMMA CallSteps ==
  ASSUME PoolInv, NEW b \in Bundles,
         Open(b) \/ ListObjects(b) \/ ReadData(b) \/ ReadImage(b) \/ Close(b)
  PROVE  PoolInv'
<1>0. /\ skipped \in [Bundles -> Nat] /\ skipped[b] \in Nat
      /\ unpack[b] \in {"none", "signal", "other"}
      /\ skipped = [skipped EXCEPT ![b] = skipped[b]]
  BY Zenon DEF PoolInv, PoolTypes
<1>1. CASE Open(b)
  <2>1. PICK outcome \in Outcomes, next \in {"list", "data"} :
          /\ Moves(b, "open", IF outcome = "ok" THEN next ELSE "kill") /\ Call(b, outcome)
          /\ unpack' = [unpack EXCEPT ![b] = ErrorOf(outcome)]
          /\ UNCHANGED <<exclusive, skipped, pool>>
    BY <1>1, Zenon DEF Open
  <2> DEFINE to == IF outcome = "ok" THEN next ELSE "kill"
  <2>2. to \in Reading \cup {"kill"} /\ ErrorOf(outcome) \in {"none", "signal", "other"}
    BY Zenon DEF Reading, ErrorOf, Outcomes
  <2>3. at[b] = "open" /\ at[b] \in Leased /\ at' = [at EXCEPT ![b] = to]
    BY <2>1, Zenon DEF Moves, Leased
  <2>4. (to # "kill" => outcome = "ok") /\ (to = "kill" => outcome # "ok") /\ to # "finish"
    BY Zenon
  <2> HIDE DEF to
  <2>5. CallStep(b, outcome, to, ErrorOf(outcome), skipped[b])
    BY <1>0, <2>1, <2>3, <2>4, Zenon DEF CallStep, ErrorOf, pool, Reading, Outcomes
  <2> QED
    BY <1>0, <2>2, <2>5, StepOfCall, Zenon
<1>2. ASSUME NEW from \in {"list", "data"}, NEW next \in Reading, Read(b, from, next)
      PROVE  PoolInv'
  <2>1. PICK outcome \in Outcomes :
          /\ Moves(b, from, IF outcome = "ok" THEN next ELSE "close") /\ Call(b, outcome)
          /\ unpack' = [unpack EXCEPT ![b] = ErrorOf(outcome)]
          /\ UNCHANGED <<exclusive, skipped, pool>>
    BY <1>2, Zenon DEF Read
  <2> DEFINE to == IF outcome = "ok" THEN next ELSE "close"
  <2>2. to \in Reading /\ ErrorOf(outcome) \in {"none", "signal", "other"}
    BY Zenon DEF Reading, ErrorOf, Outcomes
  <2>3. at[b] = from /\ at[b] \in Leased /\ at' = [at EXCEPT ![b] = to]
    BY <2>1, Zenon DEF Moves, Leased
  <2> HIDE DEF to
  <2>4. CallStep(b, outcome, to, ErrorOf(outcome), skipped[b])
    BY <1>0, <2>1, <2>2, <2>3, Zenon DEF CallStep, ErrorOf, pool, Reading, Outcomes
  <2> QED
    BY <1>0, <2>2, <2>4, StepOfCall, Zenon
<1>3. CASE ReadImage(b)
  <2>1. PICK outcome \in Outcomes, over \in BOOLEAN :
          /\ Moves(b, "image", IF outcome = "other" THEN "close"
                               ELSE IF over /\ Of(b, queued') # {} THEN "flush"
                               ELSE AfterRead(images[b] - 1))
          /\ Call(b, outcome)
          /\ skipped' = [skipped EXCEPT ![b] = IF outcome = "signal" THEN @ + 1 ELSE @]
          /\ unpack' = [unpack EXCEPT ![b] = IF outcome = "other" THEN "other" ELSE "none"]
          /\ UNCHANGED <<exclusive, pool>>
    BY <1>3, Zenon DEF ReadImage
  <2> DEFINE to == IF outcome = "other" THEN "close"
                   ELSE IF over /\ Of(b, queued') # {} THEN "flush"
                   ELSE AfterRead(images[b] - 1)
             error == IF outcome = "other" THEN "other" ELSE "none"
             n == IF outcome = "signal" THEN skipped[b] + 1 ELSE skipped[b]
  <2>2. to \in Reading /\ error \in {"none", "signal", "other"} /\ n \in Nat
    <3>1. to \in Reading /\ error \in {"none", "signal", "other"}
      BY Zenon DEF Reading, AfterRead
    <3> QED
      BY <1>0, <3>1
  <2>3. /\ at[b] = "image" /\ at[b] \in Leased /\ at' = [at EXCEPT ![b] = to]
        /\ unpack' = [unpack EXCEPT ![b] = error] /\ skipped' = [skipped EXCEPT ![b] = n]
    BY <2>1, Zenon DEF Moves, Leased
  <2>4. n > 0 => skipped[b] > 0 \/ outcome = "signal"
    BY Zenon
  <2>5. (error = "other" => outcome = "other") /\ error # "signal"
    BY Zenon
  <2> HIDE DEF to, error, n
  <2>6. CallStep(b, outcome, to, error, n)
    BY <2>1, <2>2, <2>3, <2>4, <2>5, Zenon DEF CallStep, pool, Reading
  <2> QED
    BY <2>2, <2>6, StepOfCall, Zenon
<1>4. CASE Close(b)
  <2>1. PICK outcome \in Outcomes :
          /\ Moves(b, "close", IF unpack[b] = "none" /\ (outcome = "ok" \/ Excused(b))
                               THEN "finish" ELSE "kill")
          /\ Call(b, outcome)
          /\ unpack' = [unpack EXCEPT ![b] = IF @ # "none" THEN @ ELSE ErrorOf(outcome)]
          /\ UNCHANGED <<exclusive, skipped, pool>>
    BY <1>4, Zenon DEF Close
  <2> DEFINE to == IF unpack[b] = "none" /\ (outcome = "ok" \/ Excused(b)) THEN "finish" ELSE "kill"
             error == IF unpack[b] # "none" THEN unpack[b] ELSE ErrorOf(outcome)
  <2>2. to \in {"finish", "kill"} /\ error \in {"none", "signal", "other"}
    BY <1>0, Zenon DEF ErrorOf, Outcomes
  <2>3. /\ at[b] = "close" /\ at[b] \in Leased /\ at' = [at EXCEPT ![b] = to]
        /\ unpack' = [unpack EXCEPT ![b] = error]
    BY <2>1, Zenon DEF Moves, Leased
  <2>4. /\ to = "finish" => outcome = "ok" \/ skipped[b] > 0
        /\ to = "kill" => error # "none"
    BY Zenon DEF Excused, ErrorOf, Outcomes
  <2>5. /\ error = "other" => outcome = "other" \/ unpack[b] = "other"
        /\ error = "signal" => outcome = "signal" \/ unpack[b] = "signal"
    BY Zenon DEF ErrorOf
  <2> HIDE DEF to, error
  <2>6. CallStep(b, outcome, to, error, skipped[b])
    BY <1>0, <2>1, <2>2, <2>3, <2>4, <2>5, Zenon DEF CallStep, pool, Reading
  <2> QED
    BY <1>0, <2>2, <2>6, StepOfCall, Zenon
<1>5. CASE ListObjects(b) \/ ReadData(b)
  <2>1. "data" \in Reading /\ AfterRead(Images[b]) \in Reading
    BY Zenon DEF Reading, AfterRead
  <2> QED
    BY <1>2, <1>5, <2>1, Zenon DEF ListObjects, ReadData
<1> QED
  BY <1>1, <1>3, <1>4, <1>5, Zenon

(* The steps of an export that leave the idle workers alone. *)
LEMMA QuietSteps ==
  ASSUME PoolInv, NEW b \in Bundles,
         \/ TakeCpu(b) \/ SpawnFails(b) \/ FlushTakesCpu(b) \/ Encoded(b) \/ FlushEnds(b)
         \/ KillLease(b) \/ Abort(b)
  PROVE  PoolInv'
<1>0. PoolTypes /\ LeaseClean(b) /\ Owns(b) /\ PoolClean
  BY Zenon DEF PoolInv
<1>1. UNCHANGED available
  BY Zenon DEF TakeCpu, SpawnFails, FlushTakesCpu, Encoded, FlushEnds, KillLease, Abort, pool
<1>2. PoolClean'
  BY <1>0, <1>1, Zenon DEF PoolClean, Recycles
<1>3. CASE TakeCpu(b)
  <2>1. PoolTypes' /\ \A c \in Bundles \ {b} : Same(c)
    BY <1>0, <1>3, Zenon DEF TakeCpu, Moves, PoolTypes, Same, progress
  <2>2. LeaseClean(b)' /\ Owns(b)'
    BY <1>0, <1>3, Zenon DEF TakeCpu, Moves, PoolTypes, LeaseClean, Owns, Leased, Reading, progress
  <2> QED
    BY <1>2, <2>1, <2>2, StepOfOne, Zenon
<1>4. CASE SpawnFails(b)
  <2>1. PoolTypes' /\ \A c \in Bundles \ {b} : Same(c)
    BY <1>0, <1>4 DEF SpawnFails, Moves, PoolTypes, Same, Over
  <2>2. LeaseClean(b)' /\ Owns(b)'
    BY <1>0, <1>4 DEF SpawnFails, Moves, PoolTypes, LeaseClean, Owns, Leased, Reading
  <2> QED
    BY <1>2, <2>1, <2>2, StepOfOne, Zenon
<1>5. CASE FlushTakesCpu(b)
  <2>1. UNCHANGED <<at, exclusive, unpack, skipped, hurt, lease>>
    BY <1>5, Zenon DEF FlushTakesCpu, progress
  <2>2. PoolTypes' /\ \A c \in Bundles \ {b} : Same(c)
    BY <1>0, <1>1, <2>1, Zenon DEF PoolTypes, Same
  <2>3. LeaseClean(b)' /\ Owns(b)'
    BY <1>0, <2>1, Zenon DEF LeaseClean, Owns
  <2> QED
    BY <1>2, <2>2, <2>3, StepOfOne, Zenon
<1>6. CASE Encoded(b)
  <2>1. /\ at[b] = "flush" /\ UNCHANGED <<at, exclusive, skipped, lease>>
        /\ \/ UNCHANGED <<unpack, hurt>>
           \/ /\ unpack' = [unpack EXCEPT ![b] = "other"]
              /\ hurt' = [hurt EXCEPT ![b] = @ + 1]
    BY <1>6, Zenon DEF Encoded
  <2>2. PoolTypes' /\ \A c \in Bundles \ {b} : Same(c)
    <3>1. CASE UNCHANGED <<unpack, hurt>>
      BY <1>0, <1>1, <2>1, <3>1, Zenon DEF PoolTypes, Same
    <3>2. CASE unpack' = [unpack EXCEPT ![b] = "other"] /\ hurt' = [hurt EXCEPT ![b] = @ + 1]
      BY <1>0, <1>1, <2>1, <3>2 DEF PoolTypes, Same
    <3> QED
      BY <2>1, <3>1, <3>2, Zenon
  <2>3. LeaseClean(b)' /\ Owns(b)'
    BY <1>0, <2>1 DEF PoolTypes, LeaseClean, Owns, Leased, Reading
  <2> QED
    BY <1>2, <2>2, <2>3, StepOfOne, Zenon
<1>9. CASE FlushEnds(b)
  <2>1. PICK to \in {"close", "image"} : at[b] = "flush" /\ at' = [at EXCEPT ![b] = to]
    BY <1>9, Zenon DEF FlushEnds, Moves, AfterRead
  <2>2. UNCHANGED <<exclusive, unpack, skipped, hurt, lease>> /\ to \in Leased
    BY <1>9, Zenon DEF FlushEnds, progress, Leased
  <2>3. PoolTypes' /\ \A c \in Bundles \ {b} : Same(c)
    BY <1>0, <1>1, <2>1, <2>2, Zenon DEF PoolTypes, Same
  <2>4. LeaseClean(b)' /\ Owns(b)'
    BY <1>0, <2>1, <2>2, Zenon DEF PoolTypes, LeaseClean, Owns, Leased, Reading
  <2> QED
    BY <1>2, <2>3, <2>4, StepOfOne, Zenon
<1>7. CASE KillLease(b)
  <2>1. at[b] = "kill" /\ lease' = [lease EXCEPT ![b] = NoWorker] /\ UNCHANGED unpack
    BY <1>7, Zenon DEF KillLease, Moves
  <2>2. CASE Retries(b)
    <3>1. /\ at' = [at EXCEPT ![b] = "cpu"] /\ exclusive' = [exclusive EXCEPT ![b] = TRUE]
          /\ skipped' = [skipped EXCEPT ![b] = 0] /\ hurt' = [hurt EXCEPT ![b] = 0]
      BY <1>7, <2>2, Zenon DEF KillLease, Moves
    <3>2. PoolTypes' /\ \A c \in Bundles \ {b} : Same(c)
      BY <1>0, <1>1, <2>1, <3>1, Zenon DEF PoolTypes, Same
    <3>3. LeaseClean(b)' /\ Owns(b)'
      BY <1>0, <3>1, Zenon DEF PoolTypes, LeaseClean, Owns, Leased, Reading
    <3> QED
      BY <1>2, <3>2, <3>3, StepOfOne, Zenon
  <2>3. CASE ~Retries(b)
    <3>1. at' = [at EXCEPT ![b] = "failed"] /\ UNCHANGED <<exclusive, skipped, hurt>>
      BY <1>7, <2>3, Zenon DEF KillLease, Moves
    <3>2. PoolTypes' /\ \A c \in Bundles \ {b} : Same(c)
      BY <1>0, <1>1, <2>1, <3>1, Zenon DEF PoolTypes, Same, Over
    <3>3. unpack[b] \in {"signal", "other"} /\ (unpack[b] = "signal" => exclusive[b])
      BY <1>0, <2>1, <2>3, Zenon DEF Retries, Owns, PoolTypes
    <3>4. hurt[b] > 0
      BY <1>0, <2>1, <3>3, Zenon DEF Owns, Leased
    <3>5. LeaseClean(b)' /\ Owns(b)'
      BY <1>0, <3>1, <3>4, Zenon DEF PoolTypes, LeaseClean, Owns, Leased, Reading
    <3> QED
      BY <1>2, <3>2, <3>5, StepOfOne, Zenon
  <2> QED
    BY <2>2, <2>3, Zenon
<1>8. CASE Abort(b)
  <2>1. /\ at' = [at EXCEPT ![b] = "aborted"] /\ lease' = [lease EXCEPT ![b] = NoWorker]
        /\ UNCHANGED <<exclusive, unpack, skipped, hurt>>
    BY <1>8, Zenon DEF Abort, progress
  <2>2. PoolTypes' /\ \A c \in Bundles \ {b} : Same(c)
    BY <1>0, <1>1, <2>1, Zenon DEF PoolTypes, Same, Over
  <2>3. LeaseClean(b)' /\ Owns(b)'
    BY <1>0, <2>1, Zenon DEF PoolTypes, LeaseClean, Owns, Leased, Reading
  <2> QED
    BY <1>2, <2>2, <2>3, StepOfOne, Zenon
<1> QED
  BY <1>3, <1>4, <1>5, <1>6, <1>7, <1>8, <1>9, Zenon

(* The worker of an export: taken from the pool, or a fresh one ... *)
LEMMA AcquireStep ==
  ASSUME PoolInv, NEW b \in Bundles, AcquireWorker(b) PROVE PoolInv'
<1>0. PoolTypes /\ LeaseClean(b) /\ Owns(b) /\ PoolClean
  BY Zenon DEF PoolInv
<1>1. /\ at[b] = "queue" /\ at' = [at EXCEPT ![b] = "open"] /\ "open" \in Leased
      /\ UNCHANGED <<exclusive, unpack, skipped, hurt>>
  BY Zenon DEF AcquireWorker, Moves, progress, Leased
<1>2. PICK w :
        /\ w \in Worker /\ (w.dead \/ ~w.open) /\ (exclusive[b] => ~w.dead)
        /\ lease' = [lease EXCEPT ![b] = w]
        /\ available' \in Seq(Worker) /\ PoolClean'
  <2>1. CASE /\ ~exclusive[b] /\ available # <<>>
             /\ lease' = [lease EXCEPT ![b] = Top(available)] /\ available' = Pop(available)
    <3>1. PICK j \in DOMAIN available : Top(available) = available[j]
      BY <1>0, <2>1, PoolPopped, Zenon DEF PoolTypes
    <3>2. Top(available) \in Worker /\ (Top(available).dead \/ ~Top(available).open)
      BY <1>0, <2>1, <3>1, PoolPopped, Zenon DEF PoolTypes, PoolClean
    <3>3. available' \in Seq(Worker) /\ PoolClean'
      BY <1>0, <2>1, PoolPopped DEF PoolTypes, PoolClean, Recycles
    <3> QED
      BY <2>1, <3>2, <3>3, Zenon
  <2>2. CASE lease' = [lease EXCEPT ![b] = FreshWorker] /\ UNCHANGED available
    <3>1. FreshWorker \in Worker /\ ~FreshWorker.dead /\ ~FreshWorker.open
      BY Zenon DEF FreshWorker, Worker
    <3>2. available' \in Seq(Worker) /\ PoolClean'
      BY <1>0, <2>2, Zenon DEF PoolTypes, PoolClean, Recycles
    <3> QED
      BY <2>2, <3>1, <3>2, Zenon
  <2> QED
    BY <2>1, <2>2, Zenon DEF AcquireWorker
<1>3. PoolTypes' /\ \A c \in Bundles \ {b} : Same(c)
  BY <1>0, <1>1, <1>2, Zenon DEF PoolTypes, Same
<1>4. LeaseClean(b)' /\ Owns(b)'
  BY <1>0, <1>1, <1>2 DEF PoolTypes, LeaseClean, Owns, Leased, Reading
<1> QED
  BY <1>2, <1>3, <1>4, StepOfOne, Zenon

(* ... and goes back to it. *)
LEMMA FinishStep ==
  ASSUME PoolInv, NEW b \in Bundles, FinishSuccess(b) PROVE PoolInv'
<1>0. PoolTypes /\ LeaseClean(b) /\ Owns(b) /\ PoolClean
  BY Zenon DEF PoolInv
<1>1. /\ at[b] = "finish" /\ at' = [at EXCEPT ![b] = "done"] /\ "done" \in Over
      /\ UNCHANGED <<exclusive, unpack, skipped, hurt>>
      /\ lease' = [lease EXCEPT ![b] = NoWorker]
  BY Zenon DEF FinishSuccess, Moves, progress, Over
<1>2. lease[b] \in Worker /\ (lease[b].dead \/ ~lease[b].open)
  BY <1>0, <1>1, Zenon DEF LeaseClean, Leased
<1>3. available' \in Seq(Worker) /\ PoolClean'
  <2>1. CASE Recycles(lease[b])
    <3>1. available' = available
      BY <2>1, Zenon DEF FinishSuccess
    <3> QED
      BY <1>0, <3>1, Zenon DEF PoolTypes, PoolClean, Recycles
  <2>2. CASE ~Recycles(lease[b])
    <3> DEFINE w == lease[b]
    <3>1. available' = Append(available, w) /\ available \in Seq(Worker) /\ w \in Worker
      BY <1>0, <1>2, <2>2, Zenon DEF FinishSuccess, PoolTypes
    <3>2. Usable(w) /\ \A i \in DOMAIN available : Usable(available[i])
      BY <1>0, <1>2, <2>2, Zenon DEF PoolClean, Usable
    <3> HIDE DEF w
    <3>3. available' \in Seq(Worker) /\ \A i \in DOMAIN available' : Usable(available'[i])
      BY <3>1, <3>2
    <3> QED
      BY <3>3, Zenon DEF PoolClean, Usable, Recycles
  <2> QED
    BY <2>1, <2>2, Zenon
<1>4. PoolTypes' /\ \A c \in Bundles \ {b} : Same(c)
  BY <1>0, <1>1, <1>3, Zenon DEF PoolTypes, Same
<1>5. LeaseClean(b)' /\ Owns(b)'
  BY <1>0, <1>1, Zenon DEF PoolTypes, LeaseClean, Owns, Leased, Reading
<1> QED
  BY <1>3, <1>4, <1>5, StepOfOne, Zenon

(* What happens to the idle workers meanwhile. *)
LEMMA IdleSteps ==
  ASSUME PoolInv, Reap \/ IdleWorkerDies PROVE PoolInv'
<1>0. PoolTypes /\ PoolClean
  BY Zenon DEF PoolInv
<1>1. UNCHANGED <<at, exclusive, unpack, skipped, hurt, lease>>
  BY Zenon DEF Reap, IdleWorkerDies, progress
<1>2. available' \in Seq(Worker) /\ PoolClean'
  <2>1. CASE Reap
    <3>1. PICK i \in DOMAIN available : available' = RemoveAt(available, i)
      BY <2>1, Zenon DEF Reap
    <3> QED
      BY <1>0, <3>1, PoolPart DEF PoolTypes, PoolClean, Recycles
  <2>2. CASE IdleWorkerDies
    <3>1. PICK i \in DOMAIN available : available' = [available EXCEPT ![i].dead = TRUE]
      BY <2>2, Zenon DEF IdleWorkerDies
    <3> DEFINE w == [available[i] EXCEPT !.dead = TRUE]
    <3>2. available \in Seq(Worker) /\ available[i] \in Worker
      BY <1>0, <3>1 DEF PoolTypes
    <3>3. w \in Worker /\ w.dead
      BY <3>2, WorkerDies, Zenon
    <3>4. available' = [available EXCEPT ![i] = w]
      BY <3>1, <3>2, Zenon
    <3> HIDE DEF w
    <3>5. /\ available' \in Seq(Worker) /\ DOMAIN available' = DOMAIN available /\ available'[i] = w
          /\ \A k \in DOMAIN available \ {i} : available'[k] = available[k]
      BY <3>2, <3>3, <3>4
    <3> QED
      BY <1>0, <3>3, <3>5, Zenon DEF PoolClean, Recycles
  <2> QED
    BY <2>1, <2>2, Zenon
<1>3. PoolTypes'
  BY <1>0, <1>1, <1>2, Zenon DEF PoolTypes
<1>4. \A b \in Bundles : LeaseClean(b)' /\ Owns(b)'
  BY <1>1, Zenon DEF PoolInv, LeaseClean, Owns
<1> QED
  BY <1>2, <1>3, <1>4, Zenon DEF PoolInv

(* The invariant is inductive. *)
LEMMA PoolStep == PoolInv /\ [Next]_vars => PoolInv'
<1> SUFFICES ASSUME PoolInv, [Next]_vars PROVE PoolInv'
  BY Zenon
<1>1. ASSUME NEW b \in Bundles, Export(b) \/ Abort(b) PROVE PoolInv'
  BY <1>1, CallSteps, QuietSteps, AcquireStep, FinishStep, Zenon DEF Export
<1>2. CASE UNCHANGED vars
  BY <1>2, Zenon DEF vars, progress, pool, PoolInv, PoolTypes, LeaseClean, Owns, PoolClean, Recycles
<1> QED
  BY <1>1, <1>2, IdleSteps, Zenon DEF Next

(* The pool starts empty, with every export waiting for its CPU permit. *)
LEMMA PoolInit == Init => PoolInv
<1> SUFFICES ASSUME Init PROVE PoolInv
  BY Zenon
<1>1. PoolTypes
  BY DEF Init, PoolTypes
<1>2. PoolClean
  BY DEF Init, PoolClean
<1>3. \A b \in Bundles : LeaseClean(b) /\ Owns(b)
  BY Zenon DEF Init, LeaseClean, Owns, Leased, Reading
<1> QED
  BY <1>1, <1>2, <1>3, Zenon DEF PoolInv

(* return_or_recycle_worker: whatever crashes, is dropped or fails, an idle *)
(* worker that lives is below its call limit and has no context of an       *)
(* earlier bundle open.                                                     *)
THEOREM PoolStaysClean == Spec => []PoolClean
<1>1. PoolInv => PoolClean
  BY Zenon DEF PoolInv
<1> QED
  BY <1>1, PoolInit, PoolStep, PTL DEF Spec

(* run_assetstudio_ffi_object_export: an export fails only for a failure    *)
(* that hit its own calls in its last attempt, however many workers died    *)
(* under the other exports or in the pool.                                  *)
THEOREM FailuresAreOwned == Spec => []FailuresOwned
<1>1. PoolInv => FailuresOwned
  BY Zenon DEF PoolInv, Owns, FailuresOwned
<1> QED
  BY <1>1, PoolInit, PoolStep, PTL DEF Spec
--------------------------------------------------------------------------------
(* The permits.  An export takes and gives back its own, so what it has and *)
(* what the others have are counted apart.                                  *)
OnCpu == {b \in Bundles : at[b] = "queue"}
CpuOf(b) == IF at[b] \in Leased \cup {"queue"} THEN 1 ELSE 0
PartOf(b) == IF at[b] \in Leased THEN Need(b) ELSE 0
PermitsOfOthers(b) == UNION {{c} \X (1..Need(c)) : c \in InLease \ {b}}

(* TypeOK but for what PoolTypes has. *)
LeaseTypes ==
  /\ images \in [Bundles -> Nat]
  /\ queued \subseteq Image /\ encoding \subseteq Image /\ IsFiniteSet(encoding)
  /\ cpu \in 0..CpuMax /\ permits \in Nat
  /\ queue \in Seq(Bundles) /\ recovery \in Seq(Bundles) /\ faults \in 0..MaxFaults

(* Where no image has been read yet. *)
Unread == {"cpu", "queue", "open", "list", "data"}

(* An image is read or skipped once, and a worker is held in a lease. *)
Counted(b) ==
  /\ images[b] + skipped[b] <= Images[b]
  /\ at[b] \in Unread => images[b] = Images[b]
  /\ at[b] = "image" => images[b] > 0
  /\ at[b] \notin Leased => lease[b] = NoWorker

(* An image is encoded once, during the flush of its export. *)
Apart == queued \cap encoding = {} /\ \A i \in encoding : at[i[1]] = "flush"

(* The inductive invariant of the permits, on top of PoolInv. *)
LeaseInv ==
  /\ LeaseTypes /\ Apart
  /\ \A b \in Bundles : Counted(b)
  /\ permits + Cardinality(Permits) = PoolSize
  /\ cpu = Cardinality(InLease) + Cardinality(OnCpu) + Cardinality(encoding)

(* One element of a finite set. *)
LEMMA CountOne ==
  ASSUME NEW S, IsFiniteSet(S), NEW b
  PROVE  /\ Cardinality(S) \in Nat /\ Cardinality(S \ {b}) \in Nat
         /\ b \in S => Cardinality(S) = Cardinality(S \ {b}) + 1
         /\ b \notin S => S \ {b} = S
<1>1. IsFiniteSet(S \ {b}) /\ Cardinality(S) \in Nat /\ Cardinality(S \ {b}) \in Nat
  BY FS_Subset, FS_CardinalityType, Zenon
<1>2. CASE b \in S
  <2>1. Cardinality(S \ {b}) = Cardinality(S) - 1
    BY <1>2, FS_RemoveElement, Zenon
  <2> QED
    BY <1>1, <1>2, <2>1
<1> QED
  BY <1>1, <1>2, Zenon

(* n permits of one export. *)
LEMMA Column ==
  ASSUME NEW b, NEW n \in Nat
  PROVE  IsFiniteSet({b} \X (1..n)) /\ Cardinality({b} \X (1..n)) = n
<1> DEFINE name == {b}
           numbers == 1..n
<1>1. IsFiniteSet(numbers) /\ Cardinality(numbers) = n
  BY FS_Interval
<1>2. IsFiniteSet(name) /\ Cardinality(name) = 1
  BY FS_Singleton, Zenon
<1>3. name \X numbers = {b} \X (1..n)
  OBVIOUS
<1> HIDE DEF name, numbers
<1>4. /\ IsFiniteSet(name \X numbers)
      /\ Cardinality(name \X numbers) = Cardinality(name) * Cardinality(numbers)
  BY <1>1, <1>2, FS_Product, Zenon
<1>5. Cardinality(name) * Cardinality(numbers) = n
  BY <1>1, <1>2
<1> QED
  BY <1>3, <1>4, <1>5, Zenon

(* The permits of one export and those of the others. *)
Divides ==
  \A b \in Bundles :
    /\ IsFiniteSet(Permits) /\ Cardinality(Permits) \in Nat
    /\ Cardinality(PermitsOfOthers(b)) \in Nat
    /\ Cardinality(Permits) = Cardinality(PermitsOfOthers(b)) + PartOf(b)

(* They do: both sets are finite, and the export's own have its name on them. *)
LEMMA Split == Divides
<1> SUFFICES ASSUME NEW b \in Bundles
             PROVE  /\ IsFiniteSet(Permits) /\ Cardinality(Permits) \in Nat
                    /\ Cardinality(PermitsOfOthers(b)) \in Nat
                    /\ Cardinality(Permits) = Cardinality(PermitsOfOthers(b)) + PartOf(b)
  BY Zenon DEF Divides
<1>1. \A c \in Bundles : Need(c) \in {1, PoolSize}
  BY Zenon DEF Need
<1>2. PoolSize \in Nat \ {0}
  BY LimitsAssumption, Zenon
<1>3. IsFiniteSet(Bundles \X (1..PoolSize))
  <2>1. IsFiniteSet(1..PoolSize)
    BY <1>2, FS_Interval
  <2> QED
    BY <2>1, BundlesAssumption, FS_Product, Zenon
<1>4. \A c \in Bundles : 1..Need(c) \subseteq 1..PoolSize
  BY <1>1, <1>2
<1>5. /\ Permits \subseteq Bundles \X (1..PoolSize)
      /\ PermitsOfOthers(b) \subseteq Bundles \X (1..PoolSize)
  <2>1. \A c \in InLease : {c} \X (1..Need(c)) \subseteq Bundles \X (1..PoolSize)
    <3> SUFFICES ASSUME NEW c \in InLease, NEW k \in 1..Need(c)
                 PROVE  c \in Bundles /\ k \in 1..PoolSize
      BY Zenon
    <3> QED
      BY <1>4, Zenon DEF InLease
  <2> QED
    BY <2>1, Zenon DEF Permits, PermitsOfOthers
<1>6. /\ IsFiniteSet(Permits) /\ Cardinality(Permits) \in Nat
      /\ IsFiniteSet(PermitsOfOthers(b)) /\ Cardinality(PermitsOfOthers(b)) \in Nat
  BY <1>3, <1>5, FS_Subset, FS_CardinalityType, Zenon
<1>7. CASE at[b] \notin Leased
  <2>1. Permits = PermitsOfOthers(b) /\ PartOf(b) = 0
    BY <1>7, Zenon DEF Permits, PermitsOfOthers, InLease, PartOf
  <2> QED
    BY <1>6, <2>1
<1>8. CASE at[b] \in Leased
  <2> DEFINE own == {b} \X (1..Need(b))
  <2>1. Need(b) \in Nat /\ PartOf(b) = Need(b)
    BY <1>1, <1>2, <1>8 DEF PartOf
  <2>2. IsFiniteSet(own) /\ Cardinality(own) = Need(b)
    BY <2>1, Column, Zenon
  <2>3. Permits = PermitsOfOthers(b) \cup own
    BY <1>8, Zenon DEF Permits, PermitsOfOthers, InLease
  <2>4. PermitsOfOthers(b) \cap own = {}
    <3>1. ASSUME NEW p \in PermitsOfOthers(b) PROVE p[1] # b
      <4>1. PICK c \in InLease \ {b} : p \in {c} \X (1..Need(c))
        BY <3>1, Zenon DEF PermitsOfOthers
      <4> QED
        BY <4>1
    <3>2. ASSUME NEW p \in own PROVE p[1] = b
      BY <3>2
    <3> QED
      BY <3>1, <3>2, Zenon
  <2> HIDE DEF own
  <2>5. /\ Cardinality(PermitsOfOthers(b) \cup own) = Cardinality(PermitsOfOthers(b))
             + Cardinality(own) - Cardinality(PermitsOfOthers(b) \cap own)
        /\ Cardinality(PermitsOfOthers(b) \cap own) = 0
    BY <1>6, <2>2, <2>4, FS_Union, FS_EmptySet, Zenon
  <2> QED
    BY <1>6, <2>1, <2>2, <2>3, <2>5
<1> QED
  BY <1>7, <1>8, Zenon

(* The CPU permits of one export and those of the others. *)
CpuDivides ==
  \A b \in Bundles :
    /\ Cardinality(InLease \ {b}) \in Nat /\ Cardinality(OnCpu \ {b}) \in Nat
    /\ Cardinality(InLease) + Cardinality(OnCpu)
         = Cardinality(InLease \ {b}) + Cardinality(OnCpu \ {b}) + CpuOf(b)

(* An export has one of its own; its encoders have theirs apart from it. *)
LEMMA CpuSplit == CpuDivides
<1> SUFFICES ASSUME NEW b \in Bundles
             PROVE  /\ Cardinality(InLease \ {b}) \in Nat /\ Cardinality(OnCpu \ {b}) \in Nat
                    /\ Cardinality(InLease) + Cardinality(OnCpu)
                         = Cardinality(InLease \ {b}) + Cardinality(OnCpu \ {b}) + CpuOf(b)
  BY Zenon DEF CpuDivides
<1>1. IsFiniteSet(InLease) /\ IsFiniteSet(OnCpu)
  BY BundlesAssumption, FS_Subset, Zenon DEF InLease, OnCpu
<1> DEFINE c(S) == IF b \in S THEN 1 ELSE 0
<1>2. ASSUME NEW S, IsFiniteSet(S)
      PROVE  Cardinality(S \ {b}) \in Nat /\ Cardinality(S) = Cardinality(S \ {b}) + c(S)
  <2>1. /\ Cardinality(S) \in Nat /\ Cardinality(S \ {b}) \in Nat
        /\ b \in S => Cardinality(S) = Cardinality(S \ {b}) + 1
        /\ b \notin S => S \ {b} = S
    BY <1>2, CountOne, Zenon
  <2>2. CASE b \in S
    BY <2>1, <2>2, Zenon
  <2>3. CASE b \notin S
    <3>1. c(S) = 0 /\ Cardinality(S) = Cardinality(S \ {b})
      BY <2>1, <2>3, Zenon
    <3> HIDE DEF c
    <3> QED
      BY <2>1, <3>1
  <2> QED
    BY <2>2, <2>3, Zenon
<1>3. c(InLease) + c(OnCpu) = CpuOf(b) /\ c(InLease) \in Nat /\ c(OnCpu) \in Nat
  BY DEF InLease, OnCpu, CpuOf, Leased
<1>4. /\ Cardinality(InLease \ {b}) \in Nat
      /\ Cardinality(InLease) = Cardinality(InLease \ {b}) + c(InLease)
  BY <1>1, <1>2, Zenon
<1>5. /\ Cardinality(OnCpu \ {b}) \in Nat
      /\ Cardinality(OnCpu) = Cardinality(OnCpu \ {b}) + c(OnCpu)
  BY <1>1, <1>2, Zenon
<1> HIDE DEF c
<1> QED
  BY <1>3, <1>4, <1>5

(* A step of one export that balances its own permits keeps both counts. *)
LEMMA Balanced ==
  ASSUME LeaseInv, NEW b \in Bundles,
         \A c \in Bundles \ {b} : at'[c] = at[c] /\ exclusive'[c] = exclusive[c],
         encoding' = encoding, permits' \in Nat, permits' + PartOf(b)' = permits + PartOf(b),
         cpu' \in Nat, cpu' + CpuOf(b) = cpu + CpuOf(b)'
  PROVE  /\ permits' + Cardinality(Permits)' = PoolSize
         /\ cpu' = Cardinality(InLease)' + Cardinality(OnCpu)' + Cardinality(encoding)'
<1>1. PermitsOfOthers(b)' = PermitsOfOthers(b)
  <2>1. (InLease \ {b})' = InLease \ {b}
    BY Zenon DEF InLease
  <2>2. \A c \in InLease \ {b} : Need(c)' = Need(c)
    BY Zenon DEF Need, InLease
  <2> QED
    BY <2>1, <2>2, Zenon DEF PermitsOfOthers
<1>2. (InLease \ {b})' = InLease \ {b} /\ (OnCpu \ {b})' = OnCpu \ {b}
  BY Zenon DEF InLease, OnCpu
<1>3. Divides' /\ CpuDivides'
  BY Split, CpuSplit, PTL
<1>4. /\ Cardinality(PermitsOfOthers(b)) \in Nat
      /\ Cardinality(Permits) = Cardinality(PermitsOfOthers(b)) + PartOf(b)
      /\ Cardinality(Permits)' = Cardinality(PermitsOfOthers(b)) + PartOf(b)'
  BY <1>1, <1>3, Split, Zenon DEF Divides
<1>5. /\ Cardinality(InLease \ {b}) \in Nat /\ Cardinality(OnCpu \ {b}) \in Nat
      /\ Cardinality(InLease) + Cardinality(OnCpu)
           = Cardinality(InLease \ {b}) + Cardinality(OnCpu \ {b}) + CpuOf(b)
      /\ Cardinality(InLease)' + Cardinality(OnCpu)'
           = Cardinality(InLease \ {b}) + Cardinality(OnCpu \ {b}) + CpuOf(b)'
  BY <1>2, <1>3, CpuSplit, Zenon DEF CpuDivides
<1>6. PartOf(b) \in Nat /\ PartOf(b)' \in Nat /\ CpuOf(b) \in Nat /\ CpuOf(b)' \in Nat
  BY LimitsAssumption DEF PartOf, Need, CpuOf
<1>7. /\ permits \in Nat /\ permits + Cardinality(Permits) = PoolSize
      /\ cpu = Cardinality(InLease) + Cardinality(OnCpu) + Cardinality(encoding)
      /\ Cardinality(encoding) \in Nat /\ Cardinality(encoding)' = Cardinality(encoding)
  BY FS_CardinalityType, Zenon DEF LeaseInv, LeaseTypes
<1>8. permits' + Cardinality(Permits)' = PoolSize
  BY <1>4, <1>6, <1>7
<1> DEFINE others == Cardinality(InLease \ {b}) + Cardinality(OnCpu \ {b})
<1>9. others \in Nat /\ cpu = others + CpuOf(b) + Cardinality(encoding)
  BY <1>5, <1>7
<1>10. Cardinality(InLease)' + Cardinality(OnCpu)' = others + CpuOf(b)'
  BY <1>5, Zenon
<1> HIDE DEF others
<1>11. cpu' = others + CpuOf(b)' + Cardinality(encoding)'
  BY <1>6, <1>7, <1>9
<1> QED
  BY <1>8, <1>10, <1>11, Zenon

(* No CPU permit is given back that was not taken. *)
LEMMA CpuTaken ==
  ASSUME LeaseInv, NEW b \in Bundles
  PROVE  cpu \in Nat /\ cpu <= CpuMax /\ CpuOf(b) <= cpu
<1>1. /\ Cardinality(InLease \ {b}) \in Nat /\ Cardinality(OnCpu \ {b}) \in Nat
      /\ cpu = Cardinality(InLease \ {b}) + Cardinality(OnCpu \ {b}) + CpuOf(b)
                 + Cardinality(encoding)
      /\ Cardinality(encoding) \in Nat
  BY CpuSplit, FS_CardinalityType, Zenon DEF CpuDivides, LeaseInv, LeaseTypes
<1>2. CpuOf(b) \in Nat
  BY DEF CpuOf
<1>3. cpu \in 0..CpuMax /\ CpuMax \in Nat
  BY LimitsAssumption, Zenon DEF LeaseInv, LeaseTypes
<1> QED
  BY <1>1, <1>2, <1>3

(* What an export does with its permits. *)
SameCpu(b) == CpuOf(b)' = CpuOf(b) /\ cpu' = cpu
OneMore(b) == CpuOf(b)' = CpuOf(b) + 1 /\ cpu' = cpu + 1 /\ FreeCpu
OneLess(b) == CpuOf(b) = CpuOf(b)' + 1 /\ cpu' = cpu - 1
SamePart(b) == PartOf(b)' = PartOf(b) /\ permits' = permits
TakesPart(b) ==
  PartOf(b) = 0 /\ PartOf(b)' = Need(b) /\ permits >= Need(b) /\ permits' = permits - Need(b)
GivesPart(b) == PartOf(b) = Need(b) /\ PartOf(b)' = 0 /\ permits' = permits + Need(b)

(* All of it is balanced. *)
LEMMA Accounts ==
  ASSUME LeaseInv, NEW b \in Bundles, SameCpu(b) \/ OneMore(b) \/ OneLess(b),
         SamePart(b) \/ TakesPart(b) \/ GivesPart(b)
  PROVE  /\ permits' \in Nat /\ permits' + PartOf(b)' = permits + PartOf(b)
         /\ cpu' \in 0..CpuMax /\ cpu' + CpuOf(b) = cpu + CpuOf(b)'
<1>1. cpu \in Nat /\ cpu <= CpuMax /\ CpuOf(b) <= cpu /\ permits \in Nat
  BY CpuTaken, Zenon DEF LeaseInv, LeaseTypes
<1>2. CpuOf(b) \in Nat /\ CpuOf(b)' \in Nat
  BY DEF CpuOf
<1>3. Need(b) \in Nat /\ PartOf(b) \in Nat /\ CpuMax \in Nat
  BY LimitsAssumption DEF PartOf, Need
<1>4. cpu' \in 0..CpuMax /\ cpu' + CpuOf(b) = cpu + CpuOf(b)'
  BY <1>1, <1>2, <1>3 DEF SameCpu, OneMore, OneLess, FreeCpu
<1>5. permits' \in Nat /\ permits' + PartOf(b)' = permits + PartOf(b)
  BY <1>1, <1>3 DEF SamePart, TakesPart, GivesPart
<1> QED
  BY <1>4, <1>5, Zenon

(* The steps of the encoders. *)
Encodes(b) == FlushTakesCpu(b) \/ Encoded(b)

(* The permits of the encoders are as many as there are encoders. *)
LEMMA EncodersCounted ==
  ASSUME LeaseInv, NEW b \in Bundles, Encodes(b)
  PROVE  /\ UNCHANGED <<at, exclusive, images, skipped, permits, queue, lease, recovery>>
         /\ queued' \subseteq Image /\ encoding' \subseteq Image /\ IsFiniteSet(encoding')
         /\ Apart'
         /\ cpu' \in 0..CpuMax /\ cpu' - Cardinality(encoding') = cpu - Cardinality(encoding)
<1>0. /\ queued \subseteq Image /\ encoding \subseteq Image /\ IsFiniteSet(encoding) /\ Apart
      /\ cpu \in 0..CpuMax /\ CpuMax \in Nat /\ Cardinality(encoding) \in Nat
  BY LimitsAssumption, FS_CardinalityType, Zenon DEF LeaseInv, LeaseTypes
<1>1. Cardinality(encoding) <= cpu
  <2>1. Cardinality(InLease) \in Nat /\ Cardinality(OnCpu) \in Nat
    <3>1. IsFiniteSet(InLease) /\ IsFiniteSet(OnCpu)
      BY BundlesAssumption, FS_Subset, Zenon DEF InLease, OnCpu
    <3> QED
      BY <3>1, FS_CardinalityType, Zenon
  <2>2. cpu = Cardinality(InLease) + Cardinality(OnCpu) + Cardinality(encoding)
    BY Zenon DEF LeaseInv
  <2> QED
    BY <1>0, <2>1, <2>2
<1>2. UNCHANGED <<at, exclusive, images, skipped, permits, queue, lease, recovery>>
  BY Zenon DEF Encodes, FlushTakesCpu, Encoded, progress, pool
<1>3. CASE FlushTakesCpu(b)
  <2>1. PICK i \in queued :
          at[i[1]] = "flush" /\ queued' = queued \ {i} /\ encoding' = encoding \cup {i}
    BY <1>3, Zenon DEF FlushTakesCpu, Of
  <2>2. cpu' = cpu + 1 /\ cpu < CpuMax
    BY <1>3, Zenon DEF FlushTakesCpu, FreeCpu
  <2>3. i \notin encoding
    BY <1>0, <2>1, Zenon DEF Apart
  <2>4. IsFiniteSet(encoding') /\ Cardinality(encoding') = Cardinality(encoding) + 1
    BY <1>0, <2>1, <2>3, FS_AddElement, Zenon
  <2>5. queued' \subseteq Image /\ encoding' \subseteq Image /\ Apart'
    BY <1>0, <1>2, <2>1, Zenon DEF Apart
  <2>6. cpu' \in 0..CpuMax /\ cpu' - Cardinality(encoding') = cpu - Cardinality(encoding)
    BY <1>0, <2>2, <2>4
  <2> QED
    BY <1>2, <2>4, <2>5, <2>6, Zenon
<1>4. CASE Encoded(b)
  <2>1. PICK i \in encoding : encoding' = encoding \ {i}
    BY <1>4, Zenon DEF Encoded, Of
  <2>2. cpu' = cpu - 1
    BY <1>4, Zenon DEF Encoded
  <2>3. IsFiniteSet(encoding') /\ Cardinality(encoding') = Cardinality(encoding) - 1
    BY <1>0, <2>1, FS_RemoveElement, Zenon
  <2>4. queued' \subseteq Image /\ encoding' \subseteq Image /\ Apart'
    <3>1. queued' \subseteq queued
      BY <1>4, Zenon DEF Encoded, Of
    <3> QED
      BY <1>0, <1>2, <2>1, <3>1, Zenon DEF Apart
  <2>5. Cardinality(encoding') \in Nat
    BY <2>3, FS_CardinalityType, Zenon
  <2>6. cpu' \in 0..CpuMax /\ cpu' - Cardinality(encoding') = cpu - Cardinality(encoding)
    BY <1>0, <1>1, <2>2, <2>3, <2>5
  <2> QED
    BY <1>2, <2>3, <2>4, <2>6, Zenon
<1> QED
  BY <1>3, <1>4, Zenon DEF Encodes

(* The other steps of an export. *)
Moving(b) == (Export(b) \/ Abort(b)) /\ ~Encodes(b)

(* A step of an export is balanced and leaves the permits of the others.    *)
LEMMA ExportMoves ==
  ASSUME PoolInv, LeaseInv, NEW b \in Bundles, Moving(b)
  PROVE  /\ \A c \in Bundles \ {b} : at'[c] = at[c] /\ exclusive'[c] = exclusive[c]
         /\ encoding' = encoding
         /\ SameCpu(b) \/ OneMore(b) \/ OneLess(b)
         /\ SamePart(b) \/ TakesPart(b) \/ GivesPart(b)
<1>0. /\ at \in [Bundles -> {"cpu", "queue"} \cup Leased \cup Over]
      /\ exclusive \in [Bundles -> BOOLEAN]
  BY Zenon DEF PoolInv, PoolTypes
<1> USE <1>0 DEF Moves, Leased
<1>1. CASE TakeCpu(b)
  <2>1. /\ at[b] = "cpu" /\ at' = [at EXCEPT ![b] = "queue"] /\ UNCHANGED <<exclusive, permits>>
        /\ cpu' = cpu + 1 /\ FreeCpu /\ encoding' = encoding
    BY <1>1, Zenon DEF TakeCpu, progress, flush
  <2>2. CpuOf(b) = 0 /\ CpuOf(b)' = 1 /\ PartOf(b) = 0 /\ PartOf(b)' = 0
    BY <2>1, Zenon DEF CpuOf, PartOf
  <2>3. OneMore(b)
    BY <2>1, <2>2 DEF OneMore
  <2> QED
    BY <2>1, <2>2, <2>3, Zenon DEF SamePart
<1>2. CASE AcquireWorker(b)
  <2>1. /\ at[b] = "queue" /\ at' = [at EXCEPT ![b] = "open"] /\ UNCHANGED <<exclusive, cpu>>
        /\ permits >= Need(b) /\ permits' = permits - Need(b) /\ encoding' = encoding
    BY <1>2, Zenon DEF AcquireWorker, progress, flush
  <2>2. CpuOf(b) = 1 /\ CpuOf(b)' = 1 /\ PartOf(b) = 0 /\ PartOf(b)' = Need(b)
    BY <2>1, Zenon DEF CpuOf, PartOf, Need
  <2> QED
    BY <2>1, <2>2, Zenon DEF SameCpu, TakesPart
<1>3. CASE SpawnFails(b)
  <2>1. /\ at[b] = "queue" /\ at' = [at EXCEPT ![b] = "failed"] /\ UNCHANGED <<exclusive, permits>>
        /\ cpu' = cpu - 1 /\ encoding' = encoding
    BY <1>3, Zenon DEF SpawnFails, flush
  <2>2. CpuOf(b) = 1 /\ CpuOf(b)' = 0 /\ PartOf(b) = 0 /\ PartOf(b)' = 0
    BY <2>1, Zenon DEF CpuOf, PartOf
  <2>3. OneLess(b)
    BY <2>1, <2>2 DEF OneLess
  <2> QED
    BY <2>1, <2>2, <2>3, Zenon DEF SamePart
<1>4. CASE Open(b) \/ ListObjects(b) \/ ReadData(b) \/ ReadImage(b) \/ Close(b) \/ FlushEnds(b)
  <2>1. /\ at[b] \in Leased /\ UNCHANGED <<exclusive, cpu, permits, encoding>>
        /\ \E to \in Leased : at' = [at EXCEPT ![b] = to]
    <3>1. CASE Open(b)
      BY <3>1, Zenon DEF Open, pool, flush
    <3>2. CASE ListObjects(b) \/ ReadData(b)
      BY <3>2, Zenon DEF ListObjects, ReadData, Read, AfterRead, pool, flush
    <3>3. CASE ReadImage(b)
      BY <3>3, Zenon DEF ReadImage, AfterRead, pool
    <3>4. CASE Close(b)
      BY <3>4, Zenon DEF Close, pool, flush
    <3>5. CASE FlushEnds(b)
      BY <3>5, Zenon DEF FlushEnds, AfterRead, progress, pool, flush
    <3> QED
      BY <1>4, <3>1, <3>2, <3>3, <3>4, <3>5, Zenon
  <2>2. at'[b] \in Leased /\ \A c \in Bundles \ {b} : at'[c] = at[c]
    BY <2>1, Zenon
  <2>3. CpuOf(b) = 1 /\ CpuOf(b)' = 1 /\ PartOf(b) = Need(b) /\ PartOf(b)' = Need(b)
    BY <2>1, <2>2, Zenon DEF CpuOf, PartOf, Need
  <2> QED
    BY <2>1, <2>2, <2>3, Zenon DEF SameCpu, SamePart
<1>5. CASE FinishSuccess(b) \/ KillLease(b) \/ (Abort(b) /\ at[b] \in Leased)
  <2>1. /\ at[b] \in Leased /\ Release(b) /\ encoding' = encoding
        /\ \E to \in {"cpu"} \cup Over : at' = [at EXCEPT ![b] = to]
        /\ exclusive' = exclusive \/ exclusive' = [exclusive EXCEPT ![b] = TRUE]
    <3>1. CASE FinishSuccess(b)
      BY <3>1, Zenon DEF FinishSuccess, HandsOver, Over, progress
    <3>2. CASE KillLease(b)
      BY <3>2, Zenon DEF KillLease, HandsOver, Over
    <3>3. CASE Abort(b) /\ at[b] \in Leased
      BY <3>3, Zenon DEF Abort, HandsOver, Over, progress
    <3> QED
      BY <1>5, <3>1, <3>2, <3>3, Zenon
  <2>2. /\ at'[b] \in {"cpu"} \cup Over
        /\ \A c \in Bundles \ {b} : at'[c] = at[c] /\ exclusive'[c] = exclusive[c]
    BY <2>1, Zenon
  <2>3. CpuOf(b) = 1 /\ PartOf(b) = Need(b)
    BY <2>1, Zenon DEF CpuOf, PartOf
  <2>4. CpuOf(b)' = 0 /\ PartOf(b)' = 0
    BY <2>2, Zenon DEF CpuOf, PartOf, Over
  <2>5. OneLess(b)
    BY <2>1, <2>3, <2>4 DEF OneLess, Release
  <2> QED
    BY <2>1, <2>2, <2>3, <2>4, <2>5, Zenon DEF GivesPart, Release
<1>6. CASE Abort(b) /\ at[b] \notin Leased
  <2>1. /\ at' = [at EXCEPT ![b] = "aborted"] /\ UNCHANGED <<exclusive, permits, encoding>>
        /\ (at[b] = "queue" /\ cpu' = cpu - 1) \/ (at[b] = "cpu" /\ cpu' = cpu)
    BY <1>6, Zenon DEF Abort, HandsOver, progress
  <2>2. PartOf(b) = 0 /\ PartOf(b)' = 0 /\ CpuOf(b)' = 0
    BY <1>6, <2>1, Zenon DEF CpuOf, PartOf
  <2>3. (at[b] = "queue" => CpuOf(b) = 1) /\ (at[b] = "cpu" => CpuOf(b) = 0)
    BY Zenon DEF CpuOf
  <2>4. SameCpu(b) \/ OneLess(b)
    BY <2>1, <2>2, <2>3 DEF SameCpu, OneLess
  <2> QED
    BY <2>1, <2>2, <2>4, Zenon DEF SamePart
<1> HIDE <1>0 DEF Moves, Leased
<1> QED
  BY <1>1, <1>2, <1>3, <1>4, <1>5, <1>6, Zenon DEF Moving, Encodes, Export

(* Who leaves a line leaves a line. *)
LEMMA Dropped ==
  ASSUME NEW s \in Seq(Bundles), NEW b PROVE Drop(s, b) \in Seq(Bundles)
<1> DEFINE places == {i \in DOMAIN s : s[i] = b}
<1>1. CASE places = {}
  BY <1>1, Zenon DEF Drop
<1>2. CASE places # {}
  <2> DEFINE k == CHOOSE i \in places : TRUE
  <2>1. k \in DOMAIN s
    BY <1>2, Zenon
  <2>2. Drop(s, b) = RemoveAt(s, k)
    BY <1>2, Zenon DEF Drop
  <2> HIDE DEF k
  <2> QED
    BY <2>1, <2>2, PoolPart, Zenon
<1> QED
  BY <1>1, <1>2, Zenon

(* The lines and the faults. *)
LEMMA ExportLines ==
  ASSUME LeaseInv, NEW b \in Bundles, Export(b) \/ Abort(b)
  PROVE  queue' \in Seq(Bundles) /\ recovery' \in Seq(Bundles) /\ faults' \in 0..MaxFaults
<1>0. queue \in Seq(Bundles) /\ recovery \in Seq(Bundles) /\ faults \in 0..MaxFaults
  BY Zenon DEF LeaseInv, LeaseTypes
<1>1. \/ queue' = queue \/ queue' = Append(queue, b) \/ queue' = Drop(queue, b)
      \/ queue # <<>> /\ queue' = Tail(queue)
  BY Zenon DEF Export, Abort, TakeCpu, AcquireWorker, SpawnFails, Open, ReadData, ReadImage,
     Read, ListObjects, FlushTakesCpu, Encoded, FlushEnds, Close, FinishSuccess, KillLease, pool
<1>2. recovery' \in {recovery, Append(recovery, b), Drop(recovery, b)}
  BY Zenon DEF Export, Abort, TakeCpu, AcquireWorker, SpawnFails, Open, ReadData, ReadImage,
     Read, ListObjects, FlushTakesCpu, Encoded, FlushEnds, Close, FinishSuccess, KillLease,
     EndRecovery
<1>3. faults' = faults \/ (faults > 0 /\ faults' = faults - 1)
  <2>1. ASSUME NEW outcome \in Outcomes, Call(b, outcome)
        PROVE  faults' = faults \/ (faults > 0 /\ faults' = faults - 1)
    BY <2>1, Zenon DEF Call, Fault, NoFault
  <2> QED
    BY <2>1, Zenon DEF Export, Abort, TakeCpu, AcquireWorker, SpawnFails, Open, ReadData, ReadImage,
       Read, ListObjects, FlushTakesCpu, Encoded, FlushEnds, Close, FinishSuccess, KillLease,
       Fault, NoFault
<1>4. /\ Append(queue, b) \in Seq(Bundles) /\ (queue # <<>> => Tail(queue) \in Seq(Bundles))
      /\ Append(recovery, b) \in Seq(Bundles)
  BY <1>0
<1>5. Drop(queue, b) \in Seq(Bundles) /\ Drop(recovery, b) \in Seq(Bundles)
  BY <1>0, Dropped, Zenon
<1>6. faults' \in 0..MaxFaults
  <2>1. MaxFaults \in Nat
    BY LimitsAssumption, Zenon
  <2> QED
    BY <1>0, <1>3, <2>1
<1> QED
  BY <1>0, <1>1, <1>2, <1>4, <1>5, <1>6, Zenon

(* Which images a step leaves to read, and what it queues. *)
LEMMA ExportImages ==
  ASSUME PoolInv, LeaseInv, NEW b \in Bundles, Moving(b)
  PROVE  \/ /\ UNCHANGED <<images, skipped>> /\ queued' \subseteq queued
            /\ at'[b] \in Unread => at[b] \in Unread
            /\ at'[b] = "image" => images[b] > 0 \/ (at[b] = "data" /\ Images[b] > 0)
         \/ /\ at[b] = "image" /\ at'[b] \notin Unread
            /\ images' = [images EXCEPT ![b] = @ - 1]
            /\ skipped' \in {skipped, [skipped EXCEPT ![b] = @ + 1]}
            /\ at'[b] = "image" => images[b] - 1 > 0
            /\ queued' \subseteq queued \cup {<<b, images[b]>>}
         \/ /\ images' = [images EXCEPT ![b] = Images[b]] /\ skipped' = [skipped EXCEPT ![b] = 0]
            /\ at'[b] = "cpu" /\ queued' \subseteq queued
<1>0. at \in [Bundles -> {"cpu", "queue"} \cup Leased \cup Over] /\ skipped \in [Bundles -> Nat]
  BY Zenon DEF PoolInv, PoolTypes
<1> USE <1>0 DEF Moves, Unread
<1>1. CASE TakeCpu(b) \/ AcquireWorker(b)
  BY <1>1, Zenon DEF TakeCpu, AcquireWorker, progress, flush
<1>2. CASE SpawnFails(b)
  BY <1>2, Zenon DEF SpawnFails, flush
<1>3. CASE Open(b) \/ Close(b)
  BY <1>3, Zenon DEF Open, Close, flush
<1>4. CASE ListObjects(b) \/ ReadData(b)
  BY <1>4, Zenon DEF ListObjects, ReadData, Read, AfterRead, flush
<1>5. CASE ReadImage(b)
  <2>1. PICK outcome \in Outcomes, over \in BOOLEAN :
          /\ queued' = IF outcome = "ok" THEN queued \cup {<<b, images[b]>>} ELSE queued
          /\ Moves(b, "image", IF outcome = "other" THEN "close"
                               ELSE IF over /\ Of(b, queued') # {} THEN "flush"
                               ELSE AfterRead(images[b] - 1))
          /\ images' = [images EXCEPT ![b] = @ - 1]
          /\ skipped' = [skipped EXCEPT ![b] = IF outcome = "signal" THEN @ + 1 ELSE @]
    BY <1>5, Zenon DEF ReadImage
  <2>2. skipped' \in {skipped, [skipped EXCEPT ![b] = @ + 1]}
    <3>1. CASE outcome = "signal"
      BY <2>1, <3>1, Zenon
    <3>2. CASE outcome # "signal"
      BY <2>1, <3>2, Zenon
    <3> QED
      BY <3>1, <3>2, Zenon
  <2>3. queued' \subseteq queued \cup {<<b, images[b]>>}
    BY <2>1, Zenon
  <2>4. at[b] = "image" /\ at'[b] \in {"close", "flush", AfterRead(images[b] - 1)}
    BY <2>1, Zenon
  <2>5. at'[b] \notin Unread /\ (at'[b] = "image" => images[b] - 1 > 0)
    BY <2>4, Zenon DEF AfterRead
  <2> QED
    BY <2>1, <2>2, <2>3, <2>4, <2>5, Zenon
<1>6. CASE FlushEnds(b)
  BY <1>6, Zenon DEF FlushEnds, AfterRead, progress, flush
<1>7. CASE FinishSuccess(b) \/ Abort(b)
  <2>1. UNCHANGED <<images, skipped>> /\ queued' \subseteq queued
    BY <1>7, Zenon DEF FinishSuccess, Abort, HandsOver, progress
  <2>2. at'[b] \in {"done", "aborted"}
    BY <1>7, Zenon DEF FinishSuccess, Abort
  <2> QED
    BY <2>1, <2>2, Zenon
<1>8. CASE KillLease(b)
  <2>1. queued' \subseteq queued
    BY <1>8, Zenon DEF KillLease, HandsOver
  <2> QED
    BY <1>8, <2>1, Zenon DEF KillLease
<1> HIDE <1>0 DEF Moves, Unread
<1> QED
  BY <1>1, <1>2, <1>3, <1>4, <1>5, <1>6, <1>7, <1>8, Zenon DEF Moving, Encodes, Export

(* No image is encoded outside of its flush. *)
LEMMA ExportApart ==
  ASSUME PoolInv, LeaseInv, NEW b \in Bundles, Moving(b)
  PROVE  queued' \subseteq Image /\ Apart'
<1>1. queued \subseteq Image /\ encoding \subseteq Image /\ Apart /\ images \in [Bundles -> Nat]
  BY Zenon DEF LeaseInv, LeaseTypes
<1>2. at[b] # "flush" \/ Of(b, encoding) = {}
  <2>1. CASE FlushEnds(b)
    BY <2>1, Zenon DEF FlushEnds, Of
  <2>2. CASE ~FlushEnds(b)
    BY <2>2, Zenon DEF Moving, Encodes, Export, Abort, Moves, TakeCpu, AcquireWorker, SpawnFails,
       Open, ListObjects, ReadData, Read, ReadImage, Close, FinishSuccess, KillLease
  <2> QED
    BY <2>1, <2>2, Zenon
<1>3. ASSUME NEW i \in encoding PROVE i[1] \in Bundles \ {b}
  <2>1. i[1] \in Bundles
    BY <1>1, <1>3 DEF Image
  <2> QED
    BY <1>1, <1>2, <1>3, <2>1, Zenon DEF Apart, Of
<1>4. encoding' = encoding /\ \A i \in encoding : at'[i[1]] = "flush"
  BY <1>1, <1>3, ExportMoves, Zenon DEF Apart
<1>5. queued' \subseteq queued \cup {<<b, images[b]>>}
  BY ExportImages, Zenon
<1>6. <<b, images[b]>> \in Image /\ <<b, images[b]>> \notin encoding
  <2>1. <<b, images[b]>>[1] = b /\ <<b, images[b]>> \in Image
    BY <1>1 DEF Image
  <2> QED
    BY <1>3, <2>1, Zenon
<1> QED
  BY <1>1, <1>4, <1>5, <1>6, Zenon DEF Apart

(* The workers of the others, and its own. *)
LEMMA ExportLease ==
  ASSUME PoolInv, LeaseInv, NEW b \in Bundles, Moving(b)
  PROVE  /\ \A c \in Bundles \ {b} : lease'[c] = lease[c]
         /\ at'[b] \notin Leased => lease'[b] = NoWorker
<1>0. /\ at \in [Bundles -> {"cpu", "queue"} \cup Leased \cup Over]
      /\ lease \in [Bundles -> Worker \cup {NoWorker}]
      /\ at[b] \notin Leased => lease[b] = NoWorker
  BY Zenon DEF PoolInv, PoolTypes, LeaseInv, Counted
<1> USE <1>0 DEF Moves
<1>1. CASE TakeCpu(b) \/ SpawnFails(b)
  <2>1. at[b] = "queue" \/ at[b] = "cpu"
    BY <1>1, Zenon DEF TakeCpu, SpawnFails
  <2>2. at[b] \notin Leased /\ lease' = lease
    BY <1>1, <2>1, Zenon DEF TakeCpu, SpawnFails, Leased
  <2> QED
    BY <2>2, Zenon
<1>2. CASE AcquireWorker(b)
  BY <1>2, Zenon DEF AcquireWorker, Leased
<1>3. CASE Open(b) \/ ListObjects(b) \/ ReadData(b) \/ ReadImage(b) \/ Close(b)
  <2>1. \E outcome \in Outcomes : Call(b, outcome)
    BY <1>3, Zenon DEF Open, ListObjects, ReadData, Read, ReadImage, Close
  <2>2. \A c \in Bundles \ {b} : lease'[c] = lease[c]
    BY <2>1, Zenon DEF Call
  <2>3. at'[b] \in Leased
    <3>1. CASE Open(b)
      BY <3>1, Zenon DEF Open, Leased
    <3>2. CASE ListObjects(b) \/ ReadData(b)
      BY <3>2, Zenon DEF ListObjects, ReadData, Read, AfterRead, Leased
    <3>3. CASE ReadImage(b)
      BY <3>3, Zenon DEF ReadImage, AfterRead, Leased
    <3>4. CASE Close(b)
      BY <3>4, Zenon DEF Close, Leased
    <3> QED
      BY <1>3, <3>1, <3>2, <3>3, <3>4, Zenon
  <2> QED
    BY <2>2, <2>3, Zenon
<1>4. CASE FlushEnds(b)
  BY <1>4, Zenon DEF FlushEnds, AfterRead, Leased
<1>5. CASE FinishSuccess(b) \/ KillLease(b) \/ Abort(b)
  BY <1>5, Zenon DEF FinishSuccess, KillLease, Abort
<1> HIDE <1>0 DEF Moves
<1> QED
  BY <1>1, <1>2, <1>3, <1>4, <1>5, Zenon DEF Moving, Encodes, Export

(* Images and workers stay counted. *)
LEMMA ExportCounted ==
  ASSUME PoolInv, LeaseInv, NEW b \in Bundles, Moving(b)
  PROVE  images' \in [Bundles -> Nat] /\ \A c \in Bundles : Counted(c)'
<1>1. /\ images \in [Bundles -> Nat] /\ skipped \in [Bundles -> Nat]
      /\ \A c \in Bundles : Counted(c)
  BY Zenon DEF LeaseInv, LeaseTypes, PoolInv, PoolTypes
<1>2. Images[b] \in Nat /\ images[b] \in Nat /\ skipped[b] \in Nat
  BY <1>1, LimitsAssumption, Zenon
<1>3. /\ images' \in [Bundles -> Nat]
      /\ \A c \in Bundles \ {b} : images'[c] = images[c] /\ skipped'[c] = skipped[c]
      /\ images'[b] + skipped'[b] <= Images[b]
      /\ at'[b] \in Unread => images'[b] = Images[b]
      /\ at'[b] = "image" => images'[b] > 0
  <2>0. /\ images[b] + skipped[b] <= Images[b]
        /\ at[b] \in Unread => images[b] = Images[b]
        /\ at[b] = "image" => images[b] > 0
    BY <1>1, Zenon DEF Counted
  <2>1. CASE /\ UNCHANGED <<images, skipped>>
             /\ at'[b] \in Unread => at[b] \in Unread
             /\ at'[b] = "image" => images[b] > 0 \/ (at[b] = "data" /\ Images[b] > 0)
    BY <1>1, <2>0, <2>1, Zenon DEF Unread
  <2>2. CASE /\ at[b] = "image" /\ at'[b] \notin Unread
             /\ images' = [images EXCEPT ![b] = @ - 1]
             /\ skipped' \in {skipped, [skipped EXCEPT ![b] = @ + 1]}
             /\ at'[b] = "image" => images[b] - 1 > 0
    <3>1. images[b] - 1 \in Nat /\ (images[b] - 1) + skipped[b] <= Images[b]
      BY <1>2, <2>0, <2>2
    <3>2. (images[b] - 1) + (skipped[b] + 1) <= Images[b]
      BY <1>2, <2>0, <2>2
    <3>3. CASE skipped' = skipped
      BY <1>1, <2>2, <3>1, <3>3, Zenon
    <3>4. CASE skipped' = [skipped EXCEPT ![b] = @ + 1]
      BY <1>1, <2>2, <3>1, <3>2, <3>4, Zenon
    <3> QED
      BY <2>2, <3>3, <3>4, Zenon
  <2>3. CASE /\ images' = [images EXCEPT ![b] = Images[b]] /\ skipped' = [skipped EXCEPT ![b] = 0]
             /\ at'[b] = "cpu"
    <3>1. Images[b] + 0 <= Images[b]
      BY <1>2
    <3>2. images'[b] = Images[b] /\ skipped'[b] = 0 /\ images' \in [Bundles -> Nat]
      BY <1>1, <1>2, <2>3, Zenon
    <3> QED
      BY <1>1, <1>2, <2>3, <3>1, <3>2, Zenon DEF Unread
  <2> QED
    BY <2>1, <2>2, <2>3, ExportImages, Zenon
<1>4. Counted(b)'
  BY <1>3, ExportLease, Zenon DEF Counted
<1>5. ASSUME NEW c \in Bundles \ {b} PROVE Counted(c)'
  <2>1. at'[c] = at[c] /\ lease'[c] = lease[c]
    BY <1>5, ExportMoves, ExportLease, Zenon
  <2> QED
    BY <1>1, <1>3, <2>1, Zenon DEF Counted
<1> QED
  BY <1>3, <1>4, <1>5, Zenon

(* The invariant of the permits is inductive. *)
LEMMA LeaseStep == PoolInv /\ LeaseInv /\ [Next]_vars => LeaseInv'
<1> SUFFICES ASSUME PoolInv, LeaseInv, [Next]_vars PROVE LeaseInv'
  BY Zenon
<1>1. ASSUME NEW b \in Bundles, Moving(b) PROVE LeaseInv'
  <2>1. /\ permits' \in Nat /\ permits' + PartOf(b)' = permits + PartOf(b)
        /\ cpu' \in 0..CpuMax /\ cpu' + CpuOf(b) = cpu + CpuOf(b)'
    BY <1>1, ExportMoves, Accounts, Zenon
  <2>2. cpu' \in Nat
    BY <2>1, LimitsAssumption
  <2>3. encoding' = encoding /\ encoding \subseteq Image /\ IsFiniteSet(encoding)
    BY <1>1, ExportMoves, Zenon DEF LeaseInv, LeaseTypes
  <2>4. /\ permits' + Cardinality(Permits)' = PoolSize
        /\ cpu' = Cardinality(InLease)' + Cardinality(OnCpu)' + Cardinality(encoding)'
    BY <1>1, <2>1, <2>2, ExportMoves, Balanced, Zenon
  <2>5. queue' \in Seq(Bundles) /\ recovery' \in Seq(Bundles) /\ faults' \in 0..MaxFaults
    BY <1>1, ExportLines, Zenon DEF Moving
  <2> QED
    BY <1>1, <2>1, <2>3, <2>4, <2>5, ExportCounted, ExportApart, Zenon DEF LeaseInv, LeaseTypes
<1>2. ASSUME NEW b \in Bundles, Encodes(b) PROVE LeaseInv'
  <2>1. /\ UNCHANGED <<at, exclusive, images, skipped, permits, queue, lease, recovery>>
        /\ queued' \subseteq Image /\ encoding' \subseteq Image /\ IsFiniteSet(encoding')
        /\ Apart' /\ cpu' \in 0..CpuMax
        /\ cpu' - Cardinality(encoding') = cpu - Cardinality(encoding)
    BY <1>2, EncodersCounted, Zenon
  <2>2. faults' \in 0..MaxFaults
    BY <1>2, ExportLines, Zenon DEF Encodes, Export
  <2>3. Permits' = Permits /\ InLease' = InLease /\ OnCpu' = OnCpu
    BY <2>1, Zenon DEF Permits, InLease, OnCpu, Need
  <2>4. cpu' = Cardinality(InLease)' + Cardinality(OnCpu)' + Cardinality(encoding)'
    <3>1. /\ cpu = Cardinality(InLease) + Cardinality(OnCpu) + Cardinality(encoding)
          /\ cpu \in 0..CpuMax /\ CpuMax \in Nat
          /\ Cardinality(encoding) \in Nat /\ Cardinality(encoding') \in Nat
      BY <2>1, LimitsAssumption, FS_CardinalityType, Zenon DEF LeaseInv, LeaseTypes
    <3>2. Cardinality(InLease) \in Nat /\ Cardinality(OnCpu) \in Nat
      <4>1. IsFiniteSet(InLease) /\ IsFiniteSet(OnCpu)
        BY BundlesAssumption, FS_Subset, Zenon DEF InLease, OnCpu
      <4> QED
        BY <4>1, FS_CardinalityType, Zenon
    <3>3. cpu' = Cardinality(InLease) + Cardinality(OnCpu) + Cardinality(encoding')
      BY <2>1, <3>1, <3>2
    <3> QED
      BY <2>3, <3>3, Zenon
  <2>5. \A c \in Bundles : Counted(c)'
    BY <2>1, Zenon DEF LeaseInv, Counted
  <2> QED
    BY <2>1, <2>2, <2>3, <2>4, <2>5, Zenon DEF LeaseInv, LeaseTypes
<1>3. CASE Reap \/ IdleWorkerDies \/ UNCHANGED vars
  <2>1. /\ UNCHANGED <<at, exclusive, images, skipped, cpu, permits, queue, lease, recovery>>
        /\ UNCHANGED <<queued, encoding>>
        /\ faults' = faults \/ (faults > 0 /\ faults' = faults - 1)
    BY <1>3, Zenon DEF Reap, IdleWorkerDies, vars, progress, pool, flush, Fault, NoFault
  <2>2. faults' \in 0..MaxFaults
    <3>1. faults \in 0..MaxFaults /\ MaxFaults \in Nat
      BY LimitsAssumption, Zenon DEF LeaseInv, LeaseTypes
    <3> QED
      BY <2>1, <3>1
  <2>3. Permits' = Permits /\ InLease' = InLease /\ OnCpu' = OnCpu
    BY <2>1, Zenon DEF Permits, InLease, OnCpu, Need
  <2>4. (\A b \in Bundles : Counted(b)') /\ Apart'
    BY <2>1, Zenon DEF LeaseInv, Counted, Apart
  <2> QED
    BY <2>1, <2>2, <2>3, <2>4, Zenon DEF LeaseInv, LeaseTypes
<1> QED
  BY <1>1, <1>2, <1>3, Zenon DEF Next, Moving

(* It holds at first: nothing has been taken. *)
LEMMA LeaseInit == Init => LeaseInv
<1> SUFFICES ASSUME Init PROVE LeaseInv
  BY Zenon
<1>1. \A b \in Bundles :
        at[b] = "cpu" /\ lease[b] = NoWorker /\ images[b] = Images[b] /\ skipped[b] = 0
  BY Zenon DEF Init
<1>2. /\ Permits = {} /\ InLease = {} /\ OnCpu = {} /\ encoding = {} /\ Apart
      /\ Cardinality({}) = 0 /\ IsFiniteSet({})
  BY <1>1, FS_EmptySet, Zenon DEF Init, Permits, InLease, OnCpu, Leased, Apart
<1>3. LeaseTypes
  BY <1>2, LimitsAssumption DEF Init, LeaseTypes
<1>4. \A b \in Bundles : Counted(b)
  BY <1>1, LimitsAssumption DEF Counted
<1>5. permits = PoolSize /\ cpu = 0 /\ PoolSize \in Nat
  BY LimitsAssumption, Zenon DEF Init
<1> QED
  BY <1>2, <1>3, <1>4, <1>5 DEF LeaseInv

(* Nothing is left of the pool beside the lease of a second attempt. *)
LEMMA ExclusiveAlone ==
  ASSUME LeaseInv, NEW b \in InLease, exclusive[b] PROVE InLease = {b}
<1>1. b \in Bundles /\ PartOf(b) = PoolSize
  BY Zenon DEF InLease, PartOf, Need
<1>2. /\ Cardinality(PermitsOfOthers(b)) \in Nat /\ permits \in Nat /\ PoolSize \in Nat
      /\ permits + (Cardinality(PermitsOfOthers(b)) + PoolSize) = PoolSize
      /\ IsFiniteSet(Permits)
  BY <1>1, Split, LimitsAssumption, Zenon DEF LeaseInv, LeaseTypes, Divides
<1>3. Cardinality(PermitsOfOthers(b)) = 0
  BY <1>2
<1>4. PermitsOfOthers(b) = {}
  <2>1. PermitsOfOthers(b) \subseteq Permits
    BY Zenon DEF PermitsOfOthers, Permits
  <2> QED
    BY <1>2, <1>3, <2>1, FS_Subset, FS_EmptySet, Zenon
<1>5. ASSUME NEW c \in InLease, c # b PROVE FALSE
  <2>1. {c} \X (1..Need(c)) \subseteq PermitsOfOthers(b)
    BY <1>5, Zenon DEF PermitsOfOthers
  <2>2. 1 \in 1..Need(c)
    BY LimitsAssumption DEF Need
  <2>3. <<c, 1>> \in {c} \X (1..Need(c))
    BY <2>2
  <2> QED
    BY <1>4, <2>1, <2>3, Zenon
<1> QED
  BY <1>5, Zenon

(* AssetStudioWorkerPool and the CPU budget: whichever way exports end,     *)
(* their permits come back, a worker is held exactly under a lease, and a   *)
(* second attempt has the pool to itself.                                   *)
THEOREM LeasesAreConserved == Spec => []LeasesConserved
<1>1. PoolInv /\ LeaseInv => LeasesConserved
  <2> SUFFICES ASSUME PoolInv, LeaseInv PROVE LeasesConserved
    BY Zenon
  <2>1. permits \in 0..PoolSize
    <3>1. permits \in Nat /\ permits + Cardinality(Permits) = PoolSize /\ PoolSize \in Nat
      BY LimitsAssumption, Zenon DEF LeaseInv, LeaseTypes
    <3>2. Cardinality(Permits) \in Nat
      <4>1. CASE \E b : b \in Bundles
        BY <4>1, Split, Zenon DEF Divides
      <4>2. CASE ~ \E b : b \in Bundles
        <5>1. Permits = {}
          BY <4>2, Zenon DEF Permits, InLease
        <5> QED
          BY <5>1, FS_EmptySet
      <4> QED
        BY <4>1, <4>2, Zenon
    <3> QED
      BY <3>1, <3>2
  <2>2. TypeOK
    BY <2>1, Zenon DEF PoolInv, PoolTypes, LeaseInv, LeaseTypes, Counted, TypeOK
  <2>3. \A b \in Bundles : b \in InLease <=> lease[b] # NoWorker
    BY NoWorkerAssumption, Zenon DEF InLease, PoolInv, LeaseInv, LeaseClean, Counted
  <2> QED
    BY <2>2, <2>3, ExclusiveAlone, Zenon DEF LeaseInv, LeasesConserved, OnCpu, Apart
<1> QED
  BY <1>1, PoolInit, PoolStep, LeaseInit, LeaseStep, PTL DEF Spec
===============================================================================
