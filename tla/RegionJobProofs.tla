--------------------------- MODULE RegionJobProofs ---------------------------
(***************************************************************************)
(* The four properties of the job, for any set of regions, any settings,   *)
(* any number of executions and any failures.                              *)
(*                                                                         *)
(* ChartsAccounted: CInv adds what each region's sync has achieved so far  *)
(* (Kept), what its push is about to move (Moved), what its answer stays   *)
(* worth while the other regions commit the same index (Worth, Blank), and *)
(* who is to blame for a commit that waits (SomeoneWaits).  A step of one  *)
(* region disturbs another only by making the branch longer with the index *)
(* as it is, or by moving the remote forward (Frame); so the steps need a  *)
(* proof of their own only for the region that takes them.                 *)
(*                                                                         *)
(* JobAccounted: InStep ties the followed region's poll to its sync.       *)
(* SettingsResolved: SettingsInv, by which the tree is at every stage what *)
(* the layers applied so far say.  CatalogueAgrees: PlanInv, what each     *)
(* asker knows at each of its requests.                                    *)
(***************************************************************************)
EXTENDS RegionJob, TLAPS

(* Any step of a sync, and a crash. *)
ChartStep == (\E r \in Regions : StartSync(r) \/ SyncStep(r)) \/ CrashSync

Staged == {"commit", "committing", "head", "push", "pushing"}
Committed == {"head", "push", "pushing"}

Types ==
  /\ ChartTypeOK
  /\ push \in [Regions -> [try : Nat, from : Nat, to : Nat]]

(* What a region's sync has done so far is still there. *)
Kept(r) ==
  /\ sync[r] # "idle" => charts[r] # 0
  /\ sync[r] \notin {"idle", "write"} => file[r] = charts[r]
  /\ sync[r] \in Staged => index[r] = charts[r]
  /\ sync[r] \in Committed => log[Len(log)][r] = charts[r]
  /\ index[r] <= charts[r] /\ log[Len(log)][r] <= index[r]

(* What a push moves, and what an answer is worth. *)
Moved(r) ==
  sync[r] = "pushing" =>
    /\ push[r].from <= origin /\ push[r].from <= push[r].to /\ push[r].to <= Len(log)
    /\ \A k \in 1..Len(log) : push[r].to <= k => log[k][r] = charts[r]
Worth(r) ==
  sync[r] = "idle" =>
    /\ result[r] = "pushed" => /\ index[r] = charts[r]
                               /\ \A k \in 1..Len(log) : origin <= k => log[k][r] = charts[r]
    /\ result[r] = "unchanged" => index[r] = charts[r] /\ log[Len(log)][r] = charts[r]
    /\ result[r] = "nothing" => charts[r] = 0

(* A region without charts has never committed any. *)
Blank(r) == charts[r] = 0 => \A k \in 1..Len(log) : log[k][r] = 0

(* The history of a region's file. *)
History == \A i \in 1..Len(log), r \in Regions :
             log[i][r] # Torn /\ (i > 1 => log[i - 1][r] <= log[i][r])

(* A commit that waits has a region that has not been told otherwise. *)
Waits(r) ==
  /\ charts[r] # 0
  /\ sync[r] = "idle" => result[r] \in {"failed", "none", "unchanged"}
  /\ sync[r] = "pushing" => push[r].to = Len(log)
SomeoneWaits == origin < Len(log) => \E r \in Regions : Waits(r)

CInv ==
  /\ Types /\ History /\ SomeoneWaits
  /\ \A r \in Regions : Kept(r) /\ Moved(r) /\ Worth(r) /\ Blank(r)

(* The invariant contains the property. *)
LEMMA CInvGivesAccounted == CInv => ChartsAccounted
<1> SUFFICES ASSUME CInv PROVE ChartsAccounted
  BY Zenon
<1>1. origin \in 1..Len(log) /\ Len(log) \in Nat
  BY DEF CInv, Types, ChartTypeOK
<1>2. \A r \in Regions : sync[r] = "idle" =>
        /\ result[r] = "pushed" => Published(r)
        /\ result[r] = "unchanged" => LastTree[r] = charts[r]
                                      /\ (Published(r) \/ origin < Len(log))
  BY <1>1 DEF CInv, Worth, Published, LastTree
<1>3. (\A r \in Regions : sync[r] = "idle" /\ result[r] \in {"pushed", "nothing"})
        => origin = Len(log)
  BY <1>1 DEF CInv, SomeoneWaits, Waits
<1> QED
  BY <1>2, <1>3, Zenon DEF CInv, Types, History, ChartsAccounted

(* A fresh repository: nothing is committed and nobody has an answer. *)
LEMMA InitCInv == ChartInit => CInv
<1> SUFFICES ASSUME ChartInit PROVE CInv
  BY Zenon
<1> USE ChartBounds DEF ChartInit, NoCharts, NoPush
<1>1. 0 \in 0..MaxCharts /\ Torn \in Nat /\ Torn # 0 /\ 0 \in 0..Torn
  BY DEF Torn
<1>2. log = <<NoCharts>> /\ Len(log) = 1 /\ log[1] = NoCharts /\ NoCharts \in [Regions -> 0..Torn]
  BY <1>1, Zenon
<1>3. log \in Seq([Regions -> 0..Torn])
  BY <1>2
<1>4. Types
  BY <1>1, <1>2, <1>3 DEF Types, ChartTypeOK, SyncStates
<1>5. History
  BY <1>1, <1>2 DEF History
<1>6. SomeoneWaits
  BY <1>2 DEF SomeoneWaits
<1>7. \A r \in Regions : Kept(r) /\ Moved(r) /\ Worth(r) /\ Blank(r)
  BY <1>1, <1>2 DEF Kept, Moved, Worth, Blank, Staged, Committed
<1> QED
  BY <1>4, <1>5, <1>6, <1>7, Zenon DEF CInv

(* What the types say of single values. *)
LEMMA TypeFacts ==
  ASSUME Types
  PROVE  /\ MaxCharts \in Nat /\ Torn = MaxCharts + 1 /\ Len(log) \in Nat /\ origin \in 1..Len(log)
         /\ \A q \in Regions : /\ charts[q] \in 0..MaxCharts /\ file[q] \in 0..Torn
                               /\ index[q] \in 0..Torn
                               /\ push[q] \in [try : Nat, from : Nat, to : Nat]
         /\ \A i \in 1..Len(log) : log[i] \in [Regions -> 0..Torn]
         /\ \A i \in 1..Len(log), q \in Regions : log[i][q] \in 0..Torn
<1>1. log \in Seq([Regions -> 0..Torn])
  BY Zenon DEF Types, ChartTypeOK
<1>2. \A i \in 1..Len(log) : log[i] \in [Regions -> 0..Torn]
  BY <1>1
<1>3. MaxCharts \in Nat /\ Torn = MaxCharts + 1
  BY ChartBounds, Zenon DEF Torn
<1>4. Len(log) \in Nat
  BY <1>1
<1>5. \A i \in 1..Len(log), q \in Regions : log[i][q] \in 0..Torn
  BY <1>2, Zenon
<1>6. origin \in 1..Len(log)
  BY Zenon DEF Types, ChartTypeOK
<1>7. \A q \in Regions : /\ charts[q] \in 0..MaxCharts /\ file[q] \in 0..Torn
                         /\ index[q] \in 0..Torn
                         /\ push[q] \in [try : Nat, from : Nat, to : Nat]
  BY Zenon DEF Types, ChartTypeOK
<1> QED
  BY <1>2, <1>3, <1>4, <1>5, <1>6, <1>7, Zenon

(* ... and of one region's values. *)
LEMMA Values ==
  ASSUME Types, NEW q \in Regions
  PROVE  /\ charts[q] \in Nat /\ index[q] \in Nat /\ push[q].from \in Nat /\ push[q].to \in Nat
         /\ Len(log) \in Nat /\ origin \in 1..Len(log) /\ log[Len(log)][q] \in Nat
<1>1. Len(log) \in Nat /\ origin \in 1..Len(log)
  BY TypeFacts, Zenon
<1>2. Len(log) \in 1..Len(log)
  BY <1>1
<1>3. log[Len(log)][q] \in 0..Torn
  BY <1>2, TypeFacts, Zenon
<1>4. charts[q] \in Nat /\ index[q] \in Nat
  BY TypeFacts
<1>5. push[q].from \in Nat /\ push[q].to \in Nat
  BY TypeFacts, Zenon
<1> QED
  BY <1>1, <1>3, <1>4, <1>5

(* A step of a region's sync keeps the types. *)
LEMMA TypesKept ==
  ASSUME CInv, NEW r \in Regions, StartSync(r) \/ SyncStep(r) PROVE Types'
<1>0. Types /\ Moved(r)
  BY Zenon DEF CInv
<1> USE <1>0 DEF SyncStep, StartSync, WriteFile, Status, AddBegins, CommitBegins, Locks,
       AddEnds, CommitEnds, Unlocks, FindRemote, PushBegins, PushEnds, PushFails, PushRejected,
       Goes, Returns, tree
<1>1. sync' \in [Regions -> SyncStates]
  BY ZenonT(90) DEF Types, ChartTypeOK, SyncStates
<1>2. result' \in [Regions -> {"none", "nothing", "unchanged", "pushed", "failed"}]
  BY ZenonT(90) DEF Types, ChartTypeOK
<1>3. charts' \in [Regions -> 0..MaxCharts]
  <2>1. \/ charts' = charts
        \/ charts[r] < MaxCharts /\ charts' = [charts EXCEPT ![r] = charts[r] + 1]
    BY Zenon
  <2> HIDE DEF SyncStep, StartSync
  <2>2. charts \in [Regions -> 0..MaxCharts] /\ charts[r] \in 0..MaxCharts /\ MaxCharts \in Nat
    BY ChartBounds, Zenon DEF Types, ChartTypeOK
  <2>3. charts[r] < MaxCharts => charts[r] + 1 \in 0..MaxCharts
    BY <2>2
  <2> QED
    BY <2>1, <2>2, <2>3, Zenon
<1>4. file' \in [Regions -> 0..Torn]
  <2>1. \/ file' = file
        \/ \E left \in {file[r], charts[r], Torn} : file' = [file EXCEPT ![r] = left]
    BY Zenon
  <2> HIDE DEF SyncStep, StartSync
  <2>2. \A left \in {file[r], charts[r], Torn} : left \in 0..Torn
    BY TypeFacts
  <2>3. file \in [Regions -> 0..Torn]
    BY Zenon DEF Types, ChartTypeOK
  <2> QED
    BY ONLY r \in Regions, <2>1, <2>2, <2>3, Zenon
<1>5. index' \in [Regions -> 0..Torn]
  BY ZenonT(90) DEF Types, ChartTypeOK
<1>6. log' \in Seq([Regions -> 0..Torn]) /\ Len(log') \in Nat /\ Len(log') >= Len(log)
  <2>1. log' = log \/ log' = Append(log, index)
    BY Zenon
  <2> HIDE DEF SyncStep, StartSync
  <2>2. log \in Seq([Regions -> 0..Torn]) /\ index \in [Regions -> 0..Torn]
    BY Zenon DEF Types, ChartTypeOK
  <2>3. /\ Append(log, index) \in Seq([Regions -> 0..Torn])
        /\ Len(Append(log, index)) = Len(log) + 1 /\ Len(log) \in Nat
    BY ONLY <2>2
  <2>4. CASE log' = log
    BY ONLY <2>2, <2>3, <2>4
  <2>5. CASE log' = Append(log, index)
    BY ONLY <2>3, <2>5
  <2> QED
    BY <2>1, <2>4, <2>5, Zenon
<1>7. lock' \in Regions \cup {Nobody}
  BY ZenonT(90) DEF Types, ChartTypeOK
<1>8. push' \in [Regions -> [try : Nat, from : Nat, to : Nat]]
  <2> DEFINE Pushes == [try : Nat, from : Nat, to : Nat]
  <2>1. push' = push \/ \E p \in Pushes : push' = [push EXCEPT ![r] = p]
    <3>1. \/ push' = push
          \/ push' = [push EXCEPT ![r] = NoPush]
          \/ push' = [push EXCEPT ![r].try = 1]
          \/ push' = [push EXCEPT ![r].from = origin, ![r].to = Len(log)]
          \/ push' = [push EXCEPT ![r] = [NoPush EXCEPT !.try = push[r].try + 1]]
      BY Zenon
    <3> HIDE DEF SyncStep, StartSync
    <3>2. NoPush \in Pushes /\ [NoPush EXCEPT !.try = push[r].try + 1] \in Pushes
      BY TypeFacts, SMTT(90) DEF NoPush
    <3>3. [push[r] EXCEPT !.try = 1] \in Pushes
      BY TypeFacts, ZenonT(90)
    <3>4. [push[r] EXCEPT !.from = origin, !.to = Len(log)] \in Pushes
      <4>1. push[r] \in Pushes /\ origin \in Nat /\ Len(log) \in Nat
        BY TypeFacts
      <4> QED
        BY ONLY <4>1, ZenonT(90)
    <3> QED
      BY <3>1, <3>2, <3>3, <3>4, ZenonT(90) DEF Types
  <2> HIDE DEF SyncStep, StartSync
  <2> QED
    BY <2>1, Zenon DEF Types
<1>9. origin' \in 1..Len(log')
  <2>1. origin' = origin \/ (sync[r] = "pushing" /\ origin' = push[r].to /\ origin = push[r].from)
    BY Zenon DEF Accepts
  <2> HIDE DEF SyncStep, StartSync
  <2>2. origin \in 1..Len(log) /\ Len(log) \in Nat /\ push[r].to \in Nat
    BY TypeFacts, Zenon
  <2>3. sync[r] = "pushing" => push[r].from <= push[r].to /\ push[r].to <= Len(log)
    BY Zenon DEF Moved
  <2> QED
    BY <1>6, <2>1, <2>2, <2>3, SMTT(90)
<1> QED
  BY <1>1, <1>2, <1>3, <1>4, <1>5, <1>6, <1>7, <1>8, <1>9, ZenonT(90) DEF Types, ChartTypeOK

(* A commit adds the index to the branch and changes nothing else of it. *)
LEMMA LogGrows ==
  ASSUME Types, log' = log \/ log' = Append(log, index)
  PROVE  /\ Len(log') \in Nat /\ Len(log) <= Len(log')
         /\ \A k \in 1..Len(log) : log'[k] = log[k]
         /\ \A k \in 1..Len(log') : k \in 1..Len(log) \/ (k = Len(log) + 1 /\ log'[k] = index)
         /\ log' = log \/ Len(log') = Len(log) + 1
<1>1. log \in Seq([Regions -> 0..Torn]) /\ index \in [Regions -> 0..Torn] /\ Len(log) \in Nat
  BY DEF Types, ChartTypeOK
<1>2. CASE log' = log
  BY <1>1, <1>2
<1>3. CASE log' = Append(log, index)
  <2>1. Len(log') = Len(log) + 1
    BY <1>1, <1>3
  <2>2. \A k \in 1..Len(log) : log'[k] = log[k]
    BY <1>1, <1>3
  <2>3. log'[Len(log) + 1] = index
    BY <1>1, <1>3
  <2> QED
    BY <1>1, <2>1, <2>2, <2>3
<1> QED
  BY <1>2, <1>3, Zenon

(* What a step of one region's sync may do to the rest. *)
Frame(r) ==
  /\ \A q \in Regions \ {r} : /\ sync'[q] = sync[q] /\ charts'[q] = charts[q]
                              /\ file'[q] = file[q] /\ index'[q] = index[q]
                              /\ push'[q] = push[q] /\ result'[q] = result[q]
  /\ log' = log \/ (log' = Append(log, index) /\ sync'[r] = "head" /\ charts'[r] = charts[r]
                     /\ sync[r] = "committing")
  /\ origin <= origin'
  /\ charts'[r] = 0 => charts[r] = 0

(* Every step of a region's sync is framed. *)
LEMMA Framed ==
  ASSUME CInv, NEW r \in Regions, StartSync(r) \/ SyncStep(r) PROVE Frame(r)
<1>0. Types /\ Moved(r)
  BY Zenon DEF CInv
<1> USE DEF SyncStep, StartSync, WriteFile, Status, AddBegins, CommitBegins, Locks, AddEnds,
       CommitEnds, Unlocks, FindRemote, PushBegins, PushEnds, PushFails, PushRejected, Accepts,
       Goes, Returns, tree
<1>1. ASSUME NEW q \in Regions \ {r}
      PROVE  /\ sync'[q] = sync[q] /\ charts'[q] = charts[q]
             /\ file'[q] = file[q] /\ index'[q] = index[q]
  BY <1>0, ZenonT(90) DEF Types, ChartTypeOK
<1>2. ASSUME NEW q \in Regions \ {r} PROVE push'[q] = push[q] /\ result'[q] = result[q]
  BY <1>0, ZenonT(90) DEF Types, ChartTypeOK
<1>3. log' = log \/ (log' = Append(log, index) /\ sync'[r] = "head" /\ charts'[r] = charts[r]
                      /\ sync[r] = "committing")
  BY <1>0, Zenon DEF Types, ChartTypeOK
<1>4. charts' = charts \/ charts' = [charts EXCEPT ![r] = charts[r] + 1]
  BY Zenon
<1>5. origin' = origin \/ (sync[r] = "pushing" /\ origin' = push[r].to /\ origin = push[r].from)
  BY Zenon
<1> HIDE DEF SyncStep, StartSync
<1>6. origin <= origin'
  BY <1>0, <1>5, Values DEF Moved
<1>7. charts'[r] = 0 => charts[r] = 0
  <2>1. charts \in [Regions -> 0..MaxCharts] /\ charts[r] \in Nat
    BY <1>0, TypeFacts DEF Types, ChartTypeOK
  <2> QED
    BY <1>4, <2>1
<1> QED
  BY <1>1, <1>2, <1>3, <1>6, <1>7, Zenon DEF Frame

(* A framed step keeps what the other regions' syncs have achieved. *)
LEMMA OthersKept ==
  ASSUME CInv, NEW r \in Regions, Frame(r), Types', NEW q \in Regions \ {r}
  PROVE  (Kept(q) /\ Moved(q) /\ Worth(q))'
<1>1. /\ sync'[q] = sync[q] /\ charts'[q] = charts[q] /\ file'[q] = file[q]
      /\ index'[q] = index[q] /\ push'[q] = push[q] /\ result'[q] = result[q]
  BY Zenon DEF Frame
<1>2. Kept(q) /\ Moved(q) /\ Worth(q)
  BY Zenon DEF CInv
<1>3. /\ Len(log) \in Nat /\ origin \in 1..Len(log) /\ origin' \in 1..Len(log')
      /\ origin <= origin' /\ index[q] \in Nat /\ charts[q] \in Nat
      /\ push[q].to \in Nat /\ push[q].from \in Nat
  <2>1. /\ Len(log) \in Nat /\ origin \in 1..Len(log)
        /\ index[q] \in Nat /\ charts[q] \in Nat
        /\ push[q].to \in Nat /\ push[q].from \in Nat
    BY Values, Zenon DEF CInv
  <2>2. origin' \in 1..Len(log') /\ origin <= origin'
    BY Zenon DEF Frame, Types, ChartTypeOK
  <2> QED
    BY <2>1, <2>2, Zenon
<1>4. /\ Len(log') \in Nat /\ Len(log) <= Len(log')
      /\ \A k \in 1..Len(log) : log'[k] = log[k]
      /\ \A k \in 1..Len(log') : k \in 1..Len(log) \/ (k = Len(log) + 1 /\ log'[k] = index)
      /\ log' = log \/ Len(log') = Len(log) + 1
  BY LogGrows, Zenon DEF CInv, Frame
<1>5. log'[Len(log')][q] \in {log[Len(log)][q], index[q]}
  BY <1>3, <1>4
<1>6. Kept(q)'
  BY <1>1, <1>2, <1>3, <1>5 DEF Kept, Staged, Committed
<1>7. Moved(q)'
  <2> SUFFICES ASSUME sync[q] = "pushing"
               PROVE  /\ push[q].from <= origin' /\ push[q].from <= push[q].to
                      /\ push[q].to <= Len(log')
                      /\ \A k \in 1..Len(log') : push[q].to <= k => log'[k][q] = charts[q]
    BY <1>1, Zenon DEF Moved
  <2>1. /\ push[q].from <= origin /\ push[q].from <= push[q].to /\ push[q].to <= Len(log)
        /\ \A k \in 1..Len(log) : push[q].to <= k => log[k][q] = charts[q]
        /\ index[q] = charts[q]
    BY <1>2, Zenon DEF Moved, Kept, Staged
  <2>2. push[q].from <= origin' /\ push[q].to <= Len(log')
    BY <1>3, <1>4, <2>1
  <2>3. ASSUME NEW k \in 1..Len(log'), push[q].to <= k PROVE log'[k][q] = charts[q]
    <3>1. CASE k \in 1..Len(log)
      BY <1>4, <2>1, <2>3, <3>1, Zenon
    <3>2. CASE log'[k] = index
      BY <2>1, <3>2, Zenon
    <3> QED
      BY <1>4, <3>1, <3>2, Zenon
  <2> QED
    BY <2>1, <2>2, <2>3, Zenon
<1>8. Worth(q)'
  <2> SUFFICES ASSUME sync[q] = "idle"
               PROVE  /\ result[q] = "pushed" =>
                           \A k \in 1..Len(log') : origin' <= k => log'[k][q] = charts[q]
                      /\ result[q] = "unchanged" => log'[Len(log')][q] = charts[q]
    BY <1>1, <1>2, Zenon DEF Worth
  <2>1. ASSUME result[q] = "pushed", NEW k \in 1..Len(log'), origin' <= k
        PROVE  log'[k][q] = charts[q]
    <3>1. origin <= k
      BY <1>3, <2>1
    <3> QED
      BY <1>2, <1>4, <2>1, <3>1, Zenon DEF Worth
  <2>2. result[q] = "unchanged" => log'[Len(log')][q] = charts[q]
    BY <1>2, <1>5, Zenon DEF Worth
  <2> QED
    BY <2>1, <2>2, Zenon
<1> QED
  BY <1>6, <1>7, <1>8, Zenon

(* ... and gives no charts to a region without any. *)
LEMMA BlankKept ==
  ASSUME CInv, NEW r \in Regions, Frame(r), NEW q \in Regions PROVE Blank(q)'
<1> SUFFICES ASSUME charts'[q] = 0, NEW k \in 1..Len(log') PROVE log'[k][q] = 0
  BY Zenon DEF Blank
<1>0. Types /\ Kept(q) /\ Blank(q)
  BY Zenon DEF CInv
<1>1. charts[q] = 0 /\ index[q] \in Nat /\ Kept(q) /\ Blank(q)
  <2>1. charts[q] = 0
    BY Zenon DEF Frame
  <2> QED
    BY <1>0, <2>1, TypeFacts
<1>2. /\ \A i \in 1..Len(log) : log'[i] = log[i]
      /\ k \in 1..Len(log) \/ log'[k] = index
  BY LogGrows, Zenon DEF CInv, Frame
<1>3. index[q] = 0
  BY <1>1 DEF Kept
<1> QED
  BY <1>1, <1>2, <1>3, Zenon DEF Blank

(* A commit has no torn file and no charts older than the last one's. *)
LEMMA HistoryKept ==
  ASSUME CInv, NEW r \in Regions, Frame(r) PROVE History'
<1>1. SUFFICES ASSUME NEW i \in 1..Len(log'), NEW q \in Regions
               PROVE  log'[i][q] # Torn /\ (i > 1 => log'[i - 1][q] <= log'[i][q])
  BY Zenon DEF History, Torn
<1>2. /\ Len(log) \in Nat /\ Len(log) >= 1
      /\ Kept(q) /\ index[q] \in Nat /\ charts[q] \in 0..MaxCharts /\ Torn = MaxCharts + 1
      /\ MaxCharts \in Nat
  BY TypeFacts DEF CInv
<1>3. /\ \A k \in 1..Len(log) : log'[k] = log[k]
      /\ i \in 1..Len(log) \/ (i = Len(log) + 1 /\ log'[i] = index)
  BY LogGrows, Zenon DEF CInv, Frame
<1>4. CASE i \in 1..Len(log)
  <2>1. i > 1 => i - 1 \in 1..Len(log)
    BY <1>2, <1>4
  <2> QED
    BY <1>3, <1>4, <2>1, Zenon DEF CInv, History
<1>5. CASE i = Len(log) + 1 /\ log'[i] = index
  <2>1. log'[i - 1] = log[Len(log)]
    BY <1>2, <1>3, <1>5
  <2> QED
    BY <1>2, <1>5, <2>1 DEF Kept
<1> QED
  BY <1>3, <1>4, <1>5, Zenon

(* What remains of a step: the region's own part, and who waits. *)
Own(r) ==
  /\ (Kept(r) /\ Moved(r) /\ Worth(r))'
  /\ Waits(r) => Waits(r)' \/ origin' = Len(log')

(* A commit that waits still has somebody to blame after the step. *)
LEMMA WaitsKept ==
  ASSUME CInv, NEW r \in Regions, Frame(r), Own(r), Types' PROVE SomeoneWaits'
<1>1. SUFFICES ASSUME origin' < Len(log') PROVE \E q \in Regions : Waits(q)'
  BY Zenon DEF SomeoneWaits
<1>2. Len(log) \in Nat /\ origin \in 1..Len(log) /\ origin <= origin' /\ origin' \in Nat
  <2>1. Len(log) \in Nat /\ origin \in 1..Len(log)
    BY TypeFacts, Zenon DEF CInv
  <2>2. origin' \in 1..Len(log') /\ origin <= origin'
    BY Zenon DEF Frame, Types, ChartTypeOK
  <2> QED
    BY <2>1, <2>2
<1>3. CASE log' = log
  <2>1. PICK q \in Regions : Waits(q)
    BY <1>1, <1>2, <1>3 DEF CInv, SomeoneWaits
  <2>2. CASE q = r
    BY <1>1, <1>2, <2>1, <2>2 DEF Own
  <2>3. CASE q # r
    BY <1>3, <2>1, <2>3, Zenon DEF Frame, Waits
  <2> QED
    BY <2>2, <2>3, Zenon
<1>4. CASE sync'[r] = "head" /\ charts'[r] = charts[r] /\ sync[r] = "committing"
  BY <1>4, Zenon DEF CInv, Kept, Waits
<1> QED
  BY <1>3, <1>4, Zenon DEF Frame

(* A command succeeds or fails. *)
Turns(r, from, to) ==
  /\ sync[r] = from
  /\ sync'[r] = to \/ (sync'[r] = "idle" /\ result'[r] = "failed")

(* That is what the actions say. *)
LEMMA Turned ==
  ASSUME Types, NEW r \in Regions, NEW from, NEW to,
         Goes(r, from, to) \/ Returns(r, from, "failed")
  PROVE  Turns(r, from, to)
<1>1. /\ sync \in [Regions -> SyncStates]
      /\ result \in [Regions -> {"none", "nothing", "unchanged", "pushed", "failed"}]
  BY Zenon DEF Types, ChartTypeOK
<1> QED
  BY <1>1, Zenon DEF Goes, Returns, Turns

(* A command that leaves index and branch alone keeps the region's part. *)
LEMMA PlainOwn ==
  ASSUME NEW r \in Regions, Kept(r), NEW from, NEW to, Turns(r, from, to),
         <<from, to>> \in {<<"write", "status">>, <<"status", "add">>, <<"add", "adding">>,
                          <<"commit", "committing">>, <<"head", "push">>, <<"pushing", "push">>},
         UNCHANGED <<charts, index, log>>,
         \/ from # "write" /\ UNCHANGED file
         \/ sync'[r] = "idle" \/ file'[r] = charts[r]
  PROVE  Own(r)
<1>1. sync[r] # "idle" /\ charts[r] # 0
  BY Zenon DEF Turns, Kept
<1>2. Kept(r)'
  <2>1. sync'[r] = "idle" \/ file'[r] = charts[r]
    BY <1>1, Zenon DEF Turns, Kept
  <2>2. sync'[r] \in Staged => sync[r] \in Staged
    BY Zenon DEF Turns, Staged
  <2>3. sync'[r] \in Committed => sync[r] \in Committed
    BY Zenon DEF Turns, Committed
  <2> QED
    BY <1>1, <2>1, <2>2, <2>3, Zenon DEF Kept
<1>3. sync'[r] # "pushing" /\ (sync'[r] = "idle" => result'[r] = "failed")
  BY Zenon DEF Turns
<1> QED
  BY <1>1, <1>2, <1>3, Zenon DEF Own, Moved, Worth, Waits

(* The region's own part, step by step. *)
LEMMA OwnKept ==
  ASSUME CInv, NEW r \in Regions, StartSync(r) \/ SyncStep(r), Types' PROVE Own(r)
<1>0. Types /\ Kept(r) /\ Moved(r) /\ Worth(r)
  BY Zenon DEF CInv
<1>t. /\ sync \in [Regions -> SyncStates] /\ charts \in [Regions -> 0..MaxCharts]
      /\ result \in [Regions -> {"none", "nothing", "unchanged", "pushed", "failed"}]
      /\ push \in [Regions -> [try : Nat, from : Nat, to : Nat]]
  BY <1>0, Zenon DEF Types, ChartTypeOK
<1>v. /\ charts[r] \in Nat /\ index[r] \in Nat /\ log[Len(log)][r] \in Nat
      /\ push[r].from \in Nat /\ push[r].to \in Nat
      /\ Len(log) \in Nat /\ Len(log) >= 1 /\ origin \in 1..Len(log)
  BY <1>0, Values
<1>1. CASE StartSync(r)
  <2>1. /\ charts'[r] \in {charts[r], charts[r] + 1} /\ UNCHANGED <<index, log, origin>>
        /\ sync[r] = "idle"
    BY <1>t, <1>1, Zenon DEF StartSync
  <2>2. \/ sync'[r] = "write" /\ charts'[r] # 0
        \/ sync'[r] = "idle" /\ charts'[r] = 0 /\ result'[r] = "nothing"
    BY <1>t, <1>1, Zenon DEF StartSync, Goes, Returns
  <2>3. Kept(r)'
    BY <1>0, <1>v, <2>1, <2>2 DEF Kept, Staged, Committed
  <2>4. Moved(r)' /\ Worth(r)'
    BY <2>2, Zenon DEF Moved, Worth
  <2>5. Waits(r) => Waits(r)'
    BY <1>v, <2>1, <2>2 DEF Waits
  <2> QED
    BY <2>3, <2>4, <2>5, Zenon DEF Own
<1>2. CASE WriteFile(r)
  <2>1. Turns(r, "write", "status") /\ UNCHANGED <<charts, index, log>>
    BY <1>0, <1>2, Turned, Zenon DEF WriteFile
  <2>2. sync'[r] = "idle" \/ file'[r] = charts[r]
    <3>1. file \in [Regions -> 0..Torn]
      BY <1>0, Zenon DEF Types, ChartTypeOK
    <3> QED
      BY <1>t, <1>2, <3>1, Zenon DEF WriteFile, Returns, Goes
  <2> QED
    BY <1>0, <2>1, <2>2, PlainOwn, Zenon
<1>3. CASE Status(r)
  <2>1. UNCHANGED <<charts, file, index, log, origin>>
    BY <1>3, Zenon DEF Status, tree
  <2>2. CASE Turns(r, "status", "add")
    BY <1>0, <2>1, <2>2, PlainOwn, Zenon
  <2>3. CASE ~HasChanges(r) /\ Returns(r, "status", "unchanged")
    <3>1. sync[r] = "status" /\ sync'[r] = "idle" /\ result'[r] = "unchanged"
      BY <1>t, <2>3, Zenon DEF Returns, Goes
    <3>2. file[r] = charts[r] /\ index[r] = charts[r] /\ log[Len(log)][r] = charts[r]
      BY <1>0, <2>3, <3>1, Zenon DEF Kept, HasChanges, LastTree
    <3> QED
      BY <1>0, <2>1, <3>1, <3>2, Zenon DEF Own, Kept, Moved, Worth, Waits, Staged, Committed
  <2> QED
    BY <1>0, <1>3, <2>2, <2>3, Turned, Zenon DEF Status
<1>4. CASE AddBegins(r)
  <2>1. Turns(r, "add", "adding") /\ UNCHANGED <<charts, file, index, log>>
    BY <1>0, <1>4, Turned, Zenon DEF AddBegins, Locks, tree
  <2> QED
    BY <1>0, <2>1, PlainOwn, Zenon
<1>5. CASE AddEnds(r)
  <2>1. Turns(r, "adding", "commit") /\ UNCHANGED <<charts, file, log, origin>>
    BY <1>0, <1>5, Turned, Zenon DEF AddEnds
  <2>2. IF sync'[r] = "idle" THEN index'[r] = index[r] ELSE index'[r] = file[r]
    <3>1. index \in [Regions -> 0..Torn]
      BY <1>0, Zenon DEF Types, ChartTypeOK
    <3> QED
      BY <1>t, <1>5, <3>1, Zenon DEF AddEnds, Returns, Goes
  <2>3. /\ file[r] = charts[r] /\ charts[r] # 0
        /\ index[r] <= charts[r] /\ log[Len(log)][r] <= index[r]
    BY <1>0, <2>1, Zenon DEF Kept, Turns
  <2>4. index'[r] <= charts[r] /\ log[Len(log)][r] <= index'[r]
    BY <1>v, <2>2, <2>3
  <2>5. Kept(r)'
    BY <2>1, <2>2, <2>3, <2>4, Zenon DEF Kept, Turns, Staged, Committed
  <2> QED
    BY <2>1, <2>3, <2>5, Zenon DEF Own, Turns, Moved, Worth, Waits
<1>6. CASE CommitBegins(r)
  <2>1. Turns(r, "commit", "committing") /\ UNCHANGED <<charts, file, index, log>>
    BY <1>0, <1>6, Turned, Zenon DEF CommitBegins, Locks, tree
  <2> QED
    BY <1>0, <2>1, PlainOwn, Zenon
<1>7. CASE CommitEnds(r)
  <2>1. Turns(r, "committing", "head") /\ UNCHANGED <<charts, file, index, origin>>
    BY <1>0, <1>7, Turned, Zenon DEF CommitEnds
  <2>2. \/ log' = Append(log, index)
        \/ sync'[r] = "idle" /\ log' = log
    BY <1>t, <1>7, Zenon DEF CommitEnds, Returns, Goes
  <2>3. log' = Append(log, index) => log'[Len(log')] = index
    <3>1. log \in Seq([Regions -> 0..Torn]) /\ index \in [Regions -> 0..Torn]
      BY <1>0, Zenon DEF Types, ChartTypeOK
    <3> QED
      BY <3>1
  <2>4. sync[r] = "committing" /\ charts[r] # 0 /\ index[r] = charts[r] /\ file[r] = charts[r]
    BY <1>0, <2>1, Zenon DEF Kept, Turns, Staged
  <2>5. log'[Len(log')][r] = charts[r] \/ (sync'[r] = "idle" /\ log' = log)
    BY <2>2, <2>3, <2>4, Zenon
  <2>6. Kept(r)'
    BY <1>0, <1>v, <2>1, <2>4, <2>5, Zenon DEF Kept, Turns, Staged, Committed
  <2> QED
    BY <2>1, <2>4, <2>6, Zenon DEF Own, Turns, Moved, Worth, Waits
<1>8. CASE FindRemote(r)
  <2>1. Turns(r, "head", "push") /\ UNCHANGED <<charts, file, index, log>>
    BY <1>0, <1>8, Turned, Zenon DEF FindRemote, tree
  <2> QED
    BY <1>0, <2>1, PlainOwn, Zenon
<1>9. CASE PushBegins(r)
  <2>1. /\ sync[r] = "push" /\ sync'[r] = "pushing"
        /\ push'[r].from = origin /\ push'[r].to = Len(log)
        /\ UNCHANGED <<charts, file, index, log, origin>>
    BY <1>t, <1>9, Zenon DEF PushBegins, Goes, tree
  <2>2. log[Len(log)][r] = charts[r]
    BY <1>0, <2>1, Zenon DEF Kept, Committed
  <2>3. Kept(r)'
    BY <1>0, <2>1, Zenon DEF Kept, Staged, Committed
  <2>4. ASSUME NEW k \in 1..Len(log), Len(log) <= k PROVE log[k][r] = charts[r]
    BY <1>v, <2>2, <2>4
  <2> QED
    BY <1>v, <2>1, <2>3, <2>4 DEF Own, Moved, Worth, Waits
<1>10. CASE PushEnds(r)
  <2>1. /\ sync[r] = "pushing" /\ sync'[r] = "idle" /\ result'[r] = "pushed"
        /\ UNCHANGED <<charts, file, index, log>>
    BY <1>t, <1>10, Zenon DEF PushEnds, Returns, Goes
  <2>2. \/ push[r].from = push[r].to /\ origin' = origin
        \/ origin = push[r].from /\ origin' = push[r].to
    BY <1>10, Zenon DEF PushEnds, Accepts
  <2>3. /\ push[r].from <= origin /\ push[r].from <= push[r].to /\ push[r].to <= Len(log)
        /\ \A k \in 1..Len(log) : push[r].to <= k => log[k][r] = charts[r]
    BY <1>0, <2>1, Zenon DEF Moved
  <2>4. Kept(r)' /\ index[r] = charts[r]
    BY <1>0, <2>1, Zenon DEF Kept, Staged, Committed
  <2>5. push[r].to <= origin' /\ origin' \in Nat
    BY <1>v, <2>2, <2>3
  <2>6. ASSUME NEW k \in 1..Len(log), origin' <= k PROVE log[k][r] = charts[r]
    <3>1. push[r].to <= k
      BY <1>v, <2>5, <2>6
    <3> QED
      BY <2>3, <3>1, Zenon
  <2>7. Moved(r)' /\ Worth(r)'
    BY <2>1, <2>4, <2>6, Zenon DEF Moved, Worth
  <2>8. Waits(r) => origin' = Len(log')
    BY <1>v, <2>1, <2>2, <2>3 DEF Waits
  <2> QED
    BY <2>4, <2>7, <2>8, Zenon DEF Own
<1>11. CASE PushFails(r)
  <2>1. Turns(r, "pushing", "push") /\ UNCHANGED <<charts, file, index, log>>
    BY <1>0, <1>11, Turned, Zenon DEF PushFails
  <2> QED
    BY <1>0, <2>1, PlainOwn, Zenon
<1>12. CASE PushRejected(r)
  <2>1. Turns(r, "pushing", "push") /\ UNCHANGED <<charts, file, index, log>>
    BY <1>0, <1>12, Turned, Zenon DEF PushRejected, tree
  <2> QED
    BY <1>0, <2>1, PlainOwn, Zenon
<1> QED
  BY <1>1, <1>2, <1>3, <1>4, <1>5, <1>6, <1>7, <1>8, <1>9, <1>10, <1>11, <1>12, Zenon DEF SyncStep

(* A crash forgets the syncs under way and takes back nothing. *)
LEMMA CrashKept == CInv /\ CrashSync => CInv'
<1> SUFFICES ASSUME CInv, CrashSync PROVE CInv'
  BY Zenon
<1>1. UNCHANGED <<charts, index, log, origin>>
  BY Zenon DEF CrashSync
<1>2. Types'
  <2>1. /\ sync' \in [Regions -> SyncStates]
        /\ push' \in [Regions -> [try : Nat, from : Nat, to : Nat]]
    BY Zenon DEF CrashSync, SyncStates, NoPush
  <2>2. result' \in [Regions -> {"none", "nothing", "unchanged", "pushed", "failed"}]
    BY Zenon DEF CrashSync, CInv, Types, ChartTypeOK
  <2>3. file' \in [Regions -> 0..Torn]
    <3>1. file \in [Regions -> 0..Torn]
      BY ZenonT(90) DEF CInv, Types, ChartTypeOK
    <3>2. Torn \in 0..Torn
      BY ChartBounds DEF Torn
    <3> QED
      BY <3>1, <3>2, Zenon DEF CrashSync
  <2>4. lock' \in Regions \cup {Nobody}
    BY Zenon DEF CrashSync, CInv, Types, ChartTypeOK
  <2> QED
    BY <1>1, <2>1, <2>2, <2>3, <2>4, ZenonT(90) DEF CInv, Types, ChartTypeOK
<1>3. History'
  BY <1>1, Zenon DEF CInv, History, Torn
<1>4. ASSUME NEW q \in Regions PROVE (Kept(q) /\ Moved(q) /\ Worth(q) /\ Blank(q))'
  <2>1. sync'[q] = "idle" /\ result'[q] \in {"none", result[q]}
        /\ (result'[q] # "none" => sync[q] = "idle")
    BY Zenon DEF CrashSync, CInv, Types, ChartTypeOK
  <2>2. Kept(q) /\ Worth(q) /\ Blank(q)
    BY SMTT(90) DEF CInv
  <2>3. Kept(q)'
    BY <1>1, <2>1, <2>2, Zenon DEF Kept, Staged, Committed
  <2>4. Moved(q)'
    BY <2>1, Zenon DEF Moved
  <2>5. Worth(q)'
    BY <1>1, <2>1, <2>2, Zenon DEF Worth
  <2>6. Blank(q)'
    BY <1>1, <2>2, Zenon DEF Blank
  <2> QED
    BY <2>3, <2>4, <2>5, <2>6, Zenon
<1>5. SomeoneWaits'
  BY <1>1, Zenon DEF CrashSync, CInv, SomeoneWaits, Waits
<1> QED
  BY <1>2, <1>3, <1>4, <1>5, Zenon DEF CInv

(* The invariant is inductive. *)
LEMMA ChartStepKeeps == CInv /\ (ChartStep \/ UNCHANGED chartVars) => CInv'
<1>1. ASSUME CInv, NEW r \in Regions, StartSync(r) \/ SyncStep(r) PROVE CInv'
  <2>1. Types' /\ Frame(r)
    BY <1>1, TypesKept, Framed, Zenon
  <2>2. Own(r)
    BY <1>1, <2>1, OwnKept, Zenon
  <2>3. History' /\ SomeoneWaits'
    BY <1>1, <2>1, <2>2, HistoryKept, WaitsKept, Zenon
  <2>4. ASSUME NEW q \in Regions PROVE (Kept(q) /\ Moved(q) /\ Worth(q) /\ Blank(q))'
    <3>1. CASE q = r
      BY <1>1, <2>1, <2>2, <3>1, BlankKept, Zenon DEF Own
    <3>2. CASE q # r
      BY <1>1, <2>1, <3>2, OthersKept, BlankKept, SMTT(90)
    <3> QED
      BY <3>1, <3>2, Zenon
  <2> QED
    BY <2>1, <2>3, <2>4, Zenon DEF CInv
<1>2. ASSUME CInv, UNCHANGED chartVars PROVE CInv'
  <2>1. (Types /\ History /\ SomeoneWaits)'
    BY <1>2, Zenon DEF CInv, Types, ChartTypeOK, History, SomeoneWaits, Waits, Torn, chartVars
  <2>2. ASSUME NEW q \in Regions PROVE (Kept(q) /\ Moved(q) /\ Worth(q) /\ Blank(q))'
    BY <1>2, Zenon DEF CInv, Kept, Moved, Worth, Blank, Torn, chartVars
  <2> QED
    BY <2>1, <2>2, Zenon DEF CInv
<1> QED
  BY <1>1, <1>2, CrashKept, Zenon DEF ChartStep
------------------------------------------------------------------------------
(* The job touches the repository only through the steps of a sync. *)
LEMMA NextIsChartStep == Next => ChartStep \/ UNCHANGED chartVars
BY HereAssumption, Zenon DEF Next, Load, Plan, Downloaded, Sync, SyncReturns, Crash, ChartStep

(* sync_chart_hashes: however the git commands of any number of regions     *)
(* interleave, fail and die, a sync that answers "pushed" leaves the        *)
(* region's charts on the remote, none that answers "unchanged" lacks a     *)
(* commit, no commit goes back in time, and none waits while every answer   *)
(* is a good one.                                                           *)
THEOREM ChartsSafe == Spec => []ChartsAccounted
<1>1. Init => CInv
  BY InitCInv, Zenon DEF Init
<1>2. CInv /\ [Next]_vars => CInv'
  BY ChartStepKeeps, NextIsChartStep, Zenon DEF vars
<1>3. CInv => ChartsAccounted
  BY CInvGivesAccounted, SMTT(90)
<1> QED
  BY <1>1, <1>2, <1>3, PTL DEF Spec

(* The followed region's sync and its poll keep step. *)
InStep ==
  /\ at # "charts" => sync[Here] = "idle"
  /\ at = "charts" /\ sync[Here] = "idle" => result[Here] # "none"
  /\ at = "completed" => result[Here] \notin {"failed", "none"}

(* Finding the catalogue neither starts nor ends a sync. *)
LEMMA PlanLeavesCharts ==
  PlanNext \/ Configure => at' = at \/ at' \notin {"charts", "completed"}
BY ZenonT(90) DEF PlanNext, Configure, Publish, Layer0, RequestFails, Cookie, ResolveVersions,
   AfterCookie,
       CurrentVersion, NoKey, GameVersion, Address, AssetVersion, Catalogue, NothingNew, NextRound,
       NextPoll, Asks, First, PollOver, AttemptFails, Answered

(* A sync that returns has an answer. *)
LEMMA SyncAnswers ==
  ASSUME CInv, NEW r \in Regions, SyncStep(r)
  PROVE  sync[r] # "idle" /\ (sync'[r] = "idle" => result'[r] # "none")
BY ZenonT(90) DEF CInv, Types, ChartTypeOK, SyncStep, WriteFile, Status, AddBegins, CommitBegins,
   Locks,
       AddEnds, CommitEnds, FindRemote, PushBegins, PushEnds, PushFails, PushRejected, Goes, Returns

(* Poll and sync keep step in every step of the job. *)
LEMMA InStepKept == CInv /\ InStep /\ [Next]_vars => InStep'
<1> SUFFICES ASSUME CInv, InStep, [Next]_vars PROVE InStep'
  BY Zenon
<1> USE HereAssumption
<1>1. CASE Load
  <2>1. UNCHANGED <<at, chartVars>>
    BY <1>1, Zenon DEF Load, planVars, Configure
  <2> QED
    BY <2>1, Zenon DEF InStep, chartVars
<1>2. CASE Plan
  BY <1>2, PlanLeavesCharts, Zenon DEF Plan, InStep, chartVars
<1>3. CASE Downloaded
  <2>1. \/ sync'[Here] # "idle"
        \/ result'[Here] = "nothing"
    BY <1>3, Zenon DEF Downloaded, StartSync, Goes, Returns, CInv, Types, ChartTypeOK
  <2> QED
    BY <1>3, <2>1, Zenon DEF Downloaded, InStep
<1>4. CASE Sync
  <2>1. at' = at
    BY <1>4, Zenon DEF Sync, planVars
  <2>2. ASSUME NEW r \in Regions, SyncStep(r) PROVE InStep'
    <3>1. CASE r = Here
      BY <2>1, <2>2, <3>1, SyncAnswers, Zenon DEF InStep
    <3>2. CASE r # Here
      BY <2>1, <2>2, <3>2, Framed, Zenon DEF InStep, Frame
    <3> QED
      BY <3>1, <3>2, Zenon
  <2>3. ASSUME NEW r \in Regions \ {Here}, StartSync(r) PROVE InStep'
    BY <2>1, <2>3, Framed, Zenon DEF InStep, Frame
  <2> QED
    BY <1>4, <2>2, <2>3, Zenon DEF Sync
<1>5. CASE SyncReturns
  BY <1>5, Zenon DEF SyncReturns, Passed, PollOver, AttemptFails, chartVars, InStep
<1>6. CASE Crash
  BY <1>6, Zenon DEF Crash, CrashSync, PollOver, InStep
<1>7. CASE UNCHANGED vars
  BY <1>7, Zenon DEF vars, planVars, chartVars, InStep
<1> QED
  BY <1>1, <1>2, <1>3, <1>4, <1>5, <1>6, <1>7, Zenon DEF Next

(* Together with the repository's invariant that gives the property. *)
LEMMA AnswerHolds ==
  ASSUME CInv, InStep PROVE JobAccounted
<1> SUFFICES ASSUME at \in {"completed", "nothing"}, ~Published(Here)
             PROVE  \/ at = "nothing" /\ result[Here] \in {"failed", "none"}
                    \/ result[Here] = "unchanged" /\ origin < Len(log)
  BY Zenon DEF JobAccounted
<1>1. sync[Here] = "idle" /\ Here \in Regions
  BY HereAssumption, Zenon DEF InStep
<1>2. /\ result[Here] \in {"none", "nothing", "unchanged", "pushed", "failed"}
      /\ origin \in 1..Len(log)
  BY <1>1, Zenon DEF CInv, Types, ChartTypeOK
<1>3. result[Here] \notin {"nothing", "pushed"}
  BY <1>1, <1>2, CInvGivesAccounted, Zenon DEF CInv, Worth, Blank, Published, ChartsAccounted
<1>4. result[Here] = "unchanged" => origin < Len(log)
  BY <1>1, CInvGivesAccounted, Zenon DEF ChartsAccounted
<1> QED
  BY <1>2, <1>3, <1>4, Zenon DEF InStep

(* execute_with_filter after its downloads: a poll that reports success has *)
(* its charts on the remote or committed behind an earlier failure, and one *)
(* that finds nothing new can only hide a sync that failed or died.         *)
THEOREM JobSafe == Spec => []JobAccounted
<1>1. Init => CInv /\ InStep
  BY InitCInv, HereAssumption, Zenon DEF Init, PlanInit, ChartInit, InStep
<1>2. CInv /\ InStep /\ [Next]_vars => CInv' /\ InStep'
  BY ChartStepKeeps, NextIsChartStep, InStepKept, Zenon DEF vars
<1>3. CInv /\ InStep => JobAccounted
  BY AnswerHolds, Zenon
<1> QED
  BY <1>1, <1>2, <1>3, PTL DEF Spec
------------------------------------------------------------------------------
(* The stages of loading. *)
SettingStages ==
  {"locate", "expand", "override", "deserialize", "dedicated", "validate", "ready", "tuned",
   "running", "failed"}

(* The first n overrides have a last one that concerns f, or none. *)
HasLast(f, n) == \E i \in 0..n : IsLast(i, f, n)

(* The tree is what the file and the overrides so far say. *)
TreeSays ==
  \A f \in Fields : HasLast(f, done) /\ value[f] = WrittenBy(f, done)

(* What is known at each stage.  The property itself speaks of the last    *)
(* stages only.                                                            *)
SettingsInv ==
  /\ stage \in SettingStages
  /\ stage # "running" => Possible(layers)
  /\ stage \in {"override", "deserialize"} =>
       /\ value \in [Fields -> TreeValues] /\ done \in 0..Len(layers.overrides) /\ TreeSays
  /\ stage = "locate" => done = 0
  /\ stage = "expand" => value = layers.file /\ done = 0
  /\ stage = "deserialize" => done = Len(layers.overrides)
  /\ stage = "dedicated" =>
       /\ value \in [Fields -> TreeValues]
       /\ \A f \in Fields : value[f] = IF Written(f) = Absent THEN Default[f] ELSE Written(f)
       /\ \A f \in Fields \ {"password"} : value[f] \in Nat
  /\ stage \in {"validate", "ready"} => \A f \in Fields : value[f] = Resolved(f)
  /\ stage \in {"validate", "ready", "tuned"} => \A f \in Section : value[f] \in Nat
  /\ SettingsResolved

(* There is but one last override. *)
LEMMA LastIsUnique ==
  ASSUME NEW f, NEW n \in Nat, NEW i \in 0..n, IsLast(i, f, n)
  PROVE  i = CHOOSE k \in 0..n : IsLast(k, f, n)
<1>1. ASSUME NEW k \in 0..n, IsLast(k, f, n) PROVE k = i
  BY <1>1 DEF IsLast, Concern
<1> QED
  BY <1>1, Zenon

(* The reference, one override further: what Applied does to a setting is   *)
(* what the overrides up to this one say of it.                             *)
LEMMA NextWritten ==
  ASSUME NEW f \in Fields, NEW n \in Nat, HasLast(f, n),
         NEW o, o = layers.overrides[n + 1]
  PROVE  /\ HasLast(f, n + 1)
         /\ WrittenBy(f, n + 1) =
              IF f \in DOMAIN o THEN o[f]
              ELSE IF WrittenBy(f, n) = Scalar /\ DOMAIN o \cap Section # {} THEN Absent
              ELSE WrittenBy(f, n)
<1>1. PICK i \in 0..n : IsLast(i, f, n)
  BY Zenon DEF HasLast
<1>2. i = CHOOSE k \in 0..n : IsLast(k, f, n)
  BY <1>1, LastIsUnique, Zenon
<1>3. CASE f \in DOMAIN o
  <2>1. IsLast(n + 1, f, n + 1) /\ n + 1 \in 0..(n + 1) /\ n + 1 \in Nat
    BY <1>3 DEF IsLast, Concern
  <2>2. n + 1 = CHOOSE k \in 0..(n + 1) : IsLast(k, f, n + 1)
    BY <2>1, LastIsUnique, Zenon
  <2>3. Said(f, n + 1) = o[f]
    BY DEF Said
  <2>4. (n + 1 + 1)..(n + 1) = {}
    OBVIOUS
  <2> QED
    BY <1>3, <2>1, <2>2, <2>3, <2>4, Zenon DEF WrittenBy, HasLast
<1>4. CASE f \notin DOMAIN o
  <2>1. Concern(f, n + 1) = Concern(f, n)
    BY <1>4 DEF Concern
  <2>2. IsLast(i, f, n + 1) /\ i \in 0..(n + 1) /\ n + 1 \in Nat
    <3>1. i \in Concern(f, n + 1) \cup {0} /\ \A j \in Concern(f, n + 1) : j <= i
      BY <1>1, <2>1, Zenon DEF IsLast
    <3>2. i \in 0..(n + 1) /\ n + 1 \in Nat
      OBVIOUS
    <3> QED
      BY <3>1, <3>2, Zenon DEF IsLast
  <2>3. i = CHOOSE k \in 0..(n + 1) : IsLast(k, f, n + 1)
    BY <2>2, LastIsUnique, Zenon
  <2>4. \A k : k \in (i + 1)..(n + 1) <=> k \in (i + 1)..n \/ k = n + 1
    OBVIOUS
  <2>5. InSection(n + 1) <=> DOMAIN o \cap Section # {}
    BY Zenon DEF InSection
  <2>6. WrittenBy(f, n) = IF Said(f, i) = Scalar /\ \E k \in (i + 1)..n : InSection(k)
                          THEN Absent ELSE Said(f, i)
    BY <1>2 DEF WrittenBy
  <2>7. WrittenBy(f, n + 1) = IF Said(f, i) = Scalar /\ \E k \in (i + 1)..(n + 1) : InSection(k)
                              THEN Absent ELSE Said(f, i)
    BY <2>3 DEF WrittenBy
  <2>8. Absent # Scalar
    BY DEF Absent, Scalar
  <2>9. WrittenBy(f, n + 1) = IF WrittenBy(f, n) = Scalar /\ InSection(n + 1) THEN Absent
                              ELSE WrittenBy(f, n)
    BY <2>4, <2>6, <2>7, <2>8, Zenon
  <2> QED
    BY <1>4, <2>2, <2>5, <2>9, Zenon DEF HasLast
<1> QED
  BY <1>3, <1>4, Zenon

(* Without overrides the file counts. *)
LEMMA FirstWritten ==
  ASSUME NEW f \in Fields
  PROVE  HasLast(f, 0) /\ WrittenBy(f, 0) = Said(f, 0)
<1>1. Concern(f, 0) = {}
  BY DEF Concern
<1>2. IsLast(0, f, 0) /\ 0 \in 0..0
  BY <1>1 DEF IsLast
<1>3. 0 = CHOOSE k \in 0..0 : IsLast(k, f, 0)
  BY <1>2, LastIsUnique, Zenon
<1>4. (0 + 1)..0 = {}
  OBVIOUS
<1> QED
  BY <1>2, <1>3, <1>4, Zenon DEF WrittenBy, HasLast

(* The reference is about file and environment alone. *)
LEMMA LayersFramed ==
  ASSUME layers' = layers
  PROVE  /\ \A f, n : WrittenBy(f, n)' = WrittenBy(f, n)
         /\ \A f, n : HasLast(f, n)' = HasLast(f, n)
         /\ \A f : Written(f)' = Written(f) /\ Resolved(f)' = Resolved(f)
         /\ Possible(layers)' = Possible(layers)
         /\ \A w : Explained(w)' = Explained(w)
<1>1. \A f, n : WrittenBy(f, n)' = WrittenBy(f, n) /\ HasLast(f, n)' = HasLast(f, n)
  BY DEF WrittenBy, HasLast, IsLast, Concern, Said, InSection
<1>2. \A f : Written(f)' = Written(f)
  BY <1>1, Zenon DEF Written
<1>3. \A f : Resolved(f)' = Resolved(f)
  BY <1>2, Zenon DEF Resolved
<1>4. \A w : Explained(w)' = Explained(w)
  BY <1>2, <1>3, Zenon DEF Explained
<1> QED
  BY <1>1, <1>2, <1>3, <1>4, Zenon DEF Possible

(* The dedicated variables bring the settings to their final values. *)
LEMMA ResolvedNow ==
  ASSUME SettingsInv, stage = "dedicated", {layers.media, layers.audio} \cap {Text, 0} = {}
  PROVE  /\ \A f \in Fields : Dedicated(value)[f] = Resolved(f)
         /\ \A f \in Section : Dedicated(value)[f] \in Nat
<1>1. /\ value \in [Fields -> TreeValues]
      /\ \A f \in Fields : value[f] = IF Written(f) = Absent THEN Default[f] ELSE Written(f)
      /\ \A f \in Fields \ {"password"} : value[f] \in Nat
      /\ {layers.media, layers.audio} \subseteq Nat \cup {Absent}
  BY Zenon DEF SettingsInv, Possible
<1>2. ASSUME NEW f \in Fields
      PROVE  Dedicated(value)[f] =
               IF f = "audio_encode" /\ layers.audio # Absent THEN layers.audio
               ELSE IF f \in Section /\ layers.media # Absent THEN layers.media
               ELSE IF f = "password" /\ value[f] = Ref THEN Secret ELSE value[f]
  BY <1>1, Zenon DEF Dedicated, Fields, Section
<1>3. ASSUME NEW f \in Fields
      PROVE  Resolved(f) = IF f = "audio_encode" /\ layers.audio # Absent THEN layers.audio
                           ELSE IF f \in Section /\ layers.media # Absent THEN layers.media
                           ELSE IF Written(f) = Ref THEN Secret
                           ELSE IF Written(f) = Absent THEN Default[f] ELSE Written(f)
  BY Zenon DEF Resolved
<1>4. ASSUME NEW f \in Fields
      PROVE  Written(f) = Ref <=> f = "password" /\ value[f] = Ref
  <2>1. Default[f] # Ref /\ Ref # Absent /\ Ref \notin Nat
    BY DEF Default, Fields, Section, Ref, Absent
  <2> QED
    BY <1>1, <2>1, Zenon
<1>5. \A f \in Fields : Dedicated(value)[f] = Resolved(f)
  BY <1>1, <1>2, <1>3, <1>4, Zenon
<1>6. \A f \in Section : f \in Fields \ {"password"}
  BY Zenon DEF Section, Fields
<1> QED
  BY <1>1, <1>2, <1>5, <1>6, Zenon

(* Whatever the machine, positive settings make positive limits. *)
LEMMA LimitsPositive ==
  ASSUME NEW m \in Machines, NEW v, v.media_encode \in Nat \ {0}, v.audio_encode \in Nat \ {0}
  PROVE  /\ \A l \in DOMAIN Limits(m, v) : Limits(m, v)[l] > 0
         /\ Limits(m, v).audio_encode <= v.audio_encode
<1>1. /\ m.cpus \in Nat /\ m.ratio \in Nat /\ m.reserved \in Nat /\ m.download \in Nat
      /\ m.post_process \in Nat /\ m.video \in Nat /\ m.processes \in Nat
  BY MachinesAssumption, Zenon
<1>2. Budget(m) \in Nat \ {0}
  <2>1. \A a, b \in Nat : (a * b) \div 100 \in Int
    OBVIOUS
  <2>2. Positive(m.cpus) \in Nat
    BY <1>1, Zenon DEF Positive, MostOf
  <2> DEFINE share == (Positive(m.cpus) * m.ratio) \div 100
  <2>3. share \in Int
    BY <1>1, <2>1, <2>2, Zenon
  <2> HIDE DEF share
  <2>4. Positive(MostOf(share - m.reserved, 0)) \in Nat \ {0}
    BY <1>1, <2>3 DEF Positive, MostOf
  <2>5. Positive(m.cpus) \in Nat \ {0}
    BY <1>1 DEF Positive, MostOf
  <2> QED
    BY <2>4, <2>5, Zenon DEF Budget, share
<1> DEFINE cpus  == Positive(m.cpus)
           media == Tuned(m, v.media_encode, 2 * Budget(m))
           audio == Tuned(m, v.audio_encode, 2 * Budget(m))
           width == MostOf((cpus + 3) \div 4, 1)
           video == Tuned(m, m.video, width)
           room  == MostOf(2 * cpus, 2)
           post  == IF m.post_process = 0 THEN 0 ELSE Tuned(m, m.post_process, room)
           most  == Positive(MostOf(audio, MostOf(video, media)))
           far   == MostOf(4 * cpus, 4)
           dl    == Positive(Tuned(m, m.download, far))
           procs == IF m.processes > 0 THEN m.processes
                    ELSE IF m.throttle THEN Positive(LeastOf(cpus, 2 * Budget(m))) ELSE Budget(m)
<1>3. Limits(m, v) = [download |-> dl, post_process |-> IF post = 0 THEN most ELSE post,
                      audio_encode |-> audio, processes |-> procs]
  BY Zenon DEF Limits
<1>4. cpus \in Nat \ {0}
  BY <1>1 DEF Positive, MostOf
<1>5. 2 * Budget(m) \in Nat \ {0}
  BY <1>2
<1>6. media \in Int /\ audio \in Int /\ audio > 0 /\ audio <= v.audio_encode
  <2> DEFINE b == 2 * Budget(m)
  <2> HIDE DEF b
  <2>1. b \in Int /\ b > 0
    BY <1>5 DEF b
  <2>2. Tuned(m, v.media_encode, b) \in Int
    BY <2>1 DEF Tuned, LeastOf, Positive, MostOf
  <2>3. /\ Tuned(m, v.audio_encode, b) \in Int /\ Tuned(m, v.audio_encode, b) > 0
        /\ Tuned(m, v.audio_encode, b) <= v.audio_encode
    BY <2>1 DEF Tuned, LeastOf, Positive, MostOf
  <2> QED
    BY <2>2, <2>3, Zenon DEF b
<1>7. width \in Int /\ room \in Int /\ far \in Int
  <2> HIDE DEF cpus
  <2> QED
    BY <1>4 DEF MostOf
<1> HIDE DEF cpus, width, room, far
<1>8. video \in Int /\ dl > 0
  <2>1. Tuned(m, m.video, width) \in Int /\ Tuned(m, m.download, far) \in Int
    BY <1>1, <1>7 DEF Tuned, LeastOf, Positive, MostOf
  <2> QED
    BY <2>1 DEF Positive, MostOf
<1>9. post = 0 \/ post > 0
  BY <1>1, <1>7 DEF Tuned, LeastOf, Positive, MostOf
<1>10. procs > 0
  <2>1. Positive(LeastOf(cpus, 2 * Budget(m))) > 0
    BY <1>4, <1>5 DEF Positive, LeastOf, MostOf
  <2> QED
    BY <1>1, <1>2, <2>1
<1> HIDE DEF audio, video, media
<1>11. most > 0
  BY <1>6, <1>8 DEF Positive, MostOf
<1> HIDE DEF dl, post, most, procs
<1> QED
  BY <1>3, <1>6, <1>8, <1>9, <1>10, <1>11

(* What the invariant asks of settings that have passed the checks. *)
LEMMA LoadedWell ==
  ASSUME stage' = "ready", Possible(layers)', \A f \in Section : value'[f] \in Nat,
         \A f \in Fields : value'[f] = Resolved(f)', (value.media_encode > 0)',
         (value.audio_encode > 0)'
  PROVE  SettingsInv'
BY Zenon DEF SettingsInv, SettingsResolved, SettingStages

(* Every step of loading keeps the invariant. *)
LEMMA LoadStep ==
  ASSUME SettingsInv, SettingsNext PROVE SettingsInv'
<1>0. layers' = layers /\ stage # "running" /\ Possible(layers)
  BY Zenon DEF SettingsInv, SettingsNext, Locate, Expand, Override, Deserialize, ResolveEnv,
     Validate,
     Tune, LoadFails, LoadsTo
<1>a. ASSUME NEW w, LoadFails(w), Explained(w) PROVE SettingsInv'
  <2>1. Explained(w)'
    BY <1>0, <1>a, LayersFramed, Zenon
  <2> QED
    BY <1>0, <1>a, <2>1, LayersFramed, Zenon DEF LoadFails, SettingsInv, SettingsResolved,
       SettingStages
<1>1. CASE Locate
  <2>1. CASE LoadFails("unreadable") \/ LoadFails("missing")
    BY <1>a, <2>1, Zenon DEF Explained
  <2>2. CASE value' = layers.file /\ UNCHANGED done /\ LoadsTo("expand")
    BY <1>0, <1>1, <2>2, LayersFramed, Zenon DEF Locate, LoadsTo, SettingsInv, SettingsResolved,
       SettingStages
  <2> QED
    BY <1>1, <2>1, <2>2, Zenon DEF Locate
<1>2. CASE Expand
  <2>1. CASE LoadFails("variable")
    <3>1. Explained("variable")
      BY <1>2, <2>1, Zenon DEF Expand, LoadFails, LoadsTo, Explained, SettingsInv
    <3> QED
      BY <1>a, <2>1, <3>1, Zenon
  <2>2. CASE value' = [f \in Fields |-> ExpandedTo(f)] /\ UNCHANGED done /\ LoadsTo("override")
    <3>1. \A f \in Fields : value'[f] = Said(f, 0)
      BY <1>2, <2>2 DEF Expand, ExpandedTo, Said, SettingsInv
    <3>2. \A f \in Fields : value'[f] \in TreeValues
      <4>1. \A f \in Fields : layers.file[f] \in TreeValues
        BY <1>0, Zenon DEF Possible
      <4>2. Secret \in TreeValues /\ Text \in TreeValues /\ ~(0 > 0)
        BY DEF TreeValues
      <4> QED
        BY <3>1, <4>1, <4>2, Zenon DEF Said
    <3>3. done' = 0 /\ 0 \in 0..Len(layers.overrides)
      BY <1>0, <1>2, <2>2 DEF Expand, SettingsInv, Possible
    <3>4. TreeSays'
      BY <1>0, <3>1, <3>3, FirstWritten, LayersFramed, Zenon DEF TreeSays
    <3>5. stage' = "override"
      BY <2>2, Zenon DEF LoadsTo
    <3> QED
      BY <1>0, <2>2, <3>2, <3>3, <3>4, <3>5, LayersFramed, Zenon DEF SettingsInv, SettingsResolved,
         SettingStages
  <2> QED
    BY <1>2, <2>1, <2>2, Zenon DEF Expand
<1>3. CASE Override
  <2>o. /\ stage = "override" /\ value \in [Fields -> TreeValues] /\ TreeSays
        /\ done \in 0..Len(layers.overrides) /\ Len(layers.overrides) \in Nat
    <3>1. stage = "override"
      BY <1>3, Zenon DEF Override
    <3>2. Len(layers.overrides) \in Nat
      BY <1>0, Zenon DEF Possible
    <3> QED
      BY <3>1, <3>2, Zenon DEF SettingsInv
  <2>0. CASE done < Len(layers.overrides) /\ Malformed(done + 1)
    <3>1. LoadFails("name")
      BY <1>3, <2>0, Zenon DEF Override
    <3>2. done + 1 \in 1..Len(layers.overrides)
      BY <2>0, <2>o
    <3>3. Explained("name")
      BY <2>0, <3>2, Zenon DEF Explained, Malformed
    <3> QED
      BY <1>a, <3>1, <3>3, Zenon
  <2>1. CASE done < Len(layers.overrides) /\ ~Malformed(done + 1)
    <3> DEFINE o == layers.overrides[done + 1]
    <3>1. /\ done' = done + 1 /\ stage' = "override" /\ value' = Applied(o, value)
          /\ stage = "override" /\ done \in Nat /\ done + 1 \in 1..Len(layers.overrides)
          /\ value \in [Fields -> TreeValues] /\ TreeSays
      <4>1. done' = done + 1 /\ stage' = "override" /\ value' = Applied(o, value)
        BY <1>3, <2>1, Zenon DEF Override, LoadsTo
      <4> QED
        BY <2>1, <2>o, <4>1
    <3>2. \A f \in DOMAIN o : o[f] \in TreeValues
      <4>1. \A i \in 1..Len(layers.overrides) : \A f \in DOMAIN layers.overrides[i] :
              layers.overrides[i][f] \in TreeValues
        BY <1>0, Zenon DEF Possible
      <4> QED
        BY <3>1, <4>1, Zenon
    <3>3. value' \in [Fields -> TreeValues]
      BY <3>1, <3>2, Zenon DEF Applied, TreeValues, Absent
    <3>4. ASSUME NEW f \in Fields PROVE HasLast(f, done + 1) /\ value'[f] = WrittenBy(f, done + 1)
      BY <3>1, NextWritten DEF TreeSays, Applied
    <3>5. TreeSays'
      BY <1>0, <3>1, <3>4, LayersFramed, Zenon DEF TreeSays
    <3> HIDE DEF o
    <3> QED
      <4>1. Possible(layers)' /\ done' \in 0..Len(layers'.overrides)
        BY <1>0, <3>1, LayersFramed
      <4>2. SettingsResolved'
        BY <3>1, Zenon DEF SettingsResolved
      <4>3. stage' \in SettingStages
        BY <3>1, Zenon DEF SettingStages
      <4> QED
        BY <3>1, <3>3, <3>5, <4>1, <4>2, <4>3, Zenon DEF SettingsInv
  <2>2. CASE ~(done < Len(layers.overrides))
    <3>1. /\ UNCHANGED <<value, done>> /\ stage' = "deserialize"
          /\ stage = "override" /\ done = Len(layers.overrides)
      <4>1. UNCHANGED <<value, done>> /\ stage' = "deserialize"
        BY <1>3, <2>2, Zenon DEF Override, LoadsTo
      <4> QED
        BY <2>o, <2>2, <4>1
    <3>2. TreeSays'
      BY <1>0, <3>1, LayersFramed, Zenon DEF TreeSays, SettingsInv
    <3> QED
      BY <1>0, <3>1, <3>2, LayersFramed, Zenon DEF SettingsInv, SettingsResolved, SettingStages
  <2> QED
    BY <2>0, <2>1, <2>2, Zenon
<1>4. CASE Deserialize
  <2>0. /\ stage = "deserialize" /\ value \in [Fields -> TreeValues]
        /\ \A f \in Fields : value[f] = Written(f)
    BY <1>4, Zenon DEF Deserialize, SettingsInv, TreeSays, Written
  <2>1. CASE \E f \in Fields : ~Typed(f)
    <3>1. LoadFails("type")
      BY <1>4, <2>1, Zenon DEF Deserialize
    <3>2. PICK f \in Fields : ~Typed(f)
      BY <2>1, Zenon
    <3>3. /\ f # "password" => Written(f) \notin Nat \cup {Absent}
          /\ f = "password" => Written(f) \in Nat \cup {Scalar}
      BY <2>0, <3>2, Zenon DEF Typed, TreeValues
    <3>4. Explained("type")
      BY <3>3, Zenon DEF Explained
    <3> QED
      BY <1>a, <3>1, <3>4, Zenon
  <2>2. CASE \A f \in Fields : Typed(f)
    <3>1. /\ value' = [f \in Fields |-> IF value[f] = Absent THEN Default[f] ELSE value[f]]
          /\ stage' = "dedicated"
      BY <1>4, <2>2, Zenon DEF Deserialize, LoadsTo
    <3>2. \A f \in Fields :
            Default[f] \in Nat \cup {Absent} /\ (f # "password" => Default[f] \in Nat)
      <4>1. /\ Default["media_encode"] \in Nat /\ Default["audio_encode"] \in Nat
            /\ Default["attempts"] \in Nat /\ Default["password"] = Absent
        BY Zenon DEF Default
      <4> QED
        BY <4>1, Zenon DEF Fields, Section
    <3>3. value' \in [Fields -> TreeValues]
      <4>1. ASSUME NEW f \in Fields
            PROVE  (IF value[f] = Absent THEN Default[f] ELSE value[f]) \in TreeValues
        <5>1. value[f] \in TreeValues
          BY <2>0, Zenon
        <5>2. Default[f] \in Nat \cup {Absent}
          BY <3>2, Zenon
        <5>3. Default[f] \in TreeValues
          BY <5>2, Zenon DEF TreeValues
        <5> QED
          BY <5>1, <5>3, Zenon
      <4> QED
        BY <3>1, <4>1, Zenon
    <3>4. \A f \in Fields \ {"password"} : value'[f] \in Nat
      <4>1. ASSUME NEW f \in Fields \ {"password"} PROVE value'[f] \in Nat
        <5>1. value[f] \in Nat \cup {Absent} /\ Default[f] \in Nat
          BY <2>2, <3>2, Zenon DEF Typed
        <5>2. value'[f] = IF value[f] = Absent THEN Default[f] ELSE value[f]
          BY <3>1, Zenon
        <5> QED
          BY <5>1, <5>2, Zenon
      <4> QED
        BY <4>1, Zenon
    <3>5. \A f \in Fields : value'[f] = IF Written(f)' = Absent THEN Default[f] ELSE Written(f)'
      BY <1>0, <2>0, <3>1, LayersFramed, Zenon
    <3> QED
      BY <1>0, <3>1, <3>3, <3>4, <3>5, LayersFramed, Zenon DEF SettingsInv, SettingsResolved,
         SettingStages
  <2> QED
    BY <2>1, <2>2, Zenon
<1>5. CASE ResolveEnv
  <2>1. CASE {layers.media, layers.audio} \cap {Text, 0} # {}
    <3>1. LoadFails("dedicated")
      BY <1>5, <2>1, Zenon DEF ResolveEnv
    <3>2. Explained("dedicated")
      BY <2>1, Zenon DEF Explained
    <3> QED
      BY <1>a, <3>1, <3>2, Zenon
  <2>2. CASE {layers.media, layers.audio} \cap {Text, 0} = {}
    <3>1. CASE value.password = Ref /\ ~layers.variable
      <4>1. LoadFails("variable")
        BY <1>5, <2>2, <3>1, Zenon DEF ResolveEnv
      <4>2. Written("password") = Ref
        BY <1>5, <3>1, Zenon DEF ResolveEnv, SettingsInv, Fields, Default, Absent, Ref
      <4>3. Explained("variable")
        BY <3>1, <4>2, Zenon DEF Explained
      <4> QED
        BY <1>a, <4>1, <4>3, Zenon
    <3>2. CASE ~(value.password = Ref /\ ~layers.variable)
      <4>1. value' = Dedicated(value) /\ stage' = "validate" /\ stage = "dedicated"
        BY <1>5, <2>2, <3>2, Zenon DEF ResolveEnv, LoadsTo
      <4> QED
        BY <1>0, <2>2, <4>1, ResolvedNow, LayersFramed, Zenon DEF SettingsInv, SettingsResolved,
           SettingStages, Section, Fields
    <3> QED
      BY <3>1, <3>2, Zenon
  <2> QED
    BY <2>1, <2>2, Zenon
<1>6. CASE Validate
  <2>1. CASE LoadFails("invalid")
    <3>1. Explained("invalid")
      BY <1>6, <2>1, Zenon DEF Validate, LoadFails, LoadsTo, Explained, SettingsInv, Sound, Fields
    <3> QED
      BY <1>a, <2>1, <3>1, Zenon
  <2>2. CASE ~LoadFails("invalid")
    <3>1. /\ stage = "validate" /\ stage' = "ready" /\ value' = value
          /\ \A f \in Section : value[f] # 0
      BY <1>6, <2>2, Zenon DEF Validate, LoadsTo
    <3>2. (\A f \in Section : value[f] \in Nat) /\ (\A f \in Fields : value[f] = Resolved(f))
      BY <3>1, Zenon DEF SettingsInv
    <3>3. (\A f \in Fields : value[f] = Resolved(f)')
      BY <1>0, <3>2, LayersFramed, Zenon
    <3>4. value.media_encode > 0 /\ value.audio_encode > 0
      BY <3>1, <3>2 DEF Section
    <3> QED
      BY <1>0, <3>1, <3>2, <3>3, <3>4, LoadedWell, Zenon
  <2> QED
    BY <2>1, <2>2, Zenon
<1>7. CASE Tune
  <2>1. PICK m \in Machines : limits' = Limits(m, value)
    BY <1>7, Zenon DEF Tune
  <2>2. stage = "ready" /\ stage' = "tuned" /\ value' = value
    BY <1>7, Zenon DEF Tune
  <2>3. value.media_encode \in Nat \ {0} /\ value.audio_encode \in Nat \ {0}
    <3>1. value["media_encode"] \in Nat /\ value["audio_encode"] \in Nat
      BY <2>2, Zenon DEF SettingsInv, Section
    <3>2. value.media_encode > 0 /\ value.audio_encode > 0
      BY <2>2, Zenon DEF SettingsInv, SettingsResolved
    <3> QED
      BY <3>1, <3>2
  <2>4. /\ \A l \in DOMAIN limits' : limits'[l] > 0
        /\ limits'.audio_encode <= value.audio_encode
    BY <2>1, <2>3, LimitsPositive, Zenon
  <2> QED
    BY <1>0, <2>2, <2>3, <2>4, LayersFramed, Zenon DEF SettingsInv, SettingsResolved, SettingStages
<1> QED
  BY <1>1, <1>2, <1>3, <1>4, <1>5, <1>6, <1>7, Zenon DEF SettingsNext

(* So does every step of the job: none but Start touches the settings. *)
LEMMA SettingsStep == SettingsInv /\ [Next]_vars => SettingsInv'
<1> SUFFICES ASSUME SettingsInv, [Next]_vars PROVE SettingsInv'
  BY Zenon
<1>1. CASE SettingsNext
  BY <1>1, LoadStep, Zenon
<1>2. CASE Start
  BY <1>2, Zenon DEF Start, SettingsInv, SettingsResolved, SettingStages
<1>3. CASE UNCHANGED settingVars
  <2>1. UNCHANGED <<stage, layers, value, done, reason, limits>>
    BY <1>3, Zenon DEF settingVars
  <2>2. TreeSays' = TreeSays
    BY <2>1, LayersFramed, Zenon DEF TreeSays
  <2>3. SettingsResolved'
    BY <2>1, LayersFramed, Zenon DEF SettingsInv, SettingsResolved
  <2> QED
    BY <2>1, <2>2, <2>3, LayersFramed, Zenon DEF SettingsInv
<1> QED
  BY <1>1, <1>2, <1>3, Zenon DEF Next, Load, Plan, Downloaded, Sync, SyncReturns, Crash, Running,
     vars

(* AppConfig::load_default: whatever the file and any number of overrides   *)
(* hold, loading ends in the settings that the precedence of the layers     *)
(* gives and in positive limits, or refuses for a reason that the layers    *)
(* give.                                                                    *)
THEOREM SettingsAreResolved == Spec => []SettingsResolved
<1>1. Init => SettingsInv
  BY LayersAssumption, Zenon DEF Init, SettingsInit, SettingsInv, SettingsResolved, SettingStages
<1>2. SettingsInv => SettingsResolved
  BY Zenon DEF SettingsInv
<1> QED
  BY <1>1, <1>2, SettingsStep, PTL DEF Spec
------------------------------------------------------------------------------
(* What layer 0, the asker and the askers before it have found, while the  *)
(* publisher goes on.                                                      *)
Versions == [app : Nat, asset : Nat]
Contexts == [app : Nat, asset : Nat, profile : Nat, host : Nat]

(* Types. *)
PlanTypeOK ==
  /\ provider \in Providers
  /\ live \in [app : Nat \ {0}, asset : Nat \ {0}] /\ cur \in Versions
  /\ ctx \in Contexts /\ new_info \in Contexts /\ info \in Contexts

(* A poll is under way. *)
Polling == at \notin {"idle", "completed", "nothing", "error"}

(* Layer 0 found what the publisher offered then. *)
Layer0Found ==
  /\ cur.app <= live.app /\ cur.asset <= live.asset
  /\ cur.asset = 0 <=> ~provider.names_asset

(* An asker's context when it has resolved the versions ... *)
Aware(c) ==
  IF Colorful
  THEN /\ c.asset = 0 => ~provider.names_asset
       /\ c.app <= live.app
       /\ c.app = 0 <=> ~provider.names_app
       /\ live = cur => c.asset = cur.asset
  ELSE c.app \in 1..live.app /\ c.profile = 0 /\ c.host = 0

(* ... when it has asked the game server, or had no reason to ...           *)
Named(c) ==
  IF Hosted
  THEN \E a \in provider.answers :
         c.profile = OrConfigured(a.profile) /\ c.host = IF a.host THEN c.app ELSE 0
  ELSE c.profile = Configured /\ c.host = 0

(* ... and when it knows the catalogue's address. *)
Reached(c, asker) ==
  /\ IF Colorful
     THEN /\ c.host \in 1..live.app
          /\ c.host # Configured => Hosted
          /\ c.profile # Configured => OtherProfile
          /\ live = cur => c.asset = cur.asset
          /\ asker = "exec" => /\ c.asset = cur.asset /\ c.host = Configured
                               /\ c.profile = Configured
                               /\ Configured \in provider.profile_hashes
     ELSE /\ c.app \in 1..live.app /\ c.profile = 0 /\ c.host = 0 /\ c.asset <= live.asset
          /\ c.app = live.app => c.asset >= cur.asset
          /\ asker = "exec" => c.app = Configured

(* A catalogue is known by its address. *)
Read(i, asker) == Reached(i, asker) /\ (Colorful => i.app = 0)

(* What is known at each request. *)
PlanAt ==
  /\ at \in {"cookie", "versions", "current"} => ctx = [None EXCEPT !.asset = cur.asset]
  /\ at \in {"current", "game"} => who = "live"
  /\ at = "game" => Colorful /\ Hosted /\ ctx.app # 0
  /\ at \in {"game", "address"} /\ who = "live" => Aware(ctx)
  /\ at = "address" /\ who = "live" /\ Colorful => Named(ctx)
  /\ at = "address" /\ who = "exec" => ctx = [None EXCEPT !.asset = cur.asset]
  /\ at = "version" => /\ ~Colorful /\ ctx.profile = 0 /\ ctx.host = 0
                       /\ ctx.app \in 1..live.app
                       /\ who = "exec" => ctx.app = Configured
  /\ at = "catalogue" => Reached(ctx, who)
  /\ at \in {"planned", "charts"} => who = "exec"
  /\ at = "planned" => Read(info, "exec")
  /\ at = "failed" => CatalogueAgrees

PlanInv ==
  /\ PlanTypeOK /\ PlanAt
  /\ stage # "running" => at = "idle"
  /\ Polling => Layer0Found
  /\ who \in {"live", "exec"}
  /\ who = "exec" => Polling /\ Read(new_info, "live")

(* What the settings of the provider alone decide. *)
LEMMA SameProvider ==
  ASSUME provider' = provider
  PROVE  /\ Colorful' <=> Colorful
         /\ Hosted' <=> Hosted
         /\ OtherProfile' <=> OtherProfile
         /\ HashUnknown' <=> HashUnknown
BY Zenon DEF Colorful, Hosted, OtherProfile, HashUnknown

(* A step of an asker: what remains to be shown is what it knows then. *)
LEMMA AskerMoves ==
  ASSUME PlanInv, stage = "running", stage' = stage, Polling, Polling',
         UNCHANGED <<who, provider, live, cur, new_info>>,
         ctx' \in Contexts, info' \in Contexts, PlanAt'
  PROVE  PlanInv'
<1>1. PlanTypeOK' /\ (Layer0Found' <=> Layer0Found)
  BY Zenon DEF PlanInv, PlanTypeOK, Layer0Found
<1>2. Read(new_info, "live")' <=> Read(new_info, "live")
  BY SameProvider, Zenon DEF Read, Reached
<1> QED
  BY <1>1, <1>2, stage' = "running", Zenon DEF PlanInv

(* The publisher moves on: nothing that was found becomes false. *)
LEMMA PublishKeeps ==
  ASSUME PlanInv, Publish, stage = "running", UNCHANGED <<stage, attempts>> PROVE PlanInv'
<1>1. /\ live' \in [app : Nat \ {0}, asset : Nat \ {0}]
      /\ live.app <= live'.app /\ live.asset <= live'.asset
      /\ live' # live
      /\ live'.app + live'.asset = live.app + live.asset + 1
  BY DEF Publish, PlanInv, PlanTypeOK
<1>2. UNCHANGED <<at, who, provider, round, tried, cur, ctx, new_info, info, recorded, why>>
  BY Zenon DEF Publish
<1>3. Polling => live' # cur
  BY <1>1 DEF PlanInv, Layer0Found, PlanTypeOK
<1>4. PlanTypeOK' /\ (Polling => Layer0Found)'
  BY <1>1, <1>2 DEF PlanInv, PlanTypeOK, Polling, Layer0Found, Versions
<1>5. ASSUME NEW c \in Contexts, NEW asker, Polling, Reached(c, asker) PROVE Reached(c, asker)'
  BY <1>1, <1>2, <1>3, <1>5, SameProvider DEF Reached, Contexts, PlanInv, PlanTypeOK, Versions
<1>6. Polling /\ Aware(ctx) => Aware(ctx)'
  BY <1>1, <1>2, <1>3, SameProvider DEF Aware, Contexts, PlanInv, PlanTypeOK
<1>7. /\ Read(new_info, "live") /\ Polling => Read(new_info, "live")'
      /\ Read(info, "exec") /\ Polling => Read(info, "exec")'
  BY <1>2, <1>5, SameProvider, Zenon DEF Read, PlanInv, PlanTypeOK
<1>8. Reached(ctx, who) /\ Polling => Reached(ctx, who)'
  BY <1>2, <1>5, Zenon DEF PlanInv, PlanTypeOK
<1>9. at = "failed" => CatalogueAgrees'
  BY <1>2, SameProvider, Zenon DEF PlanInv, PlanAt, CatalogueAgrees, MayRetry
<1>10. Named(ctx) => Named(ctx)'
  BY <1>2, SameProvider, Zenon DEF Named
<1>11. ctx.app \in 1..live.app => ctx'.app \in 1..live'.app
  BY <1>1, <1>2 DEF PlanInv, PlanTypeOK, Contexts
<1>12. PlanAt'
  <2>1. CASE ~Polling
    BY <1>2, <2>1, Zenon DEF Polling, PlanAt
  <2>2. CASE Polling
    BY <1>2, <1>6, <1>7, <1>8, <1>9, <1>10, <1>11, <2>2, SameProvider, Zenon DEF PlanInv, PlanAt
  <2> QED
    BY <2>1, <2>2, Zenon
<1> QED
  BY <1>2, <1>4, <1>7, <1>12, Zenon DEF PlanInv, Polling

(* An attempt that fails forgets nothing. *)
LEMMA FailKeeps ==
  ASSUME PlanInv, Polling, stage = "running", stage' = stage, NEW w, AttemptFails(w),
         CatalogueAgrees'
  PROVE  PlanInv'
<1>1. at' = "failed" /\ UNCHANGED <<who, provider, live, cur, ctx, new_info, info>>
  BY Zenon DEF AttemptFails
<1>2. Polling' /\ ctx' \in Contexts /\ info' \in Contexts
  BY <1>1, Zenon DEF PlanInv, PlanTypeOK, Polling
<1>3. PlanAt'
  BY <1>1, Zenon DEF PlanAt
<1> QED
  BY <1>1, <1>2, <1>3, AskerMoves, Zenon

(* A request that is repeated changes only its count. *)
LEMMA RetryKeeps ==
  ASSUME PlanInv, stage = "running", stage' = stage, Polling, at # "failed",
         UNCHANGED <<at, who, provider, live, cur, ctx, new_info, info>>
  PROVE  PlanInv'
<1>1. Polling' /\ ctx' \in Contexts /\ info' \in Contexts
  BY Zenon DEF PlanInv, PlanTypeOK, Polling
<1>2. /\ Read(info, "exec")' <=> Read(info, "exec")
      /\ Reached(ctx, who)' <=> Reached(ctx, who)
      /\ Aware(ctx)' <=> Aware(ctx)
      /\ Named(ctx)' <=> Named(ctx)
  BY SameProvider, Zenon DEF Read, Reached, Aware, Named
<1>3. PlanAt'
  BY <1>2, SameProvider, Zenon DEF PlanInv, PlanAt
<1> QED
  BY <1>1, <1>3, AskerMoves, Zenon

(* So a request that fails keeps the invariant. *)
LEMMA RequestFailsKeeps ==
  ASSUME PlanInv, RequestFails, stage = "running", UNCHANGED <<stage, attempts>> PROVE PlanInv'
<1>1. Polling /\ at # "failed"
  BY Zenon DEF RequestFails, Requests, Polling
<1>2. CASE UNCHANGED <<at, who, provider, live, round, cur, ctx, new_info, info, recorded, why>>
  BY <1>1, <1>2, RetryKeeps, Zenon
<1>3. CASE AttemptFails("http") /\ ~MayRetry(tried)
  <2>1. CatalogueAgrees'
    BY <1>3, Zenon DEF AttemptFails, CatalogueAgrees, MayRetry
  <2> QED
    BY <1>1, <1>3, <2>1, FailKeeps, Zenon
<1>4. CASE AttemptFails("refused")
  <2>1. CatalogueAgrees'
    BY <1>4, Zenon DEF AttemptFails, CatalogueAgrees
  <2> QED
    BY <1>1, <1>4, <2>1, FailKeeps, Zenon
<1> QED
  BY <1>2, <1>3, <1>4, Zenon DEF RequestFails

(* The end of a poll. *)
LEMMA OverKeeps ==
  ASSUME PlanInv, NEW outcome \in {"idle", "completed", "nothing", "error"}, PollOver(outcome),
         UNCHANGED <<stage, live, provider>>, stage = "running"
  PROVE  PlanInv'
<1>1. None \in Contexts /\ NoVersion \in Versions
  BY DEF None, NoVersion, Contexts, Versions
<1> QED
  BY <1>1, Zenon DEF PlanInv, PlanTypeOK, PlanAt, PollOver, Polling

(* The address of a ColorfulPalette catalogue is known. *)
LEMMA Reaches ==
  ASSUME PlanInv, stage = "running", stage' = stage, at = "address", at' = "catalogue",
         Colorful, UNCHANGED <<provider, live, cur, who, new_info, info>>,
         ctx' = [ctx EXCEPT !.profile = Profile, !.host = HostHash],
         HostHash \in 1..live.app, HostHash # Configured => Hosted,
         Profile # Configured => OtherProfile,
         live = cur => ctx.asset = cur.asset,
         who = "exec" => /\ ctx.asset = cur.asset /\ HostHash = Configured
                         /\ Profile = Configured /\ Configured \in provider.profile_hashes
  PROVE  PlanInv'
<1>1. ctx \in Contexts /\ live.app \in Nat
  BY Zenon DEF PlanInv, PlanTypeOK
<1>2. Profile \in Nat /\ HostHash \in Nat
  BY <1>1 DEF Profile, OrConfigured, Configured, Contexts
<1>3. /\ ctx' \in Contexts /\ ctx'.asset = ctx.asset
      /\ ctx'.profile = Profile /\ ctx'.host = HostHash
  BY <1>1, <1>2, Zenon DEF Contexts
<1>4. Reached(ctx, who)'
  BY <1>3, SameProvider, Zenon DEF Reached
<1>5. PlanAt' /\ Polling /\ Polling'
  BY <1>4, Zenon DEF PlanAt, Polling
<1>6. info' \in Contexts
  BY Zenon DEF PlanInv, PlanTypeOK
<1> QED
  BY <1>3, <1>5, <1>6, AskerMoves, Zenon

(* Every step of the askers keeps the invariant. *)
LEMMA PlanNextKeeps ==
  ASSUME PlanInv, PlanNext, stage = "running", UNCHANGED <<stage, attempts>> PROVE PlanInv'
<1>0. /\ PlanTypeOK /\ PlanAt /\ who \in {"live", "exec"}
      /\ ctx \in Contexts /\ info \in Contexts /\ new_info \in Contexts /\ cur \in Versions
      /\ live \in [app : Nat \ {0}, asset : Nat \ {0}]
      /\ Polling => Layer0Found
  BY Zenon DEF PlanInv, PlanTypeOK
<1>a. ASSUME Polling, Polling', UNCHANGED <<who, provider, live, cur, new_info, info>>,
             ctx' \in Contexts, PlanAt'
      PROVE  PlanInv'
  BY <1>0, <1>a, AskerMoves, Zenon
<1>b. ASSUME NEW asker \in {"live", "exec"}, Asks(asker, cur'.asset), cur' \in Versions,
             UNCHANGED <<provider, live>>, Layer0Found',
             new_info' \in Contexts, info' \in Contexts, asker = "exec" => Read(new_info, "live")'
      PROVE  PlanInv'
  <2>1. /\ who' = asker /\ at' \in {"cookie", "versions"}
        /\ ctx' = [None EXCEPT !.asset = cur'.asset]
    BY <1>b, Zenon DEF Asks, First
  <2>2. ctx' \in Contexts
    BY <1>b, <2>1 DEF Contexts, None, Versions
  <2>3. PlanAt' /\ Polling'
    BY <2>1, Zenon DEF PlanAt, Polling
  <2> QED
    BY <1>0, <1>b, <2>1, <2>2, <2>3, Zenon DEF PlanInv, PlanTypeOK
<1>c. ASSUME NEW outcome \in {"idle", "nothing", "error"}, PollOver(outcome),
             UNCHANGED <<live, provider>>
      PROVE  PlanInv'
  BY <1>c, OverKeeps, Zenon
<1>1. CASE Publish
  BY <1>1, PublishKeeps, Zenon
<1>2. CASE Layer0
  <2>1. CASE PollOver("error")
    BY <1>2, <1>c, <2>1, Zenon DEF Layer0
  <2>2. CASE cur' = Current /\ Asks("live", cur'.asset) /\ UNCHANGED <<new_info, info>>
    <3>1. cur' \in Versions /\ Layer0Found'
      BY <1>0, <1>2, <2>2 DEF Layer0, Current, Versions, Layer0Found
    <3> QED
      BY <1>0, <1>2, <1>b, <2>2, <3>1, Zenon DEF Layer0
  <2> QED
    BY <1>2, <2>1, <2>2, Zenon DEF Layer0
<1>3. CASE RequestFails
  BY <1>3, RequestFailsKeeps, Zenon
<1>4. CASE Cookie
  <2>1. /\ at' = "versions" /\ at = "cookie"
        /\ UNCHANGED <<who, provider, live, cur, ctx, new_info, info>>
    BY <1>4, Zenon DEF Cookie, Answered
  <2> QED
    BY <1>0, <1>a, <2>1, Zenon DEF Polling, PlanAt
<1>5. CASE ResolveVersions
  <2>1. /\ at' = AfterCookie /\ at = "versions"
        /\ UNCHANGED <<who, provider, live, cur, ctx, new_info, info>>
    BY <1>5, Zenon DEF ResolveVersions, Answered
  <2> QED
    BY <1>0, <1>a, <2>1, Zenon DEF Polling, PlanAt, AfterCookie
<1>6. CASE CurrentVersion
  <2>1. /\ at = "current" /\ who = "live" /\ ctx = [None EXCEPT !.asset = cur.asset]
        /\ at' \in {"game", "address"} /\ (at' = "game" <=> AsksGame)
        /\ UNCHANGED <<provider, live, cur, who, new_info, info>>
    BY <1>0, <1>6, Zenon DEF CurrentVersion, Answered, PlanAt
  <2>2. Current.app \in 0..live.app /\ Current.asset \in 0..live.asset
    BY <1>0 DEF Current
  <2>3. /\ ctx' \in Contexts /\ Aware(ctx)'
        /\ Colorful => ctx'.profile = Configured /\ ctx'.host = 0
    <3>1. CASE Colorful
      <4>1. ctx' = [app |-> Current.app, asset |-> Current.asset,
                    profile |-> Configured, host |-> 0]
        BY <1>6, <3>1, Zenon DEF CurrentVersion
      <4>2. Current.app = 0 <=> ~provider.names_app
        BY <1>0 DEF Current
      <4>3. Current.asset = 0 => ~provider.names_asset
        BY <1>0 DEF Current
      <4>4. live = cur => Current.asset = cur.asset
        BY <1>0, <2>1 DEF Current, Layer0Found, Polling
      <4>5. ctx' \in Contexts
        BY <1>0, <2>2, <4>1 DEF Contexts, Configured
      <4>6. ctx'.app = Current.app /\ ctx'.asset = Current.asset
        BY <4>1, Zenon
      <4>7. ctx'.app <= live.app
        BY <1>0, <2>2, <4>6
      <4>8. Aware(ctx)'
        BY <2>1, <3>1, <4>2, <4>3, <4>4, <4>6, <4>7, SameProvider, Zenon DEF Aware
      <4> QED
        BY <4>1, <4>5, <4>8, Zenon
    <3>2. CASE ~Colorful
      <4>1. PICK n \in 1..live.app : ctx' = [ctx EXCEPT !.app = n]
        BY <1>0, <1>6, <2>2, <3>2 DEF CurrentVersion, OrConfigured, Configured
      <4>2. n \in Nat
        BY <1>0
      <4>3. ctx.host = 0 /\ ctx.profile = 0
        BY <2>1, Zenon DEF None
      <4>4. ctx' \in Contexts /\ ctx'.host = 0 /\ ctx'.profile = 0 /\ ctx'.app = n
        BY <1>0, <4>1, <4>2, <4>3, Zenon DEF Contexts
      <4> QED
        BY <2>1, <3>2, <4>4, SameProvider, Zenon DEF Aware
    <3> QED
      BY <3>1, <3>2, Zenon
  <2>4. AsksGame => Colorful /\ Hosted /\ ctx'.app # 0
    BY <2>1, <2>3, SameProvider, Zenon DEF AsksGame, Aware, Hosted
  <2>5. ~AsksGame /\ Colorful => ~Hosted
    BY <2>1, <2>3, SameProvider, Zenon DEF AsksGame, Aware, Hosted
  <2>6. ~AsksGame /\ Colorful => Named(ctx)'
    BY <2>1, <2>3, <2>5, SameProvider, Zenon DEF Named
  <2>7. PlanAt'
    BY <2>1, <2>3, <2>4, <2>6, SameProvider, Zenon DEF PlanAt
  <2> QED
    BY <1>a, <2>1, <2>3, <2>7, Zenon DEF Polling
<1>7. CASE NoKey
  <2>1. Polling /\ AttemptFails("crypto") /\ ~provider.crypto
    BY <1>7, Zenon DEF NoKey, NeedsKey, Polling
  <2>2. CatalogueAgrees'
    BY <2>1, Zenon DEF AttemptFails, CatalogueAgrees
  <2> QED
    BY <2>1, <2>2, FailKeeps, Zenon
<1>8. CASE GameVersion
  <2>1. /\ at = "game" /\ at' = "address"
        /\ UNCHANGED <<provider, live, cur, who, new_info, info>>
        /\ who = "live" /\ Colorful /\ Hosted /\ Aware(ctx)
    BY <1>0, <1>8, Zenon DEF GameVersion, Answered, PlanAt
  <2>2. PICK a \in provider.answers :
          ctx' = [ctx EXCEPT !.profile = OrConfigured(a.profile),
                             !.host = IF a.host THEN ctx.app ELSE 0]
    BY <1>8, Zenon DEF GameVersion
  <2>3. a.profile \in Nat
    BY <1>0, ProvidersAssumption, Zenon DEF PlanTypeOK
  <2>4. OrConfigured(a.profile) \in Nat /\ (IF a.host THEN ctx.app ELSE 0) \in Nat
    BY <1>0, <2>3 DEF OrConfigured, Configured, Contexts
  <2>5. /\ ctx' \in Contexts /\ ctx'.app = ctx.app /\ ctx'.asset = ctx.asset
        /\ ctx'.profile = OrConfigured(a.profile)
        /\ ctx'.host = IF a.host THEN ctx.app ELSE 0
    BY <1>0, <2>2, <2>4, Zenon DEF Contexts
  <2>6. Aware(ctx)'
    BY <2>1, <2>5, SameProvider, Zenon DEF Aware
  <2>7. Named(ctx)'
    BY <2>1, <2>5, SameProvider, Zenon DEF Named
  <2>8. PlanAt'
    BY <2>1, <2>6, <2>7, Zenon DEF PlanAt
  <2> QED
    BY <1>a, <2>1, <2>5, <2>8, Zenon DEF Polling
<1>9. CASE Address
  <2>0. at = "address" /\ UNCHANGED <<provider, live, cur, who, new_info, info>>
    BY <1>9, Zenon DEF Address, Answered, AttemptFails
  <2>l. who = "live" /\ Colorful => Aware(ctx) /\ Named(ctx)
    BY <1>0, <2>0, Zenon DEF PlanAt
  <2>e. who = "exec" => /\ ctx.app = 0 /\ ctx.asset = cur.asset
                        /\ ctx.profile = 0 /\ ctx.host = 0
    BY <1>0, <2>0, Zenon DEF PlanAt, None
  <2>1. CASE Colorful /\ ctx.asset # 0 /\ HostHash # 0
    <3>1. at' = "catalogue" /\ ctx' = [ctx EXCEPT !.profile = Profile, !.host = HostHash]
      BY <1>9, <2>1, Zenon DEF Address, Answered, AttemptFails
    <3>2. CASE who = "live"
      <4>1. /\ ctx.app \in Nat /\ ctx.app <= live.app /\ live.app >= 1
            /\ live = cur => ctx.asset = cur.asset
        BY <1>0, <2>1, <2>l, <3>2 DEF Aware, Contexts
      <4>2. CASE Hosted
        <5>1. PICK a \in provider.answers : /\ ctx.profile = OrConfigured(a.profile)
                                            /\ ctx.host = IF a.host THEN ctx.app ELSE 0
          BY <2>1, <2>l, <3>2, <4>2, Zenon DEF Named
        <5>2. Profile = OrConfigured(a.profile)
          BY <5>1 DEF Profile, OrConfigured, Configured
        <5>3. Profile # Configured => OtherProfile
          BY <4>2, <5>2, Zenon DEF OtherProfile
        <5>4. HostHash \in 1..live.app
          BY <1>0, <2>1, <4>1, <5>1 DEF HostHash, Configured
        <5> QED
          BY <2>0, <2>1, <3>1, <3>2, <4>1, <4>2, <5>3, <5>4, Reaches, Zenon
      <4>3. CASE ~Hosted
        <5>1. ctx.profile = Configured /\ ctx.host = 0
          BY <2>1, <2>l, <3>2, <4>3, Zenon DEF Named
        <5>2. Profile = Configured /\ HostHash = Configured
          BY <2>1, <5>1 DEF Profile, HostHash, OrConfigured, Configured
        <5>3. HostHash \in 1..live.app
          BY <4>1, <5>2 DEF Configured
        <5> QED
          BY <2>0, <2>1, <3>1, <3>2, <4>1, <5>2, <5>3, Reaches, Zenon
      <4> QED
        BY <4>2, <4>3, Zenon
    <3>3. CASE who = "exec"
      <4>1. Profile = Configured
        BY <2>e, <3>3 DEF Profile, OrConfigured, Configured
      <4>2. HostHash = Configured /\ Configured \in provider.profile_hashes
        BY <2>1, <2>e, <3>3, <4>1 DEF HostHash
      <4>3. HostHash \in 1..live.app
        BY <1>0, <4>2 DEF Configured
      <4> QED
        BY <2>0, <2>1, <2>e, <3>1, <3>3, <4>1, <4>2, <4>3, Reaches, Zenon
    <3> QED
      BY <1>0, <3>2, <3>3, Zenon
  <2>2. CASE ~Colorful
    <3>1. at' = "version" /\ ctx' = [ctx EXCEPT !.app = OrConfigured(ctx.app)]
      BY <1>9, <2>2, Zenon DEF Address, Answered
    <3>2. /\ ctx.profile = 0 /\ ctx.host = 0
          /\ OrConfigured(ctx.app) \in 1..live.app
          /\ who = "exec" => OrConfigured(ctx.app) = Configured
      <4>1. CASE who = "live"
        <5>1. Aware(ctx)
          BY <1>0, <2>0, <4>1, Zenon DEF PlanAt
        <5> QED
          BY <1>0, <2>2, <4>1, <5>1 DEF Aware, OrConfigured, Configured, Contexts
      <4>2. CASE who = "exec"
        BY <1>0, <2>e, <4>2 DEF OrConfigured, Configured
      <4> QED
        BY <1>0, <4>1, <4>2, Zenon
    <3>3. OrConfigured(ctx.app) \in Nat
      BY <1>0, <3>2
    <3>4. /\ ctx' \in Contexts /\ ctx'.app = OrConfigured(ctx.app)
          /\ ctx'.profile = 0 /\ ctx'.host = 0
      BY <1>0, <3>1, <3>2, <3>3, Zenon DEF Contexts
    <3>5. PlanAt'
      BY <2>0, <2>2, <3>1, <3>2, <3>4, SameProvider, Zenon DEF PlanAt
    <3> QED
      BY <1>a, <2>0, <3>1, <3>4, <3>5, Zenon DEF Polling
  <2>3. CASE Colorful /\ ~(ctx.asset # 0 /\ HostHash # 0)
    <3>1. /\ AttemptFails(IF ctx.asset = 0 THEN "version" ELSE "host hash")
      BY <1>9, <2>3, Zenon DEF Address, Answered
    <3>2. ctx.asset = 0 => ~provider.names_asset
      BY <1>0, <2>0, <2>3, <2>l, <2>e, Zenon DEF Aware, Layer0Found, Polling
    <3>3. HostHash = 0 => IF who = "live" THEN HashUnknown
                          ELSE Configured \notin provider.profile_hashes
      <4>1. SUFFICES ASSUME HostHash = 0
                     PROVE  IF who = "live" THEN HashUnknown
                            ELSE Configured \notin provider.profile_hashes
        BY Zenon
      <4>2. ctx.host = 0 /\ Profile \notin provider.profile_hashes
        BY <4>1 DEF HostHash, Configured
      <4>3. CASE who = "live" /\ Hosted
        <5>1. PICK a \in provider.answers : /\ ctx.profile = OrConfigured(a.profile)
                                            /\ ctx.host = IF a.host THEN ctx.app ELSE 0
          BY <2>3, <2>l, <4>3, Zenon DEF Named
        <5>2. Profile = OrConfigured(a.profile)
          BY <5>1 DEF Profile, OrConfigured, Configured
        <5>3. ctx.app # 0
          BY <2>3, <2>l, <4>3, Zenon DEF Aware, Hosted
        <5> QED
          BY <4>2, <4>3, <5>1, <5>2, <5>3, Zenon DEF HashUnknown
      <4>4. CASE who = "live" /\ ~Hosted
        <5>1. Profile = Configured
          BY <2>3, <2>l, <4>4 DEF Named, Profile, OrConfigured, Configured
        <5> QED
          BY <4>2, <4>4, <5>1, Zenon DEF HashUnknown
      <4>5. CASE who = "exec"
        <5>1. Profile = Configured
          BY <2>e, <4>5 DEF Profile, OrConfigured, Configured
        <5> QED
          BY <4>2, <4>5, <5>1, Zenon
      <4> QED
        BY <1>0, <4>3, <4>4, <4>5, Zenon
    <3>4. CatalogueAgrees'
      BY <2>0, <2>3, <3>1, <3>2, <3>3, SameProvider, Zenon DEF AttemptFails, CatalogueAgrees
    <3> QED
      BY <2>0, <3>1, <3>4, FailKeeps, Zenon DEF Polling
  <2> QED
    BY <2>1, <2>2, <2>3, Zenon
<1>10. CASE AssetVersion
  <2>1. /\ at = "version" /\ at' = "catalogue"
        /\ UNCHANGED <<provider, live, cur, who, new_info, info>>
    BY <1>10, Zenon DEF AssetVersion, Answered
  <2>2. /\ ~Colorful /\ ctx.profile = 0 /\ ctx.host = 0 /\ ctx.app \in 1..live.app
        /\ who = "exec" => ctx.app = Configured
    BY <1>0, <2>1, Zenon DEF PlanAt
  <2>3. PICK n \in (IF ctx.app = live.app THEN {live.asset} ELSE 1..live.asset) :
          ctx' = [ctx EXCEPT !.asset = n]
    BY <1>10, Zenon DEF AssetVersion
  <2>4. n \in Nat /\ n <= live.asset /\ (ctx.app = live.app => n = live.asset)
    BY <1>0
  <2>5. /\ ctx' \in Contexts /\ ctx'.asset = n /\ ctx'.app = ctx.app
        /\ ctx'.profile = 0 /\ ctx'.host = 0
    BY <1>0, <2>2, <2>3, <2>4, Zenon DEF Contexts
  <2>6. ctx.app = live.app => n >= cur.asset
    BY <1>0, <2>1, <2>4 DEF Layer0Found, Polling, Versions
  <2>7. Reached(ctx, who)'
    BY <2>1, <2>2, <2>4, <2>5, <2>6, SameProvider, Zenon DEF Reached
  <2>8. PlanAt'
    BY <2>1, <2>7, Zenon DEF PlanAt
  <2> QED
    BY <1>a, <2>1, <2>5, <2>8, Zenon DEF Polling
<1>11. CASE Catalogue
  <2>1. at = "catalogue" /\ Reached(ctx, who) /\ UNCHANGED <<provider, live, cur>>
    BY <1>0, <1>11, Zenon DEF Catalogue, PlanAt
  <2>2. Addressed \in Contexts /\ Read(Addressed, who)
    <3>1. CASE Colorful
      <4>1. /\ Addressed \in Contexts /\ Addressed.app = 0 /\ Addressed.asset = ctx.asset
            /\ Addressed.profile = ctx.profile /\ Addressed.host = ctx.host
        BY <1>0, <3>1 DEF Addressed, Contexts
      <4> QED
        BY <2>1, <3>1, <4>1, Zenon DEF Read, Reached
    <3>2. CASE ~Colorful
      BY <1>0, <2>1, <3>2, Zenon DEF Addressed, Read
    <3> QED
      BY <3>1, <3>2, Zenon
  <2>3. CASE who = "live" /\ new_info' = Addressed /\ Asks("exec", cur.asset) /\ UNCHANGED info
    <3>1. Read(new_info, "live")'
      BY <2>1, <2>2, <2>3, SameProvider, Zenon DEF Read, Reached
    <3>2. Layer0Found'
      BY <1>0, <2>1, Zenon DEF Polling, Layer0Found
    <3> QED
      BY <1>0, <1>b, <2>1, <2>2, <2>3, <3>1, <3>2, Zenon
  <2>4. CASE /\ who = "exec" /\ info' = Addressed /\ at' = "planned"
             /\ UNCHANGED <<who, ctx, new_info>>
    <3>1. Read(info, "exec")'
      BY <2>1, <2>2, <2>4, SameProvider, Zenon DEF Read, Reached
    <3>2. PlanAt' /\ Polling /\ Polling'
      BY <2>1, <2>4, <3>1, Zenon DEF PlanAt, Polling
    <3> QED
      BY <1>0, <2>1, <2>2, <2>4, <3>2, AskerMoves, Zenon
  <2> QED
    BY <1>11, <2>3, <2>4, Zenon DEF Catalogue
<1>12. CASE NothingNew \/ NextPoll
  BY <1>12, <1>c, Zenon DEF NothingNew, NextPoll
<1>13. CASE NextRound
  <2>1. CASE PollOver("error")
    BY <1>13, <1>c, <2>1, Zenon DEF NextRound
  <2>2. CASE Asks("live", cur.asset) /\ new_info' = None /\ info' = None /\ UNCHANGED cur
    <3>1. None \in Contexts
      BY DEF None, Contexts
    <3>2. Layer0Found'
      BY <1>0, <1>13, <2>2, Zenon DEF NextRound, Polling, Layer0Found
    <3> QED
      BY <1>0, <1>13, <1>b, <2>2, <3>1, <3>2, Zenon DEF NextRound
  <2> QED
    BY <1>13, <2>1, <2>2, Zenon DEF NextRound
<1> QED
  BY <1>1, <1>2, <1>3, <1>4, <1>5, <1>6, <1>7, <1>8, <1>9, <1>10, <1>11, <1>12, <1>13,
     Zenon DEF PlanNext

(* So do the steps that leave the askers alone. *)
LEMMA PlanFrame ==
  ASSUME PlanInv, UNCHANGED <<planVars, attempts>>, stage' # "running" => at' = "idle"
  PROVE  PlanInv'
<1>1. UNCHANGED <<at, who, provider, live, round, tried, cur, ctx, new_info, info, recorded, why>>
  BY Zenon DEF planVars
<1>2. at = "failed" => CatalogueAgrees'
  BY <1>1, SameProvider, Zenon DEF PlanInv, PlanAt, CatalogueAgrees, MayRetry
<1>3. /\ Read(info, "exec")' <=> Read(info, "exec")
      /\ Read(new_info, "live")' <=> Read(new_info, "live")
      /\ Reached(ctx, who)' <=> Reached(ctx, who)
      /\ Aware(ctx)' <=> Aware(ctx)
      /\ Named(ctx)' <=> Named(ctx)
  BY <1>1, SameProvider, Zenon DEF Read, Reached, Aware, Named
<1>4. PlanAt'
  BY <1>1, <1>2, <1>3, SameProvider, Zenon DEF PlanInv, PlanAt
<1> QED
  BY <1>1, <1>3, <1>4, Zenon DEF PlanInv, PlanTypeOK, Polling, Layer0Found

(* The invariant is kept by every step of the job. *)
LEMMA PlanStep == PlanInv /\ [Next]_vars => PlanInv'
<1> SUFFICES ASSUME PlanInv, [Next]_vars PROVE PlanInv'
  BY Zenon
<1>1. CASE Load
  <2>1. CASE SettingsNext /\ UNCHANGED <<planVars, chartVars>>
    <3>1. attempts' = attempts /\ stage # "running" /\ stage' # "running"
      BY <2>1, Zenon DEF SettingsNext, Locate, Expand, Override, Deserialize, ResolveEnv,
         Validate, Tune,
         LoadFails, LoadsTo
    <3> QED
      BY <2>1, <3>1, PlanFrame, Zenon DEF PlanInv, planVars
  <2>2. CASE Start /\ Configure
    <3>1. /\ stage # "running" /\ provider' \in Providers
          /\ UNCHANGED <<at, who, live, cur, ctx, new_info, info>>
      BY <2>2, Zenon DEF Start, Configure
    <3>2. at = "idle" /\ at' = "idle"
      BY <3>1, Zenon DEF PlanInv
    <3>3. PlanAt' /\ ~Polling /\ ~Polling'
      BY <3>2, Zenon DEF PlanAt, Polling
    <3> QED
      BY <3>1, <3>2, <3>3, Zenon DEF PlanInv, PlanTypeOK
  <2> QED
    BY <1>1, <2>1, <2>2, Zenon DEF Load
<1>2. CASE Plan
  BY <1>2, PlanNextKeeps, Zenon DEF Plan, Running, settingVars
<1>3. CASE Downloaded
  <2>1. /\ at = "planned" /\ at' = "charts" /\ stage = "running" /\ stage' = stage
        /\ UNCHANGED <<who, provider, live, cur, ctx, new_info, info>>
    BY <1>3, Zenon DEF Downloaded, Running, settingVars
  <2>2. PlanAt' /\ Polling /\ Polling'
    BY <2>1, Zenon DEF PlanInv, PlanAt, Polling
  <2>3. ctx' \in Contexts /\ info' \in Contexts
    BY <2>1, Zenon DEF PlanInv, PlanTypeOK
  <2> QED
    BY <2>1, <2>2, <2>3, AskerMoves, Zenon
<1>4. CASE Sync \/ UNCHANGED vars
  BY <1>4, PlanFrame, Zenon DEF Sync, Running, vars, settingVars, PlanInv, planVars
<1>5. CASE SyncReturns
  <2>1. CASE AttemptFails("charts")
    <3>1. /\ at' = "failed" /\ why' = "charts" /\ at = "charts"
          /\ stage = "running" /\ stage' = stage
          /\ UNCHANGED <<who, provider, live, tried, cur, ctx, new_info, info>>
      BY <1>5, <2>1, Zenon DEF SyncReturns, Running, settingVars, AttemptFails
    <3>2. Polling /\ CatalogueAgrees'
      BY <3>1, Zenon DEF Polling, CatalogueAgrees
    <3> QED
      BY <2>1, <3>1, <3>2, FailKeeps, Zenon
  <2>2. CASE PollOver("completed")
    BY <1>5, <2>2, OverKeeps, Zenon DEF SyncReturns, Passed, Running, settingVars, AttemptFails,
       PollOver
  <2> QED
    BY <1>5, <2>1, <2>2, Zenon DEF SyncReturns, Passed
<1>6. CASE Crash
  BY <1>6, OverKeeps, Zenon DEF Crash, Running, settingVars
<1> QED
  BY <1>1, <1>2, <1>3, <1>4, <1>5, <1>6, Zenon DEF Next

(* It gives the property. *)
LEMMA PlanInvAgrees == PlanInv => CatalogueAgrees
<1> SUFFICES ASSUME PlanInv PROVE CatalogueAgrees
  BY Zenon
<1>1. CASE at = "planned"
  <2>1. /\ Read(info, "exec") /\ Read(new_info, "live") /\ Layer0Found
        /\ info \in Contexts /\ new_info \in Contexts /\ cur \in Versions
        /\ live \in [app : Nat \ {0}, asset : Nat \ {0}]
    BY <1>1, Zenon DEF PlanInv, PlanAt, PlanTypeOK, Polling
  <2>2. CASE Colorful
    <3>1. /\ info.asset = cur.asset /\ info.host = Configured /\ info.app = 0 /\ new_info.app = 0
          /\ info.profile = Configured /\ Configured \in provider.profile_hashes
          /\ new_info.profile # Configured => OtherProfile
          /\ new_info.host # Configured => Hosted
          /\ live = cur => new_info.asset = cur.asset
      BY <2>1, <2>2, Zenon DEF Read, Reached
    <3>2. live.app = Configured => new_info.host = Configured
      BY <2>1, <2>2 DEF Read, Reached, Configured
    <3>3. live = cur /\ live.app = Configured =>
            new_info = [info EXCEPT !.profile = new_info.profile]
      BY <2>1, <3>1, <3>2 DEF Contexts
    <3> QED
      BY <1>1, <2>2, <3>1, <3>2, <3>3, Zenon DEF CatalogueAgrees
  <2>3. CASE ~Colorful
    <3>1. /\ info.app = Configured /\ info.host = 0 /\ new_info.host = 0
          /\ info.profile = 0 /\ new_info.profile = 0
          /\ live.app = Configured => info.asset >= cur.asset
      BY <2>1, <2>3, Zenon DEF Read, Reached
    <3>2. live = cur /\ live.app = Configured =>
            /\ new_info.app = info.app /\ new_info.asset = info.asset
      BY <2>1, <2>3 DEF Read, Reached, Contexts, Versions, Configured
    <3>3. live = cur /\ live.app = Configured =>
            new_info = [info EXCEPT !.profile = new_info.profile]
      BY <2>1, <3>1, <3>2 DEF Contexts
    <3> QED
      BY <1>1, <2>3, <3>1, <3>3, Zenon DEF CatalogueAgrees
  <2> QED
    BY <2>2, <2>3, Zenon
<1>2. CASE at = "failed"
  BY <1>2, Zenon DEF PlanInv, PlanAt
<1>3. CASE at \notin {"planned", "failed"}
  BY <1>3, Zenon DEF CatalogueAgrees
<1> QED
  BY <1>1, <1>2, <1>3, Zenon

(* execute_once and execute_with_filter: whatever is published meanwhile,   *)
(* however often requests fail and rounds are repeated, the executor        *)
(* downloads the catalogue it should, agrees with layer 1 when nothing      *)
(* moved and the game server keeps to the configured profile, and an        *)
(* attempt fails for the reason it gives.                                   *)
THEOREM CataloguesAgree == Spec => []CatalogueAgrees
<1>1. Init => PlanInv
  <2> SUFFICES ASSUME Init PROVE PlanInv
    BY Zenon
  <2>1. /\ at = "idle" /\ who = "live" /\ provider = (CHOOSE p \in Providers : TRUE)
        /\ live = [app |-> 1, asset |-> 2] /\ cur = NoVersion
        /\ ctx = None /\ new_info = None /\ info = None
    BY Zenon DEF Init, PlanInit
  <2>2. provider \in Providers
    BY <2>1, ProvidersAssumption, Zenon
  <2>3. None \in Contexts /\ NoVersion \in Versions
    BY DEF None, NoVersion, Contexts, Versions
  <2>4. live \in [app : Nat \ {0}, asset : Nat \ {0}]
    BY <2>1
  <2>5. PlanAt /\ ~Polling
    BY <2>1, Zenon DEF PlanAt, Polling
  <2> QED
    BY <2>1, <2>2, <2>3, <2>4, <2>5, Zenon DEF PlanInv, PlanTypeOK
<1> QED
  BY <1>1, PlanStep, PlanInvAgrees, PTL DEF Spec
==============================================================================
