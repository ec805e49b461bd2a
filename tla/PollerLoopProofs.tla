--------------------------- MODULE PollerLoopProofs ---------------------------
(***************************************************************************)
(* PermitsConserved of PollerLoop, for any regions and any number of       *)
(* permits.  It is not inductive: that a released permit goes to a region  *)
(* that waits, and to it alone, needs that the queue holds a region once   *)
(* and that nobody queues with a permit in hand.                           *)
(***************************************************************************)
EXTENDS PollerLoop, FiniteSetTheorems, SequenceTheorems, TLAPS

InLine(line) == {line[i] : i \in DOMAIN line}
Once(line) == \A i, j \in DOMAIN line : line[i] = line[j] => i = j

In(place) == {r \in Regions : loop[r] = place}

(* The loops, the channel and the runtime state. *)
LoopTypes ==
  /\ cancelled \in BOOLEAN /\ main \in {"up", "stopped"}
  /\ loop \in [Regions -> {"new", "select"} \cup Busy \cup Ended]
  /\ sent \in Seq(Regions) /\ cursor \in [Regions -> Nat]
  /\ in_flight = [r \in Regions |-> loop[r] \in Busy \cup {"panicked"}]

(* The semaphore, and what the loops hold of it. *)
SemaphoreTypes == permits \in Nat /\ waiters \in Seq(Regions) /\ granted \subseteq Regions

Balance == permits + Cardinality(granted) + Cardinality(In("run")) = MaxConcurrent

Line ==
  /\ In("permit") = granted \cup InLine(waiters)
  /\ granted \cap InLine(waiters) = {}
  /\ Once(waiters)
  /\ permits > 0 => waiters = <<>>

QueueInv == LoopTypes /\ SemaphoreTypes /\ Balance /\ Line
--------------------------------------------------------------------------------
(* The queue of the semaphore: joining it at the end, *)
LEMMA Joins ==
  ASSUME NEW line \in Seq(Regions), NEW r \in Regions, Once(line), r \notin InLine(line)
  PROVE  /\ Append(line, r) \in Seq(Regions)
         /\ Once(Append(line, r))
         /\ InLine(Append(line, r)) = InLine(line) \cup {r}
<1> DEFINE longer == Append(line, r)
<1>1. /\ longer \in Seq(Regions) /\ DOMAIN longer = 1..(Len(line) + 1)
      /\ DOMAIN line = 1..Len(line) /\ Len(line) \in Nat
  OBVIOUS
<1>2. /\ \A i \in 1..Len(line) : longer[i] = line[i]
      /\ longer[Len(line) + 1] = r
  OBVIOUS
<1>3. \A i \in DOMAIN longer : i \in DOMAIN line \/ i = Len(line) + 1
  BY <1>1
<1>4. \A i \in DOMAIN line : i \in DOMAIN longer /\ line[i] # r
  BY <1>1 DEF InLine
<1>5. Len(line) + 1 \in DOMAIN longer
  BY <1>1
<1> HIDE DEF longer
<1>6. Once(longer)
  BY <1>1, <1>2, <1>3, <1>4 DEF Once
<1>7. InLine(longer) = InLine(line) \cup {r}
  BY <1>1, <1>2, <1>3, <1>4, <1>5 DEF InLine
<1> QED
  BY <1>1, <1>6, <1>7 DEF longer

(* being served, *)
LEMMA Served ==
  ASSUME NEW line \in Seq(Regions), Once(line), line # <<>>
  PROVE  /\ Tail(line) \in Seq(Regions)
         /\ Once(Tail(line))
         /\ Head(line) \in InLine(line) /\ Head(line) \in Regions
         /\ InLine(Tail(line)) = InLine(line) \ {Head(line)}
<1> DEFINE rest == Tail(line)
<1>1. /\ rest \in Seq(Regions) /\ DOMAIN rest = 1..(Len(line) - 1)
      /\ DOMAIN line = 1..Len(line) /\ Len(line) \in Nat \ {0} /\ Head(line) = line[1]
  OBVIOUS
<1>2. \A i \in DOMAIN rest : rest[i] = line[i + 1]
  OBVIOUS
<1> HIDE DEF rest
<1>3. Once(rest)
  BY <1>1, <1>2 DEF Once
<1>4. Head(line) \in InLine(line) /\ Head(line) \in Regions
  BY <1>1 DEF InLine
<1>5. \A i \in DOMAIN line \ {1} : i - 1 \in DOMAIN rest /\ rest[i - 1] = line[i]
  BY <1>1, <1>2
<1>6. \A i \in DOMAIN rest : i + 1 \in DOMAIN line /\ rest[i] # line[1]
  BY <1>1, <1>2 DEF Once
<1>7. InLine(rest) \subseteq InLine(line) \ {Head(line)}
  BY <1>1, <1>2, <1>6 DEF InLine
<1>8. InLine(line) \ {Head(line)} \subseteq InLine(rest)
  BY <1>1, <1>5 DEF InLine
<1> QED
  BY <1>1, <1>3, <1>4, <1>7, <1>8 DEF rest

(* and giving up: what is left when the k-th has left, ... *)
LEMMA Without ==
  ASSUME NEW line \in Seq(Regions), NEW k \in 1..Len(line)
  PROVE  LET rest == SubSeq(line, 1, k - 1) \o SubSeq(line, k + 1, Len(line))
         IN  /\ rest \in Seq(Regions) /\ DOMAIN rest = 1..(Len(line) - 1)
             /\ \A i \in 1..(Len(line) - 1) :
                  rest[i] = IF i < k THEN line[i] ELSE line[i + 1]
<1> DEFINE front == SubSeq(line, 1, k - 1)
           back == SubSeq(line, k + 1, Len(line))
<1>1. Len(line) \in Nat
  OBVIOUS
<1>2. front \in Seq(Regions) /\ Len(front) = k - 1 /\ \A i \in 1..(k - 1) : front[i] = line[i]
  BY <1>1
<1>3. /\ back \in Seq(Regions) /\ Len(back) = Len(line) - k
      /\ \A i \in 1..(Len(line) - k) : back[i] = line[k + i]
  BY <1>1
<1> HIDE DEF front, back
<1> DEFINE rest == front \o back
<1>4. /\ rest \in Seq(Regions) /\ Len(rest) = Len(front) + Len(back)
      /\ \A i \in 1..(Len(front) + Len(back)) :
           rest[i] = IF i <= Len(front) THEN front[i] ELSE back[i - Len(front)]
  BY <1>2, <1>3, ConcatProperties, Zenon
<1> HIDE DEF rest
<1>5. DOMAIN rest = 1..(Len(line) - 1)
  BY <1>1, <1>2, <1>3, <1>4
<1>6. ASSUME NEW i \in 1..(Len(line) - 1)
      PROVE  rest[i] = IF i < k THEN line[i] ELSE line[i + 1]
  <2>1. rest[i] = IF i <= k - 1 THEN front[i] ELSE back[i - (k - 1)]
    BY <1>1, <1>2, <1>3, <1>4
  <2>2. CASE i < k
    BY <1>1, <1>2, <2>1, <2>2
  <2>3. CASE ~(i < k)
    <3>1. i - (k - 1) \in 1..(Len(line) - k) /\ k + (i - (k - 1)) = i + 1 /\ ~(i <= k - 1)
      BY <1>1, <2>3
    <3>2. back[i - (k - 1)] = line[i + 1]
      BY <1>3, <3>1, Zenon
    <3> QED
      BY <2>1, <2>3, <3>1, <3>2, Zenon
  <2> QED
    BY <2>2, <2>3, Zenon
<1> QED
  BY <1>4, <1>5, <1>6, Zenon DEF rest, front, back

(* ... and that the region has left then. *)
LEMMA GivesUp ==
  ASSUME NEW line \in Seq(Regions), NEW r \in InLine(line), Once(line)
  PROVE  /\ Leave(line, r) \in Seq(Regions)
         /\ Once(Leave(line, r))
         /\ InLine(Leave(line, r)) = InLine(line) \ {r}
         /\ line # <<>>
<1> DEFINE places == {i \in DOMAIN line : line[i] = r}
           k == CHOOSE place \in places : TRUE
           rest == SubSeq(line, 1, k - 1) \o SubSeq(line, k + 1, Len(line))
<1>1. k \in DOMAIN line /\ line[k] = r /\ places # {}
  BY DEF InLine
<1>2. Leave(line, r) = rest
  BY <1>1, Zenon DEF Leave
<1> HIDE DEF places, k
<1>3. DOMAIN line = 1..Len(line) /\ Len(line) \in Nat /\ k \in 1..Len(line)
  BY <1>1
<1>4. /\ rest \in Seq(Regions) /\ DOMAIN rest = 1..(Len(line) - 1)
      /\ \A i \in 1..(Len(line) - 1) : rest[i] = IF i < k THEN line[i] ELSE line[i + 1]
  BY <1>3, Without, Zenon
<1> HIDE DEF rest
<1>5. Once(rest)
  <2> SUFFICES ASSUME NEW i \in DOMAIN rest, NEW j \in DOMAIN rest, rest[i] = rest[j]
               PROVE  i = j
    BY Zenon DEF Once
  <2> DEFINE at(n) == IF n < k THEN n ELSE n + 1
  <2>1. at(i) \in DOMAIN line /\ at(j) \in DOMAIN line
    BY <1>3, <1>4
  <2>2. rest[i] = line[at(i)] /\ rest[j] = line[at(j)]
    BY <1>3, <1>4
  <2>3. at(i) = at(j)
    <3> HIDE DEF at
    <3> QED
      BY <2>1, <2>2, Zenon DEF Once
  <2>4. i \in Int /\ j \in Int /\ k \in Int
    BY <1>3, <1>4
  <2> QED
    BY <2>3, <2>4
<1>6. ASSUME NEW i \in DOMAIN rest PROVE \E j \in DOMAIN line : rest[i] = line[j] /\ j # k
  <2>1. CASE i < k
    <3>1. i \in DOMAIN line /\ rest[i] = line[i] /\ i # k
      BY <2>1, <1>3, <1>4
    <3> QED
      BY <3>1, Zenon
  <2>2. CASE ~(i < k)
    <3>1. i + 1 \in DOMAIN line /\ rest[i] = line[i + 1] /\ i + 1 # k
      BY <2>2, <1>3, <1>4
    <3> QED
      BY <3>1, Zenon
  <2> QED
    BY <2>1, <2>2, Zenon
<1>7. \A j \in DOMAIN line \ {k} : \E i \in DOMAIN rest : rest[i] = line[j]
  <2> SUFFICES ASSUME NEW j \in DOMAIN line \ {k}
               PROVE  \E i \in DOMAIN rest : rest[i] = line[j]
    OBVIOUS
  <2>1. CASE j < k
    <3>1. j \in DOMAIN rest /\ rest[j] = line[j]
      BY <2>1, <1>3, <1>4
    <3> QED
      BY <3>1
  <2>2. CASE ~(j < k)
    <3>1. j - 1 \in DOMAIN rest /\ rest[j - 1] = line[j]
      BY <2>2, <1>3, <1>4
    <3> QED
      BY <3>1
  <2> QED
    BY <2>1, <2>2
<1>8. InLine(rest) \subseteq InLine(line) \ {r}
  BY <1>1, <1>6 DEF InLine, Once
<1>9. InLine(line) \ {r} \subseteq InLine(rest)
  BY <1>1, <1>7 DEF InLine
<1> QED
  BY <1>1, <1>2, <1>3, <1>4, <1>5, <1>8, <1>9
--------------------------------------------------------------------------------
(* The places of the loops when one of them moves: it is in its new place, *)
LEMMA MovesIn ==
  ASSUME LoopTypes, NEW r \in Regions, NEW to, loop' = [loop EXCEPT ![r] = to]
  PROVE  In(to)' = In(to) \cup {r}
BY DEF LoopTypes, In

(* and in no other. *)
LEMMA MovesOut ==
  ASSUME LoopTypes, NEW r \in Regions, NEW to, loop' = [loop EXCEPT ![r] = to],
         NEW place, place # to
  PROVE  In(place)' = In(place) \ {r}
BY DEF LoopTypes, In

(* What is counted is finite. *)
LEMMA Finite ==
  ASSUME SemaphoreTypes
  PROVE  /\ IsFiniteSet(granted) /\ Cardinality(granted) \in Nat
         /\ IsFiniteSet(In("run")) /\ Cardinality(In("run")) \in Nat
<1>1. granted \subseteq Regions /\ In("run") \subseteq Regions
  BY DEF SemaphoreTypes, In
<1> QED
  BY <1>1, RegionsAssumption, FS_Subset, FS_CardinalityType, Zenon

(* One more, one less. *)
LEMMA More ==
  ASSUME NEW S, IsFiniteSet(S), NEW x, x \notin S
  PROVE  Cardinality(S \cup {x}) = Cardinality(S) + 1
BY FS_AddElement

LEMMA Less ==
  ASSUME NEW S, IsFiniteSet(S), NEW x \in S
  PROVE  Cardinality(S \ {x}) = Cardinality(S) - 1
BY FS_RemoveElement

(* A permit that is given up by a running poll or by an acquire goes to the *)
(* first that waits, or back to the semaphore.  `held` are the permits that *)
(* are left in the hands of acquires.                                       *)
LEMMA Passes ==
  ASSUME QueueInv, NEW held, held \subseteq granted,
         IF waiters = <<>>
         THEN permits' = permits + 1 /\ waiters' = waiters /\ granted' = held
         ELSE /\ waiters' = Tail(waiters) /\ granted' = held \cup {Head(waiters)}
              /\ permits' = permits
  PROVE  /\ SemaphoreTypes'
         /\ permits' + Cardinality(granted') = permits + Cardinality(held) + 1
         /\ granted' \cup InLine(waiters') = held \cup InLine(waiters)
         /\ granted' \cap InLine(waiters') = {}
         /\ Once(waiters')
         /\ permits' > 0 => waiters' = <<>>
<1>1. /\ permits \in Nat /\ waiters \in Seq(Regions) /\ granted \subseteq Regions
      /\ granted \cap InLine(waiters) = {} /\ Once(waiters)
      /\ permits > 0 => waiters = <<>>
  BY Zenon DEF QueueInv, SemaphoreTypes, Line
<1>2. IsFiniteSet(held) /\ Cardinality(held) \in Nat
  BY <1>1, Finite, FS_Subset, FS_CardinalityType, Zenon DEF QueueInv
<1>3. CASE waiters = <<>>
  <2>1. permits' = permits + 1 /\ waiters' = waiters /\ granted' = held
    BY <1>3, Zenon
  <2>2. held \subseteq Regions /\ held \cap InLine(waiters) = {}
    BY <1>1, Zenon
  <2>3. permits' \in Nat /\ permits' + Cardinality(held) = permits + Cardinality(held) + 1
    BY <1>1, <1>2, <2>1
  <2> QED
    BY <1>1, <1>3, <2>1, <2>2, <2>3, Zenon DEF SemaphoreTypes
<1>4. CASE waiters # <<>>
  <2>1. permits' = permits /\ waiters' = Tail(waiters) /\ granted' = held \cup {Head(waiters)}
    BY <1>4, Zenon
  <2>2. /\ waiters' \in Seq(Regions) /\ Once(waiters')
        /\ Head(waiters) \in InLine(waiters) /\ Head(waiters) \in Regions
        /\ InLine(waiters') = InLine(waiters) \ {Head(waiters)}
    BY <1>1, <1>4, <2>1, Served, Zenon
  <2>3. Head(waiters) \notin held
    BY <1>1, <2>2, Zenon
  <2>4. Cardinality(granted') = Cardinality(held) + 1
    BY <1>2, <2>1, <2>3, More, Zenon
  <2>5. permits' + Cardinality(granted') = permits + Cardinality(held) + 1
    BY <1>1, <1>2, <2>1, <2>4
  <2>6. /\ granted' \cup InLine(waiters') = held \cup InLine(waiters)
        /\ granted' \cap InLine(waiters') = {}
    BY <1>1, <2>1, <2>2, Zenon
  <2>7. SemaphoreTypes'
    BY <1>1, <2>1, <2>2, Zenon DEF SemaphoreTypes
  <2>8. ~(permits' > 0)
    BY <1>1, <1>4, <2>1, Zenon
  <2> QED
    BY <2>2, <2>5, <2>6, <2>7, <2>8, Zenon
<1> QED
  BY <1>3, <1>4, Zenon
--------------------------------------------------------------------------------
(* /healthz when a loop moves: the runtime state is written at both ends of *)
(* a poll, and nowhere between.                                             *)
InFlight(at) == at \in Busy \cup {"panicked"}

LEMMA Written ==
  ASSUME LoopTypes, NEW r \in Regions, NEW to \in {"new", "select"} \cup Busy \cup Ended,
         loop' = [loop EXCEPT ![r] = to],
         \/ in_flight' = [in_flight EXCEPT ![r] = InFlight(to)]
         \/ in_flight' = in_flight /\ InFlight(loop[r]) = InFlight(to),
         UNCHANGED <<cancelled, main, sent>>, cursor' \in [Regions -> Nat]
  PROVE  LoopTypes'
<1>1. /\ loop \in [Regions -> {"new", "select"} \cup Busy \cup Ended]
      /\ in_flight = [q \in Regions |-> InFlight(loop[q])]
  BY Zenon DEF LoopTypes, InFlight
<1>2. /\ loop' \in [Regions -> {"new", "select"} \cup Busy \cup Ended]
      /\ loop'[r] = to /\ \A q \in Regions \ {r} : loop'[q] = loop[q]
  BY <1>1, Zenon
<1>3. in_flight' = [q \in Regions |-> InFlight(loop'[q])]
  <2> HIDE DEF InFlight
  <2>1. CASE in_flight' = [in_flight EXCEPT ![r] = InFlight(to)]
    BY <1>1, <1>2, <2>1, Zenon
  <2>2. CASE in_flight' = in_flight /\ InFlight(loop[r]) = InFlight(to)
    BY <1>1, <1>2, <2>2, Zenon
  <2> QED
    BY <2>1, <2>2, Zenon
<1> QED
  BY <1>2, <1>3, Zenon DEF LoopTypes, InFlight

(* The semaphore when a loop moves that neither wants a permit nor has one. *)
LEMMA Aside ==
  ASSUME QueueInv, NEW r \in Regions, NEW to, to \notin {"permit", "run"},
         loop[r] \notin {"permit", "run"}, loop' = [loop EXCEPT ![r] = to],
         UNCHANGED semaphore
  PROVE  SemaphoreTypes' /\ Balance' /\ Line'
<1>1. permits' = permits /\ waiters' = waiters /\ granted' = granted
  BY Zenon DEF semaphore
<1>2. In("run")' = In("run") \ {r} /\ In("permit")' = In("permit") \ {r}
  BY MovesOut, Zenon DEF QueueInv
<1>3. r \notin In("run") /\ r \notin In("permit")
  BY Zenon DEF In
<1>4. In("run")' = In("run") /\ In("permit")' = In("permit")
  BY <1>2, <1>3, Zenon
<1> QED
  BY <1>1, <1>4, Zenon DEF QueueInv, SemaphoreTypes, Balance, Line

(* execute_once asks for a permit. *)
LEMMA Asks ==
  ASSUME QueueInv, NEW r \in Regions, LoopMoves(r, "layer0", "permit"), Acquire(r)
  PROVE  SemaphoreTypes' /\ Balance' /\ Line'
<1>1. /\ permits \in Nat /\ waiters \in Seq(Regions) /\ granted \subseteq Regions
      /\ In("permit") = granted \cup InLine(waiters)
      /\ granted \cap InLine(waiters) = {} /\ Once(waiters)
      /\ permits > 0 => waiters = <<>>
      /\ permits + Cardinality(granted) + Cardinality(In("run")) = MaxConcurrent
  BY Zenon DEF QueueInv, SemaphoreTypes, Line, Balance
<1>2. loop[r] = "layer0" /\ loop' = [loop EXCEPT ![r] = "permit"]
  BY Zenon DEF LoopMoves
<1>3. In("run")' = In("run") \ {r} /\ In("permit")' = In("permit") \cup {r}
  <2>1. LoopTypes /\ "run" # "permit"
    BY DEF QueueInv
  <2>2. In("run")' = In("run") \ {r}
    BY <1>2, <2>1, MovesOut, Zenon
  <2>3. In("permit")' = In("permit") \cup {r}
    BY <1>2, <2>1, MovesIn, Zenon
  <2> QED
    BY <2>2, <2>3, Zenon
<1>4. r \notin In("run") /\ r \notin In("permit")
  BY <1>2 DEF In
<1>5. In("run")' = In("run") /\ r \notin granted /\ r \notin InLine(waiters)
  BY <1>1, <1>3, <1>4, Zenon
<1>6. CASE permits > 0
  <2>1. permits' = permits - 1 /\ granted' = granted \cup {r} /\ waiters' = waiters
    BY <1>6, Zenon DEF Acquire
  <2>2. Cardinality(granted') = Cardinality(granted) + 1
    BY <1>5, <2>1, Finite, More, Zenon DEF QueueInv
  <2>3. Cardinality(granted) \in Nat /\ Cardinality(In("run")) \in Nat
    BY Finite, Zenon DEF QueueInv
  <2>4. permits' \in Nat /\ Balance'
    BY <1>1, <1>5, <1>6, <2>1, <2>2, <2>3 DEF Balance
  <2>5. SemaphoreTypes'
    BY <1>1, <2>1, <2>4, Zenon DEF SemaphoreTypes
  <2>6. waiters' = <<>>
    BY <1>1, <1>6, <2>1, Zenon
  <2>7. Line'
    BY <1>1, <1>3, <1>5, <2>1, <2>6, Zenon DEF Line
  <2> QED
    BY <2>4, <2>5, <2>7, Zenon
<1>7. CASE ~(permits > 0)
  <2>1. permits' = permits /\ granted' = granted /\ waiters' = Append(waiters, r)
    BY <1>7, Zenon DEF Acquire
  <2>2. /\ waiters' \in Seq(Regions) /\ Once(waiters')
        /\ InLine(waiters') = InLine(waiters) \cup {r}
    BY <1>1, <1>5, <2>1, Joins, Zenon
  <2>3. SemaphoreTypes' /\ Balance'
    BY <1>1, <1>5, <2>1, <2>2, Zenon DEF SemaphoreTypes, Balance
  <2>4. Line'
    BY <1>1, <1>3, <1>5, <1>7, <2>1, <2>2, Zenon DEF Line
  <2> QED
    BY <2>3, <2>4, Zenon
<1> QED
  BY <1>6, <1>7, Zenon

(* A permit under way reaches its poll. *)
LEMMA Arrives ==
  ASSUME QueueInv, NEW r \in Regions, PermitGranted(r)
  PROVE  SemaphoreTypes' /\ Balance' /\ Line'
<1>1. /\ permits \in Nat /\ waiters \in Seq(Regions) /\ granted \subseteq Regions
      /\ In("permit") = granted \cup InLine(waiters)
      /\ granted \cap InLine(waiters) = {} /\ Once(waiters)
      /\ permits > 0 => waiters = <<>>
      /\ permits + Cardinality(granted) + Cardinality(In("run")) = MaxConcurrent
  BY Zenon DEF QueueInv, SemaphoreTypes, Line, Balance
<1>2. /\ loop[r] = "permit" /\ loop' = [loop EXCEPT ![r] = "run"] /\ r \in granted
      /\ granted' = granted \ {r} /\ permits' = permits /\ waiters' = waiters
  BY Zenon DEF LoopMoves, PermitGranted
<1>3. In("run")' = In("run") \cup {r} /\ In("permit")' = In("permit") \ {r}
  <2>1. LoopTypes /\ "permit" # "run"
    BY DEF QueueInv
  <2>2. In("run")' = In("run") \cup {r}
    BY <1>2, <2>1, MovesIn, Zenon
  <2>3. In("permit")' = In("permit") \ {r}
    BY <1>2, <2>1, MovesOut, Zenon
  <2> QED
    BY <2>2, <2>3, Zenon
<1>4. r \notin In("run") /\ r \notin InLine(waiters)
  BY <1>1, <1>2 DEF In
<1>5. /\ Cardinality(granted') = Cardinality(granted) - 1
      /\ Cardinality(In("run")') = Cardinality(In("run")) + 1
  BY <1>2, <1>3, <1>4, Finite, More, Less, Zenon DEF QueueInv
<1>6. Cardinality(granted) \in Nat /\ Cardinality(In("run")) \in Nat
  BY Finite, Zenon DEF QueueInv
<1>7. Balance'
  BY <1>1, <1>2, <1>5, <1>6 DEF Balance
<1>8. SemaphoreTypes' /\ Line'
  BY <1>1, <1>2, <1>3, <1>4, Zenon DEF SemaphoreTypes, Line
<1> QED
  BY <1>7, <1>8, Zenon

(* The shutdown reaches an acquire, in the queue or with its permit. *)
LEMMA Cancels ==
  ASSUME QueueInv, NEW r \in Regions, PermitCancelled(r)
  PROVE  SemaphoreTypes' /\ Balance' /\ Line'
<1>1. /\ permits \in Nat /\ waiters \in Seq(Regions) /\ granted \subseteq Regions
      /\ In("permit") = granted \cup InLine(waiters)
      /\ granted \cap InLine(waiters) = {} /\ Once(waiters)
      /\ permits > 0 => waiters = <<>>
      /\ permits + Cardinality(granted) + Cardinality(In("run")) = MaxConcurrent
  BY Zenon DEF QueueInv, SemaphoreTypes, Line, Balance
<1>2. loop[r] = "permit" /\ loop' = [loop EXCEPT ![r] = "markOk"] /\ DropAcquire(r)
  BY Zenon DEF LoopMoves, PermitCancelled
<1>3. In("run")' = In("run") \ {r} /\ In("permit")' = In("permit") \ {r}
  <2>1. LoopTypes /\ "run" # "markOk" /\ "permit" # "markOk"
    BY DEF QueueInv
  <2>2. In("run")' = In("run") \ {r}
    BY <1>2, <2>1, MovesOut, Zenon
  <2>3. In("permit")' = In("permit") \ {r}
    BY <1>2, <2>1, MovesOut, Zenon
  <2> QED
    BY <2>2, <2>3, Zenon
<1>4. r \notin In("run") /\ r \in In("permit")
  BY <1>2 DEF In
<1>5. In("run")' = In("run")
  BY <1>3, <1>4, Zenon
<1>6. CASE r \in granted
  <2> DEFINE held == granted \ {r}
  <2>1. IF waiters = <<>>
        THEN permits' = permits + 1 /\ waiters' = waiters /\ granted' = held
        ELSE /\ waiters' = Tail(waiters) /\ granted' = held \cup {Head(waiters)}
             /\ permits' = permits
    BY <1>2, <1>6, Zenon DEF DropAcquire
  <2>2. /\ held \subseteq granted /\ Cardinality(held) = Cardinality(granted) - 1
        /\ held \cup InLine(waiters) = In("permit") \ {r}
    BY <1>1, <1>6, Finite, Less, Zenon DEF QueueInv
  <2> HIDE DEF held
  <2>3. /\ SemaphoreTypes'
        /\ permits' + Cardinality(granted') = permits + Cardinality(held) + 1
        /\ granted' \cup InLine(waiters') = held \cup InLine(waiters)
        /\ granted' \cap InLine(waiters') = {}
        /\ Once(waiters')
        /\ permits' > 0 => waiters' = <<>>
    BY <2>1, <2>2, Passes, Zenon
  <2>4. Line'
    BY <1>3, <2>2, <2>3, Zenon DEF Line
  <2>5. Cardinality(granted) \in Nat /\ Cardinality(In("run")) \in Nat
    BY Finite, Zenon DEF QueueInv
  <2>6. permits' + Cardinality(granted') = permits + Cardinality(granted)
    BY <1>1, <2>2, <2>3, <2>5
  <2>7. Balance'
    BY <1>1, <1>5, <2>6, Zenon DEF Balance
  <2> QED
    BY <2>3, <2>4, <2>7, Zenon
<1>7. CASE r \notin granted
  <2>1. waiters' = Leave(waiters, r) /\ permits' = permits /\ granted' = granted
    BY <1>2, <1>7, Zenon DEF DropAcquire
  <2>2. r \in InLine(waiters)
    BY <1>1, <1>4, <1>7, Zenon
  <2>3. /\ waiters' \in Seq(Regions) /\ Once(waiters') /\ waiters # <<>>
        /\ InLine(waiters') = InLine(waiters) \ {r}
    BY <1>1, <2>1, <2>2, GivesUp, Zenon
  <2>4. SemaphoreTypes' /\ Balance'
    BY <1>1, <1>5, <2>1, <2>3, Zenon DEF SemaphoreTypes, Balance
  <2>5. Line'
    BY <1>1, <1>3, <1>7, <2>1, <2>3, Zenon DEF Line
  <2> QED
    BY <2>4, <2>5, Zenon
<1> QED
  BY <1>6, <1>7, Zenon

(* A poll ends, or panics: its permit is dropped either way. *)
LEMMA Releases ==
  ASSUME QueueInv, NEW r \in Regions, NEW to, to \notin {"permit", "run"},
         LoopMoves(r, "run", to), Release
  PROVE  SemaphoreTypes' /\ Balance' /\ Line'
<1>1. /\ permits \in Nat /\ In("permit") = granted \cup InLine(waiters)
      /\ permits + Cardinality(granted) + Cardinality(In("run")) = MaxConcurrent
  BY Zenon DEF QueueInv, SemaphoreTypes, Line, Balance
<1>2. loop[r] = "run" /\ loop' = [loop EXCEPT ![r] = to]
  BY Zenon DEF LoopMoves
<1>3. In("run")' = In("run") \ {r} /\ In("permit")' = In("permit") \ {r}
  BY <1>2, MovesOut, Zenon DEF QueueInv
<1>4. r \in In("run") /\ r \notin In("permit")
  BY <1>2 DEF In
<1>5. /\ SemaphoreTypes'
      /\ permits' + Cardinality(granted') = permits + Cardinality(granted) + 1
      /\ granted' \cup InLine(waiters') = granted \cup InLine(waiters)
      /\ granted' \cap InLine(waiters') = {}
      /\ Once(waiters')
      /\ permits' > 0 => waiters' = <<>>
  <2>1. IF waiters = <<>>
        THEN permits' = permits + 1 /\ waiters' = waiters /\ granted' = granted
        ELSE /\ waiters' = Tail(waiters) /\ granted' = granted \cup {Head(waiters)}
             /\ permits' = permits
    BY Zenon DEF Release
  <2> QED
    BY <2>1, Passes, Zenon
<1>6. Line'
  BY <1>1, <1>3, <1>4, <1>5, Zenon DEF Line
<1>7. Cardinality(In("run")') = Cardinality(In("run")) - 1
  BY <1>3, <1>4, Finite, Less, Zenon DEF QueueInv
<1>8. Cardinality(granted) \in Nat /\ Cardinality(In("run")) \in Nat
  BY Finite, Zenon DEF QueueInv
<1>9. permits' \in Nat /\ Cardinality(granted') \in Nat
  <2>1. granted' \subseteq Regions /\ permits' \in Nat
    BY <1>5, Zenon DEF SemaphoreTypes
  <2> QED
    BY <2>1, RegionsAssumption, FS_Subset, FS_CardinalityType, Zenon
<1>10. Balance'
  BY <1>1, <1>5, <1>7, <1>8, <1>9 DEF Balance
<1> QED
  BY <1>5, <1>6, <1>10, Zenon
--------------------------------------------------------------------------------
(* A loop that moves aside of the semaphore, and what /healthz shows of it. *)
LEMMA AsideStep ==
  ASSUME QueueInv, NEW r \in Regions,
         NEW to \in {"select", "layer0", "markOk", "markErr", "returned"},
         loop[r] \notin {"permit", "run"}, loop' = [loop EXCEPT ![r] = to],
         \/ in_flight' = [in_flight EXCEPT ![r] = InFlight(to)]
         \/ in_flight' = in_flight /\ InFlight(loop[r]) = InFlight(to),
         UNCHANGED <<cancelled, main, sent, semaphore>>, cursor' \in [Regions -> Nat]
  PROVE  QueueInv'
<1>1. to \notin {"permit", "run"} /\ to \in {"new", "select"} \cup Busy \cup Ended
  BY DEF Busy, Ended
<1>2. LoopTypes'
  <2>1. LoopTypes /\ UNCHANGED <<cancelled, main, sent>>
    BY Zenon DEF QueueInv
  <2> QED
    BY <1>1, <2>1, Written, Zenon
<1>3. SemaphoreTypes' /\ Balance' /\ Line'
  <2>1. UNCHANGED semaphore
    BY Zenon
  <2> QED
    BY <1>1, <2>1, Aside, Zenon
<1> QED
  BY <1>2, <1>3, Zenon DEF QueueInv

(* A step that moves no loop and leaves the semaphore alone. *)
LEMMA Elsewhere ==
  ASSUME QueueInv, UNCHANGED <<loop, semaphore, in_flight>>,
         cancelled' \in BOOLEAN, main' \in {"up", "stopped"},
         sent' \in Seq(Regions), cursor' \in [Regions -> Nat]
  PROVE  QueueInv'
<1>1. /\ loop' = loop /\ in_flight' = in_flight
      /\ permits' = permits /\ waiters' = waiters /\ granted' = granted
  BY Zenon DEF semaphore
<1> QED
  BY <1>1, Zenon DEF QueueInv, LoopTypes, SemaphoreTypes, Balance, Line, In

(* What the region's own task does keeps the invariant. *)
LEMMA WorksStep ==
  ASSUME QueueInv, NEW r \in Regions, Works(r)
  PROVE  QueueInv'
<1>0. /\ cursor \in [Regions -> Nat] /\ sent \in Seq(Regions) /\ Len(sent) \in Nat
      /\ cancelled \in BOOLEAN /\ main \in {"up", "stopped"} /\ LoopTypes
  BY DEF QueueInv, LoopTypes
<1>1. CASE Boot(r)
  <2>1. /\ loop[r] = "new" /\ loop' = [loop EXCEPT ![r] = "select"] /\ in_flight' = in_flight
        /\ UNCHANGED <<cancelled, main, sent, semaphore>>
    BY <1>1, Zenon DEF Boot, LoopMoves
  <2>2. cursor' \in [Regions -> Nat]
    BY <1>0, <1>1 DEF Boot
  <2>3. InFlight("new") = InFlight("select") /\ "new" \notin {"permit", "run"}
    BY DEF InFlight, Busy
  <2> QED
    BY <2>1, <2>2, <2>3, AsideStep, Zenon
<1>2. CASE Receive(r)
  <2>1. cursor' \in [Regions -> Nat] /\ UNCHANGED <<cancelled, main, sent, semaphore>>
    <3>1. Passed(r) \in Nat
      BY <1>0, LimitsAssumption DEF Passed, Lagging
    <3>2. cursor' = [cursor EXCEPT ![r] = Passed(r)]
      BY <1>2, Zenon DEF Receive
    <3>3. cursor' \in [Regions -> Nat]
      BY <1>0, <3>1, <3>2, Zenon
    <3> QED
      BY <1>2, <3>3, Zenon DEF Receive
  <2>2. CASE PollStarts(r)
    <3>1. /\ loop[r] = "select" /\ loop' = [loop EXCEPT ![r] = "layer0"]
          /\ in_flight' = [in_flight EXCEPT ![r] = TRUE]
      BY <2>2, Zenon DEF PollStarts, LoopMoves
    <3>2. InFlight("layer0") = TRUE /\ "select" \notin {"permit", "run"}
      BY DEF InFlight, Busy
    <3> QED
      BY <2>1, <3>1, <3>2, AsideStep, Zenon
  <2>3. CASE UNCHANGED <<loop, in_flight>>
    <3>1. /\ UNCHANGED <<loop, semaphore, in_flight>> /\ cancelled' = cancelled
          /\ main' = main /\ sent' = sent
      BY <2>1, <2>3, Zenon
    <3> QED
      BY <1>0, <2>1, <3>1, Elsewhere, Zenon
  <2> QED
    BY <1>2, <2>2, <2>3, Zenon DEF Receive
<1>3. CASE Layer0(r)
  <2>1. /\ UNCHANGED <<cancelled, main, sent>> /\ in_flight' = in_flight
        /\ cursor' \in [Regions -> Nat]
    BY <1>0, <1>3, Zenon DEF Layer0, triggers
  <2>2. /\ InFlight("layer0") = InFlight("markOk") /\ InFlight("layer0") = InFlight("markErr")
        /\ InFlight("layer0") = InFlight("permit") /\ "layer0" \notin {"permit", "run"}
        /\ "permit" \in {"new", "select"} \cup Busy \cup Ended
    BY DEF InFlight, Busy
  <2>3. ASSUME NEW to \in {"markOk", "markErr"}, LoopMoves(r, "layer0", to), UNCHANGED semaphore
        PROVE  QueueInv'
    <3>1. /\ loop[r] = "layer0" /\ loop' = [loop EXCEPT ![r] = to]
          /\ UNCHANGED <<cancelled, main, sent, semaphore>>
      BY <2>1, <2>3, Zenon DEF LoopMoves
    <3>2. /\ to \in {"select", "layer0", "markOk", "markErr", "returned"}
          /\ InFlight(loop[r]) = InFlight(to)
      BY <2>2, <2>3, <3>1, Zenon
    <3> QED
      BY <2>1, <2>2, <3>1, <3>2, AsideStep, Zenon
  <2>4. CASE LoopMoves(r, "layer0", "permit") /\ Acquire(r)
    <3>1. loop[r] = "layer0" /\ loop' = [loop EXCEPT ![r] = "permit"]
      BY <2>4, Zenon DEF LoopMoves
    <3>2. LoopTypes'
      BY <1>0, <2>1, <2>2, <3>1, Written, Zenon
    <3> QED
      BY <2>4, <3>2, Asks, Zenon DEF QueueInv
  <2> QED
    BY <1>3, <2>3, <2>4, Zenon DEF Layer0
<1>4. ASSUME NEW to \in {"run", "markOk", "markErr", "panicked"},
             loop[r] \in {"permit", "run"}, loop' = [loop EXCEPT ![r] = to],
             UNCHANGED <<cancelled, triggers, in_flight, main>>
      PROVE  LoopTypes'
  <2>1. /\ to \in {"new", "select"} \cup Busy \cup Ended /\ InFlight(loop[r]) = InFlight(to)
    <3>1. to \in {"new", "select"} \cup Busy \cup Ended
      BY <1>4 DEF Busy, Ended
    <3>2. InFlight(to) = TRUE
      BY <1>4 DEF InFlight, Busy
    <3>3. InFlight(loop[r]) = TRUE
      BY <1>4 DEF InFlight, Busy
    <3> QED
      BY <3>1, <3>2, <3>3, Zenon
  <2>2. /\ UNCHANGED <<cancelled, main, sent>> /\ in_flight' = in_flight
        /\ cursor' \in [Regions -> Nat]
    BY <1>0, <1>4, Zenon DEF triggers
  <2> QED
    BY <1>0, <1>4, <2>1, <2>2, Written, Zenon
<1>5. CASE PermitGranted(r)
  <2>1. LoopTypes'
    BY <1>4, <1>5, Zenon DEF PermitGranted, LoopMoves
  <2> QED
    BY <1>5, <2>1, Arrives, Zenon DEF QueueInv
<1>6. CASE PermitCancelled(r)
  <2>1. LoopTypes'
    BY <1>4, <1>6, Zenon DEF PermitCancelled, LoopMoves
  <2> QED
    BY <1>6, <2>1, Cancels, Zenon DEF QueueInv
<1>7. CASE PollEnds(r) \/ PollPanics(r)
  <2>1. PICK to \in {"markOk", "markErr", "panicked"} :
          /\ LoopMoves(r, "run", to) /\ Release
          /\ UNCHANGED <<cancelled, triggers, in_flight, main>>
    BY <1>7, Zenon DEF PollEnds, PollPanics
  <2>2. to \notin {"permit", "run"} /\ to \in {"run", "markOk", "markErr", "panicked"}
    OBVIOUS
  <2>3. LoopTypes'
    BY <1>4, <2>1, <2>2, Zenon DEF LoopMoves
  <2>4. SemaphoreTypes' /\ Balance' /\ Line'
    BY <2>1, <2>2, Releases, Zenon
  <2> QED
    BY <2>3, <2>4, Zenon DEF QueueInv
<1>8. CASE MarkState(r)
  <2>1. PICK result \in {"markOk", "markErr"} : LoopMoves(r, result, "select")
    BY <1>8, Zenon DEF MarkState
  <2>2. /\ loop[r] \notin {"permit", "run"} /\ loop' = [loop EXCEPT ![r] = "select"]
    BY <2>1 DEF LoopMoves
  <2>3. /\ in_flight' = [in_flight EXCEPT ![r] = FALSE] /\ cursor' = cursor
        /\ UNCHANGED <<cancelled, main, sent, semaphore>>
    BY <1>8, Zenon DEF MarkState, triggers
  <2>4. InFlight("select") = FALSE
    BY DEF InFlight, Busy
  <2> QED
    BY <1>0, <2>2, <2>3, <2>4, AsideStep, Zenon
<1> QED
  BY <1>1, <1>2, <1>3, <1>5, <1>6, <1>7, <1>8, Zenon DEF Works

(* Every step does. *)
LEMMA QueueStep ==
  ASSUME QueueInv, [Next]_vars
  PROVE  QueueInv'
<1>0. /\ cursor \in [Regions -> Nat] /\ sent \in Seq(Regions)
      /\ cancelled \in BOOLEAN /\ main \in {"up", "stopped"}
  BY DEF QueueInv, LoopTypes
<1>1. ASSUME NEW r \in Regions, Tick(r) PROVE QueueInv'
  <2>1. /\ loop[r] = "select" /\ loop' = [loop EXCEPT ![r] = "layer0"]
        /\ in_flight' = [in_flight EXCEPT ![r] = TRUE] /\ cursor' = cursor
        /\ UNCHANGED <<cancelled, main, sent, semaphore>>
    BY <1>1, Zenon DEF Tick, PollStarts, LoopMoves, triggers
  <2>2. InFlight("layer0") = TRUE /\ "select" \notin {"permit", "run"}
    BY DEF InFlight, Busy
  <2> QED
    BY <1>0, <2>1, <2>2, AsideStep, Zenon
<1>2. ASSUME NEW r \in Regions, LoopCancelled(r) PROVE QueueInv'
  <2>1. /\ loop[r] = "select" /\ loop' = [loop EXCEPT ![r] = "returned"]
        /\ in_flight' = in_flight /\ cursor' = cursor
        /\ UNCHANGED <<cancelled, main, sent, semaphore>>
    BY <1>2, Zenon DEF LoopCancelled, LoopMoves, triggers
  <2>2. InFlight("select") = InFlight("returned") /\ "select" \notin {"permit", "run"}
    BY DEF InFlight, Busy
  <2> QED
    BY <1>0, <2>1, <2>2, AsideStep, Zenon
<1>3. ASSUME NEW r \in Triggered, Trigger(r) PROVE QueueInv'
  <2>1. sent' = Append(sent, r) /\ r \in Regions
    BY <1>3, RegionsAssumption, Zenon DEF Trigger
  <2>2. sent' \in Seq(Regions)
    BY <1>0, <2>1
  <2>3. /\ UNCHANGED <<loop, semaphore, in_flight>>
        /\ cancelled' = cancelled /\ main' = main /\ cursor' = cursor
    BY <1>3, Zenon DEF Trigger
  <2> QED
    BY <1>0, <2>2, <2>3, Elsewhere, Zenon
<1>4. CASE Shutdown \/ Stop
  <2>1. /\ UNCHANGED <<loop, semaphore, in_flight>> /\ sent' = sent /\ cursor' = cursor
        /\ cancelled' \in BOOLEAN /\ main' \in {"up", "stopped"}
    BY <1>0, <1>4, Zenon DEF Shutdown, Stop, triggers
  <2> QED
    BY <1>0, <2>1, Elsewhere, Zenon
<1>5. CASE UNCHANGED vars
  <2>1. /\ UNCHANGED <<loop, semaphore, in_flight>> /\ sent' = sent /\ cursor' = cursor
        /\ cancelled' = cancelled /\ main' = main
    BY <1>5, Zenon DEF vars, triggers
  <2> QED
    BY <1>0, <2>1, Elsewhere, Zenon
<1> QED
  BY <1>1, <1>2, <1>3, <1>4, <1>5, WorksStep, Zenon DEF Next

(* At the start every permit is free and nobody waits. *)
LEMMA QueueInit ==
  ASSUME Init
  PROVE  QueueInv
<1>1. waiters = <<>> /\ sent = <<>> /\ granted = {} /\ permits = MaxConcurrent
  BY Zenon DEF Init
<1>2. /\ waiters \in Seq(Regions) /\ sent \in Seq(Regions)
      /\ Once(waiters) /\ InLine(waiters) = {}
  BY <1>1 DEF Once, InLine
<1>3. In("permit") = {} /\ In("run") = {}
  BY DEF Init, In
<1>4. LoopTypes
  <2>1. /\ loop \in [Regions -> {"new", "select"} \cup Busy \cup Ended]
        /\ cursor \in [Regions -> Nat]
    BY DEF Init
  <2>2. \A r \in Regions : (loop[r] \in Busy \cup {"panicked"}) = FALSE
    BY DEF Init, Busy
  <2>3. in_flight = [r \in Regions |-> loop[r] \in Busy \cup {"panicked"}]
    BY <2>2, Zenon DEF Init
  <2> QED
    BY <1>2, <2>1, <2>3, Zenon DEF Init, LoopTypes
<1>5. Balance /\ SemaphoreTypes
  <2>1. Cardinality(granted) = 0 /\ Cardinality(In("run")) = 0
    BY <1>1, <1>3, FS_EmptySet, Zenon
  <2> QED
    BY <1>1, <1>2, <2>1, LimitsAssumption DEF Balance, SemaphoreTypes
<1>6. Line
  BY <1>1, <1>2, <1>3, Zenon DEF Line
<1> QED
  BY <1>4, <1>5, <1>6, Zenon DEF QueueInv

(* The region permits are conserved, for any number of them and any enabled *)
(* regions: through polls that end and polls that panic, through a shutdown *)
(* that drops an acquire in the queue or one whose permit is under way; a   *)
(* region waits for a permit just when its loop says so, no permit is idle  *)
(* while one waits, and /healthz shows what the loops do.                   *)
THEOREM PermitsAreConserved == Spec => []PermitsConserved
<1>1. QueueInv => PermitsConserved
  <2> SUFFICES ASSUME QueueInv PROVE PermitsConserved
    OBVIOUS
  <2>1. Cardinality(granted) \in Nat /\ Cardinality(In("run")) \in Nat
    BY Finite, Zenon DEF QueueInv
  <2>2. permits \in 0..MaxConcurrent
    BY <2>1, LimitsAssumption DEF QueueInv, SemaphoreTypes, Balance
  <2>3. TypeOK
    BY <2>2, Zenon DEF QueueInv, LoopTypes, SemaphoreTypes, TypeOK
  <2>4. \A r \in Regions : loop[r] = "permit" <=> r \in granted \cup InLine(waiters)
    BY DEF QueueInv, Line, In
  <2> QED
    BY <2>3, <2>4, Zenon DEF QueueInv, Line, Balance, In, InLine, PermitsConserved
<1> QED
  BY <1>1, QueueInit, QueueStep, PTL DEF Spec
===============================================================================
