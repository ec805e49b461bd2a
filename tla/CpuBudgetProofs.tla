--------------------------- MODULE CpuBudgetProofs ---------------------------
(***************************************************************************)
(* NoLostWakeup and PermitsCounted of CpuBudget for any number of requests *)
(* and any limits.  The inductive invariant is IInv: the requests on their *)
(* way to a counter are as many as its free permits whenever one waits.    *)
(* Every step moves one request, or two when it notifies, so the proof     *)
(* follows how such a move changes the number of requests in a set of      *)
(* states.                                                                 *)
(***************************************************************************)
EXTENDS CpuBudget, FiniteSetTheorems, TLAPS

(* With the throttle on nobody looks at the CPU counter, and only encoders  *)
(* are ever at the encode slots.                                            *)
Allowed(r, state) ==
  /\ Throttled => state \notin {"first", "firstWait", "second", "secondWait", "run"}
  /\ state \in {"slot", "slotWait", "slotHeld"} => r \in Encoders
Placed == \A r \in Requests : Allowed(r, at[r])

IInv == TypeOK /\ PermitsCounted /\ EnoughAwake /\ Placed

(* The requests of D that f places in S, and their number. *)
In(D, f, S) == {r \in D : f[r] \in S}
Count(D, f, S) == Cardinality(In(D, f, S))
One(b) == IF b THEN 1 ELSE 0

(* A number of requests is a natural number: Cardinality of a subset of the *)
(* requests a program has made.                                             *)
LEMMA CountNat ==
  ASSUME NEW D \in SUBSET Requests, NEW f, NEW S
  PROVE  IsFiniteSet(In(D, f, S)) /\ Count(D, f, S) \in Nat
<1>1. In(D, f, S) \subseteq Requests BY DEF In
<1>2. IsFiniteSet(In(D, f, S)) BY <1>1, RequestsAssumption, FS_Subset
<1>. QED BY <1>2, FS_CardinalityType DEF Count

(* A finite set has one element more than without x if x is one of its own. *)
LEMMA WithoutOne ==
  ASSUME NEW A, IsFiniteSet(A), NEW x
  PROVE  /\ Cardinality(A \ {x}) \in Nat
         /\ Cardinality(A) = Cardinality(A \ {x}) + One(x \in A)
<1>1. Cardinality(A) \in Nat BY FS_CardinalityType
<1>2. IsFiniteSet(A \ {x}) BY FS_RemoveElement
<1>3. Cardinality(A \ {x}) \in Nat BY <1>2, FS_CardinalityType
<1>4. CASE x \in A
  <2>1. Cardinality(A \ {x}) = Cardinality(A) - 1 BY <1>4, FS_RemoveElement
  <2>. QED BY <1>1, <1>3, <1>4, <2>1 DEF One
<1>5. CASE x \notin A
  <2>1. A \ {x} = A BY <1>5
  <2>. QED BY <1>1, <1>3, <1>5, <2>1 DEF One
<1>. QED BY <1>4, <1>5

(* One request moves: the number in S loses it if it was there and gains it *)
(* if it is there now.                                                      *)
LEMMA CountMove ==
  ASSUME NEW D \in SUBSET Requests, NEW f \in [Requests -> States],
         NEW r \in D, NEW to \in States, NEW S
  PROVE  Count(D, [f EXCEPT ![r] = to], S) + One(f[r] \in S)
           = Count(D, f, S) + One(to \in S)
<1>. DEFINE A == In(D, f, S)
            B == In(D, [f EXCEPT ![r] = to], S)
<1>1. IsFiniteSet(A) /\ IsFiniteSet(B) BY CountNat
<1>2. (r \in A) = (f[r] \in S) BY DEF In
<1>3. (r \in B) = (to \in S) BY DEF In
<1>4. A \ {r} = B \ {r} BY DEF In
<1>5. /\ Cardinality(A \ {r}) \in Nat
      /\ Cardinality(A) = Cardinality(A \ {r}) + One(r \in A)
  BY <1>1, WithoutOne, Zenon
<1>6. Cardinality(B) = Cardinality(B \ {r}) + One(r \in B) BY <1>1, WithoutOne, Zenon
<1>7. Cardinality(B) + One(f[r] \in S) = Cardinality(A) + One(to \in S)
  <2>. HIDE DEF A, B
  <2>. QED BY <1>2, <1>3, <1>4, <1>5, <1>6 DEF One
<1>. QED BY <1>7 DEF Count

(* A request outside D moves: nothing changes in D. *)
LEMMA CountStays ==
  ASSUME NEW D \in SUBSET Requests, NEW f \in [Requests -> States],
         NEW r \in Requests \ D, NEW to \in States, NEW S
  PROVE  Count(D, [f EXCEPT ![r] = to], S) = Count(D, f, S)
<1>1. In(D, [f EXCEPT ![r] = to], S) = In(D, f, S) BY DEF In
<1>. QED BY <1>1 DEF Count

(* The four numbers the invariant speaks of. *)
Awake(f)     == Count(Requests, f, {"first", "throttle", "second"})
Holding(f)   == Count(Requests, f, {"run"})
SlotAwake(f) == Count(Requests, f, {"slot"})
SlotsHeld(f) == Count(Encoders, f, SlotTaken)

(* The invariant in these numbers, before and after a step. *)
LEMMA InNumbers ==
  /\ Cardinality(CpuAwake) = Awake(at) /\ Cardinality(CpuHolders) = Holding(at)
  /\ Cardinality(EncodeAwake) = SlotAwake(at) /\ Cardinality(EncodeHolders) = SlotsHeld(at)
  /\ Cardinality(CpuAwake') = Awake(at') /\ Cardinality(CpuHolders') = Holding(at')
  /\ Cardinality(EncodeAwake') = SlotAwake(at')
  /\ Cardinality(EncodeHolders') = SlotsHeld(at')
BY Zenon DEF CpuAwake, CpuHolders, EncodeAwake, EncodeHolders, At, In, Count, Awake, Holding,
       SlotAwake, SlotsHeld

(* The counts are natural numbers.                                           *)
LEMMA NumbersNat ==
  ASSUME NEW f
  PROVE  /\ Awake(f) \in Nat /\ Holding(f) \in Nat
         /\ SlotAwake(f) \in Nat /\ SlotsHeld(f) \in Nat
BY CountNat, RequestsAssumption, Zenon DEF Awake, Holding, SlotAwake, SlotsHeld

(* So are the counts of the next state.                                      *)
LEMMA NumbersAreNat ==
  /\ Awake(at) \in Nat /\ Awake(at') \in Nat
  /\ Holding(at) \in Nat /\ Holding(at') \in Nat
  /\ SlotAwake(at) \in Nat /\ SlotAwake(at') \in Nat
  /\ SlotsHeld(at) \in Nat /\ SlotsHeld(at') \in Nat
BY NumbersNat, Zenon

(* How the numbers change from f to g when r alone moves between two states. *)
Effect(f, g, r, from, to) ==
  /\ Awake(g) + One(from \in {"first", "throttle", "second"})
       = Awake(f) + One(to \in {"first", "throttle", "second"})
  /\ Holding(g) + One(from = "run") = Holding(f) + One(to = "run")
  /\ SlotAwake(g) + One(from = "slot") = SlotAwake(f) + One(to = "slot")
  /\ r \in Encoders =>
       SlotsHeld(g) + One(from \in SlotTaken) = SlotsHeld(f) + One(to \in SlotTaken)
  /\ r \notin Encoders => SlotsHeld(g) = SlotsHeld(f)

(* What the move of one request does to the four numbers. *)
LEMMA NumbersMove ==
  ASSUME NEW f \in [Requests -> States], NEW r \in Requests, NEW to \in States,
         NEW g, g = [f EXCEPT ![r] = to]
  PROVE  Effect(f, g, r, f[r], to)
<1>1. Requests \in SUBSET Requests /\ Encoders \in SUBSET Requests BY RequestsAssumption
<1>2. ASSUME NEW S
      PROVE  Count(Requests, g, S) + One(f[r] \in S) = Count(Requests, f, S) + One(to \in S)
  BY <1>1, CountMove, Zenon
<1>3. Awake(g) + One(f[r] \in {"first", "throttle", "second"})
        = Awake(f) + One(to \in {"first", "throttle", "second"})
  BY <1>2, Zenon DEF Awake
<1>4. Holding(g) + One(f[r] = "run") = Holding(f) + One(to = "run")
  <2>1. Holding(g) + One(f[r] \in {"run"}) = Holding(f) + One(to \in {"run"})
    BY <1>2, Zenon DEF Holding
  <2>2. One(f[r] \in {"run"}) = One(f[r] = "run") /\ One(to \in {"run"}) = One(to = "run")
    BY Zenon DEF One
  <2>. QED BY <2>1, <2>2, Zenon
<1>5. SlotAwake(g) + One(f[r] = "slot") = SlotAwake(f) + One(to = "slot")
  <2>1. SlotAwake(g) + One(f[r] \in {"slot"}) = SlotAwake(f) + One(to \in {"slot"})
    BY <1>2, Zenon DEF SlotAwake
  <2>2. One(f[r] \in {"slot"}) = One(f[r] = "slot") /\ One(to \in {"slot"}) = One(to = "slot")
    BY Zenon DEF One
  <2>. QED BY <2>1, <2>2, Zenon
<1>6. CASE r \in Encoders
  <2>1. ASSUME NEW S
        PROVE  Count(Encoders, g, S) + One(f[r] \in S) = Count(Encoders, f, S) + One(to \in S)
    BY <1>1, <1>6, CountMove, ZenonT(60)
  <2>2. SlotsHeld(g) + One(f[r] \in SlotTaken) = SlotsHeld(f) + One(to \in SlotTaken)
    BY <2>1, Zenon DEF SlotsHeld
  <2>. QED BY <1>3, <1>4, <1>5, <1>6, <2>2 DEF Effect
<1>7. CASE r \notin Encoders
  <2>1. r \in Requests \ Encoders BY <1>7
  <2>2. ASSUME NEW S
        PROVE  Count(Encoders, g, S) = Count(Encoders, f, S)
    BY <1>1, <2>1, CountStays, ZenonT(60)
  <2>3. SlotsHeld(g) = SlotsHeld(f) BY <2>2, Zenon DEF SlotsHeld
  <2>. QED BY <1>3, <1>4, <1>5, <1>7, <2>3 DEF Effect
<1>. QED BY <1>6, <1>7

(* The waiting requests after one has moved: nobody new unless it waits. *)
LEMMA WaitingMove ==
  ASSUME NEW r \in Requests, NEW to \in States, at \in [Requests -> States],
         at' = [at EXCEPT ![r] = to]
  PROVE  /\ at' \in [Requests -> States]
         /\ to \notin {"firstWait", "secondWait"} => CpuWaiting' \subseteq CpuWaiting
         /\ to # "slotWait" => EncodeWaiting' \subseteq EncodeWaiting
BY Zenon DEF CpuWaiting, EncodeWaiting, At

(* The invariant from the numbers. *)
LEMMA FromNumbers ==
  ASSUME TypeOK', Placed', UNCHANGED mode,
         active' = Holding(at'), encoding' >= SlotsHeld(at'),
         ~Throttled => encoding' = SlotsHeld(at'),
         CpuWaiting' # {} => CpuMax <= active' + Awake(at'),
         EncodeWaiting' # {} => EncodeMax <= encoding' + SlotAwake(at')
  PROVE  IInv'
BY InNumbers, Zenon DEF IInv, PermitsCounted, EnoughAwake, Throttled

(* The invariant, from the counts.                                           *)
LEMMA ToNumbers ==
  ASSUME IInv
  PROVE  /\ active \in 0..CpuMax /\ encoding \in 0..EncodeMax /\ mode \in Modes
         /\ at \in [Requests -> States]
         /\ CpuMax \in Nat /\ EncodeMax \in Nat
         /\ active = Holding(at) /\ encoding >= SlotsHeld(at)
         /\ ~Throttled => encoding = SlotsHeld(at)
         /\ CpuWaiting # {} => CpuMax <= active + Awake(at)
         /\ EncodeWaiting # {} => EncodeMax <= encoding + SlotAwake(at)
BY InNumbers, LimitsAssumption, Zenon DEF IInv, PermitsCounted, EnoughAwake, TypeOK

(* All that the step proofs need to know when one request moves. *)
LEMMA OneMoves ==
  ASSUME IInv, NEW r \in Requests, NEW to \in States, at' = [at EXCEPT ![r] = to],
         UNCHANGED mode
  PROVE  /\ at' \in [Requests -> States]
         /\ to \notin {"firstWait", "secondWait"} => CpuWaiting' \subseteq CpuWaiting
         /\ to # "slotWait" => EncodeWaiting' \subseteq EncodeWaiting
         /\ Effect(at, at', r, at[r], to)
         /\ Allowed(r, to) => Placed'
<1>1. at \in [Requests -> States] BY ToNumbers
<1>2. at' \in [Requests -> States] BY <1>1, WaitingMove
<1>3. Allowed(r, to) => Placed' BY <1>1 DEF IInv, Placed, Allowed, Throttled
<1>4. Effect(at, at', r, at[r], to) BY <1>1, NumbersMove, Zenon
<1>5. /\ to \notin {"firstWait", "secondWait"} => CpuWaiting' \subseteq CpuWaiting
      /\ to # "slotWait" => EncodeWaiting' \subseteq EncodeWaiting
  BY <1>1, WaitingMove, Zenon
<1>. QED BY <1>2, <1>3, <1>4, <1>5

(* Each step of a request keeps the invariant: first the steps that wake nobody. *)
LEMMA AskKeeps ==
  ASSUME IInv, NEW r \in Requests, Ask(r), UNCHANGED mode PROVE IInv'
<1>. DEFINE to == IF r \in Encoders THEN "slot" ELSE CpuCall
<1>1. /\ to \in States /\ at[r] = "new" /\ at' = [at EXCEPT ![r] = to]
      /\ UNCHANGED <<active, encoding>>
  BY Zenon DEF Ask, Moves, CpuCall, States, SlotTaken
<1>2. /\ to \in {"slot", "first", "throttle"} /\ Allowed(r, to)
      /\ r \notin Encoders \/ to = "slot"
  BY Zenon DEF CpuCall, Allowed
<1>. HIDE DEF to
<1>3. TypeOK' /\ Placed' BY <1>1, <1>2, OneMoves, ToNumbers, Zenon DEF TypeOK
<1>4. Effect(at, at', r, "new", to) BY <1>1, OneMoves, Zenon
<1>5. /\ Holding(at') = Holding(at) /\ SlotsHeld(at') = SlotsHeld(at)
      /\ Awake(at') >= Awake(at) /\ SlotAwake(at') >= SlotAwake(at)
  BY <1>2, <1>4, NumbersAreNat DEF One, SlotTaken, Effect
<1>6. CpuWaiting' \subseteq CpuWaiting /\ EncodeWaiting' \subseteq EncodeWaiting
  BY <1>1, <1>2, OneMoves, Zenon
<1>. QED BY <1>1, <1>3, <1>5, <1>6, NumbersAreNat, ToNumbers, FromNumbers

(* The invariant is kept when acquire_media_encode_permit takes a slot or    *)
(* waits for one.                                                            *)
LEMMA TakeSlotKeeps ==
  ASSUME IInv, NEW r \in Requests, TakeSlot(r), UNCHANGED mode PROVE IInv'
<1>. USE NumbersAreNat
<1>1. r \in Encoders /\ at[r] = "slot" /\ UNCHANGED active
  BY Zenon DEF TakeSlot, Moves, IInv, Placed, Allowed
<1>2. CASE encoding < EncodeMax /\ Moves(r, "slot", CpuCall) /\ encoding' = encoding + 1
  <2>. DEFINE to == CpuCall
  <2>1. /\ to \in {"first", "throttle"} /\ to \in States /\ Allowed(r, to)
        /\ at' = [at EXCEPT ![r] = to]
    BY <1>2, Zenon DEF Moves, CpuCall, States, SlotTaken, Allowed
  <2>. HIDE DEF to
  <2>2. TypeOK' /\ Placed'
    <3>1. encoding' \in 0..EncodeMax BY <1>2, ToNumbers
    <3>. QED BY <1>1, <2>1, <3>1, OneMoves, ToNumbers, Zenon DEF TypeOK
  <2>3. Effect(at, at', r, "slot", to) BY <1>1, <2>1, OneMoves, Zenon
  <2>4. /\ Holding(at') = Holding(at) /\ SlotsHeld(at') = SlotsHeld(at) + 1
        /\ Awake(at') >= Awake(at) /\ SlotAwake(at') + 1 = SlotAwake(at)
    BY <1>1, <2>1, <2>3 DEF One, SlotTaken, Effect
  <2>5. CpuWaiting' \subseteq CpuWaiting /\ EncodeWaiting' \subseteq EncodeWaiting
    BY <2>1, OneMoves, Zenon
  <2>. QED BY <1>1, <1>2, <2>2, <2>4, <2>5, ToNumbers, FromNumbers
<1>3. CASE encoding >= EncodeMax /\ Moves(r, "slot", "slotWait") /\ UNCHANGED encoding
  <2>1. /\ "slotWait" \in States /\ Allowed(r, "slotWait")
        /\ at' = [at EXCEPT ![r] = "slotWait"]
    BY <1>1, <1>3, Zenon DEF Moves, States, Allowed
  <2>2. TypeOK' /\ Placed' BY <1>1, <1>3, <2>1, OneMoves, ToNumbers, Zenon DEF TypeOK
  <2>3. Effect(at, at', r, "slot", "slotWait") BY <1>1, <2>1, OneMoves, Zenon
  <2>4. /\ Holding(at') = Holding(at) /\ SlotsHeld(at') = SlotsHeld(at)
        /\ Awake(at') = Awake(at)
    BY <1>1, <2>3 DEF One, SlotTaken, Effect
  <2>5. CpuWaiting' \subseteq CpuWaiting BY <2>1, OneMoves, Zenon
  <2>. QED BY <1>1, <1>3, <2>2, <2>4, <2>5, ToNumbers, FromNumbers
<1>. QED BY <1>2, <1>3 DEF TakeSlot

(* The invariant is kept by the wait loop before the throttle.               *)
LEMMA FirstCheckKeeps ==
  ASSUME IInv, NEW r \in Requests, FirstCheck(r), UNCHANGED mode PROVE IInv'
<1>. USE NumbersAreNat
<1>1. at[r] = "first" /\ ~Throttled /\ UNCHANGED <<active, encoding>>
  BY Zenon DEF FirstCheck, Moves, IInv, Placed, Allowed
<1>2. CASE Moves(r, "first", "throttle")
  <2>1. /\ "throttle" \in States /\ Allowed(r, "throttle")
        /\ at' = [at EXCEPT ![r] = "throttle"]
    BY <1>2, Zenon DEF Moves, States, SlotTaken, Allowed
  <2>2. TypeOK' /\ Placed' BY <1>1, <2>1, OneMoves, ToNumbers, Zenon DEF TypeOK
  <2>3. Effect(at, at', r, "first", "throttle") BY <1>1, <2>1, OneMoves, Zenon
  <2>4. /\ Holding(at') = Holding(at) /\ SlotsHeld(at') = SlotsHeld(at)
        /\ Awake(at') = Awake(at) /\ SlotAwake(at') = SlotAwake(at)
    BY <2>3 DEF One, SlotTaken, Effect
  <2>5. CpuWaiting' \subseteq CpuWaiting /\ EncodeWaiting' \subseteq EncodeWaiting
    BY <2>1, OneMoves, Zenon
  <2>. QED BY <1>1, <2>2, <2>4, <2>5, ToNumbers, FromNumbers
<1>3. CASE active >= CpuMax /\ Moves(r, "first", "firstWait")
  <2>1. /\ "firstWait" \in States /\ Allowed(r, "firstWait")
        /\ at' = [at EXCEPT ![r] = "firstWait"]
    BY <1>1, <1>3, Zenon DEF Moves, States, SlotTaken, Allowed
  <2>2. TypeOK' /\ Placed' BY <1>1, <2>1, OneMoves, ToNumbers, Zenon DEF TypeOK
  <2>3. Effect(at, at', r, "first", "firstWait") BY <1>1, <2>1, OneMoves, Zenon
  <2>4. /\ Holding(at') = Holding(at) /\ SlotsHeld(at') = SlotsHeld(at)
        /\ SlotAwake(at') = SlotAwake(at)
    BY <2>3 DEF One, SlotTaken, Effect
  <2>5. EncodeWaiting' \subseteq EncodeWaiting BY <2>1, OneMoves, Zenon
  <2>. QED BY <1>1, <1>3, <2>2, <2>4, <2>5, ToNumbers, FromNumbers
<1>. QED BY <1>2, <1>3 DEF FirstCheck

(* The invariant is kept when the throttle lets a request through.           *)
LEMMA ThrottleKeeps ==
  ASSUME IInv, NEW r \in Requests, Throttle(r), UNCHANGED mode PROVE IInv'
<1>. USE NumbersAreNat
<1>. DEFINE to == IF Throttled THEN "uncounted" ELSE "second"
<1>1. /\ at[r] = "throttle" /\ at' = [at EXCEPT ![r] = to] /\ UNCHANGED <<active, encoding>>
  BY Zenon DEF Throttle, Moves
<1>2. /\ to \in States /\ Allowed(r, to)
      /\ to = IF Throttled THEN "uncounted" ELSE "second"
  BY <1>1, Zenon DEF States, SlotTaken, Allowed
<1>. HIDE DEF to
<1>3. TypeOK' /\ Placed' BY <1>1, <1>2, OneMoves, ToNumbers, Zenon DEF TypeOK
<1>4. Effect(at, at', r, "throttle", to) BY <1>1, <1>2, OneMoves, Zenon
<1>5. /\ Holding(at') = Holding(at) /\ SlotsHeld(at') = SlotsHeld(at)
      /\ SlotAwake(at') = SlotAwake(at)
      /\ ~Throttled => Awake(at') = Awake(at)
  BY <1>1, <1>2, <1>4 DEF One, SlotTaken, Effect
<1>6. CpuWaiting' \subseteq CpuWaiting /\ EncodeWaiting' \subseteq EncodeWaiting
  BY <1>1, <1>2, OneMoves, Zenon
<1>7. Throttled => CpuWaiting = {}
  BY Zenon DEF IInv, Placed, Allowed, CpuWaiting, At
<1>. QED BY <1>1, <1>3, <1>5, <1>6, <1>7, ToNumbers, FromNumbers

(* The invariant is kept when a sample fails, and the request with it.       *)
LEMMA SamplingFailsKeeps ==
  ASSUME IInv, NEW r \in Requests, SamplingFails(r), UNCHANGED mode PROVE IInv'
<1>. USE NumbersAreNat
<1>. DEFINE to == "done"
<1>1. /\ at[r] = "throttle" /\ at' = [at EXCEPT ![r] = to] /\ UNCHANGED <<active, encoding>>
      /\ Throttled
  BY Zenon DEF SamplingFails, Moves
<1>2. /\ to \in States /\ Allowed(r, to)
      /\ to = "done"
  BY Zenon DEF States, Allowed
<1>. HIDE DEF to
<1>3. TypeOK' /\ Placed' BY <1>1, <1>2, OneMoves, ToNumbers, Zenon DEF TypeOK
<1>4. Effect(at, at', r, "throttle", to) BY <1>1, <1>2, OneMoves, Zenon
<1>5. /\ Holding(at') = Holding(at) /\ SlotsHeld(at') <= SlotsHeld(at)
      /\ SlotAwake(at') = SlotAwake(at)
  BY <1>1, <1>2, <1>4 DEF One, SlotTaken, Effect
<1>6. CpuWaiting' \subseteq CpuWaiting /\ EncodeWaiting' \subseteq EncodeWaiting
  BY <1>1, <1>2, OneMoves, Zenon
<1>7. CpuWaiting = {}
  BY <1>1, Zenon DEF IInv, Placed, Allowed, CpuWaiting, At
<1>. QED BY <1>1, <1>3, <1>5, <1>6, <1>7, ToNumbers, FromNumbers

(* The invariant is kept when a permit that was never counted is dropped.    *)
LEMMA DropUncountedKeeps ==
  ASSUME IInv, NEW r \in Requests, DropUncounted(r), UNCHANGED mode PROVE IInv'
<1>. USE NumbersAreNat
<1>. DEFINE to == AfterCpu(r)
<1>1. /\ at[r] = "uncounted" /\ at' = [at EXCEPT ![r] = to] /\ UNCHANGED <<active, encoding>>
  BY Zenon DEF DropUncounted, Moves
<1>2. /\ to \in States /\ Allowed(r, to)
      /\ to \in {"slotHeld", "done"}
      /\ r \in Encoders => to = "slotHeld"
  BY Zenon DEF AfterCpu, States, SlotTaken, Allowed
<1>. HIDE DEF to
<1>3. TypeOK' /\ Placed' BY <1>1, <1>2, OneMoves, ToNumbers, Zenon DEF TypeOK
<1>4. Effect(at, at', r, "uncounted", to) BY <1>1, <1>2, OneMoves, Zenon
<1>5. /\ Holding(at') = Holding(at) /\ SlotsHeld(at') = SlotsHeld(at)
      /\ SlotAwake(at') = SlotAwake(at)
      /\ Awake(at') = Awake(at)
  BY <1>1, <1>2, <1>4 DEF One, SlotTaken, Effect
<1>6. CpuWaiting' \subseteq CpuWaiting /\ EncodeWaiting' \subseteq EncodeWaiting
  BY <1>1, <1>2, OneMoves, Zenon
<1>. QED BY <1>1, <1>3, <1>5, <1>6, ToNumbers, FromNumbers

(* The invariant is kept when a wait returns without a notification.         *)
LEMMA SpuriousKeeps ==
  ASSUME IInv, NEW r \in Requests, Spurious(r), UNCHANGED mode PROVE IInv'
<1>. USE NumbersAreNat
<1>. DEFINE to == Check(at[r])
<1>1. /\ at[r] \in {"slotWait", "firstWait", "secondWait"} /\ at' = [at EXCEPT ![r] = to] /\ UNCHANGED <<active, encoding>>
  BY Zenon DEF Spurious, Moves
<1>2. /\ to \in States /\ Allowed(r, to)
      /\ to = Check(at[r])
  BY <1>1, Zenon DEF Check, States, SlotTaken, Allowed, IInv, Placed
<1>. HIDE DEF to
<1>3. TypeOK' /\ Placed' BY <1>1, <1>2, OneMoves, ToNumbers, Zenon DEF TypeOK
<1>4. Effect(at, at', r, at[r], to) BY <1>1, <1>2, OneMoves, Zenon DEF Check
<1>5. /\ Holding(at') = Holding(at) /\ SlotsHeld(at') = SlotsHeld(at)
      /\ Awake(at') >= Awake(at) /\ SlotAwake(at') >= SlotAwake(at)
  BY <1>1, <1>2, <1>4 DEF One, SlotTaken, Effect, Check, IInv, Placed, Allowed
<1>6. CpuWaiting' \subseteq CpuWaiting /\ EncodeWaiting' \subseteq EncodeWaiting
  BY <1>1, <1>2, OneMoves, Zenon DEF Check
<1>. QED BY <1>1, <1>3, <1>5, <1>6, ToNumbers, FromNumbers

(* The invariant is kept by the check under the lock after the throttle.     *)
LEMMA SecondCheckKeeps ==
  ASSUME IInv, NEW r \in Requests, SecondCheck(r), UNCHANGED mode PROVE IInv'
<1>. USE NumbersAreNat
<1>1. at[r] = "second" /\ ~Throttled /\ UNCHANGED encoding
  BY Zenon DEF SecondCheck, Moves, IInv, Placed, Allowed
<1>2. CASE active < CpuMax /\ Moves(r, "second", "run") /\ active' = active + 1
  <2>1. "run" \in States /\ Allowed(r, "run") /\ at' = [at EXCEPT ![r] = "run"]
    BY <1>1, <1>2, Zenon DEF Moves, States, SlotTaken, Allowed
  <2>2. TypeOK' /\ Placed'
    <3>1. active' \in 0..CpuMax BY <1>2, ToNumbers
    <3>. QED BY <1>1, <2>1, <3>1, OneMoves, ToNumbers, Zenon DEF TypeOK
  <2>3. Effect(at, at', r, "second", "run") BY <1>1, <2>1, OneMoves, Zenon
  <2>4. /\ Holding(at') = Holding(at) + 1 /\ SlotsHeld(at') = SlotsHeld(at)
        /\ Awake(at') + 1 = Awake(at) /\ SlotAwake(at') = SlotAwake(at)
    BY <2>3 DEF One, SlotTaken, Effect
  <2>5. CpuWaiting' \subseteq CpuWaiting /\ EncodeWaiting' \subseteq EncodeWaiting
    BY <2>1, OneMoves, Zenon
  <2>. QED BY <1>1, <1>2, <2>2, <2>4, <2>5, ToNumbers, FromNumbers
<1>3. CASE active >= CpuMax /\ Moves(r, "second", "secondWait") /\ UNCHANGED active
  <2>1. /\ "secondWait" \in States /\ Allowed(r, "secondWait")
        /\ at' = [at EXCEPT ![r] = "secondWait"]
    BY <1>1, <1>3, Zenon DEF Moves, States, SlotTaken, Allowed
  <2>2. TypeOK' /\ Placed' BY <1>1, <1>3, <2>1, OneMoves, ToNumbers, Zenon DEF TypeOK
  <2>3. Effect(at, at', r, "second", "secondWait") BY <1>1, <2>1, OneMoves, Zenon
  <2>4. /\ Holding(at') = Holding(at) /\ SlotsHeld(at') = SlotsHeld(at)
        /\ SlotAwake(at') = SlotAwake(at)
    BY <2>3 DEF One, SlotTaken, Effect
  <2>5. EncodeWaiting' \subseteq EncodeWaiting BY <2>1, OneMoves, Zenon
  <2>. QED BY <1>1, <1>3, <2>2, <2>4, <2>5, ToNumbers, FromNumbers
<1>. QED BY <1>2, <1>3 DEF SecondCheck

(* The steps that notify move the request that gives its permit back and    *)
(* one that waited.                                                         *)
LEMMA TwoMove ==
  ASSUME IInv, UNCHANGED mode, NEW r \in Requests, NEW w \in Requests, r # w,
         NEW to \in States, NEW back \in States,
         at' = [at EXCEPT ![r] = to, ![w] = back],
         {to, back} \cap {"slotWait", "firstWait", "secondWait"} = {},
         Allowed(r, to), Allowed(w, back)
  PROVE  /\ at' \in [Requests -> States] /\ Placed'
         /\ CpuWaiting' \subseteq CpuWaiting /\ EncodeWaiting' \subseteq EncodeWaiting
         /\ \E g : /\ Effect(at, g, r, at[r], to) /\ Effect(g, at', w, at[w], back)
                   /\ Awake(g) \in Nat /\ Holding(g) \in Nat
                   /\ SlotAwake(g) \in Nat /\ SlotsHeld(g) \in Nat
<1>. DEFINE g == [at EXCEPT ![r] = to]
<1>1. at \in [Requests -> States] BY ToNumbers
<1>2. g \in [Requests -> States] /\ g[w] = at[w] /\ at' = [g EXCEPT ![w] = back] BY <1>1
<1>3. Effect(at, g, r, at[r], to) BY <1>1, NumbersMove, Zenon
<1>4. Effect(g, at', w, at[w], back)
  <2>1. Effect(g, at', w, g[w], back)
    <3>. HIDE DEF g
    <3>. QED BY <1>2, NumbersMove, Zenon
  <2>. QED BY <2>1, <1>2
<1>5. /\ Awake(g) \in Nat /\ Holding(g) \in Nat
      /\ SlotAwake(g) \in Nat /\ SlotsHeld(g) \in Nat
  BY NumbersNat, Zenon
<1>6. at' \in [Requests -> States] /\ Placed' BY <1>1 DEF IInv, Placed, Allowed, Throttled
<1>7. CpuWaiting' \subseteq CpuWaiting /\ EncodeWaiting' \subseteq EncodeWaiting
  BY <1>1, Zenon DEF CpuWaiting, EncodeWaiting, At
<1>. HIDE DEF g
<1>. QED BY <1>3, <1>4, <1>5, <1>6, <1>7

(* The invariant is kept when a CPU permit is dropped and one waiter woken.*)
LEMMA DropCpuKeeps ==
  ASSUME IInv, NEW r \in Requests, DropCpu(r), UNCHANGED mode PROVE IInv'
<1>. USE NumbersAreNat
<1>. DEFINE to == AfterCpu(r)
<1>1. at[r] = "run" /\ active' = active - 1 /\ UNCHANGED encoding BY DEF DropCpu
<1>2. /\ to \in States /\ Allowed(r, to) /\ to \in {"slotHeld", "done"}
      /\ r \in Encoders => to = "slotHeld"
  BY Zenon DEF AfterCpu, States, SlotTaken, Allowed
<1>3. Notify(r, to, CpuWaiting) BY DEF DropCpu
<1>. HIDE DEF to
<1>4. CASE CpuWaiting = {} /\ at' = [at EXCEPT ![r] = to]
  <2>1. Effect(at, at', r, "run", to) BY <1>1, <1>2, <1>4, OneMoves, Zenon
  <2>2. /\ Holding(at') + 1 = Holding(at) /\ SlotsHeld(at') = SlotsHeld(at)
        /\ SlotAwake(at') = SlotAwake(at)
    BY <1>2, <2>1 DEF One, SlotTaken, Effect
  <2>3. TypeOK' /\ Placed'
    <3>1. active' \in 0..CpuMax BY <1>1, <2>2, ToNumbers
    <3>. QED BY <1>1, <1>2, <1>4, <3>1, OneMoves, ToNumbers, Zenon DEF TypeOK
  <2>4. CpuWaiting' = {} /\ EncodeWaiting' \subseteq EncodeWaiting
    BY <1>2, <1>4, OneMoves, Zenon
  <2>. QED BY <1>1, <2>2, <2>3, <2>4, ToNumbers, FromNumbers
<1>5. ASSUME NEW w \in CpuWaiting, at' = [at EXCEPT ![r] = to, ![w] = Check(at[w])]
      PROVE  IInv'
  <2>. DEFINE back == Check(at[w])
  <2>1. /\ w \in Requests /\ at[w] \in {"firstWait", "secondWait"} /\ r # w
        /\ back \in {"first", "second"} /\ back \in States
    BY <1>1, Zenon DEF CpuWaiting, At, Check, States, SlotTaken
  <2>2. Allowed(w, back)
    BY <2>1, Zenon DEF IInv, Placed, Allowed
  <2>. HIDE DEF back
  <2>3. at' = [at EXCEPT ![r] = to, ![w] = back] BY <1>5 DEF back
  <2>4. {to, back} \cap {"slotWait", "firstWait", "secondWait"} = {} BY <1>2, <2>1
  <2>5. PICK g : /\ Effect(at, g, r, at[r], to) /\ Effect(g, at', w, at[w], back)
                 /\ Awake(g) \in Nat /\ Holding(g) \in Nat
                 /\ SlotAwake(g) \in Nat /\ SlotsHeld(g) \in Nat
    BY <1>2, <2>1, <2>2, <2>3, <2>4, TwoMove, Zenon
  <2>6. /\ Holding(g) + 1 = Holding(at) /\ SlotsHeld(g) = SlotsHeld(at)
        /\ SlotAwake(g) = SlotAwake(at) /\ Awake(g) = Awake(at)
    BY <1>1, <1>2, <2>5 DEF One, SlotTaken, Effect
  <2>7. /\ Holding(at') = Holding(g) /\ SlotsHeld(at') = SlotsHeld(g)
        /\ SlotAwake(at') = SlotAwake(g) /\ Awake(at') = Awake(g) + 1
    BY <2>1, <2>5 DEF One, SlotTaken, Effect
  <2>8. TypeOK' /\ Placed'
    <3>1. active' \in 0..CpuMax BY <1>1, <2>6, <2>5, ToNumbers
    <3>. QED BY <1>1, <1>2, <2>1, <2>2, <2>3, <2>4, <3>1, TwoMove, ToNumbers, Zenon DEF TypeOK
  <2>9. CpuWaiting' \subseteq CpuWaiting /\ EncodeWaiting' \subseteq EncodeWaiting
    BY <1>2, <2>1, <2>2, <2>3, <2>4, TwoMove, Zenon
  <2>. QED BY <1>1, <2>6, <2>7, <2>8, <2>9, ToNumbers, FromNumbers
<1>. QED BY <1>3, <1>4, <1>5 DEF Notify

(* The invariant is kept when an encode slot is dropped and one waiter woken.*)
LEMMA DropSlotKeeps ==
  ASSUME IInv, NEW r \in Requests, DropSlot(r), UNCHANGED mode PROVE IInv'
<1>. USE NumbersAreNat
<1>1. at[r] = "slotHeld" /\ encoding' = encoding - 1 /\ UNCHANGED active BY DEF DropSlot
<1>2. r \in Encoders BY <1>1 DEF IInv, Placed, Allowed
<1>3. "done" \in States /\ Allowed(r, "done") BY DEF States, Allowed
<1>4. CASE EncodeWaiting = {} /\ at' = [at EXCEPT ![r] = "done"]
  <2>1. Effect(at, at', r, "slotHeld", "done") BY <1>1, <1>3, <1>4, OneMoves, Zenon
  <2>2. /\ Holding(at') = Holding(at) /\ SlotsHeld(at') + 1 = SlotsHeld(at)
        /\ Awake(at') = Awake(at)
    BY <1>2, <2>1 DEF One, SlotTaken, Effect
  <2>3. TypeOK' /\ Placed'
    <3>1. encoding' \in 0..EncodeMax BY <1>1, <2>2, ToNumbers
    <3>. QED BY <1>1, <1>3, <1>4, <3>1, OneMoves, ToNumbers, Zenon DEF TypeOK
  <2>4. EncodeWaiting' = {} /\ CpuWaiting' \subseteq CpuWaiting BY <1>3, <1>4, OneMoves, Zenon
  <2>. QED BY <1>1, <2>2, <2>3, <2>4, ToNumbers, FromNumbers
<1>5. ASSUME NEW w \in EncodeWaiting, at' = [at EXCEPT ![r] = "done", ![w] = Check(at[w])]
      PROVE  IInv'
  <2>1. /\ w \in Requests /\ at[w] = "slotWait" /\ r # w
        /\ Check(at[w]) = "slot" /\ "slot" \in States
    BY <1>1, Zenon DEF EncodeWaiting, At, Check, States
  <2>2. Allowed(w, "slot") BY <2>1 DEF IInv, Placed, Allowed
  <2>3. at' = [at EXCEPT ![r] = "done", ![w] = "slot"] BY <1>5, <2>1, Zenon
  <2>4. {"done", "slot"} \cap {"slotWait", "firstWait", "secondWait"} = {} OBVIOUS
  <2>5. PICK g : /\ Effect(at, g, r, at[r], "done") /\ Effect(g, at', w, at[w], "slot")
                 /\ Awake(g) \in Nat /\ Holding(g) \in Nat
                 /\ SlotAwake(g) \in Nat /\ SlotsHeld(g) \in Nat
    BY <1>3, <2>1, <2>2, <2>3, <2>4, TwoMove, Zenon
  <2>6. /\ Holding(g) = Holding(at) /\ SlotsHeld(g) + 1 = SlotsHeld(at)
        /\ SlotAwake(g) = SlotAwake(at) /\ Awake(g) = Awake(at)
    BY <1>1, <1>2, <2>5 DEF One, SlotTaken, Effect
  <2>7. /\ Holding(at') = Holding(g) /\ SlotsHeld(at') = SlotsHeld(g)
        /\ SlotAwake(at') = SlotAwake(g) + 1 /\ Awake(at') = Awake(g)
    BY <2>1, <2>5 DEF One, SlotTaken, Effect
  <2>8. TypeOK' /\ Placed'
    <3>1. encoding' \in 0..EncodeMax BY <1>1, <2>6, <2>5, ToNumbers
    <3>. QED BY <1>1, <1>3, <2>1, <2>2, <2>3, <2>4, <3>1, TwoMove, ToNumbers, Zenon DEF TypeOK
  <2>9. CpuWaiting' \subseteq CpuWaiting /\ EncodeWaiting' \subseteq EncodeWaiting
    BY <1>3, <2>1, <2>2, <2>3, <2>4, TwoMove, Zenon
  <2>. QED BY <1>1, <2>5, <2>6, <2>7, <2>8, <2>9, ToNumbers, FromNumbers
<1>. QED BY <1>4, <1>5 DEF DropSlot, Notify

(* IInv holds of every state of the two limiters: it holds at first, and    *)
(* every critical section and every wake-up keeps it.                       *)
THEOREM Invariance == Spec => []IInv
<1>1. Init => IInv
  <2>. SUFFICES ASSUME Init PROVE IInv OBVIOUS
  <2>1. /\ CpuHolders = {} /\ EncodeHolders = {} /\ CpuWaiting = {} /\ EncodeWaiting = {}
        /\ TypeOK /\ Placed
    BY RequestsAssumption, LimitsAssumption
    DEF Init, CpuHolders, EncodeHolders, CpuWaiting, EncodeWaiting, At, TypeOK, Placed,
        Allowed, States, SlotTaken
  <2>2. Cardinality(CpuHolders) = 0 /\ Cardinality(EncodeHolders) = 0
    BY <2>1, FS_EmptySet, Zenon
  <2>. QED BY <2>1, <2>2 DEF Init, IInv, PermitsCounted, EnoughAwake
<1>2. IInv /\ [Next]_vars => IInv'
  <2>. SUFFICES ASSUME IInv, [Next]_vars PROVE IInv' OBVIOUS
  <2>1. CASE UNCHANGED vars
    BY <2>1, Zenon DEF vars, IInv, TypeOK, PermitsCounted, EnoughAwake, Placed, CpuAwake, CpuWaiting,
                CpuHolders, EncodeAwake, EncodeWaiting, EncodeHolders, At, Allowed, Throttled
  <2>2. ASSUME NEW r \in Requests, UNCHANGED mode,
               Ask(r) \/ Work(r) \/ SamplingFails(r) \/ Spurious(r)
        PROVE  IInv'
    BY <2>2, AskKeeps, TakeSlotKeeps, FirstCheckKeeps, ThrottleKeeps, SecondCheckKeeps,
       DropCpuKeeps, DropUncountedKeeps, DropSlotKeeps, SamplingFailsKeeps, SpuriousKeeps, Zenon
    DEF Work
  <2>. QED BY <2>1, <2>2 DEF Next
<1>. QED BY <1>1, <1>2, PTL DEF Spec

(* PermitsCounted for any limits and any number of requests: the counters   *)
(* of limits.rs and media_postprocess.rs never lose or double a permit.     *)
THEOREM PermitsAreCounted == Spec => []PermitsCounted
<1>1. IInv => PermitsCounted BY DEF IInv
<1>. QED BY <1>1, Invariance, PTL

(* NoLostWakeup for any limits and any number of requests: one notify_one   *)
(* per permit is enough, in spite of the check a woken request makes before *)
(* the throttle without taking the permit.                                  *)
THEOREM WakeupsAreEnough == Spec => []NoLostWakeup
<1>1. IInv => NoLostWakeup
  <2>. SUFFICES ASSUME IInv PROVE NoLostWakeup OBVIOUS
  <2>1. /\ active \in Nat /\ encoding \in Nat /\ CpuMax \in Nat /\ EncodeMax \in Nat
    BY ToNumbers
  <2>2. CpuAwake = {} => Cardinality(CpuAwake) = 0 BY FS_EmptySet
  <2>3. EncodeAwake = {} => Cardinality(EncodeAwake) = 0 BY FS_EmptySet
  <2>. QED BY <2>1, <2>2, <2>3 DEF IInv, EnoughAwake, NoLostWakeup
<1>. QED BY <1>1, Invariance, PTL
===============================================================================
