------------------------------ MODULE CpuBudget ------------------------------
(***************************************************************************)
(* The CPU permits of src/core/export_pipeline/implementation/limits.rs    *)
(* and the encode slots of media_postprocess.rs: two counters, each behind *)
(* a mutex and a condition variable.  A request to encode media takes an   *)
(* encode slot and then a CPU permit; every other request takes a CPU      *)
(* permit only.  A thread that asks again is a new request.                *)
(*                                                                         *)
(* Every step is one critical section.  A request that finds its counter   *)
(* at the maximum waits on the condition variable, and notify_one sends    *)
(* one waiting request back to its check, which another may reach first.   *)
(***************************************************************************)
EXTENDS Naturals, FiniteSets

CONSTANTS
  Requests,   \* calls for a permit
  Encoders,   \* those that encode media
  CpuMax,     \* the CPU budget
  EncodeMax,  \* encode slots
  Modes       \* the settings of resources.cpu.throttle.enabled to look at

ASSUME RequestsAssumption == IsFiniteSet(Requests) /\ Encoders \subseteq Requests
ASSUME LimitsAssumption ==
  CpuMax \in Nat \ {0} /\ EncodeMax \in Nat \ {0} /\ Modes \subseteq {"capped", "throttled"}

VARIABLES
  mode,      \* is CPU use capped by the counter, or sampled and throttled?
  active,    \* CpuBudgetLimiter.state
  encoding,  \* MediaEncodeLimiter.state
  at         \* per request: where it is

vars == <<mode, active, encoding, at>>

Throttled == mode = "throttled"

At(states) == {r \in Requests : at[r] \in states}

(* Past its first check a request looks for the permit once more, after the *)
(* throttle: until then it has none.                                        *)
CpuAwake   == At({"first", "throttle", "second"})
CpuWaiting == At({"firstWait", "secondWait"})
CpuHolders == At({"run"})

EncodeAwake   == At({"slot"})
EncodeWaiting == At({"slotWait"})
SlotTaken == {"first", "firstWait", "throttle", "second", "secondWait", "run", "uncounted",
              "slotHeld"}
EncodeHolders == {r \in Encoders : at[r] \in SlotTaken}

States == SlotTaken \cup {"new", "slot", "slotWait", "done"}

(* Every variable has its type: the counters never pass their maxima.       *)
TypeOK ==
  /\ mode \in Modes
  /\ active \in 0..CpuMax /\ encoding \in 0..EncodeMax
  /\ at \in [Requests -> States]

Init ==
  /\ mode \in Modes
  /\ active = 0 /\ encoding = 0
  /\ at = [r \in Requests |-> "new"]

Moves(r, from, to) == at[r] = from /\ at' = [at EXCEPT ![r] = to]

(* The check that a request woken from its wait goes back to. *)
Check(state) == CASE state = "slotWait" -> "slot"
                  [] state = "firstWait" -> "first"
                  [] OTHER -> "second"

(* notify_one, as r goes on: one of the waiting requests, if there is one. *)
Notify(r, to, waiting) ==
  \/ waiting = {} /\ at' = [at EXCEPT ![r] = to]
  \/ \E w \in waiting : at' = [at EXCEPT ![r] = to, ![w] = Check(at[w])]
--------------------------------------------------------------------------------
(* The CPU call starts with the first check under the hard cap, and with    *)
(* the throttle without it.                                                 *)
CpuCall == IF Throttled THEN "throttle" ELSE "first"

Ask(r) ==
  /\ Moves(r, "new", IF r \in Encoders THEN "slot" ELSE CpuCall)
  /\ UNCHANGED <<active, encoding>>

(* acquire_media_encode_permit, up to the call for the CPU permit. *)
TakeSlot(r) ==
  /\ \/ encoding < EncodeMax /\ Moves(r, "slot", CpuCall) /\ encoding' = encoding + 1
     \/ encoding >= EncodeMax /\ Moves(r, "slot", "slotWait") /\ UNCHANGED encoding
  /\ UNCHANGED active

(* acquire_cpu_budget_permit_blocking: look, ask the throttle, look again.  *)
FirstCheck(r) ==
  /\ \/ active < CpuMax /\ Moves(r, "first", "throttle")
     \/ active >= CpuMax /\ Moves(r, "first", "firstWait")
  /\ UNCHANGED <<active, encoding>>

ThrottleKeepsAsking(r) ==   \* mutant: a low sample is not told from a high one
  /\ Moves(r, "throttle", IF Throttled THEN "throttle" ELSE "second")
  /\ UNCHANGED <<active, encoding>>

(* The throttle lets a request pass at once when it is off, and otherwise   *)
(* when a sample of the CPU use is low enough: the permit is not counted.   *)
Throttle(r) ==
  /\ Moves(r, "throttle", IF Throttled THEN "uncounted" ELSE "second")
  /\ UNCHANGED <<active, encoding>>

(* Neither /proc nor ps gives a sample: the call fails and the `?' of       *)
(* acquire_media_encode_permit returns before the slot has an owner.        *)
SamplingFails(r) ==
  /\ Throttled /\ Moves(r, "throttle", "done")
  /\ UNCHANGED <<active, encoding>>

SecondCheck(r) ==
  /\ \/ active < CpuMax /\ Moves(r, "second", "run") /\ active' = active + 1
     \/ active >= CpuMax /\ Moves(r, "second", "secondWait") /\ UNCHANGED active
  /\ UNCHANGED encoding

(* Drop of CpuBudgetPermit; an encoder has its slot to give back as well. *)
AfterCpu(r) == IF r \in Encoders THEN "slotHeld" ELSE "done"

DropAtLimit(r) ==   \* mutant: notifies only when the budget was used up
  /\ at[r] = "run" /\ active' = active - 1
  /\ IF active = CpuMax THEN Notify(r, AfterCpu(r), CpuWaiting)
     ELSE at' = [at EXCEPT ![r] = AfterCpu(r)]
  /\ UNCHANGED encoding

DropCpu(r) ==
  /\ at[r] = "run" /\ active' = active - 1
  /\ Notify(r, AfterCpu(r), CpuWaiting)
  /\ UNCHANGED encoding

DropUncounted(r) ==
  /\ Moves(r, "uncounted", AfterCpu(r))
  /\ UNCHANGED <<active, encoding>>

(* Drop of MediaEncodePermit. *)
KeepSlot(r) ==   \* mutant: the slot is not given back
  /\ at[r] = "slotHeld" /\ Notify(r, "done", EncodeWaiting)
  /\ UNCHANGED <<active, encoding>>

DropSlot(r) ==
  /\ at[r] = "slotHeld" /\ encoding' = encoding - 1
  /\ Notify(r, "done", EncodeWaiting)
  /\ UNCHANGED active

(* A condition variable may wake a waiting thread for no reason. *)
Spurious(r) ==
  /\ at[r] \in {"slotWait", "firstWait", "secondWait"}
  /\ at' = [at EXCEPT ![r] = Check(@)]
  /\ UNCHANGED <<active, encoding>>

Work(r) ==
  \/ TakeSlot(r) \/ FirstCheck(r) \/ Throttle(r) \/ SecondCheck(r)
  \/ DropCpu(r) \/ DropUncounted(r) \/ DropSlot(r)

Next ==
  /\ \E r \in Requests : Ask(r) \/ Work(r) \/ SamplingFails(r) \/ Spurious(r)
  /\ UNCHANGED mode

Spec == Init /\ [][Next]_vars

(* Threads run, work ends and, under the throttle, the load falls in the    *)
(* end.  Nothing is assumed of spurious wake-ups.                           *)
FairSpec == Spec /\ \A r \in Requests : WF_vars(Work(r) /\ UNCHANGED mode)
--------------------------------------------------------------------------------
(* Both counters count the owners of permits, whatever order requests came  *)
(* and were woken in: no permit is given out twice and none is lost.  With  *)
(* the throttle on, a failed sample may keep a slot that nobody owns.       *)
PermitsCounted ==
  /\ active = Cardinality(CpuHolders)
  /\ encoding >= Cardinality(EncodeHolders)
  /\ ~Throttled => encoding = Cardinality(EncodeHolders)

(* While a permit is free somebody is on the way to it, although a request  *)
(* that was woken for it does not take it at its first check and newcomers  *)
(* may overtake it: no request sleeps beside a free permit that nobody will *)
(* take.                                                                    *)
NoLostWakeup ==
  /\ CpuWaiting # {} /\ active < CpuMax => CpuAwake # {}
  /\ EncodeWaiting # {} /\ encoding < EncodeMax => EncodeAwake # {}

(* The inductive form: there are as many on the way as there are permits.   *)
EnoughAwake ==
  /\ CpuWaiting # {} => CpuMax <= active + Cardinality(CpuAwake)
  /\ EncodeWaiting # {} => EncodeMax <= encoding + Cardinality(EncodeAwake)

Lost == encoding - Cardinality(EncodeHolders)

(* Every request is served in the end, with only one notify_one per permit  *)
(* that comes free.  Only an encoder can be left waiting, and only when     *)
(* failed samples of the CPU use have lost every encode slot there is.      *)
Served ==
  \A r \in Requests :
    at[r] # "new" ~> at[r] = "done" \/ (r \in Encoders /\ Lost = EncodeMax)
===============================================================================
