------------------------------- MODULE JobState -------------------------------
(***************************************************************************)
(* What the parts of a region's job share: the retry policy of             *)
(* execution.retry (src/core/retry.rs), and the budget of failures that a  *)
(* run injects.                                                            *)
(***************************************************************************)
EXTENDS Naturals

CONSTANTS
  Faults,      \* the kinds of failure a run injects
  MaxFaults    \* bound: how many of them a behaviour may contain

FaultKinds ==
  { "config",    \* the configuration cannot be read or is no YAML
    "http",      \* a request fails or is answered with a status from 500
    "refused",   \* a request is answered with another status, or with nonsense
    "write",     \* the file of charts cannot be written
    "git",       \* a local git command fails, a commit for lack of a key, say
    "network",   \* a push fails in a way is_retryable_git_error knows
    "lostAck",   \* the same, but the remote has taken the push
    "rejected",  \* the remote refuses the push
    "crash" }    \* the process dies

ASSUME JobFaults == Faults \subseteq FaultKinds /\ MaxFaults \in Nat

VARIABLES
  attempts,   \* execution.retry.attempts
  faults      \* failures still to be injected

Fault(kind) == kind \in Faults /\ faults > 0 /\ faults' = faults - 1
NoFault == faults' = faults

(* retry_async and retry_sync: the operation runs at least once, and again  *)
(* after a failure that the caller calls transient.                         *)
MayRetry(tried) == tried < IF attempts = 0 THEN 1 ELSE attempts
===============================================================================
