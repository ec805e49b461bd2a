----------------------------- MODULE MCPollerLoop -----------------------------
(* An instance of PollerLoop: three regions that share one permit, and       *)
(* triggers for one of them.                                                 *)
EXTENDS PollerLoop

CONSTANTS jp, en, tw
===============================================================================
