-------------------------- MODULE MCBundleScheduler --------------------------
(* Instances of BundleScheduler: four bundles, of which the second is       *)
(* larger than the memory limit.                                            *)
EXTENDS BundleScheduler

MCSize == [t \in Tasks |-> IF t = 2 THEN Limit + 1 ELSE 1]
===============================================================================
