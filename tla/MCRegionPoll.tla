----------------------------- MODULE MCRegionPoll -----------------------------
(* Instances of RegionPoll: three bundles, two versions.  b1 keeps its      *)
(* content, b2 changes it, b3 is new in version 2.  By MCCrcs the new       *)
(* content of b2 has another hash but the same crc.                         *)
EXTENDS RegionPoll, TLC

CONSTANTS b1, b2, b3

MCCatalog ==
  << (b1 :> 11) @@ (b2 :> 21) @@ (b3 :> NoFp),
     (b1 :> 11) @@ (b2 :> 22) @@ (b3 :> 31) >>

MCCrcs ==
  << (b1 :> 11) @@ (b2 :> 21) @@ (b3 :> NoFp),
     (b1 :> 11) @@ (b2 :> 21) @@ (b3 :> 31) >>
===============================================================================
