-------------------------------- MODULE Mirror --------------------------------
(***************************************************************************)
(* What a region's poller promises: the gateway only ever gains contents   *)
(* that the CDN has published, and the watermark moves forward, only to    *)
(* a published version all of whose selected bundles are on the gateway.   *)
(***************************************************************************)
EXTENDS Naturals

CONSTANTS Bundles, NoFp, MaxVersion, Catalog, Wanted

VARIABLES cdn, gateway, watermark

ContentOf(v, S) == {<<b, Catalog[v][b]>> : b \in {c \in S : Catalog[v][c] # NoFp}}

Init == cdn = 1 /\ gateway = {} /\ watermark = 0

Publish ==
  /\ cdn < MaxVersion /\ cdn' = cdn + 1
  /\ UNCHANGED <<gateway, watermark>>

Store ==
  /\ \E v \in 1..cdn, S \in SUBSET Bundles : gateway' = gateway \cup ContentOf(v, S)
  /\ UNCHANGED <<cdn, watermark>>

Advance ==
  /\ \E v \in watermark..cdn :
       /\ v # 0 /\ ContentOf(v, Wanted) \subseteq gateway
       /\ watermark' = v
  /\ UNCHANGED <<cdn, gateway>>

Next == Publish \/ Store \/ Advance

Spec == Init /\ [][Next]_<<cdn, gateway, watermark>>
===============================================================================
