------------------------------ MODULE BundleDiff ------------------------------
(***************************************************************************)
(* Layer 1 of the client-side pruning (src/core/bundle_diff.rs) and the    *)
(* builder of the next snapshot (src/service/poller.rs).                   *)
(*                                                                         *)
(* An AssetBundleInfo is a record [ver, fps]: the asset version it was     *)
(* published under and, per bundle name, the crc of its content, the only  *)
(* field of a detail that diff and build_next_snapshot compare.            *)
(* A name that is not a key of the Rust map has the value NoFp.  A missing *)
(* snapshot file (load_snapshot returning None) is NoInfo: version 0 and   *)
(* no bundle; no live catalogue has version 0.                             *)
(***************************************************************************)
EXTENDS Naturals

CONSTANTS
  Bundles,      \* bundle names that can occur in a catalogue
  Fps,          \* fingerprints of bundle contents: hashes and crc32 sums
  NoFp,         \* "this name is not in the map"
  MaxVersion    \* bound: number of asset versions the CDN publishes

ASSUME NoFpAssumption == NoFp \notin Fps
ASSUME MaxVersionAssumption == MaxVersion \in Nat \ {0}

Versions == 1..MaxVersion

FpMap == [Bundles -> Fps \cup {NoFp}]

BundleInfo == [ver : 0..MaxVersion, fps : FpMap]

NoInfo == [ver |-> 0, fps |-> [b \in Bundles |-> NoFp]]

(* The bundle names an info has as keys. *)
Keys(info) == {b \in Bundles : info.fps[b] # NoFp}

(***************************************************************************)
(* diff: the four classes that DiffStats counts.  Only added and changed   *)
(* bundles go into BundleDiff.changed.                                     *)
(***************************************************************************)
Added(old, new)     == Keys(new) \ Keys(old)
Changed(old, new)   == {b \in Keys(new) \cap Keys(old) : new.fps[b] # old.fps[b]}
Unchanged(old, new) == {b \in Keys(new) \cap Keys(old) : new.fps[b] = old.fps[b]}
Removed(old, new)   == Keys(old) \ Keys(new)

Diff(old, new) == Added(old, new) \cup Changed(old, new)

(***************************************************************************)
(* merge_snapshot: write the details that `new` has for the bundles of one *)
(* committed batch over the snapshot on disk, which is thrown away first   *)
(* when it belongs to another version.                                     *)
(***************************************************************************)
MergeForgetting(disk, new, committed) ==   \* mutant: always starts afresh
  [ver |-> new.ver,
   fps |-> [b \in Bundles |-> IF b \in committed THEN new.fps[b] ELSE NoFp]]

MergeSnapshot(disk, new, committed) ==
  LET base == IF disk.ver = new.ver THEN disk ELSE NoInfo
      entries == committed \cap Keys(new)
  IN  [ver |-> new.ver,
       fps |-> [b \in Bundles |-> IF b \in entries THEN new.fps[b] ELSE base.fps[b]]]

(***************************************************************************)
(* build_next_snapshot: the bundles of `new` that were processed in this   *)
(* run or whose crc is the one of the snapshot the run started from;       *)
(* everything else is left out.                                            *)
(***************************************************************************)
NextSnapshot(new, old, processed) ==
  [ver |-> new.ver,
   fps |-> [b \in Bundles |->
              IF b \in processed \cup Unchanged(old, new) THEN new.fps[b] ELSE NoFp]]
===============================================================================
