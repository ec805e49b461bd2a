------------------------------ MODULE ObjectExport ------------------------------
(***************************************************************************)
(* What the export of one bundle writes: the calls to the worker, the      *)
(* selection and order of the objects, the claims on output paths, the     *)
(* queue of images and the files on disk.  The code is assetstudio.rs,     *)
(* payload.rs and paths.rs of src/core/export_pipeline/implementation and, *)
(* at the other end of the pipe, the worker's run_server.                  *)
(*                                                                         *)
(* WorkerPool has the leases, permits and the recovery lock around this;   *)
(* here there is one bundle, its first attempt and the second one that     *)
(* follows a worker's death by a signal.                                   *)
(*                                                                         *)
(* An output path is <<place, ordinal, extension>>: the place has the      *)
(* directories and the name, ordinal 1 stands for the plain name, ordinal  *)
(* k > 1 for the name with the suffix __dup<k>.  A file's content is the   *)
(* set of payloads that went into it.                                      *)
(***************************************************************************)
EXTENDS Naturals, Sequences, SequencesExt, FiniteSets, FiniteSetsExt

CONSTANTS
  Assets,         \* the bundle's objects, in listing order
  PageSize,       \* NATIVE_AOT_CONTEXT_LIST_PAGE_SIZE
  ReadBatchSize,  \* backends.asset_studio.read_batch_size
  ImageBatch,     \* the least batch of a bundle of images (64 in the code)
  TypetreeBatch,  \* the largest batch of a bundle of typetrees (32)
  FlushBytes,     \* backends.asset_studio.image_flush_bytes; 0 disables it
  Formats,        \* region.export.images.output_formats()
  Leftovers,      \* the sets of files an earlier export of the bundle may have left
  MaxOrdinal,     \* bound: how often a name can collide
  Faults,         \* the kinds of failure a run injects
  MaxFaults       \* bound: how many of them a behaviour may contain

FaultKinds ==
  { "crash",   \* the worker dies by a signal during a call
    "error",   \* a call is answered with an error
    "object",  \* objects of a batch cannot be read, or have no payload
    "io" }     \* a payload cannot be parsed, a file not written or an image not encoded

(* Types and payloads as the code tells them apart.  A playable is a        *)
(* MonoBehaviour of a .playable container, an acb or usm a TextAsset of     *)
(* that name (the usm one that will be decoded), bundle the AssetBundle     *)
(* object itself; an animator is read as a payload bundle of several files. *)
Images == {"texture", "sprite", "array", "arrayImage"}
Kinds == Images \cup {"mono", "playable", "text", "acb", "usm", "font", "bundle", "animator", "untyped"}

(* A container is <<directory, file>>, or <<>> if there is none; holds are  *)
(* the containers that an AssetBundle object lists.                         *)
ASSUME AssetsAssumption ==
  \A i \in DOMAIN Assets :
    /\ Assets[i].kind \in Kinds /\ Assets[i].enabled \in BOOLEAN
    /\ Assets[i].bytes \in Nat /\ Len(Assets[i].container) \in {0, 2}
    /\ Assets[i].kind = "playable" => Assets[i].container # <<>>
ASSUME SizesAssumption ==
  /\ PageSize \in Nat \ {0} /\ ReadBatchSize \in Nat /\ FlushBytes \in Nat
  /\ ImageBatch \in Nat \ {0} /\ TypetreeBatch \in Nat \ {0}
  /\ MaxOrdinal \in Nat \ {0} /\ MaxFaults \in Nat
ASSUME FormatsAssumption == Formats # {} /\ Faults \subseteq FaultKinds

VARIABLES
  by_category, \* region.export.by_category
  at,          \* where the attempt is
  attempt,     \* 1, or 2 after a crash
  worker,      \* "alive" or "dead"
  error,       \* the attempt's error: "none", "signal" or "other"
  offset,      \* objects listed so far
  next,        \* the next object to read, as an index of Planned
  out,         \* the files below the output directory and, for this attempt,
               \* NativeSemanticExportPathState and the playables kept back
  skipped,     \* objects of summary.skipped_object_reads
  empty,       \* objects that were read, but without a payload
  crash_skip,  \* summary.worker_crash_skipped
  before,      \* the files that were there when this attempt began
  hurt,        \* did this attempt fail otherwise than through a crash on an image?
  faults

vars == <<by_category, at, attempt, worker, error, offset, next, out, skipped, empty, crash_skip,
          before, hurt, faults>>

Fault(kind) == kind \in Faults /\ faults > 0 /\ faults' = faults - 1
NoFault == faults' = faults
--------------------------------------------------------------------------------
(* select_native_object_readable_assets: the types that the region asks     *)
(* for, without the images of an array that is listed itself and without    *)
(* objects that have no type.                                               *)
IsImage(a) == a.kind \in Images
Enabled(a) == a.enabled
Supported(a) == a.kind # "untyped"
InArray(a) ==
  /\ a.kind = "arrayImage" /\ a.container # <<>>
  /\ \E i \in DOMAIN Assets : Assets[i].kind = "array" /\ Assets[i].container = a.container
Readable(a) == Enabled(a) /\ ~InArray(a) /\ Supported(a)

(* sort_native_object_reads_for_failure_isolation: images last, each part   *)
(* in listing order.                                                        *)
Planned ==
  SelectSeq(Assets, LAMBDA a : Readable(a) /\ ~IsImage(a))
    \o SelectSeq(Assets, LAMBDA a : Readable(a) /\ IsImage(a))

Count(kinds) == Cardinality({i \in DOMAIN Planned : Planned[i].kind \in kinds})
AtLeast1(n) == IF n < 1 THEN 1 ELSE n

(* native_read_batch_size_for_assets *)
BatchSize ==
  LET size == AtLeast1(ReadBatchSize)
      tuned == IF 2 * Count({"texture", "sprite"}) >= Len(Planned) THEN Max({size, ImageBatch})
               ELSE IF 2 * Count({"mono", "playable"}) >= Len(Planned)
               THEN Min({size, TypetreeBatch}) ELSE size
  IN  Min({AtLeast1(tuned), AtLeast1(Len(Planned))})

ChunkOf(i) == (i - 1) \div BatchSize
EndsChunk(i) == i = Len(Planned) \/ ChunkOf(i + 1) # ChunkOf(i)

(* native_object_read_subchunks: an image is read alone, since every image  *)
(* is asked for as raw RGBA; what lies between images of a chunk together.  *)
LastOfCall(i) ==
  IF IsImage(Planned[i]) THEN i
  ELSE Max({j \in i..Len(Planned) : ChunkOf(j) = ChunkOf(i) /\ ~IsImage(Planned[j])})
--------------------------------------------------------------------------------
(* native_object_output_path: the container's file or, without container,   *)
(* the object's name; unless by_category keeps the directories, containers  *)
(* of different directories may meet here.                                  *)
File(a) == IF a.container = <<>> THEN <<a.name>>
           ELSE IF by_category THEN a.container ELSE <<a.container[2]>>

(* semantic_assetstudio_object_output_path: some types have a directory of  *)
(* their own below the container's name, in which the object's name counts. *)
(* A MonoBehaviour that is called like its container needs none.            *)
Folder(a) == File(a) \o <<a.kind, a.name>>
SemanticPlace(a) ==
  CASE a.kind = "mono" -> IF a.name = Last(File(a)) THEN File(a) ELSE Folder(a)
    [] a.kind \in {"sprite", "array", "arrayImage", "animator"} -> Folder(a)
    [] a.kind = "font" -> Append(Front(File(a)), a.name)
    [] OTHER -> File(a)

(* assetbundle_typetree_output_path: below the category that all listed     *)
(* containers have in common, or else in their only directory.              *)
Categories == {"startapp", "ondemand"}
BundlePlace(a) ==
  LET parents == {c[1] : c \in a.holds}
      common == IF parents \cap Categories # {} THEN parents \cap Categories ELSE parents
      below == IF parents \cap Categories # {} THEN <<a.name, "_bundle">> ELSE <<"_bundle">>
  IN  IF by_category /\ Cardinality(common) = 1
      THEN <<CHOOSE dir \in common : TRUE>> \o below ELSE <<a.name, "_bundle">>

Place(a) == IF a.kind = "bundle" THEN BundlePlace(a) ELSE SemanticPlace(a)

(* native_object_output_extension and text_asset_public_bytes_target: the   *)
(* extension follows from the payload, and a payload bundle keeps that of   *)
(* its container, which no file on disk has there.                          *)
Extension(a) ==
  CASE a.kind \in {"array", "animator"} -> "asset" [] IsImage(a) /\ a.kind # "array" -> "png"
    [] a.kind \in {"mono", "playable", "bundle"} -> "json"
    [] a.kind = "font" -> "ttf" [] a.kind = "text" -> "txt" [] OTHER -> a.kind

NoSignature == "none"

(* The suffix of the first candidate that is either a byte-identical        *)
(* payload of this attempt or a path that is free on disk and in the claims.*)
Duplicate(s, path, sig) ==
  path \in DOMAIN s.claims /\ sig # NoSignature /\ s.claims[path] = sig
FreeUnclaimed(s, path) == path \notin DOMAIN s.disk   \* mutant: queued images hold no claim
Free(s, path) == path \notin DOMAIN s.claims /\ path \notin DOMAIN s.disk

(* claim_with_signature *)
Claim(s, place, ext, sig) ==
  <<place,
    Min({k \in 1..MaxOrdinal : LET p == <<place, k, ext>> IN Duplicate(s, p, sig) \/ Free(s, p)}),
    ext>>

PutAll(f, g) == [p \in DOMAIN f \cup DOMAIN g |-> IF p \in DOMAIN g THEN g[p] ELSE f[p]]
PutEach(f, paths, value) == PutAll(f, [p \in paths |-> value])

(* planned_image_output_files: one file per output format, next to the      *)
(* claimed name.                                                            *)
ImageFiles(path) == {<<path[1], path[2], format>> : format \in Formats}

(* The entries of a payload bundle go into a directory of the claimed name, *)
(* without claims of their own: the layers of an array, of which one stands *)
(* for all, and the model and the textures of an animator.                  *)
Entry(path, name, ext) == <<Append(path[1], name), path[2], ext>>
Layer(path) == Entry(path, "layer", "png")
Model(path) == Entry(path, "model", "fbx")
AnimatorFiles(path) == {Model(path), Entry(path, "texture", "png")}
IsEntry(path) == Last(path[1]) \in {"layer", "model", "texture"}

(* write_native_object_payload, for a payload that is not empty: an ACB     *)
(* stays in memory, images are queued, anything else is written; all but an *)
(* ACB and a movie that will be decoded are in the manifest, an animator    *)
(* with its model.                                                          *)
WriteObject(s, a) ==
  LET path == Claim(s, Place(a), Extension(a), a.sig)
      image == IF a.kind = "array" THEN Layer(path) ELSE path
      claimed == [s EXCEPT !.claims = PutEach(@, {path}, a.sig)]
  IN  IF Duplicate(s, path, a.sig) THEN s ELSE
      CASE a.kind = "acb" -> [claimed EXCEPT !.acb = @ \cup {path}]
        [] IsImage(a) ->
             [claimed EXCEPT !.queued = PutEach(@, {image}, {a.sig}), !.bytes = @ + a.bytes,
                             !.written = @ \cup ImageFiles(image),
                             !.manifest = @ \cup IF a.kind = "array" THEN ImageFiles(image)
                                                 ELSE {path}]
        [] a.kind = "animator" ->
             [claimed EXCEPT !.disk = PutEach(@, AnimatorFiles(path), {a.sig}),
                             !.written = @ \cup AnimatorFiles(path),
                             !.manifest = @ \cup {Model(path)}]
        [] OTHER ->
             [claimed EXCEPT !.disk = PutEach(@, {path}, {a.sig}), !.written = @ \cup {path},
                             !.manifest = @ \cup IF a.kind = "usm" THEN {} ELSE {path}]

(* One object of a batch: a playable waits for the others of its container. *)
TakeObject(s, a) ==
  IF a.kind = "playable" THEN [s EXCEPT !.playables = Append(@, a)] ELSE WriteObject(s, a)

(* flush_pending_native_image_writes_with: every queued image is encoded in *)
(* every format.  An earlier file of the same name is overwritten.          *)
Flushed(s) ==
  LET files == UNION {ImageFiles(p) : p \in DOMAIN s.queued}
      content(f) == s.queued[<<f[1], f[2], "png">>]
  IN  [s EXCEPT !.disk = PutAll(@, [f \in files |-> content(f)]),
                !.queued = <<>>, !.bytes = 0]

Only(s, paths) == [s EXCEPT !.queued = [p \in paths |-> @[p]]]

(* flush_queued_native_images_if_over_threshold *)
FlushNever(s) == s   \* mutant: nothing is flushed before the end
FlushIfOver(s) ==
  IF FlushBytes > 0 /\ DOMAIN s.queued # {} /\ s.bytes >= FlushBytes THEN Flushed(s) ELSE s

(* write_assetstudio_playable_payloads: one file per container, claimed     *)
(* without a signature.  Each part is parsed as JSON first, and an empty    *)
(* payload is none.                                                         *)
NoPayload == "nothing"
PartsOf(s, container) == SelectSeq(s.playables, LAMBDA a : a.container = container)
PlayableContainers(s) == {s.playables[i].container : i \in DOMAIN s.playables}
Parses(s, container) ==
  \A i \in DOMAIN s.playables :
    s.playables[i].container = container => s.playables[i].sig # NoPayload

WritePlayable(s, container) ==
  LET those == PartsOf(s, container)
      path == Claim(s, File(those[1]), "json", NoSignature)
      parts == {those[i].sig : i \in DOMAIN those}
  IN  [s EXCEPT !.claims = PutEach(@, {path}, NoSignature), !.disk = PutEach(@, {path}, parts),
                !.written = @ \cup {path}, !.manifest = @ \cup {path}]

WritePlayables(s, containers) ==
  FoldSet(LAMBDA container, acc : WritePlayable(acc, container), s, containers)
--------------------------------------------------------------------------------
NoFiles == <<>>

(* A fresh NativeSemanticExportPathState over the files on disk, and no     *)
(* line appended to the manifest yet; those of an earlier attempt remain,   *)
(* for images that were still queued when it failed.                        *)
Fresh(disk) ==
  [disk |-> disk, manifest |-> {}, claims |-> NoFiles, queued |-> NoFiles,
   bytes |-> 0, written |-> {}, acb |-> {}, playables |-> <<>>]

Init ==
  /\ by_category \in BOOLEAN
  /\ at = "open" /\ attempt = 1 /\ worker = "alive" /\ error = "none"
  /\ offset = 0 /\ next = 1
  /\ \E files \in Leftovers : before = [p \in files |-> {"old"}]
  /\ out = Fresh(before)
  /\ skipped = {} /\ empty = {} /\ crash_skip = FALSE
  /\ hurt = FALSE /\ faults = MaxFaults

(* The worker's run_server answers a request, with an error or without, and *)
(* waits for the next one.  A large payload travels in a file that the      *)
(* parser of the answer removes.                                            *)
Answers(outcome) == (outcome = "ok" /\ NoFault) \/ (outcome = "other" /\ Fault("error"))

(* PooledWorker::call: a worker that died fails this call and every later   *)
(* one with the signal it died of.                                          *)
Call(outcome) ==
  \/ worker = "alive" /\ Answers(outcome) /\ UNCHANGED worker
  \/ worker = "alive" /\ Fault("crash") /\ outcome = "signal" /\ worker' = "dead"
  \/ worker = "dead" /\ NoFault /\ outcome = "signal" /\ UNCHANGED worker

Outcomes == {"ok", "signal", "other"}

(* A call fails the attempt, or a file does.  A dead worker at this point   *)
(* is one that died while an image was read.                                *)
Fails(outcome, where) ==
  error' = outcome /\ at' = where /\ hurt' = (hurt \/ worker = "alive")

FailsHere(where) == error' = "other" /\ at' = where /\ hurt' = TRUE

Proceeds(where) == at' = where /\ UNCHANGED <<error, hurt>>
--------------------------------------------------------------------------------
(* ContextOpen; when it fails there is no context to close. *)
Open ==
  /\ at = "open"
  /\ \E outcome \in Outcomes :
       /\ Call(outcome)
       /\ IF outcome = "ok" THEN Proceeds("list") ELSE Fails(outcome, "end")
  /\ UNCHANGED <<attempt, offset, next, out, skipped, empty, crash_skip, before>>

(* list_assetstudio_ffi_context_objects_worker, a page at a time. *)
ListPage ==
  /\ at = "list"
  /\ \E outcome \in Outcomes :
       /\ Call(outcome)
       /\ IF outcome = "ok"
          THEN /\ offset' = Min({offset + PageSize, Len(Assets)})
               /\ Proceeds(IF offset + PageSize >= Len(Assets) THEN "read" ELSE "list")
          ELSE Fails(outcome, "close") /\ UNCHANGED offset
  /\ UNCHANGED <<attempt, next, out, skipped, empty, crash_skip, before>>

CallRange == next..LastOfCall(next)
Objects(S) == [k \in 1..Cardinality(S) |-> Planned[SetToSortSeq(S, <)[k]]]
Emptied(i) == [Planned[i] EXCEPT !.sig = NoPayload]

(* The rest of the chunk's loop once its last call is dealt with. *)
EndCall(s) == IF EndsChunk(LastOfCall(next)) THEN FlushIfOver(s) ELSE s

(* A read that succeeded: each object is skipped, empty or taken.  A        *)
(* playable without payload is taken, unless it is read as unsupported.     *)
ReadObjects ==
  /\ at = "read" /\ next <= Len(Planned)
  /\ Call("ok") \/ (worker = "alive" /\ Fault("object") /\ UNCHANGED worker)
  /\ \E bad, none \in SUBSET CallRange :
     \E kept \in SUBSET {i \in none : Planned[i].kind = "playable"} :
       /\ bad \cap none = {} /\ (bad \cup none = {} <=> faults' = faults)
       /\ skipped' = skipped \cup bad /\ empty' = empty \cup none
       /\ out' = EndCall([FoldLeft(TakeObject, out, Objects(CallRange \ (bad \cup none)))
                            EXCEPT !.playables = @ \o SetToSeq({Emptied(i) : i \in kept})])
  /\ next' = LastOfCall(next) + 1
  /\ Proceeds("read")
  /\ UNCHANGED <<attempt, offset, crash_skip, before>>

(* A crash while one image is read costs this image; the loop goes on.      *)
(* Any other failed call ends the attempt.                                  *)
ReadFails ==
  /\ at = "read" /\ next <= Len(Planned)
  /\ \E outcome \in {"signal", "other"} :
       /\ Call(outcome)
       /\ IF outcome = "signal" /\ IsImage(Planned[next])
          THEN /\ skipped' = skipped \cup {next} /\ crash_skip' = TRUE
               /\ next' = next + 1 /\ out' = EndCall(out)
               /\ Proceeds("read")
          ELSE /\ Fails(outcome, "close")
               /\ UNCHANGED <<skipped, crash_skip, next, out>>
  /\ UNCHANGED <<attempt, offset, empty, before>>

(* What is on disk when the step from s to t fails: some of the files it    *)
(* writes, the last of them perhaps in part.                                *)
Touched(s, t) ==
  {p \in DOMAIN t.disk : p \in DOMAIN s.disk => t.disk[p] # s.disk[p]}
Partly(s, t) ==
  {[s EXCEPT !.disk = PutAll(@, [p \in some |-> IF p \in torn THEN {} ELSE t.disk[p]])] :
     some \in SUBSET Touched(s, t), torn \in {{}} \cup {{p} : p \in Touched(s, t)}}

(* A payload of the batch cannot be parsed or written, or not be entered in *)
(* the manifest: what came before it has been.                              *)
WriteFails ==
  /\ at = "read" /\ next <= Len(Planned)
  /\ worker = "alive" /\ Fault("io")
  /\ \E last \in CallRange :
       LET earlier == FoldLeft(TakeObject, out, Objects(next..(last - 1)))
       IN  out' \in Partly(earlier, TakeObject(earlier, Planned[last]))
  /\ FailsHere("close")
  /\ UNCHANGED <<attempt, worker, offset, next, skipped, empty, crash_skip, before>>

(* The flush after a chunk fails: some of the queued images are on disk,    *)
(* the queue is gone.                                                       *)
FlushFails ==
  /\ at = "read" /\ next <= Len(Planned) /\ EndsChunk(LastOfCall(next))
  /\ worker = "alive" \/ IsImage(Planned[next])
  /\ Fault("io")
  /\ LET taken == IF worker = "dead" THEN out
                  ELSE FoldLeft(TakeObject, out, Objects(CallRange)) IN
       /\ FlushIfOver(taken) # taken
       /\ \E some \in SUBSET DOMAIN taken.queued : out' = Flushed(Only(taken, some))
  /\ FailsHere("close")
  /\ UNCHANGED <<attempt, worker, offset, next, skipped, empty, crash_skip, before>>

(* Playables and a last look at the threshold, below which the queue is     *)
(* since its last chunk.                                                    *)
FinishUnpack ==
  /\ at = "read" /\ next > Len(Planned)
  /\ \A container \in PlayableContainers(out) : Parses(out, container)
  /\ out' = FlushIfOver(WritePlayables(out, PlayableContainers(out)))
  /\ Proceeds("close")
  /\ NoFault
  /\ UNCHANGED <<attempt, worker, offset, next, skipped, empty, crash_skip, before>>

(* A container's parts cannot be parsed, or its file not be written: those  *)
(* before it have been.                                                     *)
PlayableFails ==
  /\ at = "read" /\ next > Len(Planned)
  /\ \E earlier \in SUBSET PlayableContainers(out) :
     \E container \in PlayableContainers(out) \ earlier :
       LET before_it == WritePlayables(out, earlier) IN
       /\ \A c \in earlier : Parses(out, c)
       /\ \/ ~Parses(out, container) /\ NoFault /\ out' = before_it
          \/ /\ Parses(out, container) /\ Fault("io")
             /\ out' \in Partly(before_it, WritePlayable(before_it, container))
  /\ FailsHere("close")
  /\ UNCHANGED <<attempt, worker, offset, next, skipped, empty, crash_skip, before>>

(* ContextClose and the two results: a failed close fails the export unless *)
(* a crash has cost images already.                                         *)
Excused == crash_skip
Close ==
  /\ at = "close"
  /\ \E outcome \in Outcomes :
       /\ Call(outcome)
       /\ IF outcome = "ok" \/ error # "none" \/ Excused
          THEN Proceeds("end") ELSE Fails(outcome, "end")
  /\ UNCHANGED <<attempt, offset, next, out, skipped, empty, crash_skip, before>>

(* run_assetstudio_ffi_object_export: one more attempt with a fresh worker  *)
(* and fresh claims, over the files the first one left behind.              *)
Retry ==
  /\ at = "end" /\ error = "signal" /\ attempt = 1
  /\ at' = "open" /\ attempt' = 2 /\ worker' = "alive" /\ error' = "none"
  /\ offset' = 0 /\ next' = 1 /\ out' = Fresh(out.disk)
  /\ skipped' = {} /\ empty' = {} /\ crash_skip' = FALSE
  /\ before' = out.disk /\ hurt' = FALSE
  /\ NoFault

GiveUp ==
  /\ at = "end" /\ error # "none" /\ ~(error = "signal" /\ attempt = 1)
  /\ Proceeds("failed") /\ NoFault
  /\ UNCHANGED <<attempt, worker, offset, next, out, skipped, empty, crash_skip, before>>

(* finish_native_unity_asset_bundle_export encodes what is still queued.    *)
FlushRest ==
  /\ at = "end" /\ error = "none"
  /\ out' = Flushed(out)
  /\ Proceeds("done") /\ NoFault
  /\ UNCHANGED <<attempt, worker, offset, next, skipped, empty, crash_skip, before>>

FlushRestFails ==
  /\ at = "end" /\ error = "none" /\ Fault("io")
  /\ \E some \in SUBSET DOMAIN out.queued : out' = Flushed(Only(out, some))
  /\ FailsHere("failed")
  /\ UNCHANGED <<attempt, worker, offset, next, skipped, empty, crash_skip, before>>

Step ==
  \/ Open \/ ListPage \/ ReadObjects \/ ReadFails \/ WriteFails \/ FlushFails
  \/ FinishUnpack \/ PlayableFails \/ Close \/ Retry \/ GiveUp \/ FlushRest \/ FlushRestFails

Next == Step /\ UNCHANGED by_category

Spec == Init /\ [][Next]_vars
--------------------------------------------------------------------------------
(* Every variable has its type. *)
TypeOK ==
  /\ at \in {"open", "list", "read", "close", "end", "done", "failed"}
  /\ by_category \in BOOLEAN /\ attempt \in 1..2 /\ worker \in {"alive", "dead"}
  /\ error \in {"none", "signal", "other"}
  /\ offset \in 0..Len(Assets) /\ next \in 1..(Len(Planned) + 1)
  /\ \A p \in DOMAIN out.claims \cup out.written \cup out.acb : p[2] \in 1..MaxOrdinal
  /\ skipped \cup empty \subseteq DOMAIN Planned
  /\ crash_skip \in BOOLEAN /\ hurt \in BOOLEAN /\ faults \in 0..MaxFaults

(* Where the payload of an object ended up: a file of each format for an    *)
(* image, memory for an ACB, the file of its container for a playable, all  *)
(* files of its bundle for an animator.                                     *)
Stored(a) ==
  LET place == IF a.kind = "playable" THEN File(a) ELSE Place(a)
      in(ext, ordinal) == <<place, ordinal, ext>>
  IN
  CASE a.kind = "acb" ->
         \E k \in 1..MaxOrdinal : in("acb", k) \in out.acb /\ out.claims[in("acb", k)] = a.sig
    [] IsImage(a) ->
         \E k \in 1..MaxOrdinal : \A f \in Formats :
           LET file == IF a.kind = "array" THEN Entry(in(f, k), "layer", f) ELSE in(f, k)
           IN  file \in out.written /\ out.disk[file] = {a.sig}
    [] a.kind = "animator" ->
         \E k \in 1..MaxOrdinal : \A file \in AnimatorFiles(in("asset", k)) :
           file \in out.written /\ out.disk[file] = {a.sig}
    [] OTHER ->
         \E k \in 1..MaxOrdinal :
           in(Extension(a), k) \in out.written /\ a.sig \in out.disk[in(Extension(a), k)]

(* An export that succeeded has stored every object it planned, except      *)
(* those it lists as skipped and those without a payload.  Every file it    *)
(* reports exists, and so does every file it added to the manifest, unless  *)
(* the output formats leave out the PNG that the manifest names.            *)
(* No file of an earlier export or attempt is overwritten, or removed, but  *)
(* for two kinds that are written without a look at the disk: the entries   *)
(* of payload bundles (write_payload_bundle and the layers of an array),    *)
(* and images in another format than PNG, since the claim looks for the     *)
(* PNG.  Within one attempt even these never meet: each object has its own. *)
(* The plain name is taken unless a file was there already when the attempt *)
(* began.  A crash on an image never costs more than images: the export     *)
(* fails only when something else hit its last attempt.                     *)
ExportAccounted ==
  /\ TypeOK
  /\ at = "done" =>
       /\ \A i \in DOMAIN Planned : i \in skipped \cup empty \/ Stored(Planned[i])
       /\ out.written \subseteq DOMAIN out.disk
       /\ "png" \in Formats => out.manifest \subseteq DOMAIN out.disk
       /\ \A i \in DOMAIN Planned \ (skipped \cup empty) :
            LET plain == <<Place(Planned[i]), 1, Extension(Planned[i])>>
            IN  plain \in DOMAIN before \cup DOMAIN out.claims
  /\ \A p \in DOMAIN before :
       p \in DOMAIN out.disk /\ \/ out.disk[p] = before[p]
                                \/ p[3] \in Formats \ {"png"} \/ IsEntry(p)
  /\ at = "failed" => hurt

(* The images waiting to be encoded never hold more memory than the         *)
(* threshold and the images of one chunk: image_flush_bytes bounds a bundle *)
(* only together with the batch size, which is at least ImageBatch for a    *)
(* bundle of images.                                                        *)
BytesOf(S) == MapThenSumSet(LAMBDA i : Planned[i].bytes, S)
QueueBounded ==
  FlushBytes > 0 =>
    out.bytes <= FlushBytes - 1
                 + BytesOf({j \in 1..(next - 1) : IsImage(Planned[j])
                                                /\ ChunkOf(j) = ChunkOf(next - 1)})
===============================================================================
