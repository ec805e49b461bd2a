----------------------------- MODULE PostProcess -----------------------------
(***************************************************************************)
(* What happens to the files a bundle was exported to:                     *)
(* post_process_exported_files, and the upload to the storage providers it *)
(* ends with (upload_to_all_storages).                                     *)
(*                                                                         *)
(* Bundles are post-processed concurrently in one file system.  A file is  *)
(* on disk in full or in part: products are created and then filled.  The  *)
(* conversions of one stage run on several threads (run_tasks); the audio  *)
(* stage is that of AudioPipeline, which removes its sources last.         *)
(***************************************************************************)
EXTENDS Naturals, FiniteSets, Sequences

CONSTANTS
  Setups,       \* what is looked at: bundles and settings, see setup
  UploadMax,    \* concurrency.upload
  Attempts,     \* execution.retry.attempts
  MaxFaults     \* bound: how many failures a behaviour may contain

VARIABLES
  setup,    \* what is exported, and how
  pc,       \* pc[b]: the stage bundle b is in
  listed,   \* listed[b]: native_written_files and generated_files
  todo,     \* todo[b]: the inputs of the stage, as listed when it began
  handled,  \* handled[b]: those it is finished with
  busy,     \* busy[b]: the files some thread is working on
  failed,   \* failed[b]: first_error of the stage is set
  disk,     \* disk[f]: "whole" or "partial", for the files there are
  left,     \* left[b]: what failed attempts at b had left when this one began
  remote,   \* remote[t]: the same for storage provider t
  uploads,  \* uploads[b]: the upload tasks of b
  faults    \* failures injected so far

vars == <<setup, pc, listed, todo, handled, busy, failed, disk, left, remote, uploads, faults>>
--------------------------------------------------------------------------------
(* A file: its bundle, its name without extension, the number of the USM   *)
(* segment it is (0 for none), its extension, and the number of its         *)
(* duplicate suffix (1 for none).                                           *)
File(b, stem, seg, kind) ==
  [of |-> b, stem |-> stem, seg |-> seg, kind |-> kind, dup |-> 1]
Base(f) == [f EXCEPT !.dup = 1]

Bundles == DOMAIN setup.written
Written == setup.written           \* Written[b]: the files the export of b writes
NoMagic == setup.noMagic           \* the .usm files without CRID magic
Barren == setup.barren             \* containers without tracks, or with hca.decode off, and
                                   \* .usm files without a video: nothing comes of them
ByCategory == setup.byCategory     \* region.export.by_category
Formats == setup.formats           \* region.export.images.output_formats()
Targets == setup.targets           \* the storage providers; none when uploads are disabled
RemoveLocal == setup.removeLocal   \* region.upload.remove_local_after_upload
Faults == setup.faults             \* the kinds of failure that are injected

(* The bundles whose files lie below b's export_path: by category, all of  *)
(* them do.                                                                *)
Scope(b) == IF ByCategory THEN Bundles ELSE {b}

ASSUME SetupsAssumption ==
  \A s \in Setups :
    /\ \A b \in DOMAIN s.written : \A f \in s.written[b] :
         f.of = b /\ (f.seg # 0 => File(b, f.stem, 0, "usm") \notin s.written[b])
    /\ s.formats \subseteq {"png", "webp"} /\ s.formats # {}
    /\ s.byCategory \in BOOLEAN /\ s.removeLocal \in BOOLEAN
ASSUME LimitsAssumption ==
  UploadMax \in Nat \ {0} /\ Attempts \in Nat \ {0} /\ MaxFaults \in Nat

Put(fs, S, content) == [g \in DOMAIN fs \cup S |-> IF g \in S THEN content ELSE fs[g]]
(* A file that was removed while it was open gets no contents.             *)
Fill(fs, S) == Put(fs, S \cap DOMAIN fs, "whole")
Drop(fs, S) == [g \in DOMAIN fs \ S |-> fs[g]]
OnDisk(b) == {f \in DOMAIN disk : f.of = b}

Stages == <<"write", "surrogate", "merge", "usm", "acb", "png", "scan">>
After(stage) == Stages[1 + CHOOSE i \in 1..6 : Stages[i] = stage]

SourceKind == [surrogate |-> "bmp", merge |-> "usm", usm |-> "usm", acb |-> "acb", png |-> "png"]
ProductKind == [surrogate |-> "png", usm |-> "mp4", acb |-> "mp3", png |-> "webp"]
Product(stage, f) == [f EXCEPT !.kind = ProductKind[stage]]
Products(stage, f) == IF Base(f) \in Barren THEN {} ELSE {Product(stage, f)}

Fault(kind) == kind \in Faults /\ faults < MaxFaults /\ faults' = faults + 1

Init ==
  /\ setup \in Setups
  /\ pc = [b \in Bundles |-> "write"]
  /\ listed = [b \in Bundles |-> {}]
  /\ todo = [b \in Bundles |-> {}] /\ handled = [b \in Bundles |-> {}]
  /\ busy = [b \in Bundles |-> {}]
  /\ failed = [b \in Bundles |-> FALSE]
  /\ disk = <<>>
  /\ left = [b \in Bundles |-> <<>>]
  /\ remote = [t \in Targets |-> <<>>]
  /\ uploads = [b \in Bundles |-> <<>>]
  /\ faults = 0
--------------------------------------------------------------------------------
(* claim_with_signature: the first name that neither this export nor a file *)
(* has.  The entries of a payload bundle, which the images left for the     *)
(* surrogate stage are, go by the name of the bundle and are not claimed.   *)
Taken(b) == listed[b] \cup DOMAIN disk

Claimed(b, f) ==
  IF f.kind = "bmp" THEN f
  ELSE CHOOSE g \in {[f EXCEPT !.dup = n] : n \in 1..(1 + Cardinality(Taken(b)))} :
         g \notin Taken(b) /\ \A n \in 1..(g.dup - 1) : [f EXCEPT !.dup = n] \in Taken(b)

(* The export, and the flush of the pending images, write the files. *)
WriteBegins(b) ==
  /\ pc[b] = "write" /\ busy[b] = {}
  /\ \E f \in Written[b] \ {Base(g) : g \in listed[b]} :
       /\ busy' = [busy EXCEPT ![b] = {Claimed(b, f)}]
       /\ disk' = Put(disk, {Claimed(b, f)}, "partial")
  /\ UNCHANGED <<pc, listed, todo, handled, failed, left, remote, uploads, faults>>

WriteEnds(b) ==
  /\ pc[b] = "write"
  /\ \E f \in busy[b] :
       /\ busy' = [busy EXCEPT ![b] = {}]
       /\ disk' = Fill(disk, {f})
       /\ listed' = [listed EXCEPT ![b] = @ \cup {f}]
  /\ UNCHANGED <<pc, todo, handled, failed, left, remote, uploads, faults>>

(* post_process_files_by_extension: the listed files of the kind that exist. *)
Converts(stage) == stage = "png" => "webp" \in Formats

Inputs(b, stage) ==
  IF stage \in DOMAIN SourceKind /\ Converts(stage)
  THEN {f \in listed[b] \cap DOMAIN disk : f.kind = SourceKind[stage]} ELSE {}

(* A bundle without files ends at once: its export_path does not exist. *)
WritesDone(b) ==
  /\ pc[b] = "write" /\ busy[b] = {} /\ {Base(f) : f \in listed[b]} = Written[b]
  /\ pc' = [pc EXCEPT ![b] = IF Written[b] = {} THEN "done" ELSE "surrogate"]
  /\ todo' = [todo EXCEPT ![b] = Inputs(b, "surrogate")]
  /\ UNCHANGED <<listed, handled, busy, failed, disk, left, remote, uploads, faults>>
--------------------------------------------------------------------------------
(* prepare_usm_processing_inputs: segments numbered 1, 2, ... without a gap, *)
(* whatever their suffixes, are appended to one file.  The file is emptied   *)
(* before the first is opened, and each is removed once it was copied.       *)
Segments(b, stem) ==
  {f \in todo[b] : f.stem = stem /\ f.seg # 0}

MergeOverGaps(b, stem) ==   \* mutant: a missing segment is not noticed
  Cardinality({f.seg : f \in Segments(b, stem)}) > 1
Contiguous(b, stem) ==
  LET segs == {f.seg : f \in Segments(b, stem)}
  IN  Cardinality(segs) > 1 /\ segs = 1..Cardinality(segs)

Merged(b, stem) == File(b, stem, 0, "usm")

ToMerge(b) ==
  {stem \in {f.stem : f \in todo[b]} :
     Contiguous(b, stem) /\ Segments(b, stem) \ handled[b] # {}}

NextSegment(b, stem) ==
  CHOOSE f \in Segments(b, stem) \ handled[b] :
    \A g \in Segments(b, stem) \ handled[b] : f.seg <= g.seg

MergeOpens(b) ==
  /\ pc[b] = "merge" /\ ~failed[b] /\ busy[b] = {}
  /\ \E stem \in ToMerge(b) :
       /\ busy' = [busy EXCEPT ![b] = {Merged(b, stem)}]
       /\ disk' = Put(disk, {Merged(b, stem)}, "partial")
  /\ UNCHANGED <<pc, listed, todo, handled, failed, left, remote, uploads, faults>>

MergeCopies(b) ==
  /\ pc[b] = "merge"
  /\ \E target \in busy[b] :
       LET seg == NextSegment(b, target.stem)
           finished == IF Segments(b, target.stem) \ handled[b] = {seg} THEN {target} ELSE {}
       IN  /\ seg \in DOMAIN disk
           /\ disk' = Drop(Fill(disk, finished), {seg})
           /\ handled' = [handled EXCEPT ![b] = @ \cup {seg}]
           /\ busy' = [busy EXCEPT ![b] = @ \ finished]
           /\ listed' = [listed EXCEPT ![b] = @ \cup finished]
  /\ UNCHANGED <<pc, todo, failed, left, remote, uploads, faults>>

(* The target cannot be opened, or a segment not be read, copied or removed. *)
MergeFails(b) ==
  /\ pc[b] = "merge" /\ ~failed[b]
  /\ \/ (busy[b] # {} \/ ToMerge(b) # {}) /\ Fault("merge")
     \/ /\ \E target \in busy[b] : NextSegment(b, target.stem) \notin DOMAIN disk
        /\ UNCHANGED faults
  /\ failed' = [failed EXCEPT ![b] = TRUE]
  /\ busy' = [busy EXCEPT ![b] = {}]
  /\ UNCHANGED <<pc, listed, todo, handled, disk, left, remote, uploads>>
--------------------------------------------------------------------------------
(* The conversions of a stage, one thread to a file. *)
TodoAgain(b) == todo[b] \ busy[b]   \* mutant: what is converted is found again
Todo(b) == todo[b] \ (handled[b] \cup busy[b])

Converting(b) == pc[b] \in DOMAIN SourceKind \ {"merge"}

ConvertMoves(b) ==   \* mutant: the source goes before the product is there
  /\ Converting(b) /\ ~failed[b]
  /\ \E f \in {g \in Todo(b) \cap DOMAIN disk : Base(g) \notin NoMagic} :
       /\ busy' = [busy EXCEPT ![b] = @ \cup {f}]
       /\ disk' = Drop(Put(disk, Products(pc[b], f), "partial"), {f})
  /\ UNCHANGED <<pc, listed, todo, handled, failed, left, remote, uploads, faults>>

ConvertBegins(b) ==
  /\ Converting(b) /\ ~failed[b]
  /\ \E f \in {g \in Todo(b) \cap DOMAIN disk : Base(g) \notin NoMagic} :
       /\ busy' = [busy EXCEPT ![b] = @ \cup {f}]
       /\ disk' = Put(disk, Products(pc[b], f), "partial")
  /\ UNCHANGED <<pc, listed, todo, handled, failed, left, remote, uploads, faults>>

(* The source goes once the product, if any, is there; a PNG only when it   *)
(* is not wanted itself, a container only at the end of its stage.          *)
RemovedWith(stage, f) ==
  IF stage = "acb" \/ (stage = "png" /\ "png" \in Formats) THEN {} ELSE {f}

ConvertEnds(b) ==
  /\ Converting(b)
  /\ \E f \in busy[b] :
       /\ disk' = Drop(Fill(disk, Products(pc[b], f)), RemovedWith(pc[b], f))
       /\ busy' = [busy EXCEPT ![b] = @ \ {f}]
       /\ handled' = [handled EXCEPT ![b] = @ \cup {f}]
       /\ listed' = [listed EXCEPT ![b] = @ \cup Products(pc[b], f)]
  /\ UNCHANGED <<pc, todo, failed, left, remote, uploads, faults>>

(* A .usm file without CRID magic stays as it is. *)
SkipNoMagic(b) ==
  /\ pc[b] = "usm" /\ ~failed[b]
  /\ \E f \in {g \in Todo(b) \cap DOMAIN disk : Base(g) \in NoMagic} :
       handled' = [handled EXCEPT ![b] = @ \cup {f}]
  /\ UNCHANGED <<pc, listed, todo, busy, failed, disk, left, remote, uploads, faults>>

ConvertFails(b) ==
  /\ Converting(b) /\ Fault("convert")
  /\ \E f \in busy[b] : busy' = [busy EXCEPT ![b] = @ \ {f}]
  /\ failed' = [failed EXCEPT ![b] = TRUE]
  /\ UNCHANGED <<pc, listed, todo, handled, disk, left, remote, uploads>>

(* The input is gone when it is to be read.  That is an error, except for a *)
(* surrogate whose PNG is there.                                            *)
ConvertMissing(b) ==
  /\ Converting(b) /\ ~failed[b]
  /\ \E f \in Todo(b) \ DOMAIN disk :
       /\ handled' = [handled EXCEPT ![b] = @ \cup {f}]
       /\ failed' = [failed EXCEPT ![b] =
                      ~(pc[b] = "surrogate" /\ Product(pc[b], f) \in DOMAIN disk)]
  /\ UNCHANGED <<pc, listed, todo, busy, disk, left, remote, uploads, faults>>

(* The threads are joined; the containers of the audio stage are removed.   *)
Containers(b) == IF pc[b] = "acb" THEN {f \in handled[b] : f.kind = "acb"} ELSE {}

StageEnds(b) ==
  /\ pc[b] \in DOMAIN SourceKind
  /\ busy[b] = {}
  /\ failed[b] \/ (IF pc[b] = "merge" THEN ToMerge(b) ELSE Todo(b)) = {}
  /\ pc' = [pc EXCEPT ![b] = IF failed[b] THEN "failed" ELSE After(@)]
  /\ disk' = IF failed[b] THEN disk ELSE Drop(disk, Containers(b))
  /\ todo' = [todo EXCEPT ![b] =
               IF pc[b] = "merge"
               THEN (@ \ handled[b]) \cup {Merged(b, f.stem) : f \in @ \cap handled[b]}
               ELSE Inputs(b, After(pc[b]))]
  /\ UNCHANGED <<listed, handled, busy, failed, left, remote, uploads, faults>>
--------------------------------------------------------------------------------
(* scan_all_files: everything below the export path, whoever wrote it.      *)
ScanFiles(b) == {f \in DOMAIN disk : f.of \in Scope(b)}

Scan(b) ==
  /\ pc[b] = "scan"
  /\ IF Targets = {}
     THEN pc' = [pc EXCEPT ![b] = "done"] /\ UNCHANGED uploads
     ELSE /\ pc' = [pc EXCEPT ![b] = "upload"]
          /\ uploads' = [uploads EXCEPT ![b] =
               [x \in Targets \X ScanFiles(b) |->
                  [at |-> "queued", content |-> "none", left |-> Attempts]]]
  /\ UNCHANGED <<listed, todo, handled, busy, failed, disk, left, remote, faults>>

Uploading(b, state) == {x \in DOMAIN uploads[b] : uploads[b][x].at = state}

(* upload_single_file reads the file, and writes what it read until it      *)
(* succeeds or its attempts are used up.                                    *)
UploadPermit(b) == Cardinality(Uploading(b, "sending")) < UploadMax

UploadReads(b) ==
  /\ pc[b] = "upload" /\ UploadPermit(b)
  /\ \E x \in Uploading(b, "queued") :
       /\ x[2] \in DOMAIN disk
       /\ uploads' = [uploads EXCEPT ![b][x].at = "sending",
                                     ![b][x].content = disk[x[2]]]
  /\ UNCHANGED <<pc, listed, todo, handled, busy, failed, disk, left, remote, faults>>

UploadPuts(b) ==
  /\ pc[b] = "upload"
  /\ \E x \in Uploading(b, "sending") :
       /\ remote' = [remote EXCEPT ![x[1]] = Put(@, {x[2]}, uploads[b][x].content)]
       /\ uploads' = [uploads EXCEPT ![b][x].at = "sent"]
  /\ UNCHANGED <<pc, listed, todo, handled, busy, failed, disk, left, faults>>

UploadRetries(b) ==
  /\ pc[b] = "upload" /\ Fault("transient")
  /\ \E x \in Uploading(b, "sending") :
       /\ uploads[b][x].left > 1
       /\ uploads' = [uploads EXCEPT ![b][x].left = @ - 1]
  /\ UNCHANGED <<pc, listed, todo, handled, busy, failed, disk, left, remote>>

(* The first failed task ends the upload, and the others are aborted.       *)
UploadFails(b) ==
  /\ pc[b] = "upload"
  /\ \/ Fault("final") /\ Uploading(b, "sending") # {}
     \/ Fault("transient") /\ \E x \in Uploading(b, "sending") : uploads[b][x].left = 1
     \/ /\ \E x \in Uploading(b, "queued") : x[2] \notin DOMAIN disk
        /\ UNCHANGED faults
  /\ pc' = [pc EXCEPT ![b] = "failed"]
  /\ uploads' = [uploads EXCEPT ![b] = <<>>]
  /\ UNCHANGED <<listed, todo, handled, busy, failed, disk, left, remote>>

SomeSent(b) ==   \* mutant: one provider is enough
  \A x \in DOMAIN uploads[b] : \E t \in Targets : uploads[b][<<t, x[2]>>].at = "sent"
AllSent(b) == \A x \in DOMAIN uploads[b] : uploads[b][x].at = "sent"

UploadsDone(b) ==
  /\ pc[b] = "upload" /\ AllSent(b)
  /\ pc' = [pc EXCEPT ![b] = IF RemoveLocal THEN "remove" ELSE "done"]
  /\ busy' = [busy EXCEPT ![b] = IF RemoveLocal THEN {x[2] : x \in DOMAIN uploads[b]} ELSE {}]
  /\ uploads' = [uploads EXCEPT ![b] = <<>>]
  /\ UNCHANGED <<listed, todo, handled, failed, disk, left, remote, faults>>

(* remove_file for each of them; one that is gone is an error.              *)
RemoveUploaded(b) ==
  /\ pc[b] = "remove"
  /\ IF busy[b] = {}
     THEN pc' = [pc EXCEPT ![b] = "done"] /\ UNCHANGED <<disk, busy>>
     ELSE \E f \in busy[b] :
            /\ disk' = Drop(disk, {f})
            /\ pc' = IF f \in DOMAIN disk THEN pc ELSE [pc EXCEPT ![b] = "failed"]
            /\ busy' = [busy EXCEPT ![b] = IF f \in DOMAIN disk THEN @ \ {f} ELSE {}]
  /\ UNCHANGED <<listed, todo, handled, failed, left, remote, uploads, faults>>

(* A failed bundle is exported again by a later poll, beside what is left.  *)
TryAgain(b) ==
  /\ pc[b] = "failed" /\ "again" \in Faults
  /\ pc' = [pc EXCEPT ![b] = "write"]
  /\ listed' = [listed EXCEPT ![b] = {}] /\ todo' = [todo EXCEPT ![b] = {}]
  /\ handled' = [handled EXCEPT ![b] = {}]
  /\ failed' = [failed EXCEPT ![b] = FALSE]
  /\ left' = [left EXCEPT ![b] = [f \in OnDisk(b) |-> disk[f]]]
  /\ UNCHANGED <<busy, disk, remote, uploads, faults>>
--------------------------------------------------------------------------------
Runs(b) ==
  \/ WriteBegins(b) \/ WriteEnds(b) \/ WritesDone(b)
  \/ MergeOpens(b) \/ MergeCopies(b) \/ MergeFails(b)
  \/ ConvertBegins(b) \/ ConvertEnds(b) \/ SkipNoMagic(b)
  \/ ConvertFails(b) \/ ConvertMissing(b)
  \/ StageEnds(b) \/ Scan(b)
  \/ UploadReads(b) \/ UploadPuts(b) \/ UploadRetries(b) \/ UploadFails(b)
  \/ UploadsDone(b) \/ RemoveUploaded(b)

Next ==
  /\ \E b \in Bundles : Runs(b) \/ TryAgain(b)
  /\ UNCHANGED setup

Spec == Init /\ [][Next]_vars

(* Threads run and requests are answered, and a bundle that failed has a    *)
(* later attempt: a poll comes that selects it again, if only that of the   *)
(* next version.                                                            *)
FairSpec ==
  /\ Spec
  /\ \A b \in UNION {DOMAIN s.written : s \in Setups} :
       /\ WF_vars(b \in Bundles /\ Runs(b) /\ UNCHANGED setup)
       /\ WF_vars(b \in Bundles /\ TryAgain(b) /\ UNCHANGED setup)
--------------------------------------------------------------------------------
(* Every variable has its type; no more uploads run than there are permits. *)
TypeOK ==
  /\ setup \in Setups
  /\ pc \in [Bundles -> {Stages[i] : i \in 1..7} \cup {"upload", "remove", "done", "failed"}]
  /\ failed \in [Bundles -> BOOLEAN] /\ faults \in 0..MaxFaults
  /\ \A f \in DOMAIN disk : f.of \in Bundles /\ disk[f] \in {"partial", "whole"}
  /\ \A b \in Bundles :
       /\ \A f \in listed[b] \cup todo[b] \cup handled[b] : f.of = b
       /\ \A x \in DOMAIN uploads[b] : uploads[b][x].left \in 1..Attempts
       /\ Cardinality(Uploading(b, "sending")) <= UploadMax

(* What becomes of a written file: a video of merged segments, the audio of *)
(* a container, an image in the formats asked for, nothing, or the file     *)
(* itself.                                                                  *)
Images(f) == {[f EXCEPT !.kind = format] : format \in Formats}

Numbers(b, stem) == {f.seg : f \in {g \in Written[b] : g.stem = stem /\ g.kind = "usm"}}

MergedAway(f) ==
  f.seg # 0 /\ LET n == Cardinality(Numbers(f.of, f.stem))
               IN  n > 1 /\ Numbers(f.of, f.stem) = 1..n

Outcome(f) ==
  CASE Base(f) \in Barren -> {}
    [] f.kind \in {"bmp", "png"} -> Images(f)
    [] f.kind = "acb" -> {[f EXCEPT !.kind = "mp3"]}
    [] f.kind = "usm" -> IF MergedAway(f) THEN {Product("usm", Merged(f.of, f.stem))}
                         ELSE IF Base(f) \notin NoMagic THEN {Product("usm", f)} ELSE {f}
    [] OTHER -> {f}

(* By the names of the current attempt, and of any attempt. *)
Results(b) == UNION {Outcome(f) : f \in {g \in listed[b] : Base(g) \in Written[b]}}
Wanted(f) == Base(f) \in UNION {Outcome(g) : g \in Written[f.of]}

Held(t, f) == f \in DOMAIN remote[t] /\ remote[t][f] = "whole"

(* A bundle with a directory of its own that is post-processed has left the *)
(* outcome of its last attempt on disk, in full, and no source, segment or  *)
(* half-written file of that attempt.  What else is there, earlier attempts *)
(* had left when it began, and it is as they left it: an attempt writes     *)
(* beside their sources, not over them, and nothing removes these, so the   *)
(* outcome is exact only if no attempt failed.  Each file of the outcome is *)
(* among the artefacts handed to the uploader, and every storage provider   *)
(* holds all of them, and the leftovers as they are.                        *)
OutcomeExact ==
  /\ TypeOK
  /\ ~ByCategory => \A b \in Bundles : pc[b] = "done" =>
       /\ Results(b) \subseteq listed[b]
       /\ IF Targets # {} /\ RemoveLocal
          THEN OnDisk(b) = {}
          ELSE /\ Results(b) \subseteq OnDisk(b)
               /\ \A f \in OnDisk(b) :
                    \/ f \in Results(b) /\ disk[f] = "whole"
                    \/ f \in DOMAIN left[b] /\ disk[f] = left[b][f]
       /\ \A t \in Targets :
            /\ \A f \in Results(b) : Held(t, f)
            /\ \A f \in OnDisk(b) : f \in DOMAIN remote[t] /\ remote[t][f] = disk[f]

(* A file of the outcome leaves the disk only after every provider has it   *)
(* in full (remove_local_after_upload).  By category, the scan of a bundle  *)
(* also covers files that another is writing, and this much is left: every  *)
(* provider was sent the file, if only in part.  So it is with a file that  *)
(* a failed attempt left half-written.                                      *)
RemovedAfterUpload ==
  [][\A f \in DOMAIN disk \ DOMAIN disk' :
       Wanted(f) => \A t \in Targets :
         Held(t, f) \/ ((ByCategory \/ f \in DOMAIN left[f.of]) /\ f \in DOMAIN remote[t])]_vars

(* A source leaves the disk only once what it was converted to is there in  *)
(* full, or nothing comes of it; a segment only once it and those before it *)
(* were copied to the merged file, in their order; and a source that a      *)
(* failed attempt left behind only once every provider was sent it.  So a   *)
(* failure costs nothing but a partial copy of segments, and never their    *)
(* order.                                                                   *)
InMerged(f) ==
  /\ f.seg # 0 /\ Merged(f.of, f.stem) \in DOMAIN disk'
  /\ \A g \in todo[f.of] : g.stem = f.stem /\ g.seg \in 1..f.seg => g \notin DOMAIN disk'

Converted(f) == \E g \in DOMAIN disk' : disk'[g] = "whole" /\ f # g /\ f = [g EXCEPT !.kind = f.kind]

SourceOutlivesProduct ==
  [][\A f \in DOMAIN disk \ DOMAIN disk' :
       ~ByCategory /\ ~Wanted(f) =>
         \/ Converted(f) \/ InMerged(f) \/ Base(f) \in Barren
         \/ f \in DOMAIN left[f.of] /\ \A t \in Targets : f \in DOMAIN remote[t]]_vars

(* Every bundle's post-processing ends, and a bundle that is tried again    *)
(* until it succeeds succeeds when the failures stop.  By category, bundles *)
(* may go on removing each other's files.                                   *)
PostProcessingEnds ==
  \A b \in UNION {DOMAIN s.written : s \in Setups} :
    <>[](b \in Bundles /\ ~ByCategory => pc[b] = "done")
===============================================================================
