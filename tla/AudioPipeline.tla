---------------------------- MODULE AudioPipeline ----------------------------
(***************************************************************************)
(* The conversion of the CRI audio containers of one bundle,               *)
(* handle_acb_files.                                                       *)
(*                                                                         *)
(* With hca.decode, a pool of extractor threads takes ACB containers from  *)
(* a queue and sends the tracks of each into a bounded channel, a pool of  *)
(* HCA threads converts them, and the caller joins the extractors, then    *)
(* the HCA threads, and removes the containers from disk.  Without         *)
(* hca.decode the containers are extracted by run_tasks, with the same     *)
(* queue and the same first error, and no track is kept.                   *)
(*                                                                         *)
(* The mutex around the receiving end decides only which HCA thread is     *)
(* next, and is left out.  A thread that panics holds no lock.             *)
(***************************************************************************)
EXTENDS Naturals, Sequences

CONSTANTS
    Inputs,      \* the ACB inputs, in queue order: a sequence
    Files,       \* the ones that are files on disk; the others are in memory
    TracksOf,    \* how many HCA tracks each input holds
    AcbMax,      \* acb_concurrency
    Settings,    \* the settings to look at: region.export.hca.decode, and
                 \* hca_concurrency as hcaMax
    Faults       \* the failures the environment may produce

InputSet == {Inputs[i] : i \in 1..Len(Inputs)}

ASSUME PipelineAssumption ==
    /\ Inputs \in Seq(InputSet) /\ Inputs # <<>>
    /\ \A i, j \in 1..Len(Inputs) : Inputs[i] = Inputs[j] => i = j
    /\ Files \subseteq InputSet
    /\ TracksOf \in [InputSet -> Nat]
    /\ AcbMax \in Nat \ {0} /\ Settings \subseteq [decode : BOOLEAN, hcaMax : Nat \ {0}]
    /\ Faults \subseteq {"spawn", "extract", "convert", "remove",
                         "acbPanics", "hcaPanics"}

VARIABLES
    setting,       \* the one in force
    main,          \* where the caller is
    handles,       \* how many threads of the current phase it has dealt with
    acb,           \* acb[w]: an extractor thread, its input, tracks left
    hca,           \* hca[w]: an HCA thread and the track it converts
    acb_queue,     \* the inputs nobody has taken
    channel,       \* the tracks sent and not received
    first_error,   \* some thread recorded an error
    source_files,  \* the containers to remove
    disk,          \* the containers still on disk
    made           \* how often each track was converted

vars == <<setting, main, handles, acb, hca, acb_queue, channel, first_error,
          source_files, disk, made>>

-----------------------------------------------------------------------------
NoInput == "none"
NoTrack == <<>>
Tracks == UNION {{i} \X (1..TracksOf[i]) : i \in InputSet}

\* As many extractors as inputs at most, and as many HCA threads as configured.
AcbCount == IF AcbMax < Len(Inputs) THEN AcbMax ELSE Len(Inputs)
HcaCount == IF setting.decode THEN setting.hcaMax ELSE 0
AcbThreads == 1..AcbCount
HcaThreads == 1..HcaCount

QueueCapacity == 2 * setting.hcaMax

Running == {"check", "next", "work", "send"}
Ended == {"done", "panicked"}
Returned == main \in {"ok", "err"}

\* A track can be received while the caller or an extractor holds a sender.
SenderLeft ==
    \/ main = "spawn"
    \/ \E w \in AcbThreads : acb[w].at \in Running

\* A track can be sent while the caller or an HCA thread holds the receiver.
ReceiverLeft ==
    \/ ~Returned
    \/ \E h \in HcaThreads : hca[h].at \in Running

Init ==
    /\ setting \in Settings
    /\ main = "spawn"
    /\ handles = 0
    /\ acb = [w \in AcbThreads |-> [at |-> "none", input |-> NoInput, left |-> 0]]
    /\ hca = [h \in HcaThreads |-> [at |-> "none", track |-> NoTrack]]
    /\ acb_queue = Inputs
    /\ channel = <<>>
    /\ first_error = FALSE
    /\ source_files = {}
    /\ disk = Files
    /\ made = [t \in Tracks |-> 0]

-----------------------------------------------------------------------------
(* The caller starts the HCA threads, then the extractors.  A thread that   *)
(* cannot be started makes it return; those started before keep running.    *)

Spawned == HcaCount + AcbCount

Spawn ==
    /\ main = "spawn"
    /\ handles < Spawned
    /\ handles' = handles + 1
    /\ IF handles < HcaCount
       THEN /\ hca' = [hca EXCEPT ![handles + 1].at = "check"]
            /\ acb' = acb
       ELSE /\ acb' = [acb EXCEPT ![handles + 1 - HcaCount].at = "check"]
            /\ hca' = hca
    /\ UNCHANGED <<main, acb_queue, channel, first_error, source_files, disk, made>>

SpawnFails ==
    /\ main = "spawn"
    /\ handles < Spawned
    /\ "spawn" \in Faults
    /\ main' = "err"
    /\ UNCHANGED <<handles, acb, hca, acb_queue, channel, first_error,
                   source_files, disk, made>>

\* drop(track_sender), and the extractors are joined.
AllSpawned ==
    /\ main = "spawn"
    /\ handles = Spawned
    /\ main' = "joinAcb"
    /\ handles' = 0
    /\ UNCHANGED <<acb, hca, acb_queue, channel, first_error, source_files, disk, made>>

-----------------------------------------------------------------------------
(* One turn of an extractor thread.                                         *)

ExtractorChecks(w) ==
    /\ acb[w].at = "check"
    /\ acb' = [acb EXCEPT ![w].at = IF first_error THEN "done" ELSE "next"]
    /\ UNCHANGED <<main, handles, hca, acb_queue, channel, first_error,
                   source_files, disk, made>>

ExtractorTakes(w) ==
    /\ acb[w].at = "next"
    /\ IF acb_queue = <<>>
       THEN /\ acb' = [acb EXCEPT ![w].at = "done"]
            /\ UNCHANGED acb_queue
       ELSE /\ acb' = [acb EXCEPT ![w].at = "work", ![w].input = Head(acb_queue)]
            /\ acb_queue' = Tail(acb_queue)
    /\ UNCHANGED <<main, handles, hca, channel, first_error, source_files, disk, made>>

\* extract_acb_tracks_from_reader keeps the tracks only when they are decoded.
Kept(input) ==
    IF setting.decode THEN TracksOf[input] ELSE 0

\* A container with no track to send leaves the thread at its loop's head.
Sending(left) == IF left = 0 THEN "check" ELSE "send"

Extracted(w) ==
    /\ acb[w].at = "work"
    /\ acb' = [acb EXCEPT ![w].at = Sending(Kept(acb[w].input)),
                          ![w].left = Kept(acb[w].input)]
    /\ source_files' = source_files \cup ({acb[w].input} \cap Files)
    /\ UNCHANGED <<main, handles, hca, acb_queue, channel, first_error, disk, made>>

ExtractFails(w) ==
    /\ acb[w].at = "work"
    /\ "extract" \in Faults
    /\ first_error' = TRUE
    /\ acb' = [acb EXCEPT ![w].at = "done"]
    /\ UNCHANGED <<main, handles, hca, acb_queue, channel, source_files, disk, made>>

ExtractPanics(w) ==
    /\ acb[w].at = "work"
    /\ "acbPanics" \in Faults
    /\ acb' = [acb EXCEPT ![w].at = "panicked"]
    /\ UNCHANGED <<main, handles, hca, acb_queue, channel, first_error,
                   source_files, disk, made>>

\* send_hca_track: give up on an error or a receiver that is gone, otherwise
\* try again every millisecond until the channel has room.
GivesUpWhenFull ==   \* mutant: a full channel ends the container
    first_error \/ ~ReceiverLeft \/ Len(channel) >= QueueCapacity
GivesUpWhenGone == ~ReceiverLeft   \* mutant: the first error is not looked at
GivesUp == first_error \/ ~ReceiverLeft

Room == Len(channel) < QueueCapacity

\* The tracks of a container go in their order.
NextTrack(w) == <<acb[w].input, TracksOf[acb[w].input] - acb[w].left + 1>>

SendTrack(w) ==
    /\ acb[w].at = "send"
    /\ \/ /\ GivesUp
          /\ acb' = [acb EXCEPT ![w].at = "check", ![w].left = 0]
          /\ UNCHANGED channel
       \/ /\ ~GivesUp /\ Room
          /\ channel' = Append(channel, NextTrack(w))
          /\ acb' = [acb EXCEPT ![w].at = Sending(acb[w].left - 1), ![w].left = @ - 1]
    /\ UNCHANGED <<main, handles, hca, acb_queue, first_error, source_files, disk, made>>

-----------------------------------------------------------------------------
(* One turn of an HCA thread.                                               *)

ConverterChecks(h) ==
    /\ hca[h].at = "check"
    /\ hca' = [hca EXCEPT ![h].at = IF first_error THEN "done" ELSE "next"]
    /\ UNCHANGED <<main, handles, acb, acb_queue, channel, first_error,
                   source_files, disk, made>>

\* recv: blocks while the channel is empty and a sender is left.
ConverterReceives(h) ==
    /\ hca[h].at = "next"
    /\ \/ /\ channel # <<>>
          /\ hca' = [hca EXCEPT ![h].at = "work", ![h].track = Head(channel)]
          /\ channel' = Tail(channel)
       \/ /\ channel = <<>> /\ ~SenderLeft
          /\ hca' = [hca EXCEPT ![h].at = "done"]
          /\ UNCHANGED channel
    /\ UNCHANGED <<main, handles, acb, acb_queue, first_error, source_files, disk, made>>

Converted(h) ==
    /\ hca[h].at = "work"
    /\ hca' = [hca EXCEPT ![h].at = "check", ![h].track = NoTrack]
    /\ made' = [made EXCEPT ![hca[h].track] = @ + 1]
    /\ UNCHANGED <<main, handles, acb, acb_queue, channel, first_error,
                   source_files, disk>>

ConvertFails(h) ==
    /\ hca[h].at = "work"
    /\ "convert" \in Faults
    /\ first_error' = TRUE
    /\ hca' = [hca EXCEPT ![h].at = "done", ![h].track = NoTrack]
    /\ UNCHANGED <<main, handles, acb, acb_queue, channel, source_files, disk, made>>

ConvertPanics(h) ==
    /\ hca[h].at = "work"
    /\ "hcaPanics" \in Faults
    /\ hca' = [hca EXCEPT ![h].at = "panicked", ![h].track = NoTrack]
    /\ UNCHANGED <<main, handles, acb, acb_queue, channel, first_error,
                   source_files, disk, made>>

-----------------------------------------------------------------------------
(* The caller joins the threads in the order it started them; the first one *)
(* that panicked makes it return.                                           *)

JoinsNext(count, next, at) ==
    /\ at[handles + 1] \in Ended
    /\ main' = IF at[handles + 1] = "panicked" THEN "err"
               ELSE IF handles + 1 = count THEN next ELSE main
    /\ handles' = IF handles + 1 = count THEN 0 ELSE handles + 1

AfterJoinsRemove == "remove"   \* mutant: the recorded error is not looked at
AfterJoins == IF first_error THEN "err" ELSE "remove"

JoinExtractor ==
    /\ main = "joinAcb"
    /\ JoinsNext(AcbCount, IF setting.decode THEN "joinHca" ELSE AfterJoins,
                 [w \in AcbThreads |-> acb[w].at])
    /\ UNCHANGED <<acb, hca, acb_queue, channel, first_error, source_files, disk, made>>

JoinConverterOnError ==   \* mutant: an error is returned before the joins
    /\ main = "joinHca"
    /\ IF first_error
       THEN main' = "err" /\ UNCHANGED handles
       ELSE JoinsNext(HcaCount, AfterJoins, [h \in HcaThreads |-> hca[h].at])
    /\ UNCHANGED <<acb, hca, acb_queue, channel, first_error, source_files, disk, made>>

JoinConverter ==
    /\ main = "joinHca"
    /\ JoinsNext(HcaCount, AfterJoins, [h \in HcaThreads |-> hca[h].at])
    /\ UNCHANGED <<acb, hca, acb_queue, channel, first_error, source_files, disk, made>>

\* The containers are removed one by one, and a failure stops there.
RemoveSource ==
    /\ main = "remove"
    /\ \/ \E f \in source_files \cap disk : disk' = disk \ {f} /\ UNCHANGED main
       \/ source_files \cap disk = {} /\ main' = "ok" /\ UNCHANGED disk
       \/ /\ "remove" \in Faults
          /\ source_files \cap disk # {}
          /\ main' = "err"
          /\ UNCHANGED disk
    /\ UNCHANGED <<handles, acb, hca, acb_queue, channel, first_error,
                   source_files, made>>

-----------------------------------------------------------------------------
Extractor(w) ==
    \/ ExtractorChecks(w) \/ ExtractorTakes(w) \/ Extracted(w)
    \/ ExtractFails(w) \/ ExtractPanics(w) \/ SendTrack(w)

Converter(h) ==
    \/ ConverterChecks(h) \/ ConverterReceives(h) \/ Converted(h)
    \/ ConvertFails(h) \/ ConvertPanics(h)

Caller ==
    Spawn \/ SpawnFails \/ AllSpawned \/ JoinExtractor \/ JoinConverter \/ RemoveSource

Next ==
    /\ \/ Caller
       \/ \E w \in AcbThreads : Extractor(w)
       \/ \E h \in HcaThreads : Converter(h)
    /\ UNCHANGED setting

Spec == Init /\ [][Next]_vars

\* The operating system schedules every thread.
Fairness ==
    /\ WF_vars(Caller /\ UNCHANGED setting)
    /\ \A w \in AcbThreads : WF_vars(Extractor(w) /\ UNCHANGED setting)
    /\ \A h \in UNION {1..s.hcaMax : s \in Settings} :
         WF_vars(h \in HcaThreads /\ Converter(h) /\ UNCHANGED setting)

FairSpec == Spec /\ Fairness

-----------------------------------------------------------------------------
Alive == {w \in AcbThreads : acb[w].at \in Running}
            \cup {h \in HcaThreads : hca[h].at \in Running}

Panicked ==
    \/ \E w \in AcbThreads : acb[w].at = "panicked"
    \/ \E h \in HcaThreads : hca[h].at = "panicked"

AllStarted ==
    /\ \A w \in AcbThreads : acb[w].at # "none"
    /\ \A h \in HcaThreads : hca[h].at # "none"

(* Every variable has its type; the channel never exceeds its capacity.    *)
TypeOK ==
    /\ setting \in Settings
    /\ main \in {"spawn", "joinAcb", "joinHca", "remove", "ok", "err"}
    /\ handles \in 0..Spawned
    /\ acb \in [AcbThreads -> [at : {"none"} \cup Running \cup Ended,
                              input : {NoInput} \cup InputSet, left : Nat]]
    /\ hca \in [HcaThreads -> [at : {"none"} \cup Running \cup Ended,
                              track : {NoTrack} \cup Tracks]]
    /\ acb_queue \in Seq(InputSet)
    /\ channel \in Seq(Tracks) /\ Len(channel) <= QueueCapacity
    /\ first_error \in BOOLEAN
    /\ source_files \subseteq Files /\ disk \subseteq Files
    /\ made \in [Tracks -> Nat]

(* No container is removed from disk before every container of the bundle  *)
(* was extracted, every track of theirs was converted exactly once, and no *)
(* thread is left that could still read or write: a failure anywhere keeps *)
(* all of them for the next run.                                           *)
SourcesOutliveTracks ==
    (disk # Files \/ main = "ok") =>
        /\ acb_queue = <<>> /\ source_files = Files
        /\ Alive = {} /\ ~Panicked /\ ~first_error
        /\ setting.decode => \A t \in Tracks : made[t] = 1

(* Where the track is: with a container nobody took or that is being       *)
(* extracted, unsent, in the channel, in an HCA thread, or converted.      *)
Places(t) ==
    {<<"queued", i>> : i \in {j \in 1..Len(acb_queue) : acb_queue[j] = t[1]}}
    \cup {<<"extracting", w>> : w \in {v \in AcbThreads :
            /\ acb[v].input = t[1]
            /\ acb[v].at = "work" \/ t[2] > TracksOf[t[1]] - acb[v].left}}
    \cup {<<"channel", i>> : i \in {j \in 1..Len(channel) : channel[j] = t}}
    \cup {<<"converting", h>> : h \in {g \in HcaThreads : hca[g].track = t}}
    \cup {<<"made", k>> : k \in 1..made[t]}

(* Between the threads no track is lost or handled twice: it is in one     *)
(* place, and in none only once an error was recorded, a thread panicked,  *)
(* or the call returned early because a thread could not be started.       *)
TracksConserved ==
    /\ TypeOK
    /\ \A t \in Tracks :
        /\ \A p, q \in Places(t) : p = q
        /\ setting.decode /\ ~first_error /\ ~Panicked /\ main # "err" => Places(t) # {}

(* An ordinary failure, of a container, a track or a removal, is returned  *)
(* only when every thread has ended: nothing writes into the export        *)
(* directory behind the caller's back.                                     *)
QuietOnReturn ==
    Returned /\ ~Panicked /\ AllStarted => Alive = {}

(* Every HCA thread panicked while an extractor still has tracks to send.  *)
ChannelClogged ==
    /\ \A h \in HcaThreads : hca[h].at = "panicked"
    /\ ~Room /\ ~first_error
    /\ \E w \in AcbThreads : acb[w].at = "send"

(* The call returns, and every thread it started ends: nobody waits on an  *)
(* empty channel that nobody fills, nor on a full one that nobody reads,   *)
(* unless all those who read it have panicked.                             *)
Returns == <>[]((Returned /\ Alive = {}) \/ ChannelClogged)

=============================================================================
