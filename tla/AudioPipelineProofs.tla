------------------------- MODULE AudioPipelineProofs -------------------------
(***************************************************************************)
(* The three invariants of AudioPipeline, for any containers, tracks,      *)
(* thread counts and failures.                                             *)
(*                                                                         *)
(* IInv is inductive.  Besides the types it says where the caller is among *)
(* its threads (Joined), that a thread ends for a reason (EndsForAReason), *)
(* that no container gets lost on its way to source_files (Collected),     *)
(* that the stages a track passes through exclude each other and that it   *)
(* is in one of them as long as nothing fails (Apart, Somewhere), and that *)
(* removals start from a state in which all work is done (Settled).        *)
(***************************************************************************)
EXTENDS AudioPipeline, TLAPS

In(s, x) == \E i \in 1..Len(s) : s[i] = x
Once(s, x) == \A i, j \in 1..Len(s) : s[i] = x /\ s[j] = x => i = j

(* What the states of the threads say about their other fields. *)
Types ==
  /\ TypeOK
  /\ \A w \in AcbThreads :
       /\ acb[w].at \in {"work", "send"} => acb[w].input \in InputSet
       /\ acb[w].at = "send" => acb[w].left \in 1..TracksOf[acb[w].input] /\ setting.decode
       /\ acb[w].at # "send" => acb[w].left = 0
  /\ \A h \in HcaThreads : hca[h].at = "work" <=> hca[h].track # NoTrack

(* The threads the caller has started, and those it has joined. *)
Starting ==
  /\ main = "spawn" =>
       /\ \A h \in HcaThreads : hca[h].at = "none" <=> handles < h
       /\ \A w \in AcbThreads : acb[w].at = "none" <=> handles < HcaCount + w
  /\ main \notin {"spawn", "err"} => AllStarted

JoiningExtractors ==
  main = "joinAcb" =>
    handles < AcbCount /\ \A w \in AcbThreads : w <= handles => acb[w].at = "done"

JoiningConverters ==
  main = "joinHca" =>
    /\ setting.decode /\ handles < HcaCount
    /\ \A w \in AcbThreads : acb[w].at = "done"
    /\ \A h \in HcaThreads : h <= handles => hca[h].at = "done"

Failed == main = "err" /\ ~Panicked /\ AllStarted => Alive = {}

Joined == Starting /\ JoiningExtractors /\ JoiningConverters /\ Failed

(* An extractor ends when the queue is empty, a converter when the channel  *)
(* is and nobody fills it, or after an error.                               *)
EndsForAReason ==
  /\ \A w \in AcbThreads : acb[w].at = "done" => first_error \/ acb_queue = <<>>
  /\ \A h \in HcaThreads : hca[h].at = "done" => first_error \/ (channel = <<>> /\ ~SenderLeft)

(* A container on disk is queued, in work or collected for removal. *)
Collected ==
  \A f \in Files :
    \/ In(acb_queue, f) \/ f \in source_files \/ first_error \/ Panicked
    \/ \E w \in AcbThreads : acb[w].input = f /\ acb[w].at = "work"

(* The stages of a track. *)
Extracting(t, w) ==
  acb[w].input = t[1] /\ (acb[w].at = "work" \/ t[2] > TracksOf[t[1]] - acb[w].left)

Queued(t) == In(acb_queue, t[1])
Extracts(t) == \E w \in AcbThreads : Extracting(t, w)
Sent(t) == In(channel, t)
Converts(t) == \E h \in HcaThreads : hca[h].track = t
Made(t) == made[t] > 0

Apart(t) ==
  /\ Once(acb_queue, t[1]) /\ Once(channel, t) /\ made[t] <= 1
  /\ \A v, w \in AcbThreads : Extracting(t, v) /\ Extracting(t, w) => v = w
  /\ \A g, h \in HcaThreads : hca[g].track = t /\ hca[h].track = t => g = h
  /\ Queued(t) => ~Extracts(t) /\ ~Sent(t) /\ ~Converts(t) /\ ~Made(t)
  /\ Extracts(t) => ~Sent(t) /\ ~Converts(t) /\ ~Made(t)
  /\ Sent(t) => ~Converts(t) /\ ~Made(t)
  /\ Converts(t) => ~Made(t)

Lossless == setting.decode /\ ~first_error /\ ~Panicked /\ main # "err"

Somewhere(t) == Queued(t) \/ Extracts(t) \/ Sent(t) \/ Converts(t) \/ Made(t)

(* All work is done, and nothing can undo that. *)
Settled ==
  /\ \A w \in AcbThreads : acb[w].at = "done"
  /\ \A h \in HcaThreads : hca[h].at = "done"
  /\ acb_queue = <<>> /\ source_files = Files /\ ~first_error
  /\ setting.decode => \A t \in Tracks : made[t] = 1

Removing == main \in {"remove", "ok"} \/ disk # Files

IInv ==
  /\ Types /\ Joined /\ EndsForAReason /\ Collected
  /\ \A t \in Tracks : Apart(t) /\ (Lossless => Somewhere(t))
  /\ Removing => Settled
-----------------------------------------------------------------------------
(* What is in a queue after something was added at its end ... *)
LEMMA InAppend ==
  ASSUME NEW S, NEW s \in Seq(S), NEW y \in S
  PROVE  /\ Append(s, y) \in Seq(S)
         /\ \A x : In(Append(s, y), x) <=> In(s, x) \/ x = y
         /\ \A x : Once(s, x) /\ (x = y => ~In(s, x)) => Once(Append(s, y), x)
<1>1. /\ Append(s, y) \in Seq(S) /\ Len(Append(s, y)) = Len(s) + 1 /\ Len(s) \in Nat
      /\ Append(s, y)[Len(s) + 1] = y
      /\ \A i \in 1..Len(s) : Append(s, y)[i] = s[i]
  OBVIOUS
<1> DEFINE t == Append(s, y)
<1> HIDE DEF t
<1>2. \A x : In(t, x) <=> In(s, x) \/ x = y
  BY <1>1 DEF t, In
<1>3. ASSUME NEW x, Once(s, x), x = y => ~In(s, x) PROVE Once(t, x)
  <2> SUFFICES ASSUME NEW i \in 1..Len(t), NEW j \in 1..Len(t), t[i] = x, t[j] = x PROVE i = j
    BY Zenon DEF Once
  <2>1. \A k \in 1..Len(t) : k \in 1..Len(s) \/ k = Len(s) + 1
    BY <1>1 DEF t
  <2>2. CASE i \in 1..Len(s) /\ j \in 1..Len(s)
    BY <1>1, <1>3, <2>2, Zenon DEF Once, t
  <2>3. CASE i = Len(s) + 1 \/ j = Len(s) + 1
    BY <1>1, <1>3, <2>1, <2>3, Zenon DEF In, t
  <2> QED
    BY <2>1, <2>2, <2>3, Zenon
<1> QED
  BY <1>1, <1>2, <1>3, Zenon DEF t

(* ... and after its first one was taken. *)
LEMMA InTail ==
  ASSUME NEW S, NEW s \in Seq(S), s # <<>>
  PROVE  /\ Tail(s) \in Seq(S) /\ Head(s) \in S /\ In(s, Head(s))
         /\ \A x : In(s, x) <=> x = Head(s) \/ In(Tail(s), x)
         /\ \A x : Once(s, x) => Once(Tail(s), x) /\ (x = Head(s) => ~In(Tail(s), x))
<1>1. /\ Tail(s) \in Seq(S) /\ Len(s) \in Nat \ {0} /\ Len(Tail(s)) = Len(s) - 1
      /\ Head(s) = s[1] /\ Head(s) \in S
      /\ \A i \in 1..(Len(s) - 1) : Tail(s)[i] = s[i + 1]
  OBVIOUS
<1> DEFINE t == Tail(s)
<1> HIDE DEF t
<1>2. In(s, Head(s))
  BY <1>1 DEF In
<1>3. \A i \in 1..Len(t) : i + 1 \in 1..Len(s) /\ t[i] = s[i + 1] /\ i + 1 # 1 /\ i \in Nat
  BY <1>1 DEF t
<1>4. \A x : In(s, x) <=> x = Head(s) \/ In(t, x)
  <2>1. \A x : In(t, x) => In(s, x)
    BY <1>3, Zenon DEF In
  <2>2. \A i \in 1..Len(s) : i = 1 \/ (i - 1 \in 1..Len(t) /\ t[i - 1] = s[i])
    BY <1>1 DEF t
  <2> QED
    BY <1>1, <1>2, <2>1, <2>2, Zenon DEF In
<1>5. ASSUME NEW x, Once(s, x) PROVE Once(t, x) /\ (x = Head(s) => ~In(t, x))
  <2>1. ASSUME NEW i \in 1..Len(t), NEW j \in 1..Len(t), t[i] = x, t[j] = x PROVE i = j
    <3>1. i + 1 = j + 1
      BY <1>3, <1>5, <2>1, Zenon DEF Once
    <3> QED
      BY <1>3, <3>1
  <2>2. ASSUME x = Head(s), NEW i \in 1..Len(t), t[i] = x PROVE FALSE
    <3>1. i + 1 = 1
      BY <1>1, <1>3, <1>5, <2>2 DEF Once
    <3> QED
      BY <1>3, <3>1, Zenon
  <2> QED
    BY <2>1, <2>2, Zenon DEF Once, In
<1> QED
  BY <1>1, <1>2, <1>4, <1>5, Zenon DEF t

(* Nothing is in an empty queue. *)
LEMMA InEmpty == \A x : ~In(<<>>, x) /\ Once(<<>>, x)
BY DEF In, Once
-----------------------------------------------------------------------------
(* The setting decides how many threads there are, and never changes. *)
LEMMA Counts ==
  ASSUME TypeOK
  PROVE  /\ AcbCount \in Nat \ {0} /\ HcaCount \in Nat /\ QueueCapacity \in Nat
         /\ setting.decode \in BOOLEAN /\ (setting.decode => HcaCount \in Nat \ {0})
         /\ ~setting.decode => HcaThreads = {}
<1>1. Len(Inputs) \in Nat \ {0}
  BY PipelineAssumption
<1>2. setting.decode \in BOOLEAN /\ setting.hcaMax \in Nat \ {0}
  BY PipelineAssumption DEF TypeOK
<1> QED
  BY <1>1, <1>2, PipelineAssumption DEF AcbCount, HcaCount, HcaThreads, QueueCapacity

(* ... and nothing derived from it changes. *)
LEMMA Fixed ==
  ASSUME UNCHANGED setting
  PROVE  /\ HcaCount' = HcaCount /\ HcaThreads' = HcaThreads /\ Spawned' = Spawned
         /\ QueueCapacity' = QueueCapacity
BY Zenon DEF HcaCount, HcaThreads, Spawned, QueueCapacity

(* The threads whose record changes. *)
AcbTo(w, at, input, left) ==
  /\ acb' = [acb EXCEPT ![w] = acb'[w]]
  /\ acb'[w] \in [at : {at}, input : {input}, left : {left}]

HcaTo(h, at, track) ==
  /\ hca' = [hca EXCEPT ![h] = hca'[h]]
  /\ hca'[h] \in [at : {at}, track : {track}]

(* What a turn of an extractor does to its own record and to the rest. *)
LEMMA ExtractorTurn ==
  ASSUME TypeOK, NEW w \in AcbThreads, Extractor(w)
  PROVE  /\ UNCHANGED <<main, handles, hca, disk, made>>
         /\ \/ /\ acb[w].at = "check" /\ UNCHANGED <<acb_queue, channel, first_error, source_files>>
               /\ AcbTo(w, IF first_error THEN "done" ELSE "next", acb[w].input, acb[w].left)
            \/ /\ acb[w].at = "next" /\ acb_queue = <<>>
               /\ UNCHANGED <<acb_queue, channel, first_error, source_files>>
               /\ AcbTo(w, "done", acb[w].input, acb[w].left)
            \/ /\ acb[w].at = "next" /\ acb_queue # <<>> /\ acb_queue' = Tail(acb_queue)
               /\ UNCHANGED <<channel, first_error, source_files>>
               /\ AcbTo(w, "work", Head(acb_queue), acb[w].left)
            \/ /\ acb[w].at = "work" /\ UNCHANGED <<acb_queue, channel, first_error>>
               /\ source_files' = source_files \cup ({acb[w].input} \cap Files)
               /\ AcbTo(w, Sending(Kept(acb[w].input)), acb[w].input, Kept(acb[w].input))
            \/ /\ acb[w].at = "work" /\ first_error' = TRUE
               /\ UNCHANGED <<acb_queue, channel, source_files>>
               /\ AcbTo(w, "done", acb[w].input, acb[w].left)
            \/ /\ acb[w].at = "work" /\ UNCHANGED <<acb_queue, channel, first_error, source_files>>
               /\ AcbTo(w, "panicked", acb[w].input, acb[w].left)
            \/ /\ acb[w].at = "send" /\ GivesUp
               /\ UNCHANGED <<acb_queue, channel, first_error, source_files>>
               /\ AcbTo(w, "check", acb[w].input, 0)
            \/ /\ acb[w].at = "send" /\ ~GivesUp /\ Room /\ channel' = Append(channel, NextTrack(w))
               /\ UNCHANGED <<acb_queue, first_error, source_files>>
               /\ AcbTo(w, Sending(acb[w].left - 1), acb[w].input, acb[w].left - 1)
<1>1. acb \in [AcbThreads -> [at : {"none"} \cup Running \cup Ended,
                              input : {NoInput} \cup InputSet, left : Nat]]
  BY Zenon DEF TypeOK
<1>2. CASE ExtractorChecks(w)
  BY <1>1, <1>2 DEF ExtractorChecks, AcbTo
<1>3. CASE ExtractorTakes(w)
  BY <1>1, <1>3 DEF ExtractorTakes, AcbTo
<1>4. CASE Extracted(w)
  BY <1>1, <1>4, Zenon DEF Extracted, AcbTo
<1>5. CASE ExtractFails(w)
  BY <1>1, <1>5, Zenon DEF ExtractFails, AcbTo
<1>6. CASE ExtractPanics(w)
  BY <1>1, <1>6 DEF ExtractPanics, AcbTo
<1>7. CASE SendTrack(w)
  BY <1>1, <1>7 DEF SendTrack, AcbTo
<1> QED
  BY <1>2, <1>3, <1>4, <1>5, <1>6, <1>7, Zenon DEF Extractor

(* The same for a converter. *)
LEMMA ConverterTurn ==
  ASSUME TypeOK, NEW h \in HcaThreads, Converter(h)
  PROVE  /\ UNCHANGED <<main, handles, acb, acb_queue, source_files, disk>>
         /\ \/ /\ hca[h].at = "check" /\ UNCHANGED <<channel, first_error, made>>
               /\ HcaTo(h, IF first_error THEN "done" ELSE "next", hca[h].track)
            \/ /\ hca[h].at = "next" /\ channel # <<>> /\ channel' = Tail(channel)
               /\ UNCHANGED <<first_error, made>>
               /\ HcaTo(h, "work", Head(channel))
            \/ /\ hca[h].at = "next" /\ channel = <<>> /\ ~SenderLeft
               /\ UNCHANGED <<channel, first_error, made>>
               /\ HcaTo(h, "done", hca[h].track)
            \/ /\ hca[h].at = "work" /\ made' = [made EXCEPT ![hca[h].track] = @ + 1]
               /\ UNCHANGED <<channel, first_error>>
               /\ HcaTo(h, "check", NoTrack)
            \/ /\ hca[h].at = "work" /\ first_error' = TRUE /\ UNCHANGED <<channel, made>>
               /\ HcaTo(h, "done", NoTrack)
            \/ /\ hca[h].at = "work" /\ UNCHANGED <<channel, first_error, made>>
               /\ HcaTo(h, "panicked", NoTrack)
<1>1. hca \in [HcaThreads -> [at : {"none"} \cup Running \cup Ended,
                              track : {NoTrack} \cup Tracks]]
  BY Zenon DEF TypeOK
<1>2. CASE ConverterChecks(h)
  BY <1>1, <1>2 DEF ConverterChecks, HcaTo
<1>3. CASE ConverterReceives(h)
  BY <1>1, <1>3 DEF ConverterReceives, HcaTo
<1>4. CASE Converted(h)
  BY <1>1, <1>4, Zenon DEF Converted, HcaTo
<1>5. CASE ConvertFails(h)
  BY <1>1, <1>5, Zenon DEF ConvertFails, HcaTo
<1>6. CASE ConvertPanics(h)
  BY <1>1, <1>6, Zenon DEF ConvertPanics, HcaTo
<1> QED
  BY <1>2, <1>3, <1>4, <1>5, <1>6, Zenon DEF Converter

(* A track and its container. *)
LEMMA TrackFacts ==
  /\ \A t \in Tracks : /\ t[1] \in InputSet /\ t[2] \in 1..TracksOf[t[1]] /\ t # NoTrack
                        /\ t = <<t[1], t[2]>>
  /\ \A i \in InputSet : TracksOf[i] \in Nat /\ \A k \in 1..TracksOf[i] : <<i, k>> \in Tracks
<1>1. \A i \in InputSet : TracksOf[i] \in Nat
  BY PipelineAssumption
<1>2. ASSUME NEW t \in Tracks
      PROVE  /\ t[1] \in InputSet /\ t[2] \in 1..TracksOf[t[1]] /\ t # NoTrack
             /\ t = <<t[1], t[2]>>
  <2>1. PICK i \in InputSet : t \in {i} \X (1..TracksOf[i])
    BY Zenon DEF Tracks
  <2> QED
    BY <2>1 DEF NoTrack
<1>3. ASSUME NEW i \in InputSet, NEW k \in 1..TracksOf[i] PROVE <<i, k>> \in Tracks
  <2>1. <<i, k>> \in {i} \X (1..TracksOf[i])
    OBVIOUS
  <2> QED
    BY <2>1, Zenon DEF Tracks
<1> QED
  BY <1>1, <1>2, <1>3, Zenon

(* The fields of a thread's record say what Types asks of them. *)
AcbTyped(at, input, left) ==
  /\ at \in {"none"} \cup Running \cup Ended /\ input \in {NoInput} \cup InputSet /\ left \in Nat
  /\ at \in {"work", "send"} => input \in InputSet
  /\ at = "send" => left \in 1..TracksOf[input] /\ setting.decode
  /\ at # "send" => left = 0

HcaTyped(at, track) ==
  /\ at \in {"none"} \cup Running \cup Ended /\ track \in {NoTrack} \cup Tracks
  /\ at = "work" <=> track # NoTrack

AcbRecords == [at : {"none"} \cup Running \cup Ended, input : {NoInput} \cup InputSet, left : Nat]
HcaRecords == [at : {"none"} \cup Running \cup Ended, track : {NoTrack} \cup Tracks]

ThreadsTyped ==
  /\ acb \in [AcbThreads -> AcbRecords] /\ hca \in [HcaThreads -> HcaRecords]
  /\ \A w \in AcbThreads : AcbTyped(acb[w].at, acb[w].input, acb[w].left)
  /\ \A h \in HcaThreads : HcaTyped(hca[h].at, hca[h].track)

(* Types is TypeOK and well-formed threads. *)
LEMMA ThreadTypes ==
  Types <=> TypeOK /\ ThreadsTyped
<1>1. TypeOK => acb \in [AcbThreads -> AcbRecords] /\ hca \in [HcaThreads -> HcaRecords]
  BY Zenon DEF TypeOK, AcbRecords, HcaRecords
<1>2. ASSUME acb \in [AcbThreads -> AcbRecords], NEW w \in AcbThreads
      PROVE  /\ acb[w].at \in {"none"} \cup Running \cup Ended
             /\ acb[w].input \in {NoInput} \cup InputSet /\ acb[w].left \in Nat
  BY <1>2, Zenon DEF AcbRecords
<1>3. ASSUME hca \in [HcaThreads -> HcaRecords], NEW h \in HcaThreads
      PROVE  /\ hca[h].at \in {"none"} \cup Running \cup Ended
             /\ hca[h].track \in {NoTrack} \cup Tracks
  BY <1>3, Zenon DEF HcaRecords
<1> QED
  BY <1>1, <1>2, <1>3, Zenon DEF Types, ThreadsTyped, AcbTyped, HcaTyped

(* The records after a turn. *)
LEMMA AcbFields ==
  ASSUME ThreadsTyped, NEW w \in AcbThreads, NEW at, NEW input, NEW left,
         AcbTo(w, at, input, left)
  PROVE  /\ acb'[w].at = at /\ acb'[w].input = input /\ acb'[w].left = left
         /\ \A v \in AcbThreads : v # w => acb'[v] = acb[v]
BY Zenon DEF AcbTo, ThreadsTyped

(* The same for a converter. *)
LEMMA HcaFields ==
  ASSUME ThreadsTyped, NEW h \in HcaThreads, NEW at, NEW track, HcaTo(h, at, track)
  PROVE  /\ hca'[h].at = at /\ hca'[h].track = track
         /\ \A g \in HcaThreads : g # h => hca'[g] = hca[g]
BY Zenon DEF HcaTo, ThreadsTyped

(* A well-formed record keeps all of them well-formed. *)
LEMMA AcbAfter ==
  ASSUME ThreadsTyped, NEW w \in AcbThreads, NEW at, NEW input, NEW left,
         AcbTo(w, at, input, left)
  PROVE  UNCHANGED setting /\ UNCHANGED hca /\ AcbTyped(at, input, left) => ThreadsTyped'
<1>1. /\ acb'[w].at = at /\ acb'[w].input = input /\ acb'[w].left = left
      /\ \A v \in AcbThreads : v # w => acb'[v] = acb[v]
  BY AcbFields, Zenon
<1>2. ASSUME UNCHANGED setting, UNCHANGED hca, AcbTyped(at, input, left) PROVE ThreadsTyped'
  <2>1. acb'[w] \in AcbRecords
    BY <1>2, Zenon DEF AcbTo, AcbRecords, AcbTyped
  <2>2. acb' \in [AcbThreads -> AcbRecords]
    BY <2>1, Zenon DEF AcbTo, ThreadsTyped
  <2>3. ASSUME NEW v \in AcbThreads PROVE AcbTyped(acb[v].at, acb[v].input, acb[v].left)'
    <3>1. CASE v = w
      BY <1>1, <1>2, <3>1, Zenon DEF AcbTyped
    <3>2. CASE v # w
      BY <1>1, <1>2, <3>2, Zenon DEF AcbTyped, ThreadsTyped
    <3> QED
      BY <3>1, <3>2, Zenon
  <2>4. HcaThreads' = HcaThreads
    BY <1>2, Fixed, Zenon
  <2> QED
    BY <1>2, <2>2, <2>3, <2>4, Zenon DEF ThreadsTyped, HcaTyped
<1> QED
  BY <1>1, <1>2, Zenon

(* The same for a converter. *)
LEMMA HcaAfter ==
  ASSUME ThreadsTyped, NEW h \in HcaThreads, NEW at, NEW track, HcaTo(h, at, track)
  PROVE  UNCHANGED setting /\ UNCHANGED acb /\ HcaTyped(at, track) => ThreadsTyped'
<1>1. /\ hca'[h].at = at /\ hca'[h].track = track
      /\ \A g \in HcaThreads : g # h => hca'[g] = hca[g]
  BY HcaFields, Zenon
<1>2. ASSUME UNCHANGED setting, UNCHANGED acb, HcaTyped(at, track) PROVE ThreadsTyped'
  <2>1. hca'[h] \in HcaRecords
    BY <1>2, Zenon DEF HcaTo, HcaRecords, HcaTyped
  <2>2. hca' \in [HcaThreads -> HcaRecords]
    BY <2>1, Zenon DEF HcaTo, ThreadsTyped
  <2>3. ASSUME NEW g \in HcaThreads PROVE HcaTyped(hca[g].at, hca[g].track)'
    <3>1. CASE g = h
      BY <1>1, <1>2, <3>1, Zenon DEF HcaTyped
    <3>2. CASE g # h
      BY <1>1, <1>2, <3>2, Zenon DEF HcaTyped, ThreadsTyped
    <3> QED
      BY <3>1, <3>2, Zenon
  <2>4. HcaThreads' = HcaThreads
    BY <1>2, Fixed, Zenon
  <2> QED
    BY <1>2, <2>2, <2>3, <2>4, Zenon DEF ThreadsTyped, AcbTyped
<1> QED
  BY <1>1, <1>2, Zenon

(* The types of everything but the threads. *)
DataTyped ==
  /\ setting \in Settings /\ main \in {"spawn", "joinAcb", "joinHca", "remove", "ok", "err"}
  /\ handles \in 0..Spawned
  /\ acb_queue \in Seq(InputSet) /\ channel \in Seq(Tracks) /\ Len(channel) <= QueueCapacity
  /\ first_error \in BOOLEAN /\ source_files \subseteq Files /\ disk \subseteq Files
  /\ made \in [Tracks -> Nat]

(* The types in two parts, which most turns change one of. *)
LEMMA TypesParts == Types <=> DataTyped /\ ThreadsTyped
BY ThreadTypes, Zenon DEF TypeOK, DataTyped, ThreadsTyped, AcbRecords, HcaRecords

(* A turn of an extractor keeps the types, the channel's bound included. *)
LEMMA ExtractorTypes ==
  ASSUME Types, NEW w \in AcbThreads, Extractor(w), UNCHANGED setting
  PROVE  Types'
<1>1. /\ DataTyped /\ ThreadsTyped /\ TypeOK /\ HcaThreads' = HcaThreads /\ Spawned' = Spawned
      /\ QueueCapacity' = QueueCapacity
  BY TypesParts, Fixed, Zenon DEF Types
<1>2. AcbTyped(acb[w].at, acb[w].input, acb[w].left)
  BY <1>1, Zenon DEF ThreadsTyped
<1>3. UNCHANGED <<main, handles, hca, disk, made, setting>>
  BY <1>1, ExtractorTurn, Zenon
<1>4. /\ acb_queue # <<>> => Head(acb_queue) \in InputSet /\ Tail(acb_queue) \in Seq(InputSet)
      /\ \A t \in Tracks : /\ Append(channel, t) \in Seq(Tracks)
                            /\ Len(Append(channel, t)) = Len(channel) + 1
      /\ Len(channel) \in Nat /\ QueueCapacity \in Nat
  BY <1>1, InTail, InAppend, Counts DEF DataTyped
<1>5. acb[w].at = "work" => AcbTyped(Sending(Kept(acb[w].input)), acb[w].input, Kept(acb[w].input))
  BY <1>2, TrackFacts DEF AcbTyped, Sending, Kept, Running, Ended
<1>6. ASSUME acb[w].at = "send"
      PROVE  /\ AcbTyped(Sending(acb[w].left - 1), acb[w].input, acb[w].left - 1)
             /\ NextTrack(w) \in Tracks
  <2>1. /\ acb[w].input \in InputSet /\ acb[w].left \in 1..TracksOf[acb[w].input] /\ setting.decode
        /\ TracksOf[acb[w].input] \in Nat
    BY <1>2, <1>6, TrackFacts, Zenon DEF AcbTyped
  <2>2. /\ AcbTyped(Sending(acb[w].left - 1), acb[w].input, acb[w].left - 1)
        /\ TracksOf[acb[w].input] - acb[w].left + 1 \in 1..TracksOf[acb[w].input]
    BY <2>1 DEF AcbTyped, Sending, Running, Ended
  <2> QED
    BY <2>1, <2>2, TrackFacts, Zenon DEF NextTrack
<1>7. \E at, input, left : AcbTo(w, at, input, left) /\ AcbTyped(at, input, left)
  <2>1. acb[w].at \in {"check", "next", "work"} =>
          /\ \A at \in {"done", "panicked"} : AcbTyped(at, acb[w].input, acb[w].left)
          /\ AcbTyped(IF first_error THEN "done" ELSE "next", acb[w].input, acb[w].left)
          /\ acb_queue # <<>> => AcbTyped("work", Head(acb_queue), acb[w].left)
    BY <1>2, <1>4, Zenon DEF AcbTyped, Running, Ended
  <2>2. AcbTyped("check", acb[w].input, 0)
    BY <1>2 DEF AcbTyped, Running
  <2> QED
    BY <1>1, <1>5, <1>6, <2>1, <2>2, ExtractorTurn, Zenon
<1>8. /\ acb_queue' \in Seq(InputSet) /\ channel' \in Seq(Tracks)
      /\ Len(channel') <= QueueCapacity /\ first_error' \in BOOLEAN /\ source_files' \subseteq Files
  <2>1. \/ channel' = channel
        \/ Room /\ channel' = Append(channel, NextTrack(w)) /\ acb[w].at = "send"
    BY <1>1, ExtractorTurn, Zenon
  <2>2. channel' \in Seq(Tracks) /\ Len(channel') <= QueueCapacity
    <3>1. CASE channel' = channel
      BY <1>1, <3>1, Zenon DEF DataTyped
    <3>2. CASE Room /\ channel' = Append(channel, NextTrack(w)) /\ acb[w].at = "send"
      <4>1. /\ Len(channel) < QueueCapacity /\ channel' \in Seq(Tracks)
            /\ Len(channel') = Len(channel) + 1
        BY <1>4, <1>6, <3>2, Zenon DEF Room
      <4> QED
        BY <1>4, <4>1
    <3> QED
      BY <2>1, <3>1, <3>2, Zenon
  <2> QED
    BY <1>1, <1>4, <2>2, ExtractorTurn, Zenon DEF DataTyped
<1>9. ThreadsTyped'
  BY <1>1, <1>3, <1>7, AcbAfter, Zenon
<1>10. DataTyped'
  BY <1>1, <1>3, <1>8, Zenon DEF DataTyped
<1> QED
  BY <1>9, <1>10, TypesParts, PTL

(* So does a turn of a converter ... *)
LEMMA ConverterTypes ==
  ASSUME Types, NEW h \in HcaThreads, Converter(h), UNCHANGED setting
  PROVE  Types'
<1>1. /\ DataTyped /\ ThreadsTyped /\ TypeOK /\ HcaThreads' = HcaThreads /\ Spawned' = Spawned
      /\ QueueCapacity' = QueueCapacity
  BY TypesParts, Fixed, Zenon DEF Types
<1>2. HcaTyped(hca[h].at, hca[h].track)
  BY <1>1, Zenon DEF ThreadsTyped
<1>3. UNCHANGED <<main, handles, acb, acb_queue, source_files, disk, setting>>
  BY <1>1, ConverterTurn, Zenon
<1>4. channel # <<>> => /\ Head(channel) \in Tracks /\ Tail(channel) \in Seq(Tracks)
                        /\ Len(Tail(channel)) <= QueueCapacity
  <2>1. channel \in Seq(Tracks) /\ Len(channel) <= QueueCapacity /\ QueueCapacity \in Nat
    BY <1>1, Counts, Zenon DEF DataTyped
  <2> QED
    BY <2>1
<1>5. \E at, track : HcaTo(h, at, track) /\ HcaTyped(at, track)
  <2>1. hca[h].at \in {"check", "next"} =>
          /\ HcaTyped("done", hca[h].track)
          /\ HcaTyped(IF first_error THEN "done" ELSE "next", hca[h].track)
    BY <1>2, Zenon DEF HcaTyped, Running, Ended
  <2>2. channel # <<>> => HcaTyped("work", Head(channel))
    BY <1>4, TrackFacts, Zenon DEF HcaTyped, Running
  <2>3. \A at \in {"check", "done", "panicked"} : HcaTyped(at, NoTrack)
    BY Zenon DEF HcaTyped, Running, Ended
  <2> QED
    BY <1>1, <2>1, <2>2, <2>3, ConverterTurn, Zenon
<1>6. first_error' \in BOOLEAN /\ channel' \in Seq(Tracks) /\ Len(channel') <= QueueCapacity
  BY <1>1, <1>4, ConverterTurn, Zenon DEF DataTyped
<1>7. made' \in [Tracks -> Nat]
  <2>1. made' = made \/ (hca[h].track \in Tracks /\ made' = [made EXCEPT ![hca[h].track] = @ + 1])
    BY <1>1, <1>2, ConverterTurn, Zenon DEF HcaTyped
  <2> QED
    BY <1>1, <2>1 DEF DataTyped
<1>8. ThreadsTyped'
  BY <1>1, <1>3, <1>5, HcaAfter, Zenon
<1>9. DataTyped'
  BY <1>1, <1>3, <1>6, <1>7, Zenon DEF DataTyped
<1> QED
  BY <1>8, <1>9, TypesParts, PTL

(* Spawn starts the next thread, which was not started before. *)
LEMMA SpawnTurn ==
  ASSUME Types, Joined, Spawn
  PROVE  /\ UNCHANGED <<main, acb_queue, channel, first_error, source_files, disk, made>>
         /\ main = "spawn" /\ handles' = handles + 1 /\ handles < Spawned
         /\ \/ /\ UNCHANGED acb
               /\ \E h \in HcaThreads : /\ h = handles + 1 /\ hca[h].at = "none"
                                        /\ HcaTo(h, "check", hca[h].track)
            \/ /\ UNCHANGED hca
               /\ \E w \in AcbThreads : /\ HcaCount + w = handles + 1 /\ acb[w].at = "none"
                                        /\ AcbTo(w, "check", acb[w].input, acb[w].left)
<1>1. /\ acb \in [AcbThreads -> AcbRecords] /\ hca \in [HcaThreads -> HcaRecords]
      /\ handles \in Nat /\ AcbCount \in Nat /\ HcaCount \in Nat
  <2>1. handles \in 0..Spawned /\ AcbCount \in Nat /\ HcaCount \in Nat
    BY Counts, Zenon DEF Types, TypeOK
  <2> QED
    BY <2>1, TypesParts DEF ThreadsTyped, Spawned
<1>2. CASE handles < HcaCount
  <2>1. handles + 1 \in HcaThreads /\ handles < handles + 1
    BY <1>1, <1>2 DEF HcaThreads
  <2>2. hca[handles + 1].at = "none"
    BY <2>1, Zenon DEF Joined, Starting, Spawn
  <2>3. HcaTo(handles + 1, "check", hca[handles + 1].track)
    BY <1>1, <1>2, <2>1 DEF Spawn, HcaTo, HcaRecords
  <2> QED
    BY <1>2, <2>1, <2>2, <2>3, Zenon DEF Spawn
<1>3. CASE ~(handles < HcaCount)
  <2> DEFINE w == handles + 1 - HcaCount
  <2>1. w \in AcbThreads /\ HcaCount + w = handles + 1 /\ handles < HcaCount + w
    BY <1>1, <1>3 DEF AcbThreads, Spawn, Spawned
  <2>2. acb[w].at = "none"
    BY <2>1, Zenon DEF Joined, Starting, Spawn
  <2>3. AcbTo(w, "check", acb[w].input, acb[w].left)
    BY <1>1, <1>3, <2>1 DEF Spawn, AcbTo, AcbRecords
  <2> QED
    BY <1>3, <2>1, <2>2, <2>3, Zenon DEF Spawn
<1> QED
  BY <1>2, <1>3, Zenon

(* ... and what the caller does. *)
LEMMA CallerTypes ==
  ASSUME Types, Joined, Caller, UNCHANGED setting
  PROVE  Types'
<1>1. /\ DataTyped /\ ThreadsTyped /\ TypeOK /\ HcaThreads' = HcaThreads /\ Spawned' = Spawned
      /\ QueueCapacity' = QueueCapacity
  BY TypesParts, Fixed, Zenon DEF Types
<1>2. AcbCount \in Nat \ {0} /\ HcaCount \in Nat
  BY <1>1, Counts, Zenon
<1>3. CASE Spawn
  <2>1. ThreadsTyped'
    <3>1. CASE \E h \in HcaThreads : /\ h = handles + 1 /\ hca[h].at = "none"
                                     /\ HcaTo(h, "check", hca[h].track) /\ UNCHANGED acb
      <4>1. PICK h \in HcaThreads : /\ hca[h].at = "none" /\ UNCHANGED acb
                                    /\ HcaTo(h, "check", hca[h].track)
        BY <3>1, Zenon
      <4>2. HcaTyped("check", hca[h].track)
        BY <1>1, <4>1, Zenon DEF ThreadsTyped, HcaTyped, Running
      <4> QED
        BY <1>1, <4>1, <4>2, HcaAfter, Zenon
    <3>2. CASE \E w \in AcbThreads : /\ acb[w].at = "none" /\ UNCHANGED hca
                                     /\ AcbTo(w, "check", acb[w].input, acb[w].left)
      <4>1. PICK w \in AcbThreads : /\ acb[w].at = "none" /\ UNCHANGED hca
                                    /\ AcbTo(w, "check", acb[w].input, acb[w].left)
        BY <3>2, Zenon
      <4>2. AcbTyped("check", acb[w].input, acb[w].left)
        BY <1>1, <4>1, Zenon DEF ThreadsTyped, AcbTyped, Running
      <4> QED
        BY <1>1, <4>1, <4>2, AcbAfter, Zenon
    <3> QED
      BY <1>3, <3>1, <3>2, SpawnTurn, Zenon
  <2>2. handles' \in 0..Spawned
    <3>1. handles \in 0..Spawned /\ Spawned \in Nat /\ handles < Spawned /\ handles' = handles + 1
      BY <1>1, <1>2, <1>3 DEF DataTyped, Spawned, Spawn
    <3> QED
      BY <3>1
  <2>3. DataTyped'
    BY <1>1, <1>3, <2>2, Zenon DEF DataTyped, Spawn
  <2> QED
    BY <2>1, <2>3, TypesParts, PTL
<1>4. CASE SpawnFails \/ AllSpawned \/ JoinExtractor \/ JoinConverter \/ RemoveSource
  <2>1. UNCHANGED <<acb, hca, acb_queue, channel, first_error, source_files, made, setting>>
    BY <1>4, Zenon DEF SpawnFails, AllSpawned, JoinExtractor, JoinConverter, RemoveSource
  <2>2. ThreadsTyped'
    BY <1>1, <2>1, Zenon DEF ThreadsTyped, AcbTyped, HcaTyped
  <2>3. disk' \subseteq Files
    BY <1>1, <1>4, Zenon DEF DataTyped, SpawnFails, AllSpawned, JoinExtractor, JoinConverter,
       RemoveSource
  <2>4. main' \in {"spawn", "joinAcb", "joinHca", "remove", "ok", "err"}
    BY <1>1, <1>4, Zenon DEF DataTyped, SpawnFails, AllSpawned, JoinExtractor, JoinConverter,
       RemoveSource,
                             JoinsNext, AfterJoins
  <2>5. handles' \in 0..Spawned
    <3>1. handles' \in {handles, 0} \/ (handles' = handles + 1 /\ handles < AcbCount)
                                    \/ (handles' = handles + 1 /\ handles < HcaCount)
      BY <1>4, Zenon DEF Joined, JoiningExtractors, JoiningConverters, SpawnFails, AllSpawned,
         JoinExtractor, JoinConverter, RemoveSource, JoinsNext
    <3>2. handles \in 0..Spawned
      BY <1>1, Zenon DEF DataTyped
    <3> QED
      BY <1>2, <3>1, <3>2 DEF Spawned
  <2>6. DataTyped'
    BY <1>1, <2>1, <2>3, <2>4, <2>5, Zenon DEF DataTyped
  <2> QED
    BY <2>2, <2>6, TypesParts, PTL
<1> QED
  BY <1>3, <1>4, Zenon DEF Caller
-----------------------------------------------------------------------------
(* A thread that takes a turn is running, and stays started. *)
LEMMA ExtractorMoves ==
  ASSUME Types, NEW w \in AcbThreads, Extractor(w), UNCHANGED setting
  PROVE  /\ acb[w].at \in Running /\ acb'[w].at \in Running \cup Ended
         /\ \A v \in AcbThreads : v # w => acb'[v] = acb[v]
         /\ UNCHANGED <<main, handles, hca, disk, made>> /\ HcaThreads' = HcaThreads
         /\ HcaCount' = HcaCount
         /\ Panicked => Panicked'
         /\ first_error => first_error'
         /\ acb_queue = <<>> => acb_queue' = <<>>
         /\ acb'[w].at = "done" => first_error' \/ acb_queue' = <<>>
<1>1. ThreadsTyped /\ TypeOK /\ HcaThreads' = HcaThreads /\ HcaCount' = HcaCount
  BY TypesParts, Fixed, Zenon DEF Types
<1>2. \A n : Sending(n) \in Running /\ Sending(n) # "done"
  BY Zenon DEF Sending, Running
<1>3. /\ acb[w].at \in Running
      /\ \E at, input, left :
           /\ AcbTo(w, at, input, left) /\ at \in Running \cup Ended
           /\ at = "done" => first_error' \/ acb_queue' = <<>>
  <2>1. acb[w].at \in Running
    BY <1>1, ExtractorTurn, Zenon DEF Running
  <2> DEFINE Good(at) == /\ at \in Running \cup Ended
                         /\ at = "done" => first_error' \/ acb_queue' = <<>>
  <2>2. /\ Good("work") /\ Good("check") /\ Good("panicked") /\ (\A n : Good(Sending(n)))
        /\ first_error' = TRUE => Good("done")
        /\ acb_queue' = <<>> => Good("done")
    BY <1>2, Zenon DEF Running, Ended
  <2>3. ASSUME first_error' = first_error PROVE Good(IF first_error THEN "done" ELSE "next")
    <3>1. CASE first_error
      BY <2>3, <3>1, Zenon DEF Running, Ended
    <3>2. CASE ~first_error
      BY <3>2, Zenon DEF Running, Ended
    <3> QED
      BY <3>1, <3>2, Zenon
  <2> HIDE DEF Good
  <2>4. \E at, input, left : AcbTo(w, at, input, left) /\ Good(at)
    BY <1>1, <2>2, <2>3, ExtractorTurn, Zenon
  <2> QED
    BY <2>1, <2>4, Zenon DEF Good
<1>4. /\ acb'[w].at \in Running \cup Ended
      /\ acb'[w].at = "done" => first_error' \/ acb_queue' = <<>>
      /\ \A v \in AcbThreads : v # w => acb'[v] = acb[v]
  BY <1>1, <1>3, AcbFields, Zenon
<1>5. /\ UNCHANGED <<main, handles, hca, disk, made>>
      /\ first_error => first_error'
      /\ acb_queue = <<>> => acb_queue' = <<>>
  BY <1>1, ExtractorTurn, Zenon
<1>6. acb[w].at # "panicked"
  BY <1>3, Zenon DEF Running
<1>7. Panicked => Panicked'
  BY <1>1, <1>4, <1>5, <1>6, Zenon DEF Panicked
<1> QED
  BY <1>1, <1>3, <1>4, <1>5, <1>7, Zenon

(* The same for a converter. *)
LEMMA ConverterMoves ==
  ASSUME Types, NEW h \in HcaThreads, Converter(h), UNCHANGED setting
  PROVE  /\ hca[h].at \in Running /\ hca'[h].at \in Running \cup Ended
         /\ \A g \in HcaThreads : g # h => hca'[g] = hca[g]
         /\ UNCHANGED <<main, handles, acb, acb_queue, source_files, disk>>
         /\ HcaThreads' = HcaThreads /\ HcaCount' = HcaCount
         /\ Panicked => Panicked'
         /\ first_error => first_error'
         /\ channel = <<>> => channel' = <<>>
         /\ hca'[h].at = "done" => first_error' \/ (channel' = <<>> /\ ~SenderLeft)
<1>1. ThreadsTyped /\ TypeOK /\ HcaThreads' = HcaThreads /\ HcaCount' = HcaCount
  BY TypesParts, Fixed, Zenon DEF Types
<1>2. /\ hca[h].at \in Running
      /\ \E at, track :
           /\ HcaTo(h, at, track) /\ at \in Running \cup Ended
           /\ at = "done" => first_error' \/ (channel' = <<>> /\ ~SenderLeft)
  <2>1. hca[h].at \in Running
    BY <1>1, ConverterTurn, Zenon DEF Running
  <2> DEFINE Good(at) == /\ at \in Running \cup Ended
                         /\ at = "done" => first_error' \/ (channel' = <<>> /\ ~SenderLeft)
  <2>2. /\ Good("work") /\ Good("check") /\ Good("panicked")
        /\ first_error' = TRUE => Good("done")
        /\ channel' = <<>> /\ ~SenderLeft => Good("done")
    BY Zenon DEF Running, Ended
  <2>3. ASSUME first_error' = first_error PROVE Good(IF first_error THEN "done" ELSE "next")
    <3>1. CASE first_error
      BY <2>3, <3>1, Zenon DEF Running, Ended
    <3>2. CASE ~first_error
      BY <3>2, Zenon DEF Running, Ended
    <3> QED
      BY <3>1, <3>2, Zenon
  <2> HIDE DEF Good
  <2>4. \E at, track : HcaTo(h, at, track) /\ Good(at)
    BY <1>1, <2>2, <2>3, ConverterTurn, Zenon
  <2> QED
    BY <2>1, <2>4, Zenon DEF Good
<1>3. /\ hca'[h].at \in Running \cup Ended
      /\ hca'[h].at = "done" => first_error' \/ (channel' = <<>> /\ ~SenderLeft)
      /\ \A g \in HcaThreads : g # h => hca'[g] = hca[g]
  BY <1>1, <1>2, HcaFields, Zenon
<1>4. /\ UNCHANGED <<main, handles, acb, acb_queue, source_files, disk>>
      /\ first_error => first_error'
      /\ channel = <<>> => channel' = <<>>
  BY <1>1, ConverterTurn, Zenon
<1>5. hca[h].at # "panicked"
  BY <1>2, Zenon DEF Running
<1>6. Panicked => Panicked'
  BY <1>1, <1>3, <1>4, <1>5, Zenon DEF Panicked
<1> QED
  BY <1>1, <1>2, <1>3, <1>4, <1>6, Zenon

(* Who is started and who is joined: a turn of a thread changes neither. *)
LEMMA ThreadsJoined ==
  ASSUME Types, Joined, UNCHANGED setting,
         \/ \E w \in AcbThreads : Extractor(w)
         \/ \E h \in HcaThreads : Converter(h)
  PROVE  Joined'
<1>1. Running \cap ({"none"} \cup Ended) = {} /\ "none" \notin Ended
  BY Zenon DEF Running, Ended
<1>2. ASSUME NEW w \in AcbThreads, Extractor(w) PROVE Joined'
  <2>1. /\ acb[w].at \in Running /\ acb[w].at # "none" /\ acb[w].at # "done"
        /\ acb'[w].at # "none"
    BY <1>1, <1>2, ExtractorMoves, Zenon DEF Ended
  <2>2. /\ \A v \in AcbThreads : v # w => acb'[v] = acb[v]
        /\ UNCHANGED <<main, handles, hca>> /\ HcaThreads' = HcaThreads
        /\ HcaCount' = HcaCount /\ (Panicked => Panicked')
    BY <1>2, ExtractorMoves, Zenon
  <2>3. AllStarted' <=> AllStarted
    BY <2>1, <2>2, Zenon DEF AllStarted
  <2>4. Alive # {}
    BY <2>1, Zenon DEF Alive
  <2>5. Starting'
    BY <2>1, <2>2, <2>3, Zenon DEF Joined, Starting
  <2>6. JoiningExtractors' /\ JoiningConverters'
    BY <2>1, <2>2, Zenon DEF Joined, JoiningExtractors, JoiningConverters
  <2>7. Failed'
    BY <2>2, <2>3, <2>4, Zenon DEF Joined, Failed
  <2> QED
    BY <2>5, <2>6, <2>7, Zenon DEF Joined
<1>3. ASSUME NEW h \in HcaThreads, Converter(h) PROVE Joined'
  <2>1. /\ hca[h].at \in Running /\ hca[h].at # "none" /\ hca[h].at # "done"
        /\ hca'[h].at # "none"
    BY <1>1, <1>3, ConverterMoves, Zenon DEF Ended
  <2>2. /\ \A g \in HcaThreads : g # h => hca'[g] = hca[g]
        /\ UNCHANGED <<main, handles, acb>> /\ HcaThreads' = HcaThreads
        /\ HcaCount' = HcaCount /\ (Panicked => Panicked')
    BY <1>3, ConverterMoves, Zenon
  <2>3. AllStarted' <=> AllStarted
    BY <2>1, <2>2, Zenon DEF AllStarted
  <2>4. Alive # {}
    BY <2>1, Zenon DEF Alive
  <2>5. Starting'
    BY <2>1, <2>2, <2>3, Zenon DEF Joined, Starting
  <2>6. JoiningExtractors' /\ JoiningConverters'
    BY <2>1, <2>2, Zenon DEF Joined, JoiningExtractors, JoiningConverters
  <2>7. Failed'
    BY <2>2, <2>3, <2>4, Zenon DEF Joined, Failed
  <2> QED
    BY <2>5, <2>6, <2>7, Zenon DEF Joined
<1> QED
  BY <1>2, <1>3, Zenon

(* When every thread has ended there is none left. *)
LEMMA AllDone ==
  ASSUME \A w \in AcbThreads : acb[w].at = "done", \A h \in HcaThreads : hca[h].at = "done"
  PROVE  Alive = {} /\ ~Panicked
BY Zenon DEF Alive, Panicked, Running

(* The caller joins its threads in order, and fails only with none left. *)
LEMMA CallerJoined ==
  ASSUME Types, Joined, Removing => Settled, Caller, UNCHANGED setting
  PROVE  Joined'
<1>1. /\ DataTyped /\ ThreadsTyped /\ TypeOK /\ HcaThreads' = HcaThreads /\ HcaCount' = HcaCount
      /\ Starting /\ JoiningExtractors /\ JoiningConverters /\ Failed
  BY TypesParts, Fixed, Zenon DEF Types, Joined
<1>2. /\ AcbCount \in Nat \ {0} /\ HcaCount \in Nat /\ handles \in Nat
      /\ setting.decode => HcaCount \in Nat \ {0}
      /\ ~setting.decode => HcaThreads = {}
  <2>1. /\ AcbCount \in Nat \ {0} /\ HcaCount \in Nat /\ handles \in 0..Spawned
        /\ setting.decode => HcaCount \in Nat \ {0}
        /\ ~setting.decode => HcaThreads = {}
    BY <1>1, Counts, Zenon DEF DataTyped
  <2> QED
    BY <2>1 DEF Spawned
<1>3. CASE Spawn
  <2>1. main = "spawn" /\ main' = "spawn" /\ handles' = handles + 1
    BY <1>3, SpawnTurn, Zenon
  <2>2. CASE \E h \in HcaThreads : /\ h = handles + 1 /\ HcaTo(h, "check", hca[h].track)
                                   /\ UNCHANGED acb
    <3>1. PICK k \in HcaThreads : /\ k = handles + 1 /\ HcaTo(k, "check", hca[k].track)
                                  /\ UNCHANGED acb
      BY <2>2, Zenon
    <3>2. hca'[k].at = "check" /\ \A h \in HcaThreads : h # k => hca'[h] = hca[h]
      BY <1>1, <3>1, HcaFields, Zenon
    <3>3. /\ \A h \in HcaThreads : h # k => (handles + 1 < h <=> handles < h)
          /\ ~(handles + 1 < k)
          /\ \A w \in AcbThreads : handles + 1 < HcaCount + w /\ handles < HcaCount + w
      BY <1>2, <3>1 DEF HcaThreads, AcbThreads
    <3>4. \A h \in HcaThreads : hca'[h].at = "none" <=> handles' < h
      BY <1>1, <2>1, <3>1, <3>2, <3>3, Zenon DEF Starting
    <3>5. \A w \in AcbThreads : acb'[w].at = "none" <=> handles' < HcaCount + w
      BY <1>1, <2>1, <3>1, <3>3, Zenon DEF Starting
    <3> QED
      BY <1>1, <2>1, <3>4, <3>5, Zenon
         DEF Joined, Starting, JoiningExtractors, JoiningConverters, Failed
  <2>3. CASE \E w \in AcbThreads : /\ HcaCount + w = handles + 1 /\ UNCHANGED hca
                                   /\ AcbTo(w, "check", acb[w].input, acb[w].left)
    <3>1. PICK k \in AcbThreads : /\ HcaCount + k = handles + 1 /\ UNCHANGED hca
                                  /\ AcbTo(k, "check", acb[k].input, acb[k].left)
      BY <2>3, Zenon
    <3>2. acb'[k].at = "check" /\ \A w \in AcbThreads : w # k => acb'[w] = acb[w]
      BY <1>1, <3>1, AcbFields, Zenon
    <3>3. /\ \A w \in AcbThreads : w # k => (handles + 1 < HcaCount + w <=> handles < HcaCount + w)
          /\ ~(handles + 1 < HcaCount + k)
          /\ \A h \in HcaThreads : ~(handles + 1 < h) /\ ~(handles < h)
      BY <1>2, <3>1 DEF HcaThreads, AcbThreads
    <3>4. \A h \in HcaThreads : hca'[h].at = "none" <=> handles' < h
      BY <1>1, <2>1, <3>1, <3>3, Zenon DEF Starting
    <3>5. \A w \in AcbThreads : acb'[w].at = "none" <=> handles' < HcaCount + w
      BY <1>1, <2>1, <3>1, <3>2, <3>3, Zenon DEF Starting
    <3> QED
      BY <1>1, <2>1, <3>4, <3>5, Zenon
         DEF Joined, Starting, JoiningExtractors, JoiningConverters, Failed
  <2> QED
    BY <1>3, <2>2, <2>3, SpawnTurn, Zenon
<1>4. CASE SpawnFails
  <2>1. main = "spawn" /\ main' = "err" /\ handles < HcaCount + AcbCount /\ UNCHANGED <<acb, hca>>
    BY <1>4, Zenon DEF SpawnFails, Spawned
  <2>2. AcbCount \in AcbThreads
    BY <1>2 DEF AcbThreads
  <2>3. ~AllStarted'
    BY <1>1, <2>1, <2>2, Zenon DEF Starting, AllStarted
  <2> QED
    BY <2>1, <2>3, Zenon DEF Joined, Starting, JoiningExtractors, JoiningConverters, Failed
<1>5. CASE AllSpawned
  <2>1. /\ main = "spawn" /\ handles = Spawned /\ main' = "joinAcb" /\ handles' = 0
        /\ UNCHANGED <<acb, hca>>
    BY <1>5, Zenon DEF AllSpawned
  <2>2. /\ \A h \in HcaThreads : ~(handles < h)
        /\ \A w \in AcbThreads : ~(handles < HcaCount + w) /\ ~(w <= 0)
        /\ 0 < AcbCount
    BY <1>2, <2>1 DEF HcaThreads, AcbThreads, Spawned
  <2>3. AllStarted'
    BY <1>1, <2>1, <2>2, Zenon DEF Starting, AllStarted
  <2> QED
    BY <2>1, <2>2, <2>3, Zenon DEF Joined, Starting, JoiningExtractors, JoiningConverters, Failed
<1>6. CASE JoinExtractor
  <2>1. /\ main = "joinAcb" /\ UNCHANGED <<acb, hca>>
        /\ handles < AcbCount /\ \A w \in AcbThreads : w <= handles => acb[w].at = "done"
    BY <1>1, <1>6, Zenon DEF JoinExtractor, JoiningExtractors
  <2>2. /\ handles + 1 \in AcbThreads
        /\ \A w \in AcbThreads : w <= handles + 1 => w <= handles \/ w = handles + 1
    BY <1>2, <2>1 DEF AcbThreads
  <2>3. /\ acb[handles + 1].at \in Ended
        /\ main' = IF acb[handles + 1].at = "panicked" THEN "err"
                   ELSE IF handles + 1 = AcbCount
                        THEN IF setting.decode THEN "joinHca" ELSE AfterJoins ELSE main
        /\ handles' = IF handles + 1 = AcbCount THEN 0 ELSE handles + 1
    BY <1>6, <2>2, Zenon DEF JoinExtractor, JoinsNext
  <2>4. AllStarted'
    BY <1>1, <2>1, Zenon DEF Starting, AllStarted
  <2>5. CASE acb[handles + 1].at = "panicked"
    <3>1. main' = "err" /\ Panicked'
      BY <2>1, <2>2, <2>3, <2>5, Zenon DEF Panicked
    <3> QED
      BY <3>1, Zenon DEF Joined, Starting, JoiningExtractors, JoiningConverters, Failed
  <2>6. CASE acb[handles + 1].at = "done" /\ handles + 1 # AcbCount
    <3>1. main' = "joinAcb" /\ handles' = handles + 1
      BY <2>1, <2>3, <2>6, Zenon
    <3>2. handles + 1 < AcbCount
      BY <1>2, <2>1, <2>6
    <3>3. \A w \in AcbThreads : w <= handles + 1 => acb[w].at = "done"
      BY <2>1, <2>2, <2>6, Zenon
    <3> QED
      BY <2>1, <2>4, <3>1, <3>2, <3>3, Zenon
         DEF Joined, Starting, JoiningExtractors, JoiningConverters, Failed
  <2>7. CASE acb[handles + 1].at = "done" /\ handles + 1 = AcbCount
    <3>1. /\ main' = IF setting.decode THEN "joinHca" ELSE AfterJoins
          /\ handles' = 0
      BY <2>3, <2>7, Zenon
    <3>2. \A w \in AcbThreads : w <= handles + 1
      BY <2>7 DEF AcbThreads
    <3>3. \A w \in AcbThreads : acb[w].at = "done"
      BY <2>1, <2>2, <2>7, <3>2, Zenon
    <3>4. CASE setting.decode
      <4>1. 0 < HcaCount /\ \A h \in HcaThreads : ~(h <= 0)
        BY <1>2, <3>4 DEF HcaThreads
      <4>2. main' = "joinHca"
        BY <3>1, <3>4, Zenon
      <4> QED
        BY <1>1, <2>1, <2>4, <3>1, <3>3, <3>4, <4>1, <4>2, Zenon
           DEF Joined, Starting, JoiningExtractors, JoiningConverters, Failed
    <3>5. CASE ~setting.decode
      <4>1. main' \in {"err", "remove"}
        BY <3>1, <3>5, Zenon DEF AfterJoins
      <4>2. Alive = {}
        BY <1>2, <3>3, <3>5, AllDone, Zenon
      <4>3. Alive' = {}
        BY <1>1, <2>1, <4>2, Zenon DEF Alive
      <4> QED
        BY <2>4, <4>1, <4>3, Zenon
           DEF Joined, Starting, JoiningExtractors, JoiningConverters, Failed
    <3> QED
      BY <3>4, <3>5, Zenon
  <2> QED
    BY <2>3, <2>5, <2>6, <2>7, Zenon DEF Ended
<1>7. CASE JoinConverter
  <2>1. /\ main = "joinHca" /\ UNCHANGED <<acb, hca>> /\ setting.decode
        /\ handles < HcaCount /\ \A h \in HcaThreads : h <= handles => hca[h].at = "done"
        /\ \A w \in AcbThreads : acb[w].at = "done"
    BY <1>1, <1>7, Zenon DEF JoinConverter, JoiningConverters
  <2>2. /\ handles + 1 \in HcaThreads
        /\ \A h \in HcaThreads : h <= handles + 1 => h <= handles \/ h = handles + 1
    BY <1>2, <2>1 DEF HcaThreads
  <2>3. /\ hca[handles + 1].at \in Ended
        /\ main' = IF hca[handles + 1].at = "panicked" THEN "err"
                   ELSE IF handles + 1 = HcaCount THEN AfterJoins ELSE main
        /\ handles' = IF handles + 1 = HcaCount THEN 0 ELSE handles + 1
    BY <1>7, <2>2, Zenon DEF JoinConverter, JoinsNext
  <2>4. AllStarted'
    BY <1>1, <2>1, Zenon DEF Starting, AllStarted
  <2>5. CASE hca[handles + 1].at = "panicked"
    <3>1. main' = "err" /\ Panicked'
      BY <1>1, <2>1, <2>2, <2>3, <2>5, Zenon DEF Panicked
    <3> QED
      BY <3>1, Zenon DEF Joined, Starting, JoiningExtractors, JoiningConverters, Failed
  <2>6. CASE hca[handles + 1].at = "done" /\ handles + 1 # HcaCount
    <3>1. main' = "joinHca" /\ handles' = handles + 1
      BY <2>1, <2>3, <2>6, Zenon
    <3>2. handles + 1 < HcaCount
      BY <1>2, <2>1, <2>6
    <3>3. \A h \in HcaThreads : h <= handles + 1 => hca[h].at = "done"
      BY <2>1, <2>2, <2>6, Zenon
    <3> QED
      BY <1>1, <2>1, <2>4, <3>1, <3>2, <3>3, Zenon
         DEF Joined, Starting, JoiningExtractors, JoiningConverters, Failed
  <2>7. CASE hca[handles + 1].at = "done" /\ handles + 1 = HcaCount
    <3>1. main' \in {"err", "remove"}
      BY <2>3, <2>7, Zenon DEF AfterJoins
    <3>2. \A h \in HcaThreads : h <= handles + 1
      BY <2>7 DEF HcaThreads
    <3>3. \A h \in HcaThreads : hca[h].at = "done"
      BY <2>1, <2>2, <2>7, <3>2, Zenon
    <3>4. Alive = {}
      BY <2>1, <3>3, AllDone, Zenon
    <3>5. Alive' = {}
      BY <1>1, <2>1, <3>4, Zenon DEF Alive
    <3> QED
      BY <2>4, <3>1, <3>5, Zenon
         DEF Joined, Starting, JoiningExtractors, JoiningConverters, Failed
  <2> QED
    BY <2>3, <2>5, <2>6, <2>7, Zenon DEF Ended
<1>8. CASE RemoveSource
  <2>1. main = "remove" /\ main' \in {"remove", "ok", "err"} /\ UNCHANGED <<acb, hca>>
    BY <1>8, Zenon DEF RemoveSource
  <2>2. Alive = {}
    BY <2>1, AllDone, Zenon DEF Removing, Settled
  <2>3. Alive' = {} /\ AllStarted'
    BY <1>1, <2>1, <2>2, Zenon DEF Alive, Starting, AllStarted
  <2> QED
    BY <2>1, <2>3, Zenon DEF Joined, Starting, JoiningExtractors, JoiningConverters, Failed
<1> QED
  BY <1>3, <1>4, <1>5, <1>6, <1>7, <1>8, Zenon DEF Caller

(* What the caller does leaves the work alone: it starts threads that have *)
(* not begun, and moves on.                                                *)
LEMMA CallerMoves ==
  ASSUME Types, Joined, Caller, UNCHANGED setting
  PROVE  /\ UNCHANGED <<acb_queue, channel, first_error, source_files, made>>
         /\ HcaThreads' = HcaThreads
         /\ \A w \in AcbThreads :
              acb'[w] = acb[w] \/ (/\ acb[w].at = "none" /\ acb'[w].at = "check"
                                  /\ acb'[w].input = acb[w].input /\ acb'[w].left = acb[w].left)
         /\ \A h \in HcaThreads :
              hca'[h] = hca[h] \/ (/\ hca[h].at = "none" /\ hca'[h].at = "check"
                                  /\ hca'[h].track = hca[h].track)
         /\ Panicked <=> Panicked'
         /\ SenderLeft' => SenderLeft
<1>1. ThreadsTyped /\ HcaThreads' = HcaThreads
  BY TypesParts, Fixed, Zenon
<1>2. /\ UNCHANGED <<acb_queue, channel, first_error, source_files, made>>
      /\ main = "spawn" \/ (main' # "spawn" /\ UNCHANGED acb)
  BY Zenon DEF Caller, Spawn, SpawnFails, AllSpawned, JoinExtractor, JoinConverter, JoinsNext,
               AfterJoins, RemoveSource
<1>3. CASE Spawn
  <2>3. /\ \A w \in AcbThreads :
              acb'[w] = acb[w] \/ (/\ acb[w].at = "none" /\ acb'[w].at = "check"
                                  /\ acb'[w].input = acb[w].input /\ acb'[w].left = acb[w].left)
        /\ \A h \in HcaThreads :
              hca'[h] = hca[h] \/ (/\ hca[h].at = "none" /\ hca'[h].at = "check"
                                  /\ hca'[h].track = hca[h].track)
    <3>1. CASE \E h \in HcaThreads : /\ hca[h].at = "none" /\ HcaTo(h, "check", hca[h].track)
                                     /\ UNCHANGED acb
      BY <1>1, <3>1, HcaFields, Zenon
    <3>2. CASE \E w \in AcbThreads : /\ acb[w].at = "none" /\ UNCHANGED hca
                                     /\ AcbTo(w, "check", acb[w].input, acb[w].left)
      <4>1. PICK k \in AcbThreads : /\ acb[k].at = "none" /\ UNCHANGED hca
                                    /\ AcbTo(k, "check", acb[k].input, acb[k].left)
        BY <3>2, Zenon
      <4>2. /\ acb'[k].at = "check" /\ acb'[k].input = acb[k].input /\ acb'[k].left = acb[k].left
            /\ \A w \in AcbThreads : w # k => acb'[w] = acb[w]
        BY <1>1, <4>1, AcbFields, Zenon
      <4> QED
        BY <4>1, <4>2, Zenon
    <3> QED
      BY <1>3, <3>1, <3>2, SpawnTurn, Zenon
  <2>4. Panicked <=> Panicked'
    <3>1. /\ \A w \in AcbThreads : acb'[w].at = "panicked" <=> acb[w].at = "panicked"
          /\ \A h \in HcaThreads : hca'[h].at = "panicked" <=> hca[h].at = "panicked"
      BY <2>3, Zenon
    <3> QED
      BY <1>1, <3>1, Zenon DEF Panicked
  <2> QED
    BY <1>1, <1>2, <1>3, <2>3, <2>4, Zenon DEF Spawn, SenderLeft
<1>4. CASE ~Spawn
  <2>1. UNCHANGED <<acb, hca>>
    BY <1>4, Zenon DEF Caller, SpawnFails, AllSpawned, JoinExtractor, JoinConverter, RemoveSource
  <2> QED
    BY <1>1, <1>2, <2>1, Zenon DEF Panicked, SenderLeft
<1> QED
  BY <1>3, <1>4, Zenon

(* Threads end for a reason, whoever moves. *)
LEMMA ReasonsKept ==
  ASSUME Types, Joined, EndsForAReason, Next
  PROVE  EndsForAReason'
<1>1. UNCHANGED setting
  BY Zenon DEF Next
<1>2. CASE Caller
  <2>1. /\ \A w \in AcbThreads : acb'[w].at = "done" => acb[w].at = "done"
        /\ \A h \in HcaThreads : hca'[h].at = "done" => hca[h].at = "done"
    BY <1>1, <1>2, CallerMoves, Zenon
  <2>2. /\ UNCHANGED <<acb_queue, channel, first_error>> /\ HcaThreads' = HcaThreads
        /\ SenderLeft' => SenderLeft
    BY <1>1, <1>2, CallerMoves, Zenon
  <2> QED
    BY <2>1, <2>2, Zenon DEF EndsForAReason
<1>3. ASSUME NEW w \in AcbThreads, Extractor(w) PROVE EndsForAReason'
  <2>1. SenderLeft
    BY <1>1, <1>3, ExtractorMoves, Zenon DEF SenderLeft
  <2>2. \A v \in AcbThreads : acb'[v].at = "done" => first_error' \/ acb_queue' = <<>>
    BY <1>1, <1>3, ExtractorMoves, Zenon DEF EndsForAReason
  <2>3. UNCHANGED hca /\ HcaThreads' = HcaThreads /\ (first_error => first_error')
    BY <1>1, <1>3, ExtractorMoves, Zenon
  <2> QED
    BY <2>1, <2>2, <2>3, Zenon DEF EndsForAReason
<1>4. ASSUME NEW h \in HcaThreads, Converter(h) PROVE EndsForAReason'
  <2>1. SenderLeft' <=> SenderLeft
    <3>1. UNCHANGED <<main, acb>>
      BY <1>1, <1>4, ConverterMoves, Zenon
    <3> QED
      BY <3>1, Zenon DEF SenderLeft
  <2>2. \A g \in HcaThreads :
          hca'[g].at = "done" => first_error' \/ (channel' = <<>> /\ ~SenderLeft)
    BY <1>1, <1>4, ConverterMoves, Zenon DEF EndsForAReason
  <2>3. UNCHANGED <<acb, acb_queue>> /\ HcaThreads' = HcaThreads /\ (first_error => first_error')
    BY <1>1, <1>4, ConverterMoves, Zenon
  <2> QED
    BY <2>1, <2>2, <2>3, Zenon DEF EndsForAReason
<1> QED
  BY <1>2, <1>3, <1>4, Zenon DEF Next

(* No container on disk is forgotten, whoever moves. *)
LEMMA CollectedKept ==
  ASSUME Types, Joined, Collected, Next
  PROVE  Collected'
<1> SUFFICES ASSUME NEW f \in Files
             PROVE  (\/ In(acb_queue, f) \/ f \in source_files \/ first_error \/ Panicked
                     \/ \E w \in AcbThreads : acb[w].input = f /\ acb[w].at = "work")'
  BY Zenon DEF Collected
<1>1. /\ ThreadsTyped /\ TypeOK /\ acb_queue \in Seq(InputSet) /\ UNCHANGED setting
  BY TypesParts, Zenon DEF Types, TypeOK, Next
<1>2. \/ In(acb_queue, f) \/ f \in source_files \/ first_error \/ Panicked
      \/ \E w \in AcbThreads : acb[w].input = f /\ acb[w].at = "work"
  BY Zenon DEF Collected
<1>3. CASE Caller
  <2>1. /\ UNCHANGED <<acb_queue, first_error, source_files>> /\ (Panicked <=> Panicked')
        /\ \A w \in AcbThreads : acb[w].at = "work" => acb'[w] = acb[w]
    BY <1>1, <1>3, CallerMoves, Zenon
  <2> QED
    BY <1>2, <2>1, Zenon
<1>4. ASSUME NEW w \in AcbThreads, Extractor(w)
      PROVE  \/ In(acb_queue', f) \/ f \in source_files' \/ first_error' \/ Panicked'
             \/ \E v \in AcbThreads : acb'[v].input = f /\ acb'[v].at = "work"
  <2>1. /\ first_error => first_error'
        /\ Panicked => Panicked'
        /\ \A v \in AcbThreads : v # w => acb'[v] = acb[v]
    BY <1>1, <1>4, ExtractorMoves, Zenon
  <2>2. source_files \subseteq source_files'
    BY <1>1, <1>4, ExtractorTurn, Zenon
  <2>3. CASE In(acb_queue, f)
    <3>1. CASE acb_queue' = acb_queue
      BY <2>3, <3>1, Zenon
    <3>2. CASE acb_queue # <<>> /\ acb_queue' = Tail(acb_queue)
               /\ AcbTo(w, "work", Head(acb_queue), acb[w].left)
      <4>1. f = Head(acb_queue) \/ In(acb_queue', f)
        BY <1>1, <2>3, <3>2, InTail, Zenon
      <4>2. PICK i, l : i = Head(acb_queue) /\ AcbTo(w, "work", i, l)
        BY <3>2, Zenon
      <4>3. AcbTo(w, "work", i, l)
        BY <4>2, Zenon
      <4>4. acb'[w].input = i /\ acb'[w].at = "work"
        BY <1>1, <4>3, AcbFields, Zenon
      <4> QED
        BY <4>1, <4>2, <4>4, Zenon
    <3> QED
      BY <1>1, <1>4, <3>1, <3>2, ExtractorTurn, Zenon
  <2>4. CASE acb[w].input = f /\ acb[w].at = "work"
    <3>1. \/ f \in source_files' \/ first_error'
          \/ AcbTo(w, "panicked", acb[w].input, acb[w].left)
      BY <1>1, <1>4, <2>4, ExtractorTurn, Zenon
    <3>2. AcbTo(w, "panicked", acb[w].input, acb[w].left) => Panicked'
      BY <1>1, AcbFields, Zenon DEF Panicked
    <3> QED
      BY <3>1, <3>2, Zenon
  <2> QED
    BY <1>2, <2>1, <2>2, <2>3, <2>4, Zenon
<1>5. ASSUME NEW h \in HcaThreads, Converter(h)
      PROVE  \/ In(acb_queue', f) \/ f \in source_files' \/ first_error' \/ Panicked'
             \/ \E v \in AcbThreads : acb'[v].input = f /\ acb'[v].at = "work"
  BY <1>1, <1>2, <1>5, ConverterMoves, Zenon
<1> QED
  BY <1>3, <1>4, <1>5, Zenon DEF Next
-----------------------------------------------------------------------------
(* Which tracks an extractor in a given state still holds. *)
Holds(t, at, input, left) ==
  input = t[1] /\ (at = "work" \/ t[2] > TracksOf[t[1]] - left)

(* An extractor with nothing left to send holds no track ... *)
LEMMA HoldsNone ==
  ASSUME NEW t \in Tracks, NEW at, at # "work", NEW input
  PROVE  ~Holds(t, at, input, 0)
<1>1. t[2] \in 1..TracksOf[t[1]] /\ TracksOf[t[1]] \in Nat
  BY TrackFacts, Zenon
<1>2. ~(t[2] > TracksOf[t[1]] - 0)
  BY <1>1
<1> QED
  BY <1>2, Zenon DEF Holds

(* ... one that has just read a container holds all of its tracks ... *)
LEMMA HoldsAll ==
  ASSUME NEW t \in Tracks, NEW at, NEW input \in InputSet
  PROVE  Holds(t, at, input, TracksOf[input]) <=> input = t[1]
<1>1. t[2] \in 1..TracksOf[t[1]] /\ TracksOf[t[1]] \in Nat
  BY TrackFacts, Zenon
<1>2. t[2] > TracksOf[t[1]] - TracksOf[t[1]]
  BY <1>1
<1> QED
  BY <1>2, Zenon DEF Holds

(* ... and sending the next one gives away that one and no other. *)
LEMMA HoldsRest ==
  ASSUME NEW t \in Tracks, NEW input \in InputSet, NEW left \in 1..TracksOf[input]
  PROVE  LET n == <<input, TracksOf[input] - left + 1>>
         IN  /\ n \in Tracks /\ Holds(n, "send", input, left)
             /\ Holds(t, Sending(left - 1), input, left - 1) <=>
                  Holds(t, "send", input, left) /\ t # n
<1> DEFINE k == TracksOf[input] - left + 1
           n == <<input, k>>
<1>1. TracksOf[input] \in Nat /\ t[2] \in 1..TracksOf[t[1]] /\ t = <<t[1], t[2]>>
  BY TrackFacts, Zenon
<1>2. k \in 1..TracksOf[input] /\ k > TracksOf[input] - left
  BY <1>1
<1>3. n \in Tracks /\ n[1] = input /\ n[2] = k
  BY <1>2, TrackFacts
<1>4. Sending(left - 1) # "work"
  BY Zenon DEF Sending
<1>5. CASE t[1] = input
  <2>1. t = n <=> t[2] = k
    BY <1>1, <1>5
  <2>2. t[2] > TracksOf[input] - (left - 1) <=> t[2] > TracksOf[input] - left /\ t[2] # k
    BY <1>1, <1>5
  <2> QED
    BY <1>2, <1>3, <1>4, <1>5, <2>1, <2>2, Zenon DEF Holds
<1>6. CASE t[1] # input
  BY <1>2, <1>3, <1>6, Zenon DEF Holds
<1> QED
  BY <1>5, <1>6, Zenon

(* Track n goes from its extractor to the channel, seen from track t. *)
Passes(t, w, n) ==
  /\ channel' = Append(channel, n) /\ UNCHANGED acb_queue
  /\ n = t => Extracting(t, w)
  /\ Extracting(t, w)' <=> Extracting(t, w) /\ t # n

(* An extractor leaves every track where it is, loses it with an error, a  *)
(* panic or a call that has returned, takes its container or sends it.     *)
LEMMA ExtractorMovesTrack ==
  ASSUME Types, Removing => Settled, NEW w \in AcbThreads, Extractor(w), UNCHANGED setting,
         NEW t \in Tracks
  PROVE  \/ /\ UNCHANGED <<acb_queue, channel>>
            /\ Extracting(t, w)' => Extracting(t, w)
            /\ Lossless' /\ Extracting(t, w) => Extracting(t, w)'
         \/ /\ acb_queue # <<>> /\ acb_queue' = Tail(acb_queue) /\ UNCHANGED channel
            /\ ~Extracting(t, w)
            /\ Extracting(t, w)' <=> t[1] = Head(acb_queue)
         \/ \E n \in Tracks : Passes(t, w, n)
<1> DEFINE at == acb[w].at
           input == acb[w].input
           left == acb[w].left
<1>1. /\ ThreadsTyped /\ TypeOK /\ AcbTyped(at, input, left)
  BY TypesParts, Zenon DEF Types, ThreadsTyped
<1>2. /\ Extracting(t, w) <=> Holds(t, at, input, left)
      /\ \A a, i, l : AcbTo(w, a, i, l) => (Extracting(t, w)' <=> Holds(t, a, i, l))
  <2>1. ASSUME NEW a, NEW i, NEW l, AcbTo(w, a, i, l) PROVE Extracting(t, w)' <=> Holds(t, a, i, l)
    <3>1. acb'[w].at = a /\ acb'[w].input = i /\ acb'[w].left = l
      BY <1>1, <2>1, AcbFields, Zenon
    <3> QED
      BY <3>1, Zenon DEF Extracting, Holds
  <2> QED
    BY <2>1, Zenon DEF Extracting, Holds
<1>3. main' = main
  BY <1>1, ExtractorTurn, Zenon
<1> HIDE DEF at, input, left
<1>4. CASE at \in {"check", "next"} /\ UNCHANGED <<acb_queue, channel>>
           /\ \E a \in {"next", "done"} : AcbTo(w, a, input, left)
  <2>1. left = 0 /\ at # "work"
    BY <1>1, <1>4, Zenon DEF AcbTyped
  <2>2. ~Extracting(t, w) /\ ~Extracting(t, w)'
    BY <1>2, <1>4, <2>1, HoldsNone, Zenon
  <2> QED
    BY <1>4, <2>2, Zenon
<1>5. CASE /\ at = "next" /\ acb_queue # <<>> /\ acb_queue' = Tail(acb_queue) /\ UNCHANGED channel
           /\ AcbTo(w, "work", Head(acb_queue), left)
  <2>1. left = 0 /\ at # "work"
    BY <1>1, <1>5, Zenon DEF AcbTyped
  <2>2. ~Extracting(t, w)
    BY <1>2, <2>1, HoldsNone, Zenon
  <2>3. Extracting(t, w)' <=> t[1] = Head(acb_queue)
    <3>1. Holds(t, "work", Head(acb_queue), left) <=> t[1] = Head(acb_queue)
      BY Zenon DEF Holds
    <3> QED
      BY <1>2, <1>5, <3>1, Zenon
  <2> QED
    BY <1>5, <2>2, <2>3, Zenon
<1>6. CASE /\ at = "work" /\ UNCHANGED <<acb_queue, channel, first_error>>
           /\ AcbTo(w, Sending(Kept(input)), input, Kept(input))
  <2>1. Extracting(t, w) <=> input = t[1]
    BY <1>2, <1>6, Zenon DEF Holds
  <2>2. CASE setting.decode
    <3>1. Kept(input) = TracksOf[input] /\ input \in InputSet
      BY <1>1, <1>6, <2>2, Zenon DEF Kept, AcbTyped
    <3>2. Extracting(t, w)' <=> input = t[1]
      BY <1>2, <1>6, <3>1, HoldsAll, Zenon
    <3> QED
      BY <1>6, <2>1, <3>2, Zenon
  <2>3. CASE ~setting.decode
    <3>1. Kept(input) = 0 /\ Sending(0) # "work" /\ ~Lossless'
      BY <2>3, Zenon DEF Kept, Sending, Lossless
    <3>2. ~Extracting(t, w)'
      BY <1>2, <1>6, <3>1, HoldsNone, Zenon
    <3> QED
      BY <1>6, <3>1, <3>2, Zenon
  <2> QED
    BY <2>2, <2>3, Zenon
<1>7. CASE /\ at = "work" /\ first_error' = TRUE /\ UNCHANGED <<acb_queue, channel>>
           /\ AcbTo(w, "done", input, left)
  <2>1. left = 0 /\ ~Lossless'
    BY <1>1, <1>7, Zenon DEF AcbTyped, Lossless
  <2>2. ~Extracting(t, w)'
    BY <1>2, <1>7, <2>1, HoldsNone, Zenon
  <2> QED
    BY <1>7, <2>1, <2>2, Zenon
<1>8. CASE /\ at = "work" /\ UNCHANGED <<acb_queue, channel>> /\ AcbTo(w, "panicked", input, left)
  <2>1. left = 0 /\ acb'[w].at = "panicked"
    BY <1>1, <1>8, AcbFields, Zenon DEF AcbTyped
  <2>2. ~Lossless'
    BY <2>1, Zenon DEF Lossless, Panicked
  <2>3. ~Extracting(t, w)'
    BY <1>2, <1>8, <2>1, HoldsNone, Zenon
  <2> QED
    BY <1>8, <2>2, <2>3, Zenon
<1>9. CASE /\ at = "send" /\ GivesUp /\ UNCHANGED <<acb_queue, channel, first_error>>
           /\ AcbTo(w, "check", input, 0)
  <2>1. main # "ok"
    BY <1>9, Zenon DEF Removing, Settled, at
  <2>2. ~Lossless'
    BY <1>3, <1>9, <2>1, Zenon DEF GivesUp, ReceiverLeft, Returned, Lossless
  <2>3. ~Extracting(t, w)'
    BY <1>2, <1>9, HoldsNone, Zenon
  <2> QED
    BY <1>9, <2>2, <2>3, Zenon
<1>10. CASE /\ at = "send" /\ channel' = Append(channel, NextTrack(w)) /\ UNCHANGED acb_queue
            /\ AcbTo(w, Sending(left - 1), input, left - 1)
  <2>1. input \in InputSet /\ left \in 1..TracksOf[input]
    BY <1>1, <1>10, Zenon DEF AcbTyped
  <2> DEFINE n == <<input, TracksOf[input] - left + 1>>
  <2>2. /\ n \in Tracks /\ Holds(n, "send", input, left)
        /\ Holds(t, Sending(left - 1), input, left - 1) <=> Holds(t, "send", input, left) /\ t # n
    BY <2>1, HoldsRest, Zenon
  <2>3. NextTrack(w) = n
    BY Zenon DEF NextTrack, input, left
  <2> HIDE DEF n
  <2>4. Extracting(t, w)' <=> Extracting(t, w) /\ t # n
    BY <1>2, <1>10, <2>2, Zenon
  <2>5. n = t => Extracting(t, w)
    BY <1>2, <1>10, <2>2, Zenon
  <2> QED
    BY <1>10, <2>2, <2>3, <2>4, <2>5, Zenon DEF Passes
<1>11. (IF first_error THEN "done" ELSE "next") \in {"next", "done"}
  BY Zenon
<1> QED
  BY <1>1, <1>4, <1>5, <1>6, <1>7, <1>8, <1>9, <1>10, <1>11, ExtractorTurn, Zenon DEF at, input,
     left

(* Between the stages a track passes one at a time: the bookkeeping. *)
LEMMA ExtractorApart ==
  ASSUME Types, Removing => Settled, NEW w \in AcbThreads, Extractor(w), UNCHANGED setting,
         NEW t \in Tracks, Apart(t), Lossless => Somewhere(t)
  PROVE  Apart(t)' /\ (Lossless' => Somewhere(t)')
<1>1. /\ UNCHANGED <<hca, made, main>> /\ HcaThreads' = HcaThreads
      /\ \A v \in AcbThreads : v # w => (Extracting(t, v)' <=> Extracting(t, v))
      /\ Lossless' => Lossless
  <2>1. /\ UNCHANGED <<hca, made, main>> /\ HcaThreads' = HcaThreads
        /\ \A v \in AcbThreads : v # w => acb'[v] = acb[v]
        /\ (first_error => first_error') /\ (Panicked => Panicked')
    BY ExtractorMoves, Zenon
  <2> QED
    BY <2>1, Zenon DEF Extracting, Lossless
<1>2. /\ Converts(t)' <=> Converts(t)
      /\ Made(t)' <=> Made(t)
  BY <1>1, Zenon DEF Converts, Made
<1>3. acb_queue \in Seq(InputSet) /\ channel \in Seq(Tracks)
  BY Zenon DEF Types, TypeOK
<1>4. CASE /\ UNCHANGED <<acb_queue, channel>>
           /\ Extracting(t, w)' => Extracting(t, w)
           /\ Lossless' /\ Extracting(t, w) => Extracting(t, w)'
  <2>1. /\ Extracts(t)' => Extracts(t)
        /\ Lossless' /\ Extracts(t) => Extracts(t)'
    BY <1>1, <1>4, Zenon DEF Extracts
  <2>2. /\ Queued(t)' <=> Queued(t)
        /\ Sent(t)' <=> Sent(t)
    BY <1>4, Zenon DEF Queued, Sent
  <2>3. \A u, v \in AcbThreads : Extracting(t, u)' /\ Extracting(t, v)' => u = v
    BY <1>1, <1>4, Zenon DEF Apart
  <2>4. Apart(t)'
    BY <1>1, <1>2, <1>4, <2>1, <2>2, <2>3, Zenon DEF Apart
  <2> QED
    BY <1>1, <1>2, <2>1, <2>2, <2>4, Zenon DEF Somewhere
<1>5. CASE /\ acb_queue # <<>> /\ acb_queue' = Tail(acb_queue) /\ UNCHANGED channel
           /\ ~Extracting(t, w)
           /\ Extracting(t, w)' <=> t[1] = Head(acb_queue)
  <2> DEFINE hd == Head(acb_queue)
  <2>1. /\ In(acb_queue, t[1]) <=> t[1] = hd \/ In(acb_queue', t[1])
        /\ Once(acb_queue, t[1]) => Once(acb_queue', t[1]) /\ (t[1] = hd => ~In(acb_queue', t[1]))
    BY <1>3, <1>5, InTail, Zenon
  <2>2. Extracting(t, w)' <=> t[1] = hd
    BY <1>5, Zenon
  <2> HIDE DEF hd
  <2>3. /\ Sent(t)' <=> Sent(t)
        /\ Queued(t) <=> t[1] = hd \/ Queued(t)'
        /\ Once(acb_queue', t[1]) /\ (t[1] = hd => ~Queued(t)')
    BY <1>5, <2>1, Zenon DEF Sent, Queued, Apart
  <2>4. Extracts(t)' <=> t[1] = hd \/ Extracts(t)
    BY <1>1, <1>5, <2>2, Zenon DEF Extracts
  <2>5. \A u, v \in AcbThreads : Extracting(t, u)' /\ Extracting(t, v)' => u = v
    BY <1>1, <1>5, <2>2, <2>3, Zenon DEF Apart, Extracts
  <2>6. Apart(t)'
    BY <1>1, <1>2, <1>5, <2>3, <2>4, <2>5, Zenon DEF Apart
  <2> QED
    BY <1>1, <1>2, <2>3, <2>4, <2>6, Zenon DEF Somewhere
<1>6. CASE \E n \in Tracks : Passes(t, w, n)
  <2>0. PICK n \in Tracks : Passes(t, w, n)
    BY <1>6, Zenon
  <2>1. /\ channel' = Append(channel, n) /\ UNCHANGED acb_queue
        /\ n = t => Extracting(t, w)
        /\ Extracting(t, w)' <=> Extracting(t, w) /\ t # n
    BY <2>0, Zenon DEF Passes
  <2>2. /\ In(channel', t) <=> In(channel, t) \/ t = n
        /\ Once(channel, t) /\ (t = n => ~In(channel, t)) => Once(channel', t)
    BY <1>3, <2>1, InAppend, Zenon
  <2>3. /\ Queued(t)' <=> Queued(t)
        /\ Sent(t)' <=> Sent(t) \/ t = n
    BY <2>1, <2>2, Zenon DEF Queued, Sent
  <2>4. t = n => Extracts(t) /\ ~Sent(t) /\ ~Extracts(t)'
    BY <1>1, <2>1, Zenon DEF Extracts, Apart
  <2>5. t # n => (Extracts(t)' <=> Extracts(t))
    BY <1>1, <2>1, Zenon DEF Extracts
  <2>6. \A u, v \in AcbThreads : Extracting(t, u)' /\ Extracting(t, v)' => u = v
    BY <1>1, <2>1, Zenon DEF Apart
  <2>7. Once(channel', t)
    BY <2>2, <2>4, Zenon DEF Apart, Sent
  <2>8. Apart(t)'
    <3>1. CASE t = n
      BY <1>1, <1>2, <2>1, <2>3, <2>4, <2>6, <2>7, <3>1, Zenon DEF Apart
    <3>2. CASE t # n
      BY <1>1, <1>2, <2>1, <2>3, <2>5, <2>6, <2>7, <3>2, Zenon DEF Apart
    <3> QED
      BY <3>1, <3>2, Zenon
  <2> QED
    BY <1>1, <1>2, <2>3, <2>5, <2>8, Zenon DEF Somewhere
<1> QED
  BY <1>4, <1>5, <1>6, ExtractorMovesTrack, Zenon

(* The same for a converter ... *)
LEMMA ConverterApart ==
  ASSUME Types, NEW h \in HcaThreads, Converter(h), UNCHANGED setting,
         NEW t \in Tracks, Apart(t), Lossless => Somewhere(t)
  PROVE  Apart(t)' /\ (Lossless' => Somewhere(t)')
<1>1. /\ UNCHANGED <<acb, acb_queue, main>> /\ HcaThreads' = HcaThreads
      /\ \A g \in HcaThreads : g # h => hca'[g] = hca[g]
      /\ Lossless' => Lossless
  <2>1. /\ UNCHANGED <<acb, acb_queue, main>> /\ HcaThreads' = HcaThreads
        /\ \A g \in HcaThreads : g # h => hca'[g] = hca[g]
        /\ (first_error => first_error') /\ (Panicked => Panicked')
    BY ConverterMoves, Zenon
  <2> QED
    BY <2>1, Zenon DEF Lossless
<1>2. /\ Queued(t)' <=> Queued(t)
      /\ \A w \in AcbThreads : Extracting(t, w)' <=> Extracting(t, w)
      /\ Extracts(t)' <=> Extracts(t)
  BY <1>1, Zenon DEF Queued, Extracts, Extracting
<1>3. /\ ThreadsTyped /\ TypeOK /\ HcaTyped(hca[h].at, hca[h].track) /\ channel \in Seq(Tracks)
      /\ made \in [Tracks -> Nat] /\ t # NoTrack
  BY TypesParts, TrackFacts, Zenon DEF Types, ThreadsTyped, TypeOK
<1>4. CASE /\ hca[h].at \in {"check", "next"} /\ UNCHANGED <<channel, made>>
           /\ hca'[h].track = hca[h].track
  <2>1. \A g \in HcaThreads : hca'[g].track = hca[g].track
    BY <1>1, <1>4, Zenon
  <2>2. /\ Sent(t)' <=> Sent(t)
        /\ Converts(t)' <=> Converts(t)
        /\ Made(t)' <=> Made(t)
    BY <1>1, <1>4, <2>1, Zenon DEF Sent, Converts, Made
  <2>3. /\ Once(acb_queue', t[1]) /\ Once(channel', t) /\ made'[t] <= 1
        /\ \A f, g \in HcaThreads : hca'[f].track = t /\ hca'[g].track = t => f = g
    BY <1>1, <1>4, <2>1, Zenon DEF Apart
  <2>4. Apart(t)'
    BY <1>1, <1>2, <2>2, <2>3, Zenon DEF Apart
  <2> QED
    BY <1>1, <1>2, <2>2, <2>4, Zenon DEF Somewhere
<1>5. CASE /\ hca[h].at = "next" /\ channel # <<>> /\ channel' = Tail(channel) /\ UNCHANGED made
           /\ hca'[h].track = Head(channel)
  <2> DEFINE hd == Head(channel)
  <2>1. /\ In(channel, t) <=> t = hd \/ In(channel', t)
        /\ Once(channel, t) => Once(channel', t) /\ (t = hd => ~In(channel', t))
    BY <1>3, <1>5, InTail, Zenon
  <2>2. hca'[h].track = hd /\ hca[h].track # t
    BY <1>3, <1>5, Zenon DEF HcaTyped
  <2> HIDE DEF hd
  <2>3. /\ Sent(t) <=> t = hd \/ Sent(t)'
        /\ Made(t)' <=> Made(t)
        /\ Once(channel', t) /\ (t = hd => ~Sent(t)')
    BY <1>5, <2>1, Zenon DEF Sent, Made, Apart
  <2>4. Converts(t)' <=> t = hd \/ Converts(t)
    BY <1>1, <2>2, Zenon DEF Converts
  <2>5. \A f, g \in HcaThreads : hca'[f].track = t /\ hca'[g].track = t => f = g
    BY <1>1, <2>2, <2>3, Zenon DEF Apart, Converts
  <2>6. Apart(t)'
    BY <1>1, <1>2, <1>5, <2>3, <2>4, <2>5, Zenon DEF Apart
  <2> QED
    BY <1>1, <1>2, <2>3, <2>4, <2>6, Zenon DEF Somewhere
<1>6. CASE /\ hca[h].at = "work" /\ made' = [made EXCEPT ![hca[h].track] = @ + 1]
           /\ UNCHANGED channel /\ hca'[h].track = NoTrack
  <2>1. /\ t = hca[h].track => made'[t] = made[t] + 1
        /\ t # hca[h].track => made'[t] = made[t]
    BY <1>3, <1>6, Zenon
  <2>2. Sent(t)' <=> Sent(t)
    BY <1>6, Zenon DEF Sent
  <2>3. \A g \in HcaThreads : hca'[g].track = t <=> g # h /\ hca[g].track = t
    BY <1>1, <1>3, <1>6, Zenon
  <2>4. \A f, g \in HcaThreads : hca'[f].track = t /\ hca'[g].track = t => f = g
    BY <2>3, Zenon DEF Apart
  <2>5. CASE t = hca[h].track
    <3>1. Converts(t) /\ ~Made(t) /\ ~Converts(t)'
      BY <1>1, <2>3, <2>5, Zenon DEF Converts, Apart
    <3>2. made[t] \in Nat
      BY <1>3, Zenon
    <3>3. made'[t] <= 1 /\ Made(t)'
      BY <2>1, <2>5, <3>1, <3>2 DEF Made
    <3>4. Apart(t)'
      BY <1>1, <1>2, <1>6, <2>2, <2>4, <3>1, <3>3, Zenon DEF Apart
    <3> QED
      BY <3>3, <3>4, Zenon DEF Somewhere
  <2>6. CASE t # hca[h].track
    <3>1. /\ Converts(t)' <=> Converts(t)
          /\ Made(t)' <=> Made(t)
      BY <1>1, <2>1, <2>3, <2>6, Zenon DEF Converts, Made
    <3>2. Apart(t)'
      BY <1>1, <1>2, <1>6, <2>1, <2>2, <2>4, <2>6, <3>1, Zenon DEF Apart
    <3> QED
      BY <1>1, <1>2, <2>2, <3>1, <3>2, Zenon DEF Somewhere
  <2> QED
    BY <2>5, <2>6, Zenon
<1>7. CASE /\ hca[h].at = "work" /\ UNCHANGED <<channel, made>> /\ hca'[h].track = NoTrack
           /\ first_error' \/ hca'[h].at = "panicked"
  <2>1. ~Lossless'
    BY <1>1, <1>7, Zenon DEF Lossless, Panicked
  <2>2. \A g \in HcaThreads : hca'[g].track = t => hca[g].track = t
    BY <1>1, <1>3, <1>7, Zenon
  <2>3. /\ Sent(t)' <=> Sent(t)
        /\ Converts(t)' => Converts(t)
        /\ Made(t)' <=> Made(t)
    BY <1>1, <1>7, <2>2, Zenon DEF Sent, Converts, Made
  <2> QED
    BY <1>1, <1>2, <1>7, <2>1, <2>2, <2>3, Zenon DEF Apart
<1> QED
  BY <1>3, <1>4, <1>5, <1>6, <1>7, ConverterTurn, HcaFields, Zenon

(* ... and for the caller. *)
LEMMA CallerApart ==
  ASSUME Types, Joined, Caller, UNCHANGED setting,
         NEW t \in Tracks, Apart(t), Lossless => Somewhere(t)
  PROVE  Apart(t)' /\ (Lossless' => Somewhere(t)')
<1>1. /\ UNCHANGED <<acb_queue, channel, made, first_error>> /\ HcaThreads' = HcaThreads
      /\ (Panicked <=> Panicked')
  BY CallerMoves, Zenon
<1>2. \A w \in AcbThreads : Extracting(t, w)' <=> Extracting(t, w)
  <2>1. \A w \in AcbThreads : /\ acb'[w].input = acb[w].input /\ acb'[w].left = acb[w].left
                              /\ acb'[w].at = "work" <=> acb[w].at = "work"
    BY CallerMoves, Zenon
  <2> QED
    BY <2>1, Zenon DEF Extracting
<1>3. \A h \in HcaThreads : hca'[h].track = hca[h].track
  BY CallerMoves, Zenon
<1>4. Lossless' => Lossless
  <2>1. main = "err" => main' = "err"
    BY Zenon DEF Caller, Spawn, SpawnFails, AllSpawned, JoinExtractor, JoinConverter, RemoveSource
  <2> QED
    BY <1>1, <2>1, Zenon DEF Lossless
<1>5. /\ Queued(t)' <=> Queued(t)
      /\ Extracts(t)' <=> Extracts(t)
      /\ Sent(t)' <=> Sent(t)
      /\ Converts(t)' <=> Converts(t)
      /\ Made(t)' <=> Made(t)
  BY <1>1, <1>2, <1>3, Zenon DEF Queued, Extracts, Sent, Converts, Made
<1>6. /\ Once(acb_queue', t[1]) /\ Once(channel', t) /\ made'[t] <= 1
      /\ \A v, w \in AcbThreads : Extracting(t, v)' /\ Extracting(t, w)' => v = w
      /\ \A g, h \in HcaThreads : hca'[g].track = t /\ hca'[h].track = t => g = h
  BY <1>1, <1>2, <1>3, Zenon DEF Apart
<1>7. Apart(t)'
  BY <1>1, <1>5, <1>6, Zenon DEF Apart
<1> QED
  BY <1>4, <1>5, <1>7, Zenon DEF Somewhere

(* Every step keeps the stages apart. *)
LEMMA TracksKept ==
  ASSUME IInv, Next, NEW t \in Tracks
  PROVE  Apart(t)' /\ (Lossless' => Somewhere(t)')
BY CallerApart, ExtractorApart, ConverterApart, Zenon DEF IInv, Next

(* Once the last thread is joined without an error all work is done. *)
LEMMA JoinedSettled ==
  ASSUME IInv, ~first_error, main # "err",
         \A w \in AcbThreads : acb[w].at = "done", \A h \in HcaThreads : hca[h].at = "done"
  PROVE  Settled
<1>1. ~Panicked /\ ThreadsTyped /\ TypeOK
  BY AllDone, TypesParts, Zenon DEF IInv, Types
<1>2. acb_queue = <<>> /\ source_files = Files
  <2>1. acb_queue = <<>>
    <3>1. 1 \in AcbThreads
      BY <1>1, Counts DEF AcbThreads
    <3> QED
      BY <3>1, Zenon DEF IInv, EndsForAReason
  <2>2. Files \subseteq source_files
    BY <1>1, <2>1, InEmpty, Zenon DEF IInv, Collected
  <2> QED
    BY <1>1, <2>1, <2>2, Zenon DEF TypeOK
<1>3. ASSUME setting.decode, NEW t \in Tracks PROVE made[t] = 1
  <2>1. 1 \in HcaThreads
    BY <1>1, <1>3, Counts DEF HcaThreads
  <2>2. channel = <<>>
    BY <2>1, Zenon DEF IInv, EndsForAReason
  <2>3. ~Queued(t) /\ ~Sent(t)
    BY <1>2, <2>2, InEmpty, Zenon DEF Queued, Sent
  <2>4. ~Extracts(t)
    <3>1. ASSUME NEW w \in AcbThreads PROVE ~Extracting(t, w)
      <4>1. acb[w].left = 0 /\ acb[w].at = "done"
        BY <1>1, Zenon DEF ThreadsTyped, AcbTyped
      <4> QED
        BY <4>1, HoldsNone, Zenon DEF Extracting, Holds
    <3> QED
      BY <3>1, Zenon DEF Extracts
  <2>5. ~Converts(t)
    BY <1>1, TrackFacts, Zenon DEF Converts, ThreadsTyped, HcaTyped
  <2>6. Made(t)
    BY <1>1, <1>3, <2>3, <2>4, <2>5, Zenon DEF IInv, Lossless, Somewhere
  <2>7. made[t] \in Nat /\ made[t] <= 1
    BY <1>1, Zenon DEF IInv, Apart, TypeOK
  <2> QED
    BY <2>6, <2>7 DEF Made
<1> QED
  BY <1>2, <1>3, Zenon DEF Settled

(* Removals begin when all work is done, and nothing undoes it. *)
LEMMA SettledKept ==
  ASSUME IInv, Next
  PROVE  Removing' => Settled'
<1>1. /\ Types /\ Joined /\ UNCHANGED setting /\ HcaThreads' = HcaThreads
      /\ ~("done" \in Running)
  BY Fixed, Zenon DEF IInv, Next, Running
<1>2. ASSUME NEW w \in AcbThreads, Extractor(w) PROVE ~Removing'
  <2>1. acb[w].at \in Running /\ UNCHANGED <<main, disk>>
    BY <1>1, <1>2, ExtractorMoves, Zenon
  <2> QED
    BY <1>1, <2>1, Zenon DEF IInv, Removing, Settled
<1>3. ASSUME NEW h \in HcaThreads, Converter(h) PROVE ~Removing'
  <2>1. hca[h].at \in Running /\ UNCHANGED <<main, disk>>
    BY <1>1, <1>3, ConverterMoves, Zenon
  <2> QED
    BY <1>1, <2>1, Zenon DEF IInv, Removing, Settled
<1>4. CASE Caller
  <2>1. Settled => Settled'
    <3>1. UNCHANGED <<acb_queue, source_files, first_error, made>>
      BY <1>1, <1>4, CallerMoves, Zenon
    <3>2. /\ \A w \in AcbThreads : acb[w].at = "done" => acb'[w].at = "done"
          /\ \A h \in HcaThreads : hca[h].at = "done" => hca'[h].at = "done"
      BY <1>1, <1>4, CallerMoves, Zenon
    <3> QED
      BY <1>1, <3>1, <3>2, Zenon DEF Settled
  <2>2. CASE Removing
    BY <2>1, <2>2, Zenon DEF IInv
  <2>3. CASE Removing' /\ ~Removing
    <3>1. \/ JoinExtractor /\ main' \in {"remove", "ok"}
          \/ JoinConverter /\ main' \in {"remove", "ok"}
      BY <1>4, <2>3, Zenon DEF Caller, Removing, Spawn, SpawnFails, AllSpawned, JoinExtractor,
                               JoinConverter, RemoveSource
    <3>2. /\ AcbCount \in Nat /\ HcaCount \in Nat /\ handles \in Nat
          /\ ~setting.decode => HcaThreads = {}
      <4>1. /\ AcbCount \in Nat /\ HcaCount \in Nat /\ handles \in 0..Spawned
            /\ ~setting.decode => HcaThreads = {}
        BY <1>1, Counts, Zenon DEF Types, TypeOK
      <4> QED
        BY <4>1 DEF Spawned
    <3>3. CASE JoinExtractor /\ main' \in {"remove", "ok"}
      <4>1. /\ main = "joinAcb" /\ handles < AcbCount
            /\ \A w \in AcbThreads : w <= handles => acb[w].at = "done"
        BY <1>1, <3>3, Zenon DEF JoinExtractor, Joined, JoiningExtractors
      <4>2. handles + 1 \in AcbThreads
        BY <3>2, <4>1 DEF AcbThreads
      <4>3. /\ handles + 1 = AcbCount /\ ~setting.decode /\ ~first_error
            /\ acb[handles + 1].at = "done"
        BY <3>3, <4>1, <4>2, Zenon DEF JoinExtractor, JoinsNext, AfterJoins, Ended
      <4>4. \A w \in AcbThreads : w <= handles \/ w = handles + 1
        BY <3>2, <4>3 DEF AcbThreads
      <4>5. \A w \in AcbThreads : acb[w].at = "done"
        BY <4>1, <4>3, <4>4, Zenon
      <4> QED
        BY <2>1, <3>2, <4>1, <4>3, <4>5, JoinedSettled, Zenon
    <3>4. CASE JoinConverter /\ main' \in {"remove", "ok"}
      <4>1. /\ main = "joinHca" /\ handles < HcaCount
            /\ \A w \in AcbThreads : acb[w].at = "done"
            /\ \A h \in HcaThreads : h <= handles => hca[h].at = "done"
        BY <1>1, <3>4, Zenon DEF JoinConverter, Joined, JoiningConverters
      <4>2. handles + 1 \in HcaThreads
        BY <3>2, <4>1 DEF HcaThreads
      <4>3. handles + 1 = HcaCount /\ ~first_error /\ hca[handles + 1].at = "done"
        BY <3>4, <4>1, <4>2, Zenon DEF JoinConverter, JoinsNext, AfterJoins, Ended
      <4>4. \A h \in HcaThreads : h <= handles \/ h = handles + 1
        BY <3>2, <4>3 DEF HcaThreads
      <4>5. \A h \in HcaThreads : hca[h].at = "done"
        BY <4>1, <4>3, <4>4, Zenon
      <4> QED
        BY <2>1, <4>1, <4>3, <4>5, JoinedSettled, Zenon
    <3> QED
      BY <3>1, <3>3, <3>4, Zenon
  <2> QED
    BY <2>2, <2>3, Zenon
<1> QED
  BY <1>2, <1>3, <1>4, Zenon DEF Next
-----------------------------------------------------------------------------
(* IInv holds initially. *)
LEMMA InitHolds == Init => IInv
<1> SUFFICES ASSUME Init PROVE IInv
  OBVIOUS
<1>1. \A w \in AcbThreads : acb[w].at = "none" /\ acb[w].input = NoInput /\ acb[w].left = 0
  BY Zenon DEF Init
<1>2. \A h \in HcaThreads : hca[h].at = "none" /\ hca[h].track = NoTrack
  BY Zenon DEF Init
<1>3. Types
  <2>1. /\ \A w \in AcbThreads : AcbTyped(acb[w].at, acb[w].input, acb[w].left)
        /\ \A h \in HcaThreads : HcaTyped(hca[h].at, hca[h].track)
    <3>1. 0 \in Nat
      OBVIOUS
    <3> QED
      BY <1>1, <1>2, <3>1, Zenon DEF AcbTyped, HcaTyped
  <2>2. /\ acb \in [AcbThreads -> AcbRecords] /\ hca \in [HcaThreads -> HcaRecords]
    BY DEF Init, AcbRecords, HcaRecords
  <2>3. DataTyped
    <3>1. AcbCount \in Nat /\ HcaCount \in Nat /\ QueueCapacity \in Nat
      BY PipelineAssumption DEF Init, AcbCount, HcaCount, QueueCapacity
    <3>2. /\ handles \in 0..Spawned /\ channel \in Seq(Tracks) /\ Len(channel) <= QueueCapacity
          /\ made \in [Tracks -> Nat]
      BY <3>1 DEF Init, Spawned
    <3> QED
      BY <3>2, PipelineAssumption, Zenon DEF Init, DataTyped
  <2> QED
    BY <2>1, <2>2, <2>3, TypesParts, Zenon DEF ThreadsTyped
<1>4. main = "spawn" /\ handles = 0 /\ acb_queue = Inputs /\ channel = <<>> /\ disk = Files
  BY Zenon DEF Init
<1>5. Joined
  <2>1. /\ \A h \in HcaThreads : 0 < h
        /\ \A w \in AcbThreads : 0 < HcaCount + w
    <3>1. HcaCount \in Nat /\ AcbCount \in Nat
      BY <1>3, Counts, Zenon DEF Types
    <3> QED
      BY <3>1 DEF HcaThreads, AcbThreads
  <2> QED
    BY <1>1, <1>2, <1>4, <2>1, Zenon DEF Joined, Starting, JoiningExtractors, JoiningConverters,
       Failed
<1>6. EndsForAReason
  BY <1>1, <1>2, Zenon DEF EndsForAReason
<1>7. \A i \in InputSet : In(acb_queue, i) /\ Once(acb_queue, i)
  <2>1. \A i \in InputSet : In(Inputs, i)
    BY Zenon DEF In, InputSet
  <2>2. \A i \in InputSet : Once(Inputs, i)
    BY PipelineAssumption, Zenon DEF Once
  <2> QED
    BY <1>4, <2>1, <2>2, Zenon
<1>8. Collected
  BY <1>7, PipelineAssumption, Zenon DEF Collected
<1>9. ASSUME NEW t \in Tracks PROVE Apart(t) /\ Somewhere(t)
  <2>1. t[1] \in InputSet /\ t # NoTrack
    BY TrackFacts, Zenon
  <2>2. made[t] = 0 /\ made[t] <= 1 /\ ~(made[t] > 0)
    <3>1. made[t] = 0
      BY Zenon DEF Init
    <3> QED
      BY <3>1
  <2>3. \A w \in AcbThreads : ~Extracting(t, w)
    BY <1>1, HoldsNone, Zenon DEF Extracting, Holds
  <2>4. Queued(t) /\ ~Extracts(t) /\ ~Sent(t) /\ ~Converts(t) /\ ~Made(t)
    BY <1>2, <1>4, <1>7, <2>1, <2>2, <2>3, InEmpty, Zenon DEF Queued, Extracts, Sent, Converts, Made
  <2> QED
    BY <1>2, <1>4, <1>7, <2>1, <2>2, <2>3, <2>4, InEmpty, Zenon DEF Apart, Somewhere
<1> QED
  BY <1>3, <1>4, <1>5, <1>6, <1>8, <1>9, Zenon DEF IInv, Removing

(* Every step keeps IInv. *)
LEMMA NextKeeps == IInv /\ [Next]_vars => IInv'
<1> SUFFICES ASSUME IInv, [Next]_vars PROVE IInv'
  OBVIOUS
<1>1. CASE Next
  <2>1. Types' /\ Joined'
    BY <1>1, ExtractorTypes, ConverterTypes, CallerTypes, ThreadsJoined, CallerJoined, Zenon
       DEF IInv, Next
  <2>2. EndsForAReason' /\ Collected' /\ (Removing' => Settled')
    BY <1>1, ReasonsKept, CollectedKept, SettledKept, Zenon DEF IInv
  <2>3. \A t \in Tracks : Apart(t)' /\ (Lossless' => Somewhere(t)')
    BY <1>1, TracksKept, Zenon
  <2> QED
    BY <2>1, <2>2, <2>3, Zenon DEF IInv
<1>2. CASE UNCHANGED vars
  <2>1. /\ UNCHANGED setting /\ HcaThreads' = HcaThreads /\ HcaCount' = HcaCount
        /\ Spawned' = Spawned /\ QueueCapacity' = QueueCapacity
    BY <1>2, Fixed, Zenon DEF vars
  <2>2. Types'
    <3>1. DataTyped'
      BY <1>2, <2>1, TypesParts, Zenon DEF IInv, DataTyped, vars
    <3>2. ThreadsTyped'
      BY <1>2, <2>1, TypesParts, Zenon DEF IInv, ThreadsTyped, AcbTyped, HcaTyped, vars
    <3> QED
      BY <3>1, <3>2, TypesParts, PTL
  <2>3. /\ AllStarted' <=> AllStarted
        /\ Alive' = Alive
        /\ Panicked' <=> Panicked
        /\ SenderLeft' <=> SenderLeft
    BY <1>2, <2>1, Zenon DEF AllStarted, Alive, Panicked, SenderLeft, vars
  <2>4. Joined'
    BY <1>2, <2>1, <2>3, Zenon
       DEF IInv, Joined, Starting, JoiningExtractors, JoiningConverters, Failed, vars
  <2>5. EndsForAReason' /\ Collected'
    BY <1>2, <2>1, <2>3, Zenon DEF IInv, EndsForAReason, Collected, vars
  <2>6. ASSUME NEW t \in Tracks PROVE Apart(t)' /\ (Lossless' => Somewhere(t)')
    <3>1. \A w \in AcbThreads : Extracting(t, w)' <=> Extracting(t, w)
      BY <1>2, Zenon DEF Extracting, vars
    <3>2. /\ Queued(t)' <=> Queued(t)
          /\ Extracts(t)' <=> Extracts(t)
          /\ Sent(t)' <=> Sent(t)
          /\ Converts(t)' <=> Converts(t)
          /\ Made(t)' <=> Made(t)
          /\ Lossless' <=> Lossless
      BY <1>2, <2>1, <2>3, <3>1, Zenon DEF Queued, Extracts, Sent, Converts, Made, Lossless, vars
    <3>3. Apart(t)'
      BY <1>2, <2>1, <3>1, <3>2, Zenon DEF IInv, Apart, vars
    <3> QED
      BY <3>2, <3>3, Zenon DEF IInv, Somewhere
  <2>7. Removing' => Settled'
    BY <1>2, <2>1, Zenon DEF IInv, Removing, Settled, vars
  <2> QED
    BY <2>2, <2>4, <2>5, <2>6, <2>7, Zenon DEF IInv
<1> QED
  BY <1>1, <1>2, Zenon

(* A track has one place at most. *)
LEMMA OnePlace ==
  ASSUME IInv, NEW t \in Tracks
  PROVE  \A p, q \in Places(t) : p = q
<1>1. Apart(t) /\ made[t] \in Nat
  BY Zenon DEF IInv, Types, TypeOK
<1>2. \A k \in 1..made[t] : k = 1 /\ Made(t)
  BY <1>1 DEF Apart, Made
<1>3. ASSUME NEW p \in Places(t)
      PROVE  \/ Queued(t) /\ \E i \in 1..Len(acb_queue) : p = <<"queued", i>> /\ acb_queue[i] = t[1]
             \/ Extracts(t) /\ \E w \in AcbThreads : p = <<"extracting", w>> /\ Extracting(t, w)
             \/ Sent(t) /\ \E i \in 1..Len(channel) : p = <<"channel", i>> /\ channel[i] = t
             \/ Converts(t) /\ \E h \in HcaThreads : p = <<"converting", h>> /\ hca[h].track = t
             \/ Made(t) /\ p = <<"made", 1>>
  BY <1>2, Zenon DEF Places, Queued, In, Extracts, Extracting, Sent, Converts
<1> SUFFICES ASSUME NEW p \in Places(t), NEW q \in Places(t) PROVE p = q
  BY Zenon
<1>4. CASE Queued(t)
  BY <1>1, <1>3, <1>4, Zenon DEF Apart, Once
<1>5. CASE Extracts(t)
  BY <1>1, <1>3, <1>5, Zenon DEF Apart
<1>6. CASE Sent(t)
  BY <1>1, <1>3, <1>6, Zenon DEF Apart, Once
<1>7. CASE Converts(t)
  BY <1>1, <1>3, <1>7, Zenon DEF Apart
<1>8. CASE Made(t)
  BY <1>1, <1>3, <1>8, Zenon DEF Apart
<1> QED
  BY <1>3, <1>4, <1>5, <1>6, <1>7, <1>8, Zenon

(* As long as nothing fails it has one. *)
LEMMA SomePlace ==
  ASSUME IInv, NEW t \in Tracks, Lossless
  PROVE  Places(t) # {}
<1>1. Somewhere(t) /\ made[t] \in Nat
  BY Zenon DEF IInv, Types, TypeOK
<1>2. Made(t) => 1 \in 1..made[t]
  BY <1>1 DEF Made
<1> QED
  BY <1>1, <1>2, Zenon DEF Somewhere, Queued, In, Extracts, Extracting, Sent, Converts, Places

(* Whatever fails, and in whatever order the threads run, the containers   *)
(* stay on disk until every track was converted once.                      *)
THEOREM SourcesOutlive == Spec => []SourcesOutliveTracks
<1>1. IInv => SourcesOutliveTracks
  BY AllDone, Zenon DEF IInv, Removing, Settled, SourcesOutliveTracks
<1> QED
  BY <1>1, InitHolds, NextKeeps, PTL DEF Spec

(* No track is lost or handled twice between the two pools of threads.     *)
THEOREM TracksAreConserved == Spec => []TracksConserved
<1>1. IInv => TracksConserved
  BY OnePlace, SomePlace, Zenon DEF IInv, Types, TracksConserved, Lossless
<1> QED
  BY <1>1, InitHolds, NextKeeps, PTL DEF Spec

(* An error is returned only when no thread is left that writes files.     *)
THEOREM QuietOnEveryReturn == Spec => []QuietOnReturn
<1>1. IInv => QuietOnReturn
  BY AllDone, Zenon DEF IInv, Joined, Failed, Removing, Settled, QuietOnReturn, Returned
<1> QED
  BY <1>1, InitHolds, NextKeeps, PTL DEF Spec
==============================================================================
