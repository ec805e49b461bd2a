--------------------------- MODULE HipSessionProofs ---------------------------
(***************************************************************************)
(* CommitCovers for every batch, window, queue and number of failures.     *)
(*                                                                         *)
(* The property speaks of the client's phase and of the gateway's files.   *)
(* What lies between them are frames, so the invariant is about these:     *)
(* one BEGIN per file, an answer only for what the gateway did, a COMMIT   *)
(* only when every upload was answered well.                               *)
(***************************************************************************)
EXTENDS HipSession, FiniteSetTheorems, TLAPS

(* Frames on their way. *)
In(s, x) == \E i \in 1..Len(s) : s[i] = x
Once(s, x) == \A i, j \in 1..Len(s) : s[i] = x /\ s[j] = x => i = j

(* The frames of each side. *)
ClientFrames ==
  ({"BEGIN", "CHUNK", "END"} \X Files) \cup ({"COMMIT", "PONG", "BYE"} \X {NoFile})
ServerFrames ==
  ({"ACK", "ACK_PRESENT", "ACK_BAD"} \X Files)
    \cup ({"COMMIT_ACK", "WINDOW", "PING", "ERROR", "FATAL"} \X {NoFile})
FramesOK ==
  queue \in Seq(ClientFrames) /\ wire \in Seq(ClientFrames) /\ inbox \in Seq(ServerFrames)

(* upload_stream sends one BEGIN, and the chunks that are left. *)
Upload(f) ==
  LET begin == <<"BEGIN", f>> IN
  /\ job[f] \in {"pending", "begin"} => stream[f] = "none"
  /\ In(queue, begin) \/ In(wire, begin) =>
       stream[f] = "none" /\ job[f] \notin {"pending", "begin"}
  /\ ~(In(queue, begin) /\ In(wire, begin)) /\ Once(queue, begin) /\ Once(wire, begin)
  /\ job[f] \in {"pending", "begin", "peek"} => left[f] = Size
  /\ job[f] = "chunk" => left[f] > 0

(* An answer tells what the gateway did, from the frame to the job. *)
Told(f) ==
  /\ In(inbox, <<"ACK", f>>) \/ reply[f] = "OK" => stream[f] = "stored"
  /\ In(inbox, <<"ACK_PRESENT", f>>) \/ reply[f] = "PRESENT" => f \in Present
  /\ f \in upload_waiters => reply[f] = "none"
  /\ job[f] = "pending" => reply[f] = "none" /\ f \notin upload_waiters
  /\ job[f] = "ok" => reply[f] \in {"OK", "PRESENT"}

(* Every upload was answered well; COMMIT is on its way. *)
AllOk == \A f \in Files : job[f] = "ok"
CommitSent == In(queue, <<"COMMIT", NoFile>>) \/ In(wire, <<"COMMIT", NoFile>>)

(* COMMIT and its answer. *)
Commits ==
  /\ phase = "uploading" => ~CommitSent /\ ~committed /\ \A f \in Files : job[f] # "aborted"
  /\ CommitSent \/ committed \/ phase \in {"commit", "commitWait", "close", "closed"} => AllOk
  /\ In(inbox, <<"COMMIT_ACK", NoFile>>) \/ commit_reply = "OK" \/ phase \in {"close", "closed"} =>
       committed

(* The jobs that upload_hip_files_concurrently counts, those it gave up included. *)
Busy == {f \in Files : job[f] \in Active \cup {"err", "aborted"}}

(* The inductive invariant. *)
HipInv ==
  /\ TypeOK /\ FramesOK
  /\ \A f \in Files : Upload(f) /\ Told(f)
  /\ Commits
  /\ Cardinality(Busy) <= MaxInFlight
--------------------------------------------------------------------------------
(* What is in a sequence after a frame was added at its end ... *)
LEMMA InAppend ==
  ASSUME NEW S, NEW s \in Seq(S), NEW y \in S
  PROVE  /\ Append(s, y) \in Seq(S)
         /\ \A x : In(Append(s, y), x) <=> In(s, x) \/ x = y
         /\ \A x : Once(s, x) /\ (x = y => ~In(s, x)) => Once(Append(s, y), x)
<1>1. /\ Append(s, y) \in Seq(S) /\ Len(Append(s, y)) = Len(s) + 1 /\ Len(s) \in Nat
      /\ Append(s, y)[Len(s) + 1] = y
      /\ \A i \in 1..Len(s) : Append(s, y)[i] = s[i]
  OBVIOUS
<1> DEFINE t == Append(s, y)
<1> HIDE DEF t
<1>2. \A x : In(t, x) <=> In(s, x) \/ x = y
  BY <1>1 DEF t, In
<1>3. ASSUME NEW x, Once(s, x), x = y => ~In(s, x) PROVE Once(t, x)
  <2> SUFFICES ASSUME NEW i \in 1..Len(t), NEW j \in 1..Len(t), t[i] = x, t[j] = x PROVE i = j
    BY Zenon DEF Once
  <2>1. \A k \in 1..Len(t) : k \in 1..Len(s) \/ k = Len(s) + 1
    BY <1>1 DEF t
  <2>2. CASE i \in 1..Len(s) /\ j \in 1..Len(s)
    BY <1>1, <1>3, <2>2, Zenon DEF Once, t
  <2>3. CASE i = Len(s) + 1 \/ j = Len(s) + 1
    BY <1>1, <1>3, <2>1, <2>3, Zenon DEF In, t
  <2> QED
    BY <2>1, <2>2, <2>3, Zenon
<1> QED
  BY <1>1, <1>2, <1>3, Zenon DEF t

(* ... and after its first one was taken. *)
LEMMA InTail ==
  ASSUME NEW S, NEW s \in Seq(S), s # <<>>
  PROVE  /\ Tail(s) \in Seq(S) /\ Head(s) \in S /\ In(s, Head(s))
         /\ \A x : In(Tail(s), x) => In(s, x)
         /\ \A x : Once(s, x) => Once(Tail(s), x) /\ (x = Head(s) => ~In(Tail(s), x))
<1>1. /\ Tail(s) \in Seq(S) /\ Len(s) \in Nat \ {0} /\ Len(Tail(s)) = Len(s) - 1
      /\ Head(s) = s[1] /\ Head(s) \in S
      /\ \A i \in 1..(Len(s) - 1) : Tail(s)[i] = s[i + 1]
  OBVIOUS
<1> DEFINE t == Tail(s)
<1> HIDE DEF t
<1>2. In(s, Head(s))
  BY <1>1 DEF In
<1>3. \A i \in 1..Len(t) : i + 1 \in 1..Len(s) /\ t[i] = s[i + 1] /\ i + 1 # 1 /\ i \in Nat
  BY <1>1 DEF t
<1>4. \A x : In(t, x) => In(s, x)
  BY <1>3, Zenon DEF In
<1>5. ASSUME NEW x, Once(s, x) PROVE Once(t, x) /\ (x = Head(s) => ~In(t, x))
  <2>1. ASSUME NEW i \in 1..Len(t), NEW j \in 1..Len(t), t[i] = x, t[j] = x PROVE i = j
    <3>1. i + 1 = j + 1
      BY <1>3, <1>5, <2>1, Zenon DEF Once
    <3> QED
      BY <1>3, <3>1
  <2>2. ASSUME x = Head(s), NEW i \in 1..Len(t), t[i] = x PROVE FALSE
    <3>1. i + 1 = 1
      BY <1>1, <1>3, <1>5, <2>2 DEF Once
    <3> QED
      BY <1>3, <3>1, Zenon
  <2> QED
    BY <2>1, <2>2, Zenon DEF Once, In
<1> QED
  BY <1>1, <1>2, <1>4, <1>5, Zenon DEF t

(* Nothing is in an empty queue. *)
LEMMA InEmpty == \A x : ~In(<<>>, x) /\ Once(<<>>, x)
BY DEF In, Once
--------------------------------------------------------------------------------
(* What a frame is. *)
LEMMA FrameKinds ==
  /\ \A f \in Files : /\ <<"BEGIN", f>> \in ClientFrames /\ <<"CHUNK", f>> \in ClientFrames
                       /\ <<"END", f>> \in ClientFrames
                       /\ <<"ACK", f>> \in ServerFrames /\ <<"ACK_PRESENT", f>> \in ServerFrames
                       /\ <<"ACK_BAD", f>> \in ServerFrames
  /\ \A type \in {"COMMIT", "PONG", "BYE"} : <<type, NoFile>> \in ClientFrames
  /\ \A type \in {"COMMIT_ACK", "WINDOW", "PING", "ERROR", "FATAL"} :
       <<type, NoFile>> \in ServerFrames
  /\ \A x \in ClientFrames : /\ x = <<x[1], x[2]>>
                             /\ x[1] \in {"BEGIN", "CHUNK", "END"} => x[2] \in Files
                             /\ x[1] \notin {"BEGIN", "CHUNK", "END"} => x[2] = NoFile
  /\ \A x \in ServerFrames : /\ x = <<x[1], x[2]>>
                             /\ x[1] \in {"ACK", "ACK_PRESENT", "ACK_BAD"} => x[2] \in Files
                             /\ x[1] \notin {"ACK", "ACK_PRESENT", "ACK_BAD"} => x[2] = NoFile
BY DEF ClientFrames, ServerFrames

(* send_frame, as the queue sees it. *)
LEMMA Sent ==
  ASSUME FramesOK, NEW type, NEW f, Send(type, f), <<type, f>> \in ClientFrames
  PROVE  /\ queue' \in Seq(ClientFrames) /\ Len(queue') <= QueueCap
         /\ \A x : In(queue', x) <=> In(queue, x) \/ x = <<type, f>>
         /\ \A x : Once(queue, x) /\ (x = <<type, f>> => ~In(queue, x)) => Once(queue', x)
<1>1. queue' = Append(queue, <<type, f>>) /\ Len(queue) < QueueCap /\ queue \in Seq(ClientFrames)
  BY Zenon DEF Send, CanSend, FramesOK
<1>2. Len(queue') <= QueueCap
  BY <1>1, LimitsAssumption
<1> QED
  BY <1>1, <1>2, InAppend, Zenon

(* The gateway's answer, as the inbox sees it. *)
LEMMA Answers ==
  ASSUME FramesOK, NEW type, NEW f, Answer(type, f), <<type, f>> \in ServerFrames
  PROVE  /\ inbox' \in Seq(ServerFrames)
         /\ \A x : In(inbox', x) <=> In(inbox, x) \/ x = <<type, f>>
BY InAppend, Zenon DEF Answer, FramesOK

(* The writer. *)
LEMMA Wrote ==
  ASSUME FramesOK, Write
  PROVE  /\ queue' \in Seq(ClientFrames) /\ wire' \in Seq(ClientFrames) /\ Len(queue') <= Len(queue)
         /\ \A x : In(queue', x) => In(queue, x)
         /\ \A x : In(wire', x) => In(wire, x) \/ In(queue, x)
         /\ \A x : Once(queue, x) /\ Once(wire, x) /\ ~(In(queue, x) /\ In(wire, x)) =>
                    Once(queue', x) /\ Once(wire', x) /\ ~(In(queue', x) /\ In(wire', x))
<1>1. /\ queue \in Seq(ClientFrames) /\ wire \in Seq(ClientFrames) /\ queue # <<>>
      /\ queue' = Tail(queue) /\ wire' \in {wire, Append(wire, Head(queue))}
  BY Zenon DEF Write, FramesOK
<1>2. /\ queue' \in Seq(ClientFrames) /\ Head(queue) \in ClientFrames /\ In(queue, Head(queue))
      /\ \A x : In(queue', x) => In(queue, x)
      /\ \A x : Once(queue, x) => Once(queue', x) /\ (x = Head(queue) => ~In(queue', x))
  BY <1>1, InTail, Zenon
<1>3. Len(queue') <= Len(queue)
  BY <1>1
<1>4. CASE wire' = wire
  BY <1>1, <1>2, <1>3, <1>4, Zenon
<1>5. CASE wire' = Append(wire, Head(queue))
  <2>1. /\ wire' \in Seq(ClientFrames)
        /\ \A x : In(wire', x) <=> In(wire, x) \/ x = Head(queue)
        /\ \A x : Once(wire, x) /\ (x = Head(queue) => ~In(wire, x)) => Once(wire', x)
    BY <1>1, <1>2, <1>5, InAppend
  <2> QED
    BY <1>2, <1>3, <2>1, Zenon
<1> QED
  BY <1>1, <1>4, <1>5, Zenon

(* The gateway takes a frame off the wire. *)
LEMMA Took ==
  ASSUME FramesOK, ServerReads
  PROVE  /\ wire' \in Seq(ClientFrames) /\ Head(wire) \in ClientFrames /\ In(wire, Head(wire))
         /\ \A x : In(wire', x) => In(wire, x)
         /\ \A x : Once(wire, x) => Once(wire', x) /\ (x = Head(wire) => ~In(wire', x))
BY InTail, Zenon DEF ServerReads, FramesOK

(* The reader takes a frame off the inbox. *)
LEMMA Heard ==
  ASSUME FramesOK, Read
  PROVE  /\ inbox' \in Seq(ServerFrames) /\ Head(inbox) \in ServerFrames /\ In(inbox, Head(inbox))
         /\ \A x : In(inbox', x) => In(inbox, x)
BY InTail, Zenon DEF Read, FramesOK
--------------------------------------------------------------------------------
(* Every step keeps the types. *)
LEMMA TypeStep ==
  ASSUME HipInv, [Next]_vars
  PROVE  TypeOK' /\ FramesOK'
<1> USE DEF TypeOK, FramesOK, Active, OnFrames
<1>0. TypeOK /\ FramesOK
  BY Zenon DEF HipInv
<1> USE <1>0
<1>1. CASE ClientNext
  <2>1. ASSUME NEW f \in Files, Register(f) PROVE TypeOK' /\ FramesOK'
    BY <2>1, Zenon DEF Register, JobMoves, NoFault, tasks, gateway
  <2>2. ASSUME NEW f \in Files, SendBegin(f) PROVE TypeOK' /\ FramesOK'
    BY <2>2, Sent, FrameKinds, Zenon DEF SendBegin, JobMoves, NoFault, reply_channels, tasks,
       gateway
  <2>3. ASSUME NEW f \in Files, Replied(f) \/ PeekElapsed(f) \/ SendFails(f)
        PROVE TypeOK' /\ FramesOK'
    <3>1. \E to \in {"ok", "err", "chunk"} : job' = [job EXCEPT ![f] = to]
      BY <2>3, Zenon DEF Replied, PeekElapsed, SendFails, JobMoves
    <3>2. UNCHANGED <<phase, left, reply_channels, queue, tasks, wire, inbox, gateway, faults>>
      BY <2>3, Zenon DEF Replied, PeekElapsed, SendFails, NoFault
    <3> QED
      BY <3>1, <3>2 DEF reply_channels, tasks, gateway
  <2>4. ASSUME NEW f \in Files, SendChunk(f) PROVE TypeOK' /\ FramesOK'
    <3>1. left[f] \in 0..Size /\ left[f] > 0
      BY <2>4, Zenon DEF SendChunk, JobMoves, HipInv, Upload
    <3>2. left' \in [Files -> 0..Size]
      BY <2>4, <3>1, LimitsAssumption DEF SendChunk
    <3> QED
      BY <2>4, <3>2, Sent, FrameKinds, Zenon DEF SendChunk, JobMoves, NoFault, reply_channels,
         tasks,
         gateway
  <2>5. ASSUME NEW f \in Files, SendEnd(f) PROVE TypeOK' /\ FramesOK'
    BY <2>5, Sent, FrameKinds, Zenon DEF SendEnd, JobMoves, NoFault, reply_channels, tasks, gateway
  <2>6. ASSUME NEW f \in Files, UploadTimeout(f) \/ LocalError(f) PROVE TypeOK' /\ FramesOK'
    <3>1. /\ job' = [job EXCEPT ![f] = "err"]
          /\ NoFault \/ \E kind : Fault(kind)
          /\ UNCHANGED <<phase, left, reply_channels, queue, tasks, wire, inbox, gateway>>
      BY <2>6, Zenon DEF UploadTimeout, LocalError, Overdue, JobMoves
    <3>2. faults' = faults \/ (faults > 0 /\ faults' = faults - 1)
      BY <3>1, Zenon DEF Fault, NoFault
    <3>3. faults' \in 0..MaxFaults
      BY <3>2, LimitsAssumption
    <3>4. job' \in [Files -> {"pending", "ok", "err", "aborted"} \cup Active]
      BY <3>1, Zenon
    <3> QED
      BY <3>1, <3>3, <3>4 DEF reply_channels, tasks, gateway
  <2>7. CASE JoinFailed
    <3>1. job' \in [Files -> {"pending", "ok", "err", "aborted"} \cup Active]
      BY <2>7, Zenon DEF JoinFailed
    <3> QED
      BY <2>7, <3>1, Zenon DEF JoinFailed, NoFault, reply_channels, tasks, gateway
  <2>8. CASE Commit
    BY <2>8, Zenon DEF Commit, NoFault, tasks, gateway
  <2>9. CASE SendCommit
    BY <2>9, Sent, FrameKinds, Zenon DEF SendCommit, NoFault, reply_channels, tasks, gateway
  <2>10. CASE CommitReplied \/ CommitTimeout
    BY <2>10, LimitsAssumption DEF CommitReplied, CommitTimeout, Overdue, Fault, NoFault,
       reply_channels, tasks, gateway
  <2>11. CASE Close
    BY <2>11, Sent, FrameKinds, Zenon DEF Close, NoFault, reply_channels, gateway
  <2> QED
    BY <1>1, <2>1, <2>2, <2>3, <2>4, <2>5, <2>6, <2>7, <2>8, <2>9, <2>10, <2>11,
       Zenon DEF ClientNext
<1>2. CASE Write
  <2>1. /\ queue' \in Seq(ClientFrames) /\ wire' \in Seq(ClientFrames) /\ Len(queue') <= Len(queue)
        /\ Len(queue) \in Nat /\ Len(queue') \in Nat
    BY <1>2, Wrote
  <2>2. Len(queue') <= QueueCap
    BY <2>1, LimitsAssumption
  <2> QED
    BY <1>2, <2>1, <2>2 DEF Write, NoFault, client, reply_channels, tasks, gateway
<1>3. CASE WriterEnds
  BY <1>3, LimitsAssumption DEF WriterEnds, NoFault, client, reply_channels, gateway
<1>4. CASE Read
  <2>1. inbox' \in Seq(ServerFrames) /\ Head(inbox) \in ServerFrames
    BY <1>4, Heard, Zenon
  <2>2. /\ upload_waiters' \subseteq Files
        /\ reply' \in [Files -> {"none", "OK", "PRESENT", "BAD", "dropped"}]
        /\ commit_waiter' \in BOOLEAN /\ commit_reply' \in {"none", "OK", "dropped"}
        /\ reader' \in {"run", "pong", "dead"}
    BY <1>4, <2>1, FrameKinds, ZenonT(60) DEF Read, Dispatch, FailAllWaiters, Status, reply_channels
  <2> QED
    BY <1>4, <2>1, <2>2, Zenon DEF Read, NoFault, client, gateway
<1>5. CASE SendPong
  <2>1. UNCHANGED <<client, writer, wire, inbox, gateway, faults>> /\ reader' \in {"run", "dead"}
    BY <1>5, Zenon DEF SendPong, NoFault
  <2>2. queue' \in Seq(ClientFrames) /\ Len(queue') <= QueueCap
    BY <1>5, Sent, FrameKinds, Zenon DEF SendPong
  <2>3. /\ upload_waiters' \subseteq Files
        /\ reply' \in [Files -> {"none", "OK", "PRESENT", "BAD", "dropped"}]
        /\ commit_waiter' \in BOOLEAN /\ commit_reply' \in {"none", "OK", "dropped"}
    BY <1>5, Zenon DEF SendPong, FailAllWaiters, reply_channels
  <2> QED
    BY <2>1, <2>2, <2>3, Zenon DEF client, gateway
<1>6. CASE ReaderEof
  BY <1>6, Zenon DEF ReaderEof, FailAllWaiters, NoFault, client, gateway
<1>7. CASE ServerReads
  <2>1. wire' \in Seq(ClientFrames) /\ Head(wire) \in ClientFrames
    BY <1>7, Took, Zenon
  <2>2. /\ inbox' \in Seq(ServerFrames) /\ server' \in {"run", "stalled", "closed"}
        /\ stream' \in [Files -> {"none", "open", "stored", "refused"}]
        /\ committed' \in BOOLEAN /\ faults' \in 0..MaxFaults
    <3> DEFINE frame == Head(wire)
    <3> HIDE DEF frame
    <3>1. Receive(frame) /\ frame \in ClientFrames
      BY <1>7, <2>1, Zenon DEF ServerReads, frame
    <3>2. frame[1] \in {"BEGIN", "CHUNK", "END"} => frame[2] \in Files
      BY <3>1, FrameKinds, Zenon
    <3>3. /\ server' \in {"run", "stalled", "closed"} /\ committed' \in BOOLEAN
          /\ faults' \in 0..MaxFaults
      <4>1. faults' = faults \/ Fault("reject")
        BY <3>1, Zenon DEF Receive, NoFault
      <4>2. committed' = committed \/ committed' = TRUE
        BY <3>1, Zenon DEF Receive
      <4>3. server' = server \/ server' = "closed"
        BY <3>1, Zenon DEF Receive
      <4>4. faults' \in 0..MaxFaults
        BY <4>1, LimitsAssumption DEF Fault
      <4>5. committed' \in BOOLEAN
        BY <4>2, Zenon
      <4> QED
        BY <4>3, <4>4, <4>5, Zenon
    <3>4. stream' \in [Files -> {"none", "open", "stored", "refused"}]
      <4>1. \/ UNCHANGED stream
            \/ /\ frame[2] \in Files
               /\ \E to \in {"open", "stored", "refused"} :
                    stream' = [stream EXCEPT ![frame[2]] = to]
        BY <3>1, <3>2, Zenon DEF Receive
      <4> QED
        BY <4>1, Zenon
    <3>5. \/ UNCHANGED inbox \/ Answer("COMMIT_ACK", NoFile)
          \/ \E type \in {"ACK", "ACK_PRESENT", "ACK_BAD"} :
               frame[2] \in Files /\ Answer(type, frame[2])
      BY <3>1, <3>2, Zenon DEF Receive
    <3>6. inbox' \in Seq(ServerFrames)
      BY <3>5, Answers, FrameKinds, Zenon
    <3> QED
      BY <3>3, <3>4, <3>6, Zenon
  <2> QED
    BY <1>7, <2>1, <2>2, Zenon DEF ServerReads, client, reply_channels, tasks
<1>8. CASE ServerActs
  <2>1. inbox' \in Seq(ServerFrames)
    BY <1>8, Answers, FrameKinds, Zenon DEF ServerActs
  <2> QED
    BY <1>8, <2>1, LimitsAssumption DEF ServerActs, Fault, client, reply_channels, tasks
<1>9. CASE UNCHANGED vars
  BY <1>9 DEF vars, client, reply_channels, tasks, gateway
<1> QED
  BY <1>1, <1>2, <1>3, <1>4, <1>5, <1>6, <1>7, <1>8, <1>9, Zenon DEF Next, WriterNext, ReaderNext
--------------------------------------------------------------------------------
(* A step of one upload. *)
FileNext(f) ==
  \/ Register(f) \/ SendBegin(f) \/ Replied(f) \/ PeekElapsed(f)
  \/ SendChunk(f) \/ SendEnd(f) \/ SendFails(f) \/ LocalError(f) \/ UploadTimeout(f)

(* What such a step may do: it registers, announces the file, or goes on. *)
LEMMA FileSteps ==
  ASSUME HipInv, NEW f \in Files, FileNext(f)
  PROVE  /\ phase = "uploading"
         /\ UNCHANGED <<phase, reply, commit_waiter, commit_reply, tasks, wire, inbox, gateway>>
         /\ \E to : job' = [job EXCEPT ![f] = to]
         /\ \A g \in Files : g # f => left'[g] = left[g]
         /\ \/ /\ job[f] = "pending" /\ job'[f] = "begin"
               /\ SlotFree /\ upload_waiters' = upload_waiters \cup {f}
               /\ UNCHANGED <<left, queue>>
            \/ /\ job[f] = "pending" /\ job'[f] = "err" /\ SlotFree
               /\ UNCHANGED <<left, queue, upload_waiters>>
            \/ /\ job[f] = "begin" /\ job'[f] = "peek"
               /\ Send("BEGIN", f)
               /\ UNCHANGED <<left, upload_waiters>>
            \/ /\ job[f] \in Active /\ job'[f] \in {"chunk", "end", "wait", "ok", "err"}
               /\ job'[f] = "ok" => reply[f] \in {"OK", "PRESENT"}
               /\ job'[f] = "chunk" => left'[f] > 0
               /\ UNCHANGED queue \/ Send("CHUNK", f) \/ Send("END", f)
               /\ UNCHANGED upload_waiters
<1> USE DEF JobMoves, reply_channels
<1>0. /\ job \in [Files -> {"pending", "ok", "err", "aborted"} \cup Active]
      /\ left \in [Files -> 0..Size] /\ Size \in Nat \ {0} /\ Upload(f)
  BY LimitsAssumption, Zenon DEF HipInv, TypeOK
<1>1. CASE Register(f)
  BY <1>0, <1>1, Zenon DEF Register
<1>2. CASE SendBegin(f)
  BY <1>0, <1>2, Zenon DEF SendBegin
<1>3. CASE Replied(f)
  <2>0. job[f] \in Active /\ UNCHANGED <<left, queue>>
    BY <1>3, Zenon DEF Replied, Active, OnFrames
  <2>1. CASE reply[f] \in {"OK", "PRESENT"}
    <3>1. job' = [job EXCEPT ![f] = "ok"]
      BY <1>3, <2>1, Zenon DEF Replied, Accepts
    <3>2. job'[f] = "ok"
      BY <1>0, <3>1, Zenon
    <3> QED
      BY <1>3, <2>0, <2>1, <3>1, <3>2, Zenon DEF Replied
  <2>2. CASE reply[f] \notin {"OK", "PRESENT"}
    <3>1. job' = [job EXCEPT ![f] = "err"]
      BY <1>3, <2>2, Zenon DEF Replied, Accepts
    <3>2. job'[f] = "err"
      BY <1>0, <3>1, Zenon
    <3> QED
      BY <1>3, <2>0, <3>1, <3>2, Zenon DEF Replied
  <2> QED
    BY <2>1, <2>2, Zenon
<1>4. CASE PeekElapsed(f)
  <2>1. job[f] = "peek" /\ job' = [job EXCEPT ![f] = "chunk"] /\ UNCHANGED left
    BY <1>4, Zenon DEF PeekElapsed
  <2>2. job'[f] = "chunk" /\ left'[f] > 0
    BY <1>0, <2>1 DEF Upload
  <2> QED
    BY <1>4, <2>1, <2>2, Zenon DEF PeekElapsed, Active, OnFrames
<1>5. CASE SendChunk(f)
  <2>1. job[f] = "chunk" /\ left[f] > 0
    BY <1>0, <1>5, Zenon DEF SendChunk, Upload
  <2>2. \E to \in {"chunk", "end"} : job' = [job EXCEPT ![f] = to]
    BY <1>5, Zenon DEF SendChunk
  <2>3. job'[f] \in {"chunk", "end"} /\ (job'[f] = "chunk" => left'[f] > 0)
    BY <1>0, <1>5, <2>1 DEF SendChunk
  <2>4. \A g \in Files : g # f => left'[g] = left[g]
    BY <1>0, <1>5, Zenon DEF SendChunk
  <2> QED
    BY <1>5, <2>1, <2>2, <2>3, <2>4, Zenon DEF SendChunk, Active, OnFrames
<1>6. CASE SendEnd(f)
  BY <1>0, <1>6, Zenon DEF SendEnd, Active, OnFrames
<1>7. CASE SendFails(f)
  BY <1>0, <1>7, Zenon DEF SendFails, Active, OnFrames
<1>8. CASE UploadTimeout(f)
  BY <1>0, <1>8, Zenon DEF UploadTimeout, Active, OnFrames
<1>9. CASE LocalError(f)
  <2>1. /\ job' = [job EXCEPT ![f] = "err"] /\ job'[f] = "err"
        /\ (job[f] = "pending" /\ SlotFree) \/ job[f] \in {"chunk", "end"}
    BY <1>0, <1>9, Zenon DEF LocalError
  <2> QED
    BY <1>9, <2>1, Zenon DEF LocalError, Active, OnFrames
<1> QED
  BY <1>1, <1>2, <1>3, <1>4, <1>5, <1>6, <1>7, <1>8, <1>9, Zenon DEF FileNext

(* The steps of flush_batch beside the uploads ... *)
BatchNext == JoinFailed \/ Commit \/ SendCommit \/ CommitReplied \/ CommitTimeout \/ Close

(* ... and which there are. *)
LEMMA Steps ==
  [Next]_vars =>
    \/ \E f \in Files : FileNext(f)
    \/ BatchNext \/ Write \/ WriterEnds \/ Read \/ SendPong \/ ReaderEof
    \/ ServerReads \/ ServerActs \/ UNCHANGED vars
BY Zenon DEF Next, ClientNext, WriterNext, ReaderNext, FileNext, BatchNext

(* What flush_batch does beside the uploads. *)
LEMMA BatchSteps ==
  ASSUME HipInv, BatchNext
  PROVE  /\ UNCHANGED <<left, upload_waiters, reply, wire, inbox, server, stream, committed>>
         /\ \/ UNCHANGED queue
            \/ Send("COMMIT", NoFile) /\ phase = "commit"
            \/ Send("BYE", NoFile)
         /\ \/ UNCHANGED job
            \/ /\ phase = "uploading" /\ phase' = "failed" /\ UNCHANGED queue
               /\ \A g \in Files : \/ job[g] \in Active /\ job'[g] = "aborted"
                                   \/ job[g] \notin Active /\ job'[g] = job[g]
<1> USE DEF reply_channels, gateway
<1>1. CASE JoinFailed
  <2>1. \A g \in Files : \/ job[g] \in Active /\ job'[g] = "aborted"
                         \/ job[g] \notin Active /\ job'[g] = job[g]
    BY <1>1, Zenon DEF JoinFailed
  <2> QED
    BY <1>1, <2>1, Zenon DEF JoinFailed
<1>2. CASE Commit \/ SendCommit \/ CommitReplied \/ CommitTimeout \/ Close
  BY <1>2, Zenon DEF Commit, SendCommit, CommitReplied, CommitTimeout, Close
<1> QED
  BY <1>1, <1>2, Zenon DEF BatchNext
--------------------------------------------------------------------------------
(* Every step keeps the order of an upload. *)
LEMMA UploadStep ==
  ASSUME HipInv, [Next]_vars, NEW g \in Files
  PROVE  Upload(g)'
<1> DEFINE begin == <<"BEGIN", g>>
<1>0. /\ TypeOK /\ FramesOK /\ Upload(g)
      /\ job \in [Files -> {"pending", "ok", "err", "aborted"} \cup Active]
      /\ stream \in [Files -> {"none", "open", "stored", "refused"}]
  BY Zenon DEF HipInv, TypeOK
<1>1. ASSUME NEW f \in Files, FileNext(f) PROVE Upload(g)'
  <2>1. /\ UNCHANGED <<wire, stream>> /\ \E to : job' = [job EXCEPT ![f] = to]
        /\ g # f => left'[g] = left[g]
    BY <1>1, FileSteps, Zenon DEF gateway
  <2>2. g # f => job'[g] = job[g]
    BY <1>0, <2>1, Zenon
  <2>3. ASSUME UNCHANGED queue \/ \E type : Send(type, f) /\ <<type, f>> # begin
                                           /\ <<type, f>> \in ClientFrames
        PROVE  /\ In(queue', begin) <=> In(queue, begin)
               /\ Once(queue, begin) => Once(queue', begin)
    BY <1>0, <2>3, Sent, Zenon
  <2>4. CASE g # f
    <3>1. UNCHANGED queue \/ \E type \in {"BEGIN", "CHUNK", "END"} : Send(type, f)
      BY <1>1, FileSteps, Zenon
    <3>2. (In(queue', begin) <=> In(queue, begin)) /\ (Once(queue, begin) => Once(queue', begin))
      BY <2>3, <2>4, <3>1, FrameKinds, Zenon
    <3> QED
      BY <1>0, <2>1, <2>2, <2>4, <3>2, Zenon DEF Upload
  <2>5. CASE g = f
    <3>1. CASE job[f] = "begin" /\ job'[f] = "peek" /\ Send("BEGIN", f) /\ UNCHANGED left
      <4>1. In(queue', begin) /\ ~In(wire, begin) /\ Once(queue', begin)
        BY <1>0, <2>5, <3>1, Sent, FrameKinds, Zenon DEF Upload
      <4> QED
        BY <1>0, <2>1, <2>5, <3>1, <4>1, Zenon DEF Upload
    <3>2. CASE /\ UNCHANGED queue \/ Send("CHUNK", f) \/ Send("END", f)
               /\ \/ job[f] = "pending" /\ job'[f] \in {"begin", "err"} /\ UNCHANGED <<left, queue>>
                  \/ /\ job[f] \in Active /\ job'[f] \in {"chunk", "end", "wait", "ok", "err"}
                     /\ job'[f] = "chunk" => left'[f] > 0
      <4>1. (In(queue', begin) <=> In(queue, begin)) /\ (Once(queue, begin) => Once(queue', begin))
        BY <2>3, <3>2, FrameKinds, Zenon
      <4>2. CASE job[f] = "pending" /\ job'[f] \in {"begin", "err"} /\ UNCHANGED <<left, queue>>
        BY <1>0, <2>1, <2>5, <4>1, <4>2, Zenon DEF Upload
      <4>3. CASE /\ job[f] \in Active /\ job'[f] \in {"chunk", "end", "wait", "ok", "err"}
                 /\ job'[f] = "chunk" => left'[f] > 0
        BY <1>0, <2>1, <2>5, <4>1, <4>3, Zenon DEF Upload
      <4> QED
        BY <3>2, <4>2, <4>3, Zenon
    <3> QED
      BY <1>1, <3>1, <3>2, FileSteps, Zenon
  <2> QED
    BY <2>4, <2>5, Zenon
<1>2. CASE BatchNext
  <2>1. /\ UNCHANGED <<left, wire, stream>>
        /\ job'[g] = job[g] \/ (job'[g] = "aborted" /\ job[g] \in Active)
    <3>1. UNCHANGED <<left, wire, stream>>
      BY <1>2, BatchSteps, Zenon
    <3>2. job'[g] = job[g] \/ (job'[g] = "aborted" /\ job[g] \in Active)
      BY <1>2, BatchSteps, Zenon
    <3> QED
      BY <3>1, <3>2, Zenon
  <2>2. (In(queue', begin) <=> In(queue, begin)) /\ (Once(queue, begin) => Once(queue', begin))
    BY <1>0, <1>2, BatchSteps, Sent, FrameKinds, Zenon
  <2> QED
    BY <1>0, <2>1, <2>2, Zenon DEF Upload, Active, OnFrames
<1>3. CASE Write
  <2>1. UNCHANGED <<job, left, stream>>
    BY <1>3, Zenon DEF Write, client, gateway
  <2> QED
    BY <1>0, <1>3, <2>1, Wrote, Zenon DEF Upload
<1>4. CASE WriterEnds
  BY <1>0, <1>4, InEmpty, Zenon DEF WriterEnds, client, gateway, Upload
<1>5. CASE Read \/ ReaderEof \/ ServerActs \/ UNCHANGED vars
  <2>1. UNCHANGED <<job, left, stream, queue, wire>>
    BY <1>5, Zenon DEF Read, ReaderEof, ServerActs, client, gateway, vars
  <2> QED
    BY <1>0, <2>1, Zenon DEF Upload
<1>6. CASE SendPong
  <2>1. UNCHANGED <<job, left, stream, wire>>
    BY <1>6, Zenon DEF SendPong, client, gateway
  <2>2. (In(queue', begin) <=> In(queue, begin)) /\ (Once(queue, begin) => Once(queue', begin))
    <3>1. UNCHANGED queue \/ Send("PONG", NoFile)
      BY <1>6, Zenon DEF SendPong
    <3> QED
      BY <1>0, <3>1, Sent, FrameKinds, Zenon
  <2> QED
    BY <1>0, <2>1, <2>2, Zenon DEF Upload
<1>7. CASE ServerReads
  <2>1. UNCHANGED <<job, left, queue>>
    BY <1>7, Zenon DEF ServerReads, client
  <2>2. /\ Head(wire) \in ClientFrames /\ In(wire, Head(wire))
        /\ In(wire', begin) => In(wire, begin) /\ Head(wire) # begin
        /\ Once(wire', begin)
    BY <1>0, <1>7, Took, Zenon DEF Upload
  <2>3. stream'[g] = stream[g] \/ Head(wire) = begin \/ stream[g] = "open"
    BY <1>0, <1>7, <2>2, FrameKinds, Zenon DEF ServerReads, Receive
  <2> QED
    BY <1>0, <2>1, <2>2, <2>3, Zenon DEF Upload
<1> QED
  BY <1>1, <1>2, <1>3, <1>4, <1>5, <1>6, <1>7, Steps, Zenon

(* Every step keeps the answers true. *)
LEMMA ToldStep ==
  ASSUME HipInv, [Next]_vars, NEW g \in Files
  PROVE  Told(g)'
<1>0. /\ TypeOK /\ FramesOK /\ Upload(g) /\ Told(g)
      /\ job \in [Files -> {"pending", "ok", "err", "aborted"} \cup Active]
      /\ reply \in [Files -> {"none", "OK", "PRESENT", "BAD", "dropped"}]
      /\ stream \in [Files -> {"none", "open", "stored", "refused"}]
  BY Zenon DEF HipInv, TypeOK
<1>1. ASSUME NEW f \in Files, FileNext(f) PROVE Told(g)'
  <2>1. /\ UNCHANGED <<reply, inbox, stream>> /\ \E to : job' = [job EXCEPT ![f] = to]
    BY <1>1, FileSteps, Zenon DEF gateway
  <2>2. g # f => job'[g] = job[g]
    BY <1>0, <2>1, Zenon
  <2>3. /\ upload_waiters' = upload_waiters \/ upload_waiters' = upload_waiters \cup {f}
        /\ g = f => \/ job[g] = "pending" /\ job'[g] = "begin"
                    \/ /\ upload_waiters' = upload_waiters /\ job'[g] # "pending"
                       /\ job'[g] = "ok" => reply[g] \in {"OK", "PRESENT"}
    BY <1>1, FileSteps, Zenon
  <2> QED
    BY <1>0, <2>1, <2>2, <2>3, Zenon DEF Told
<1>2. CASE BatchNext
  <2>1. /\ UNCHANGED <<reply, upload_waiters, inbox, stream>>
        /\ job'[g] = job[g] \/ job'[g] = "aborted"
    BY <1>2, BatchSteps, Zenon
  <2> QED
    BY <1>0, <2>1, Zenon DEF Told
<1>3. CASE Write \/ WriterEnds \/ UNCHANGED vars
  <2>1. UNCHANGED <<job, stream, reply, upload_waiters, inbox>>
    BY <1>3, Zenon DEF Write, WriterEnds, client, gateway, reply_channels, vars
  <2> QED
    BY <1>0, <2>1, Zenon DEF Told
<1>4. ASSUME FailAllWaiters, UNCHANGED <<job, stream>>, \A x : In(inbox', x) => In(inbox, x)
      PROVE  Told(g)'
  <2>1. /\ upload_waiters' = {}
        /\ g \in upload_waiters => reply'[g] = "dropped"
        /\ g \notin upload_waiters => reply'[g] = reply[g]
    BY <1>4, Zenon DEF FailAllWaiters
  <2> QED
    BY <1>0, <1>4, <2>1, Zenon DEF Told
<1>5. CASE Read
  <2>0. UNCHANGED <<job, stream>>
    BY <1>5, Zenon DEF Read, client, gateway
  <2>1. /\ Head(inbox) \in ServerFrames /\ In(inbox, Head(inbox))
        /\ \A x : In(inbox', x) => In(inbox, x)
    BY <1>0, <1>5, Heard, Zenon
  <2>2. CASE FailAllWaiters
    BY <1>4, <2>0, <2>1, <2>2, Zenon
  <2>3. CASE UNCHANGED <<upload_waiters, reply>>
    BY <1>0, <2>0, <2>1, <2>3, Zenon DEF Told
  <2>4. ASSUME Head(inbox)[1] \in {"ACK", "ACK_PRESENT", "ACK_BAD"},
               upload_waiters' = upload_waiters \ {Head(inbox)[2]},
               reply' = IF Head(inbox)[2] \in upload_waiters
                        THEN [reply EXCEPT ![Head(inbox)[2]] = Status(Head(inbox))] ELSE reply
        PROVE  Told(g)'
    <3> DEFINE frame == Head(inbox)
    <3>1. frame = <<frame[1], frame[2]>> /\ frame[2] \in Files
      BY <2>1, <2>4, FrameKinds, Zenon
    <3> HIDE DEF frame
    <3>2. CASE g = frame[2] /\ g \in upload_waiters
      <4>1. reply'[g] = Status(frame) /\ g \notin upload_waiters' /\ reply[g] = "none"
        BY <1>0, <2>4, <3>2, Zenon DEF frame, Told
      <4>2. CASE frame[1] = "ACK"
        BY <1>0, <2>0, <2>1, <3>1, <3>2, <4>1, <4>2, Zenon DEF Told, Status, frame
      <4>3. CASE frame[1] = "ACK_PRESENT"
        BY <1>0, <2>0, <2>1, <3>1, <3>2, <4>1, <4>3 DEF Told, Status, frame
      <4>4. CASE frame[1] = "ACK_BAD"
        BY <1>0, <2>0, <2>1, <3>1, <3>2, <4>1, <4>4, Zenon DEF Told, Status
      <4> QED
        BY <2>4, <4>2, <4>3, <4>4, Zenon DEF frame
    <3>3. CASE ~(g = frame[2] /\ g \in upload_waiters)
      <4>1. reply'[g] = reply[g] /\ (g \in upload_waiters' => g \in upload_waiters)
        BY <1>0, <2>4, <3>1, <3>3, Zenon DEF frame
      <4> QED
        BY <1>0, <2>0, <2>1, <4>1, Zenon DEF Told
    <3> QED
      BY <3>2, <3>3, Zenon
  <2> QED
    BY <1>5, <2>2, <2>3, <2>4, Zenon DEF Read, Dispatch, reply_channels
<1>6. CASE SendPong \/ ReaderEof
  <2>1. UNCHANGED <<job, stream, inbox>>
    BY <1>6, Zenon DEF SendPong, ReaderEof, client, gateway
  <2>2. FailAllWaiters \/ UNCHANGED <<upload_waiters, reply>>
    BY <1>6, Zenon DEF SendPong, ReaderEof, reply_channels
  <2>3. CASE FailAllWaiters
    BY <1>4, <2>1, <2>3, Zenon
  <2>4. CASE UNCHANGED <<upload_waiters, reply>>
    BY <1>0, <2>1, <2>4, Zenon DEF Told
  <2> QED
    BY <2>2, <2>3, <2>4, Zenon
<1>7. CASE ServerReads
  <2>1. UNCHANGED <<job, upload_waiters, reply>>
    BY <1>7, Zenon DEF ServerReads, client, reply_channels
  <2>2. Head(wire) \in ClientFrames /\ In(wire, Head(wire)) /\ Receive(Head(wire))
    BY <1>0, <1>7, Took, Zenon DEF ServerReads
  <2> DEFINE frame == Head(wire)
  <2> HIDE DEF frame
  <2>3. stream[g] = "stored" => stream'[g] = "stored"
    <3>1. stream[g] = "stored" => frame # <<"BEGIN", g>>
      BY <1>0, <2>2, Zenon DEF Upload, frame
    <3>2. frame[1] \in {"BEGIN", "CHUNK", "END"} => frame[2] \in Files
      BY <2>2, FrameKinds, Zenon DEF frame
    <3>3. frame = <<frame[1], frame[2]>>
      BY <2>2, FrameKinds, Zenon DEF frame
    <3> QED
      BY <1>0, <2>2, <3>1, <3>2, <3>3, Zenon DEF Receive, frame
  <2>4. /\ In(inbox', <<"ACK", g>>) => In(inbox, <<"ACK", g>>) \/ stream'[g] = "stored"
        /\ In(inbox', <<"ACK_PRESENT", g>>) => In(inbox, <<"ACK_PRESENT", g>>) \/ g \in Present
    <3>1. \/ UNCHANGED inbox
          \/ Answer("COMMIT_ACK", NoFile)
          \/ /\ frame[2] \in Files /\ Answer("ACK", frame[2])
             /\ stream' = [stream EXCEPT ![frame[2]] = "stored"]
          \/ frame[2] \in Files /\ Answer("ACK_PRESENT", frame[2]) /\ frame[2] \in Present
          \/ frame[2] \in Files /\ Answer("ACK_BAD", frame[2])
      BY <2>2, FrameKinds, Zenon DEF Receive, frame
    <3>2. CASE UNCHANGED inbox
      BY <3>2, Zenon
    <3>3. CASE Answer("COMMIT_ACK", NoFile)
      BY <1>0, <3>3, Answers, FrameKinds, Zenon
    <3>4. CASE /\ frame[2] \in Files /\ Answer("ACK", frame[2])
               /\ stream' = [stream EXCEPT ![frame[2]] = "stored"]
      BY <1>0, <3>4, Answers, FrameKinds, Zenon
    <3>5. CASE frame[2] \in Files /\ Answer("ACK_PRESENT", frame[2]) /\ frame[2] \in Present
      <4>1. <<"ACK", g>> # <<"ACK_PRESENT", frame[2]>>
        BY Zenon
      <4>2. <<"ACK_PRESENT", g>> = <<"ACK_PRESENT", frame[2]>> => g = frame[2]
        BY Zenon
      <4>3. \A x : In(inbox', x) => In(inbox, x) \/ x = <<"ACK_PRESENT", frame[2]>>
        BY <1>0, <3>5, Answers, FrameKinds, ZenonT(60)
      <4> QED
        BY <3>5, <4>1, <4>2, <4>3, Zenon
    <3>6. CASE frame[2] \in Files /\ Answer("ACK_BAD", frame[2])
      <4>1. <<"ACK", g>> # <<"ACK_BAD", frame[2]>> /\ <<"ACK_PRESENT", g>> # <<"ACK_BAD", frame[2]>>
        BY Zenon
      <4>2. \A x : In(inbox', x) => In(inbox, x) \/ x = <<"ACK_BAD", frame[2]>>
        BY <1>0, <3>6, Answers, FrameKinds, ZenonT(60)
      <4> QED
        BY <4>1, <4>2, Zenon
    <3> QED
      BY <3>1, <3>2, <3>3, <3>4, <3>5, <3>6, Zenon
  <2> QED
    BY <1>0, <2>1, <2>3, <2>4, Zenon DEF Told
<1>8. CASE ServerActs
  <2>1. UNCHANGED <<job, stream, upload_waiters, reply>>
    BY <1>8, Zenon DEF ServerActs, client, reply_channels
  <2>2. \/ UNCHANGED inbox
        \/ \E type \in {"PING", "WINDOW", "ERROR", "FATAL"} : Answer(type, NoFile)
    BY <1>8, Zenon DEF ServerActs
  <2>3. /\ In(inbox', <<"ACK", g>>) => In(inbox, <<"ACK", g>>)
        /\ In(inbox', <<"ACK_PRESENT", g>>) => In(inbox, <<"ACK_PRESENT", g>>)
    BY <1>0, <2>2, Answers, FrameKinds, Zenon
  <2> QED
    BY <1>0, <2>1, <2>3, Zenon DEF Told
<1> QED
  BY <1>1, <1>2, <1>3, <1>5, <1>6, <1>7, <1>8, Steps, Zenon

(* COMMIT goes out after every upload, and its answer comes from the gateway. *)
LEMMA CommitsStep ==
  ASSUME HipInv, [Next]_vars
  PROVE  Commits'
<1> DEFINE commit == <<"COMMIT", NoFile>>
           ack == <<"COMMIT_ACK", NoFile>>
<1>0. TypeOK /\ FramesOK /\ Commits
  BY Zenon DEF HipInv
<1>1. ASSUME NEW f \in Files, FileNext(f) PROVE Commits'
  <2>1. /\ phase = "uploading" /\ UNCHANGED <<phase, commit_reply, wire, inbox, committed>>
        /\ \E to : job' = [job EXCEPT ![f] = to]
    BY <1>1, FileSteps, Zenon DEF gateway
  <2>2. job'[f] # "aborted"
    BY <1>1, FileSteps, Zenon
  <2>3. \A g \in Files : job'[g] # "aborted"
    BY <1>0, <2>1, <2>2, Zenon DEF Commits, TypeOK
  <2>4. UNCHANGED queue \/ \E type \in {"BEGIN", "CHUNK", "END"} : Send(type, f)
    BY <1>1, FileSteps, Zenon
  <2>5. In(queue', commit) => In(queue, commit)
    BY <1>0, <2>4, Sent, FrameKinds, Zenon
  <2> QED
    BY <1>0, <2>1, <2>3, <2>5, Zenon DEF Commits, CommitSent
<1>2. CASE BatchNext
  <2>1. UNCHANGED <<wire, inbox, committed, commit_reply>>
    BY <1>2, Zenon DEF BatchNext, JoinFailed, Commit, SendCommit, CommitReplied, CommitTimeout,
       Close,
                reply_channels, gateway
  <2>2. CASE JoinFailed
    BY <1>0, <2>1, <2>2, Zenon DEF JoinFailed, Commits, CommitSent
  <2>3. CASE Commit
    BY <1>0, <2>1, <2>3, Zenon DEF Commit, Commits, CommitSent, AllOk
  <2>4. CASE SendCommit
    BY <1>0, <2>1, <2>4, Zenon DEF SendCommit, Commits, AllOk
  <2>5. CASE CommitReplied
    BY <1>0, <2>1, <2>5, Zenon DEF CommitReplied, Acknowledged, Commits, CommitSent, AllOk
  <2>6. CASE CommitTimeout
    BY <1>0, <2>1, <2>6, Zenon DEF CommitTimeout, Commits, CommitSent, AllOk
  <2>7. CASE Close
    BY <1>0, <2>1, <2>7, Zenon DEF Close, Commits, AllOk
  <2> QED
    BY <1>2, <2>2, <2>3, <2>4, <2>5, <2>6, <2>7, Zenon DEF BatchNext
<1>3. ASSUME UNCHANGED <<phase, job, committed>>, CommitSent' => CommitSent,
             In(inbox', ack) => In(inbox, ack),
             commit_reply' = "OK" => commit_reply = "OK" \/ committed
      PROVE  Commits'
  BY <1>0, <1>3, Zenon DEF Commits, AllOk
<1>4. CASE Write \/ WriterEnds \/ UNCHANGED vars
  <2>1. UNCHANGED <<phase, job, committed, inbox, commit_reply>>
    BY <1>4, Zenon DEF Write, WriterEnds, vars, client, gateway, reply_channels
  <2>2. CommitSent' => CommitSent
    <3>1. CASE Write
      BY <1>0, <3>1, Wrote, Zenon DEF CommitSent
    <3>2. CASE WriterEnds
      BY <3>2, InEmpty, Zenon DEF WriterEnds, CommitSent
    <3>3. CASE UNCHANGED vars
      BY <3>3, Zenon DEF vars, CommitSent
    <3> QED
      BY <1>4, <3>1, <3>2, <3>3, Zenon
  <2> QED
    BY <1>3, <2>1, <2>2, Zenon
<1>5. CASE Read
  <2>1. UNCHANGED <<phase, job, committed, queue, wire>>
    BY <1>5, Zenon DEF Read, client, gateway
  <2>2. /\ Head(inbox) \in ServerFrames /\ In(inbox, Head(inbox))
        /\ \A x : In(inbox', x) => In(inbox, x)
    BY <1>0, <1>5, Heard, Zenon
  <2>3. \/ commit_reply' \in {commit_reply, "dropped"}
        \/ Head(inbox)[1] = "COMMIT_ACK"
    BY <1>5, Zenon DEF Read, Dispatch, FailAllWaiters, reply_channels
  <2>4. Head(inbox)[1] = "COMMIT_ACK" => Head(inbox) = ack
    BY <2>2, FrameKinds, Zenon
  <2>5. commit_reply' = "OK" => commit_reply = "OK" \/ committed
    BY <1>0, <2>2, <2>3, <2>4, Zenon DEF Commits
  <2> QED
    BY <1>3, <2>1, <2>2, <2>5, Zenon DEF CommitSent
<1>6. CASE SendPong \/ ReaderEof
  <2>1. UNCHANGED <<phase, job, committed, wire, inbox>>
    BY <1>6, Zenon DEF SendPong, ReaderEof, client, gateway
  <2>2. commit_reply' \in {commit_reply, "dropped"}
    BY <1>6, Zenon DEF SendPong, ReaderEof, FailAllWaiters, reply_channels
  <2>3. UNCHANGED queue \/ Send("PONG", NoFile)
    BY <1>6, Zenon DEF SendPong, ReaderEof
  <2>4. In(queue', commit) => In(queue, commit)
    BY <1>0, <2>3, Sent, FrameKinds, Zenon
  <2> QED
    BY <1>3, <2>1, <2>2, <2>4, Zenon DEF CommitSent
<1>7. CASE ServerReads
  <2>1. UNCHANGED <<phase, job, commit_reply, queue>>
    BY <1>7, Zenon DEF ServerReads, client, reply_channels
  <2>2. /\ Head(wire) \in ClientFrames /\ In(wire, Head(wire)) /\ Receive(Head(wire))
        /\ \A x : In(wire', x) => In(wire, x)
    BY <1>0, <1>7, Took, Zenon DEF ServerReads
  <2>3. CommitSent' => CommitSent
    BY <2>1, <2>2, Zenon DEF CommitSent
  <2>4. CASE Head(wire)[1] = "COMMIT"
    <3>1. CommitSent
      BY <2>2, <2>4, FrameKinds, Zenon DEF CommitSent
    <3>2. committed'
      BY <2>2, <2>4, Zenon DEF Receive
    <3> QED
      BY <1>0, <2>1, <3>1, <3>2, Zenon DEF Commits, AllOk
  <2>5. CASE Head(wire)[1] # "COMMIT"
    <3>1. UNCHANGED committed
      BY <2>2, <2>5, Zenon DEF Receive
    <3>2. \/ UNCHANGED inbox
          \/ \E type \in {"ACK", "ACK_PRESENT", "ACK_BAD"} :
               Head(wire)[2] \in Files /\ Answer(type, Head(wire)[2])
      BY <2>2, <2>5, FrameKinds, Zenon DEF Receive
    <3>3. In(inbox', ack) => In(inbox, ack)
      BY <1>0, <3>2, Answers, FrameKinds, Zenon
    <3> QED
      BY <1>3, <2>1, <2>3, <3>1, <3>3, Zenon
  <2> QED
    BY <2>4, <2>5, Zenon
<1>8. CASE ServerActs
  <2>1. UNCHANGED <<phase, job, committed, commit_reply, queue, wire>>
    BY <1>8, Zenon DEF ServerActs, client, reply_channels
  <2>2. \/ UNCHANGED inbox
        \/ \E type \in {"PING", "WINDOW", "ERROR", "FATAL"} : Answer(type, NoFile)
    BY <1>8, Zenon DEF ServerActs
  <2>3. In(inbox', ack) => In(inbox, ack)
    BY <1>0, <2>2, Answers, FrameKinds, Zenon
  <2> QED
    BY <1>3, <2>1, <2>3, Zenon DEF CommitSent
<1> QED
  BY <1>1, <1>2, <1>4, <1>5, <1>6, <1>7, <1>8, Steps, Zenon

(* The window: a job takes a slot only when one is free, and keeps it. *)
LEMMA BusyStep ==
  ASSUME HipInv, [Next]_vars
  PROVE  Cardinality(Busy') <= MaxInFlight
<1>0. /\ job \in [Files -> {"pending", "ok", "err", "aborted"} \cup Active]
      /\ MaxInFlight \in Nat /\ Cardinality(Busy) <= MaxInFlight
  BY LimitsAssumption, Zenon DEF HipInv, TypeOK
<1>1. /\ IsFiniteSet(Busy) /\ Cardinality(Busy) \in Nat
  BY FilesAssumption, FS_Subset, FS_CardinalityType, Zenon DEF Busy
<1>2. ASSUME Busy' \subseteq Busy PROVE Cardinality(Busy') <= MaxInFlight
  <2>1. Cardinality(Busy') <= Cardinality(Busy) /\ Cardinality(Busy') \in Nat
    BY <1>1, <1>2, FS_Subset, FS_CardinalityType, Zenon
  <2> QED
    BY <1>0, <1>1, <2>1
<1>3. ASSUME NEW f \in Files, FileNext(f) PROVE Cardinality(Busy') <= MaxInFlight
  <2>1. phase = "uploading" /\ \E to : job' = [job EXCEPT ![f] = to]
    BY <1>3, FileSteps, Zenon
  <2>2. \A g \in Files : g # f => job'[g] = job[g]
    BY <1>0, <2>1, Zenon
  <2>3. CASE job[f] \in Active
    BY <1>2, <2>2, <2>3, Zenon DEF Busy
  <2>4. CASE SlotFree
    <3>1. \A g \in Files : job[g] # "aborted"
      BY <2>1, Zenon DEF HipInv, Commits
    <3>2. Busy = {g \in Files : job[g] \in Active \cup {"err"}}
      BY <3>1, Zenon DEF Busy
    <3>3. Cardinality(Busy) < MaxInFlight
      BY <2>4, <3>2, Zenon DEF SlotFree
    <3>4. Busy' \subseteq Busy \cup {f}
      BY <2>2, Zenon DEF Busy
    <3>5. /\ IsFiniteSet(Busy \cup {f})
          /\ Cardinality(Busy \cup {f}) \in {Cardinality(Busy), Cardinality(Busy) + 1}
      BY <1>1, FS_AddElement, Zenon
    <3>6. Cardinality(Busy') <= Cardinality(Busy \cup {f}) /\ Cardinality(Busy') \in Nat
      BY <3>4, <3>5, FS_Subset, FS_CardinalityType, Zenon
    <3> QED
      BY <1>0, <1>1, <3>3, <3>5, <3>6
  <2> QED
    BY <1>3, <2>3, <2>4, FileSteps, Zenon DEF Active
<1>4. CASE BatchNext
  <2>1. Busy' \subseteq Busy
    BY <1>4, BatchSteps, Zenon DEF Busy
  <2> QED
    BY <1>2, <2>1, Zenon
<1>5. CASE \/ Write \/ WriterEnds \/ Read \/ SendPong \/ ReaderEof
           \/ ServerReads \/ ServerActs \/ UNCHANGED vars
  <2>1. UNCHANGED job
    BY <1>5, Zenon DEF Write, WriterEnds, Read, SendPong, ReaderEof, ServerReads, ServerActs,
       vars, client
  <2> QED
    BY <1>2, <2>1, Zenon DEF Busy
<1> QED
  BY <1>3, <1>4, <1>5, Steps, Zenon
--------------------------------------------------------------------------------
(* The uploads in flight are among the jobs that hold a slot. *)
LEMMA WindowKept == HipInv => InFlightBounded
<1> SUFFICES ASSUME HipInv PROVE InFlightBounded
  BY Zenon
<1> DEFINE flying == {f \in Files : /\ job[f] \notin {"pending", "begin"}
                                     /\ reply[f] \in {"none", "dropped"}}
<1>1. \A f \in Files : /\ job[f] \in {"pending", "ok", "err", "aborted"} \cup Active
                       /\ job[f] = "ok" => reply[f] \in {"OK", "PRESENT"}
  BY Zenon DEF HipInv, TypeOK, Told
<1>2. flying \subseteq Busy
  BY <1>1, Zenon DEF Busy
<1>3. IsFiniteSet(Busy) /\ Cardinality(Busy) \in Nat
  BY FilesAssumption, FS_Subset, FS_CardinalityType, Zenon DEF Busy
<1>4. Cardinality(flying) <= Cardinality(Busy) /\ Cardinality(flying) \in Nat
  BY <1>2, <1>3, FS_Subset, FS_CardinalityType, Zenon
<1>5. Cardinality(Busy) <= MaxInFlight /\ MaxInFlight \in Nat
  BY LimitsAssumption, Zenon DEF HipInv
<1>6. Cardinality(flying) <= MaxInFlight
  BY <1>3, <1>4, <1>5
<1> QED
  BY <1>6, Zenon DEF InFlightBounded

(* flush_batch over HIP: whatever the connection does, a COMMIT the client   *)
(* takes for done was executed, the gateway executes it only with every file *)
(* of the batch, and the window of HELLO_ACK is respected.                   *)
THEOREM CommitIsCovered == Spec => []CommitCovers
<1>1. Init => HipInv
  <2> SUFFICES ASSUME Init PROVE HipInv
    BY Zenon
  <2>1. TypeOK /\ FramesOK
    <3>1. FramesOK /\ Len(queue) <= QueueCap
      BY LimitsAssumption DEF Init, FramesOK
    <3>2. left \in [Files -> 0..Size] /\ faults \in 0..MaxFaults
      BY LimitsAssumption DEF Init
    <3>3. job \in [Files -> {"pending", "ok", "err", "aborted"} \cup Active]
      BY Zenon DEF Init
    <3> QED
      BY <3>1, <3>2, <3>3, Zenon DEF Init, TypeOK
  <2>2. \A f \in Files : Upload(f) /\ Told(f)
    BY InEmpty, Zenon DEF Init, Upload, Told
  <2>3. Commits
    BY InEmpty, Zenon DEF Init, Commits, CommitSent
  <2>4. Busy = {}
    BY Zenon DEF Init, Busy, Active, OnFrames
  <2>5. Cardinality(Busy) <= MaxInFlight
    BY <2>4, FS_EmptySet, LimitsAssumption
  <2> QED
    BY <2>1, <2>2, <2>3, <2>5, Zenon DEF HipInv
<1>2. HipInv /\ [Next]_vars => HipInv'
  <2> SUFFICES ASSUME HipInv, [Next]_vars PROVE HipInv'
    BY Zenon
  <2>1. \A f \in Files : Upload(f)' /\ Told(f)'
    BY UploadStep, ToldStep, Zenon
  <2> QED
    BY <2>1, TypeStep, CommitsStep, BusyStep, Zenon DEF HipInv
<1>3. HipInv => CommitCovers
  <2> SUFFICES ASSUME HipInv PROVE CommitCovers
    BY Zenon
  <2>1. phase \in {"close", "closed"} => committed
    BY Zenon DEF HipInv, Commits
  <2>2. committed => \A f \in Files : stream[f] = "stored" \/ f \in Present
    BY Zenon DEF HipInv, Commits, AllOk, Told
  <2> QED
    BY <2>1, <2>2, WindowKept, Zenon DEF HipInv, CommitCovers
<1> QED
  BY <1>1, <1>2, <1>3, PTL DEF Spec
===============================================================================
