------------------------------ MODULE HipSession ------------------------------
(***************************************************************************)
(* One HIP/1 session that uploads and commits a batch: the client of       *)
(* src/core/hip/client.rs (upload_stream, commit, close, the writer and    *)
(* the reader task) as flush_batch in src/service/poller.rs drives it, and *)
(* the gateway as the client and examples/hip_mock_server.rs see it.       *)
(*                                                                         *)
(* A file is one upload stream; its name stands for the stream id that     *)
(* upload_stream draws.  A frame is a pair <<type, file>>.  The handshake  *)
(* is over when the session starts.  Heartbeat PINGs of the client carry   *)
(* nothing; they only let an idle writer notice a closed connection.       *)
(***************************************************************************)
EXTENDS Naturals, Sequences, FiniteSets

CONSTANTS
  Files,        \* the files of the batch
  Size,         \* bound: number of chunks of a file
  Present,      \* files that the gateway has already
  MaxInFlight,  \* HELLO_ACK.max_in_flight_uploads
  QueueCap,     \* capacity of the writer's queue (64 in the code)
  WireCap,      \* frames the connection buffers before a write blocks
  NoFile,       \* the file of a frame that is about none
  Faults,       \* the kinds of failure a run injects
  MaxFaults     \* bound: how many of them a behaviour may contain

FaultKinds ==
  { "reject",      \* the gateway refuses a complete upload
    "timeout",     \* an answer takes longer than request_timeout
    "nonfatal",    \* ERROR frame with fatal = false
    "fatal",       \* ERROR frame with fatal = true; the gateway closes
    "disconnect",  \* the connection breaks, or the gateway closes it
    "stall",       \* the gateway stops reading, the connection stays open
    "local",       \* a file cannot be opened or read, or has another size than it had
    "ping",        \* the gateway sends a PING
    "window" }     \* the gateway announces a smaller window

ASSUME FilesAssumption == IsFiniteSet(Files) /\ Present \subseteq Files /\ NoFile \notin Files
ASSUME LimitsAssumption ==
  /\ Size \in Nat \ {0} /\ MaxInFlight \in Nat \ {0}
  /\ QueueCap \in Nat \ {0} /\ WireCap \in Nat \ {0} /\ MaxFaults \in Nat
ASSUME FaultsAssumption == Faults \subseteq FaultKinds

VARIABLES
  phase,           \* flush_batch: uploading, commit .. closed, or failed
  job,             \* per file: where upload_stream is
  left,            \* per file: chunks still to send
  upload_waiters,  \* stream ids with a registered reply channel
  reply,           \* per file: what arrived on that channel
  commit_waiter, commit_reply,
  queue, writer,   \* the writer's queue; the writer task
  reader,          \* the reader task
  wire, inbox,     \* frames under way to the gateway, and from it
  server,          \* gateway: running, stalled or closed
  stream,          \* gateway: per file the state of its upload stream
  committed,       \* gateway: COMMIT executed
  faults

client == <<phase, job, left>>
reply_channels == <<upload_waiters, reply, commit_waiter, commit_reply>>
tasks == <<writer, reader>>
gateway == <<server, stream, committed>>
vars == <<client, reply_channels, queue, tasks, wire, inbox, gateway, faults>>

Fault(kind) == kind \in Faults /\ faults > 0 /\ faults' = faults - 1
NoFault == faults' = faults

OnFrames == {"peek", "chunk", "end", "wait"}
Active == {"begin"} \cup OnFrames

(* Every variable has its type; the writer's queue never exceeds its        *)
(* capacity.                                                                *)
TypeOK ==
  /\ phase \in {"uploading", "commit", "commitWait", "close", "closed", "failed"}
  /\ job \in [Files -> {"pending", "ok", "err", "aborted"} \cup Active]
  /\ left \in [Files -> 0..Size]
  /\ upload_waiters \subseteq Files
  /\ reply \in [Files -> {"none", "OK", "PRESENT", "BAD", "dropped"}]
  /\ commit_waiter \in BOOLEAN /\ commit_reply \in {"none", "OK", "dropped"}
  /\ Len(queue) <= QueueCap /\ writer \in {"run", "closing", "dead"}
  /\ reader \in {"run", "pong", "dead"}
  /\ server \in {"run", "stalled", "closed"}
  /\ stream \in [Files -> {"none", "open", "stored", "refused"}]
  /\ committed \in BOOLEAN /\ faults \in 0..MaxFaults

Init ==
  /\ phase = "uploading"
  /\ job = [f \in Files |-> "pending"] /\ left = [f \in Files |-> Size]
  /\ upload_waiters = {} /\ reply = [f \in Files |-> "none"]
  /\ commit_waiter = FALSE /\ commit_reply = "none"
  /\ queue = <<>> /\ writer = "run" /\ reader = "run"
  /\ wire = <<>> /\ inbox = <<>>
  /\ server = "run" /\ stream = [f \in Files |-> "none"]
  /\ committed = FALSE
  /\ faults = MaxFaults
--------------------------------------------------------------------------------
(* send_frame: waits for room in the queue, without a timeout; fails when   *)
(* the writer is gone.                                                      *)
CanSend == writer = "run" /\ Len(queue) < QueueCap
Send(type, f) == CanSend /\ queue' = Append(queue, <<type, f>>)

JobMoves(f, from, to) ==
  /\ phase = "uploading" /\ job[f] = from
  /\ job' = [job EXCEPT ![f] = to]

(* upload_hip_files_concurrently keeps max_in_flight jobs going; a job      *)
(* draws its stream id and registers its reply channel.  A job that failed  *)
(* is not replaced.                                                         *)
SlotFree == Cardinality({f \in Files : job[f] \in Active \cup {"err"}}) < MaxInFlight

Register(f) ==
  /\ SlotFree
  /\ JobMoves(f, "pending", "begin")
  /\ upload_waiters' = upload_waiters \cup {f}
  /\ NoFault
  /\ UNCHANGED <<phase, left, reply, commit_waiter, commit_reply, queue, tasks, wire, inbox,
                 gateway>>

SendBegin(f) ==
  /\ JobMoves(f, "begin", "peek") /\ Send("BEGIN", f)
  /\ NoFault
  /\ UNCHANGED <<phase, left, reply_channels, tasks, wire, inbox, gateway>>

(* validate_upload_ack *)
Accepts(status) == status \in {"OK", "PRESENT"}

(* The reply is there: within the 10 ms after BEGIN or after END.           *)
Replied(f) ==
  /\ reply[f] # "none"
  /\ \E from \in {"peek", "wait"} :
       JobMoves(f, from, IF reply[f] # "dropped" /\ Accepts(reply[f]) THEN "ok" ELSE "err")
  /\ NoFault
  /\ UNCHANGED <<phase, left, reply_channels, queue, tasks, wire, inbox, gateway>>

(* The 10 ms are over without a reply. *)
PeekElapsed(f) ==
  /\ reply[f] = "none"
  /\ JobMoves(f, "peek", "chunk")
  /\ NoFault
  /\ UNCHANGED <<phase, left, reply_channels, queue, tasks, wire, inbox, gateway>>

SendChunk(f) ==
  /\ Send("CHUNK", f)
  /\ JobMoves(f, "chunk", IF left[f] = 1 THEN "end" ELSE "chunk")
  /\ left' = [left EXCEPT ![f] = @ - 1]
  /\ NoFault
  /\ UNCHANGED <<phase, reply_channels, tasks, wire, inbox, gateway>>

SendEnd(f) ==
  /\ JobMoves(f, "end", "wait") /\ Send("END", f)
  /\ NoFault
  /\ UNCHANGED <<phase, left, reply_channels, tasks, wire, inbox, gateway>>

SendFails(f) ==
  /\ writer # "run"
  /\ \E from \in {"begin", "chunk", "end"} : JobMoves(f, from, "err")
  /\ NoFault
  /\ UNCHANGED <<phase, left, reply_channels, queue, tasks, wire, inbox, gateway>>

(* The file fails the job: it cannot be opened, a read fails, or at its end *)
(* the size differs from the one that BEGIN announced.                      *)
LocalError(f) ==
  /\ Fault("local")
  /\ \/ SlotFree /\ JobMoves(f, "pending", "err")
     \/ \E from \in {"chunk", "end"} : JobMoves(f, from, "err")
  /\ UNCHANGED <<phase, left, reply_channels, queue, tasks, wire, inbox, gateway>>

(* request_timeout runs out: because the answer is late, or because none    *)
(* can come any more.                                                       *)
NeverOverdue == Fault("timeout")   \* mutant: no timeout where no answer can come
Overdue ==
  \/ (reader = "dead" \/ server # "run") /\ NoFault
  \/ Fault("timeout")

UploadTimeout(f) ==
  /\ reply[f] = "none" /\ Overdue
  /\ JobMoves(f, "wait", "err")
  /\ UNCHANGED <<phase, left, reply_channels, queue, tasks, wire, inbox, gateway>>

(* A failed job is joined: the batch fails, and dropping the JoinSet aborts *)
(* the other jobs.                                                          *)
JoinFailed ==
  /\ phase = "uploading" /\ \E f \in Files : job[f] = "err"
  /\ phase' = "failed"
  /\ job' = [f \in Files |-> IF job[f] \in Active THEN "aborted" ELSE job[f]]
  /\ NoFault
  /\ UNCHANGED <<left, reply_channels, queue, tasks, wire, inbox, gateway>>
--------------------------------------------------------------------------------
(* Every upload has been joined: commit takes the slot and sends COMMIT. *)
Commit ==
  /\ phase = "uploading" /\ \A f \in Files : job[f] = "ok"
  /\ phase' = "commit" /\ commit_waiter' = TRUE
  /\ NoFault
  /\ UNCHANGED <<job, left, upload_waiters, reply, commit_reply, queue, tasks, wire, inbox,
                 gateway>>

SendCommit ==
  /\ phase = "commit"
  /\ \/ Send("COMMIT", NoFile) /\ phase' = "commitWait"
     \/ writer # "run" /\ phase' = "failed" /\ UNCHANGED queue
  /\ NoFault
  /\ UNCHANGED <<job, left, reply_channels, tasks, wire, inbox, gateway>>

AnyReplyCommits(r) == TRUE   \* mutant: a dropped channel counts as an ack
Acknowledged(r) == r = "OK"

CommitReplied ==
  /\ phase = "commitWait" /\ commit_reply # "none"
  /\ phase' = IF Acknowledged(commit_reply) THEN "close" ELSE "failed"
  /\ NoFault
  /\ UNCHANGED <<job, left, reply_channels, queue, tasks, wire, inbox, gateway>>

CommitTimeout ==
  /\ phase = "commitWait" /\ commit_reply = "none" /\ Overdue
  /\ phase' = "failed"
  /\ UNCHANGED <<job, left, reply_channels, queue, tasks, wire, inbox, gateway>>

(* close: BYE, drop the sender, let the writer drain for up to 2 s, abort   *)
(* the reader.                                                              *)
Close ==
  /\ phase = "close"
  /\ phase' = "closed"
  /\ \/ Send("BYE", NoFile) /\ writer' = "closing"
     \/ writer # "run" /\ UNCHANGED <<queue, writer>>
  /\ reader' = "dead"
  /\ NoFault
  /\ UNCHANGED <<job, left, reply_channels, wire, inbox, gateway>>
--------------------------------------------------------------------------------
(* The writer task.  A write to a closed connection fails, or vanishes. *)
Write ==
  /\ writer # "dead" /\ queue # <<>> /\ Len(wire) < WireCap
  /\ queue' = Tail(queue)
  /\ wire' = IF server = "closed" THEN wire ELSE Append(wire, Head(queue))
  /\ NoFault
  /\ UNCHANGED <<client, reply_channels, tasks, inbox, gateway>>

(* A write or a heartbeat fails, or the queue is closed and empty. *)
WriterEnds ==
  /\ \/ writer # "dead" /\ server = "closed"
     \/ writer = "closing" /\ queue = <<>>
  /\ writer' = "dead" /\ queue' = <<>>
  /\ NoFault
  /\ UNCHANGED <<client, reply_channels, reader, wire, inbox, gateway>>

(* fail_all_waiters: a reply channel without its sender reports an error. *)
FailAllWaiters ==
  /\ reply' = [f \in Files |-> IF f \in upload_waiters THEN "dropped" ELSE reply[f]]
  /\ upload_waiters' = {}
  /\ commit_reply' = IF commit_waiter THEN "dropped" ELSE commit_reply
  /\ commit_waiter' = FALSE

Status(frame) ==
  CASE frame[1] = "ACK" -> "OK" [] frame[1] = "ACK_PRESENT" -> "PRESENT" [] OTHER -> "BAD"

(* dispatch_frame.  An answer without a waiter is dropped; WINDOW is        *)
(* decoded and ignored; every ERROR frame fails all waiters.                *)
Dispatch(frame) ==
  \/ /\ frame[1] \in {"ACK", "ACK_PRESENT", "ACK_BAD"}
     /\ upload_waiters' = upload_waiters \ {frame[2]}
     /\ reply' = IF frame[2] \in upload_waiters THEN [reply EXCEPT ![frame[2]] = Status(frame)]
                 ELSE reply
     /\ UNCHANGED <<commit_waiter, commit_reply, reader>>
  \/ /\ frame[1] = "COMMIT_ACK"
     /\ commit_reply' = IF commit_waiter THEN "OK" ELSE commit_reply
     /\ commit_waiter' = FALSE
     /\ UNCHANGED <<upload_waiters, reply, reader>>
  \/ frame[1] = "WINDOW" /\ UNCHANGED <<reply_channels, reader>>
  \/ frame[1] = "PING" /\ reader' = "pong" /\ UNCHANGED reply_channels
  \/ frame[1] = "ERROR" /\ FailAllWaiters /\ UNCHANGED reader
  \/ frame[1] = "FATAL" /\ FailAllWaiters /\ reader' = "dead"

Read ==
  /\ reader = "run" /\ inbox # <<>>
  /\ inbox' = Tail(inbox)
  /\ Dispatch(Head(inbox))
  /\ NoFault
  /\ UNCHANGED <<client, queue, writer, wire, gateway>>

(* The answer to a PING waits in the writer's queue like any other frame. *)
SendPong ==
  /\ reader = "pong"
  /\ \/ Send("PONG", NoFile) /\ reader' = "run" /\ UNCHANGED reply_channels
     \/ writer # "run" /\ FailAllWaiters /\ reader' = "dead" /\ UNCHANGED queue
  /\ NoFault
  /\ UNCHANGED <<client, writer, wire, inbox, gateway>>

ReaderEof ==
  /\ reader = "run" /\ inbox = <<>> /\ server = "closed"
  /\ FailAllWaiters /\ reader' = "dead"
  /\ NoFault
  /\ UNCHANGED <<client, queue, writer, wire, inbox, gateway>>
--------------------------------------------------------------------------------
(* Answers are never held back: nothing limits how many may be under way.   *)
Answer(type, f) == inbox' = Append(inbox, <<type, f>>)

(* The gateway takes a frame.  A chunk or an end for a stream that is not   *)
(* open ends the session.                                                   *)
Receive(frame) ==
  LET f == frame[2] IN
  \/ /\ frame[1] = "BEGIN" /\ f \notin Present
     /\ stream' = [stream EXCEPT ![f] = "open"]
     /\ UNCHANGED <<inbox, server, committed>> /\ NoFault
  \/ /\ frame[1] = "BEGIN" /\ f \in Present
     /\ stream' = [stream EXCEPT ![f] = "refused"] /\ Answer("ACK_PRESENT", f)
     /\ UNCHANGED <<server, committed>> /\ NoFault
  \/ /\ frame[1] = "CHUNK" /\ stream[f] = "open"
     /\ UNCHANGED <<stream, inbox, server, committed>> /\ NoFault
  \/ /\ frame[1] \in {"CHUNK", "END"} /\ stream[f] # "open"
     /\ server' = "closed"
     /\ UNCHANGED <<stream, inbox, committed>> /\ NoFault
  \/ /\ frame[1] = "END" /\ stream[f] = "open"
     /\ \/ stream' = [stream EXCEPT ![f] = "stored"] /\ Answer("ACK", f) /\ NoFault
        \/ stream' = [stream EXCEPT ![f] = "refused"] /\ Answer("ACK_BAD", f) /\ Fault("reject")
     /\ UNCHANGED <<server, committed>>
  \/ /\ frame[1] = "COMMIT"
     /\ committed' = TRUE /\ Answer("COMMIT_ACK", NoFile)
     /\ UNCHANGED <<stream, server>> /\ NoFault
  \/ /\ frame[1] = "PONG"
     /\ UNCHANGED <<stream, inbox, server, committed>> /\ NoFault
  \/ /\ frame[1] = "BYE" /\ server' = "closed"
     /\ UNCHANGED <<stream, inbox, committed>> /\ NoFault

ServerReads ==
  /\ server = "run" /\ wire # <<>>
  /\ wire' = Tail(wire)
  /\ Receive(Head(wire))
  /\ UNCHANGED <<client, reply_channels, queue, tasks>>

(* What the gateway does of its own accord, and what happens to it. *)
ServerActs ==
  /\ server = "run"
  /\ \/ Fault("ping") /\ Answer("PING", NoFile) /\ UNCHANGED server
     \/ Fault("window") /\ Answer("WINDOW", NoFile) /\ UNCHANGED server
     \/ Fault("nonfatal") /\ Answer("ERROR", NoFile) /\ UNCHANGED server
     \/ Fault("fatal") /\ Answer("FATAL", NoFile) /\ server' = "closed"
     \/ Fault("disconnect") /\ server' = "closed" /\ UNCHANGED inbox
     \/ Fault("stall") /\ server' = "stalled" /\ UNCHANGED inbox
  /\ UNCHANGED <<client, reply_channels, queue, tasks, wire, stream, committed>>
--------------------------------------------------------------------------------
ClientNext ==
  \/ \E f \in Files :
       \/ Register(f) \/ SendBegin(f) \/ Replied(f) \/ PeekElapsed(f)
       \/ SendChunk(f) \/ SendEnd(f) \/ SendFails(f) \/ LocalError(f) \/ UploadTimeout(f)
  \/ JoinFailed \/ Commit \/ SendCommit \/ CommitReplied \/ CommitTimeout \/ Close

WriterNext == Write \/ WriterEnds
ReaderNext == Read \/ SendPong \/ ReaderEof

Next == ClientNext \/ WriterNext \/ ReaderNext \/ ServerReads \/ ServerActs

Spec == Init /\ [][Next]_vars

(* The runtime polls every task that is ready, and timers fire.  A gateway  *)
(* that has not stalled goes on reading.                                    *)
Fairness ==
  WF_vars(ClientNext) /\ WF_vars(WriterNext) /\ WF_vars(ReaderNext) /\ WF_vars(ServerReads)

FairSpec == Spec /\ Fairness
--------------------------------------------------------------------------------
(* The window that the client enforces, by its jobs and its semaphore: the  *)
(* uploads "from UPLOAD_BEGIN sent to UPLOAD_ACK received", those that timed *)
(* out or failed included, stay within HELLO_ACK.max_in_flight_uploads.     *)
(* docs/hip.md asks for more: "<= current window (initially HELLO_ACK's,    *)
(* optionally reduced by WINDOW)", to be respected "from the next new       *)
(* UPLOAD_BEGIN".  dispatch_frame ignores WINDOW (see Dispatch), so this is  *)
(* no claim about a window that the gateway has reduced.                    *)
InFlightBounded ==
  Cardinality({f \in Files : job[f] \notin {"pending", "begin"} /\ reply[f] \in {"none", "dropped"}})
    <= MaxInFlight

(* When flush_batch takes its COMMIT for done, the gateway has executed it. *)
(* The gateway executes it only when it has every file of the batch, stored *)
(* in this session or before, whether or not the client hears of it.  And   *)
(* meanwhile the state is well-formed and the window of HELLO_ACK is kept.  *)
CommitCovers ==
  /\ TypeOK /\ InFlightBounded
  /\ phase \in {"close", "closed"} => committed
  /\ committed => \A f \in Files : stream[f] = "stored" \/ f \in Present

(* Every batch ends, in a commit or in an error: the only thing that can    *)
(* hold it is a gateway that stops reading with the connection open.        *)
BatchEnds == <>(phase \in {"closed", "failed"} \/ server = "stalled")
===============================================================================
