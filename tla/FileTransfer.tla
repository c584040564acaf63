---------------------------- MODULE FileTransfer ----------------------------
(***************************************************************************)
(* One file transfer of sdk/src/filetransfer: a SendTransfer and a         *)
(* ReceiveTransfer with the FileTransferManager of each side, the control  *)
(* channel between them, the data channels the chunks are striped over,    *)
(* and a NodeFileSink.  A chunk's content is the version of the source it  *)
(* was read from; a digest is the content it was computed over.            *)
(***************************************************************************)
EXTENDS Integers, Sequences, FiniteSets

CONSTANTS
    Total,       \* totalChunks
    Parallel,    \* parallelChannels
    MaxBatches,  \* bound: how often a set of data channels is opened
    MaxEdits,    \* bound: changes of the source file during the transfer
    MaxEvents    \* bound: those changes, pause() and resume() calls, lost channels

ASSUME SizesAssumption == Total \in Nat /\ Parallel \in Nat \ {0} /\ MaxBatches \in Nat \ {0}
ASSUME BoundsAssumption == MaxEdits \in Nat /\ MaxEvents \in Nat

VARIABLES
    opts,    \* resumable, checksum and timed (offerTimeoutMs > 0), chosen by the sender
    snd,     \* the SendTransfer
    rcv,     \* the ReceiveTransfer and its manager
    sink,    \* the NodeFileSink given to accept()
    chan,    \* the data channels of every batch
    up,      \* whether the control channel is open
    toS,     \* control messages travelling to the sender
    toR,     \* control messages travelling to the receiver
    source,  \* version of the file at the sender
    env      \* counters of the environment: drops, calls

vars == <<opts, snd, rcv, sink, chan, up, toS, toR, source, env>>

Chunk == 0 .. Total - 1
Worker == 0 .. Parallel - 1
Channel == (1 .. MaxBatches) \X Worker
Version == 0 .. MaxEdits
Unread == -1
Content == [Chunk -> Version \cup {Unread}]
NoContent == [k \in Chunk |-> Unread]

Terminal == {"completed", "failed", "cancelled"}
State == {"idle", "offered", "accepted", "active", "paused", "completing"} \cup Terminal

LegalTransitions ==
    {<<"idle", "offered">>, <<"offered", "accepted">>, <<"accepted", "active">>,
     <<"active", "paused">>, <<"active", "completing">>, <<"paused", "active">>,
     <<"completing", "completed">>}

\* transitionTo(next): the state afterwards.
After(state, next) ==
    IF /\ state \notin Terminal
       /\ next \in {"failed", "cancelled"} \/ <<state, next>> \in LegalTransitions
    THEN next ELSE state

Failed(t) == [t EXCEPT !.state = After(@, "failed")]
Cancelled(t) == [t EXCEPT !.state = After(@, "cancelled")]

\* The objects as they are created.
NewSender ==
    [state |-> "idle", interrupted |-> FALSE, timer |-> "off", batch |-> 1, have |-> {},
     run |-> "none", pc |-> [i \in Worker |-> "end"], seq |-> [i \in Worker |-> i],
     read |-> NoContent]
NewReceiver ==
    [state |-> "idle", closed |-> FALSE, ttl |-> FALSE, received |-> NoContent,
     senderDone |-> FALSE, expected |-> NoContent, chain |-> <<>>, hashing |-> FALSE,
     completing |-> "no", mismatch |-> FALSE]
NewSink ==
    [given |-> FALSE, handle |-> "none", final |-> FALSE, closed |-> FALSE,
     aborted |-> FALSE, data |-> NoContent]

Init ==
    /\ opts \in [resumable : BOOLEAN, checksum : BOOLEAN, timed : BOOLEAN]
    /\ snd = NewSender
    /\ rcv = NewReceiver
    /\ sink = NewSink
    /\ chan = [c \in Channel |-> [st |-> "none", rx |-> "none", wire |-> <<>>]]
    /\ up = TRUE
    /\ toS = <<>>
    /\ toR = <<>>
    /\ source = 0
    /\ env = [drops |-> 0, calls |-> 0]

Eventful == env.drops + env.calls + source < MaxEvents

-----------------------------------------------------------------------------
(* What every handler ends with.                                           *)

\* A control link that lost its channel is kept by the manager and only queues
\* what it is given.
Posted(queue, msgs) == IF up THEN queue \o msgs ELSE queue
Plain(type) == [type |-> type]
Having(type) == [type |-> type, have |-> {k \in Chunk : rcv.received[k] # Unread}]
Offer == Plain("offer")
CancelNote(t) == IF t.state \in Terminal THEN <<>> ELSE <<Plain("cancel")>>

Opened(ch, b) == [c \in Channel |-> IF c[1] = b THEN [ch[c] EXCEPT !.st = "opening"] ELSE ch[c]]

\* close() of the sender's channels: frames already on the wire still arrive.
ClosedBatch(ch, b) == [c \in Channel |-> IF c[1] = b THEN [ch[c] EXCEPT !.st = "closed"] ELSE ch[c]]

\* The sender becomes s and posts msgs.  _onTerminal clears the timer, ends the
\* workers by bumping the generation and closes the channels.
SenderBecomes(s, msgs) ==
    /\ snd' = IF s.state \in Terminal
              THEN [s EXCEPT !.timer = "off", !.run = "none", !.interrupted = FALSE,
                             !.pc = [i \in Worker |-> "end"]]
              ELSE s
    /\ chan' = IF s.state \in Terminal THEN ClosedBatch(chan, s.batch) ELSE chan
    /\ toR' = Posted(toR, msgs)

\* _abortSink and NodeFileSink.abort: once; an open still in flight is not awaited.
AbortSink(k) ==
    IF k.final \/ ~ k.given THEN k
    ELSE [k EXCEPT !.final = TRUE, !.aborted = TRUE, !.data = NoContent,
                   !.handle = IF @ = "open" THEN "none" ELSE @]

\* The receiver becomes r with sink k and posts msgs.  _onTerminal aborts the sink
\* unless completed and closes the channels; queued writes find it terminal.
ReceiverBecomes(r, k, msgs) ==
    LET ends == r.state \in Terminal IN
    /\ rcv' = IF ends THEN [r EXCEPT !.chain = IF r.hashing THEN <<Head(@)>> ELSE <<>>] ELSE r
    /\ sink' = IF r.state \in {"failed", "cancelled"} THEN AbortSink(k) ELSE k
    /\ chan' = [c \in Channel |->
                   IF ends /\ chan[c].rx = "attached"
                   THEN [chan[c] EXCEPT !.st = "closed", !.wire = <<>>] ELSE chan[c]]
    /\ toS' = Posted(toS, msgs)

-----------------------------------------------------------------------------
(* The sender.                                                             *)

\* _armOfferTimeout: a timeout of 0 disables the timer.
Armed(kind) == IF opts.timed THEN kind ELSE "off"

\* start(): offered, with the offer timer armed.
Offered(s) == [s EXCEPT !.state = "offered", !.timer = Armed("offer")]

\* sendFile: open the channels and start.
SendFile ==
    /\ snd.state = "idle"
    /\ snd' = Offered(snd)
    /\ chan' = Opened(chan, 1)
    /\ toR' = Posted(toR, <<Offer>>)
    /\ UNCHANGED <<opts, rcv, sink, up, toS, source, env>>

\* The timer asks the closure it was armed with whether anyone still waits.
OfferTimeout ==
    /\ snd.timer # "off"
    /\ LET waiting == IF snd.timer = "offer" THEN snd.state = "offered" ELSE snd.interrupted
           s == [snd EXCEPT !.timer = "off"]
       IN  IF waiting THEN SenderBecomes(Failed(s), <<Plain("cancel")>>)
                      ELSE SenderBecomes(s, <<>>)
    /\ UNCHANGED <<opts, rcv, sink, up, toS, source, env>>

\* reoffer: the channels are new ones and the timer is armed again.
Reoffered(s) ==
    [s EXCEPT !.batch = @ + 1, !.timer = Armed("reoffer"), !.run = "reoffered",
              !.pc = [i \in Worker |-> "end"]]

\* resumeSend: only of an interrupted transfer; surviving channels of the old batch
\* are closed (a worker left on them can only throw, unheard), the offer is repeated.
ResumeSend ==
    /\ snd.interrupted
    /\ snd.batch < MaxBatches
    /\ snd' = Reoffered(snd)
    /\ chan' = Opened(ClosedBatch(chan, snd.batch), snd.batch + 1)
    /\ toR' = Posted(toR, <<Offer>>)
    /\ UNCHANGED <<opts, rcv, sink, up, toS, source, env>>

\* _begin: from Offered, or from an interruption; otherwise the message is ignored.
MayBegin(s) == s.state = "offered" \/ (s.state = "paused" /\ s.interrupted)

\* Mutant: the run starts without the transition to Active.
RunningAccepted(s, have) == [s EXCEPT !.state = "accepted", !.have = have, !.run = "live"]

Running(s, have) ==
    [s EXCEPT !.state = "active", !.interrupted = FALSE, !.have = have, !.run = "live",
              !.pc = [i \in Worker |-> "open"], !.seq = [i \in Worker |-> i], !.read = NoContent]

SenderPaused(s) == [s EXCEPT !.state = IF @ = "active" THEN "paused" ELSE @]
SenderResumed(s) == [s EXCEPT !.state = IF @ = "paused" THEN "active" ELSE @]

\* What a control message makes of a sender that is not terminal.
Handled(s, msg) ==
    CASE msg.type \in {"accept", "resume-request"} -> IF MayBegin(s) THEN Running(s, msg.have) ELSE s
      [] msg.type \in {"reject", "checksum-mismatch"} -> Failed(s)
      [] msg.type = "complete" -> [s EXCEPT !.state = After(@, "completed")]
      [] msg.type = "pause" -> SenderPaused(s)
      [] msg.type = "resume" -> SenderResumed(s)
      [] msg.type = "cancel" -> Cancelled(s)

\* _routeControl and handleControl: a terminal transfer is no longer registered;
\* any message ends the offer window.
SenderControl ==
    /\ toS # <<>>
    /\ toS' = Tail(toS)
    /\ IF snd.state \in Terminal THEN SenderBecomes(snd, <<>>)
       ELSE SenderBecomes(Handled([snd EXCEPT !.timer = "off"], Head(toS)), <<>>)
    /\ UNCHANGED <<opts, rcv, sink, up, source, env>>

\* The same for an Accept whose state-changed listener calls pause(): the pause is
\* recorded in Accepted and honoured as soon as the run is Active.
AcceptThenPause ==
    /\ toS # <<>>
    /\ Head(toS).type = "accept"
    /\ snd.state = "offered"
    /\ Eventful
    /\ env' = [env EXCEPT !.calls = @ + 1]
    /\ toS' = Tail(toS)
    /\ SenderBecomes(SenderPaused(Running([snd EXCEPT !.timer = "off"], Head(toS).have)),
                     <<Plain("pause")>>)
    /\ UNCHANGED <<opts, rcv, sink, up, source>>

\* pause() and resume() of the application; resume() does not look at interrupted.
SenderPause ==
    /\ Eventful
    /\ snd.state = "active"
    /\ env' = [env EXCEPT !.calls = @ + 1]
    /\ SenderBecomes(SenderPaused(snd), <<Plain("pause")>>)
    /\ UNCHANGED <<opts, rcv, sink, up, toS, source>>

SenderResume ==
    /\ Eventful
    /\ snd.state = "paused"
    /\ env' = [env EXCEPT !.calls = @ + 1]
    /\ SenderBecomes(SenderResumed(snd), <<Plain("resume")>>)
    /\ UNCHANGED <<opts, rcv, sink, up, toS, source>>

\* cancel() and the manager's close().
SenderCancel ==
    /\ snd.state \notin Terminal \cup {"idle"}
    /\ SenderBecomes(Cancelled(snd), <<Plain("cancel")>>)
    /\ UNCHANGED <<opts, rcv, sink, up, toS, source, env>>

\* A worker's turn: at the pause gate it has a chunk left, or it has ended.
Turn(k) == IF k < Total THEN "gate" ELSE "end"

\* A worker throws.  The first one rejects the run: a lost channel of a resumable,
\* active transfer interrupts it, anything else fails it and tells the receiver.
WorkerThrows(i, lostChannel) ==
    LET s == [snd EXCEPT !.pc[i] = "end", !.run = "dead"] IN
    IF snd.run # "live" THEN SenderBecomes([snd EXCEPT !.pc[i] = "end"], <<>>)
    ELSE IF lostChannel /\ opts.resumable
    THEN SenderBecomes([s EXCEPT !.interrupted = (s.state = "active"),
                                 !.state = IF @ = "active" THEN "paused" ELSE @], <<>>)
    ELSE SenderBecomes(Failed(s), <<Plain("cancel")>>)

\* waitForOpen
WorkerOpens(i) ==
    /\ snd.pc[i] = "open"
    /\ LET c == <<snd.batch, i>> IN
       \/ chan[c].st = "open" /\ SenderBecomes([snd EXCEPT !.pc[i] = Turn(i)], <<>>)
       \/ chan[c].st = "closed" /\ WorkerThrows(i, TRUE)
    /\ UNCHANGED <<opts, rcv, sink, up, toS, source, env>>

\* Past the pause gate: the chunk is read when it is needed or hashed.
WorkerReads(i) ==
    /\ snd.pc[i] = "gate"
    /\ snd.state # "paused"
    /\ LET k == snd.seq[i]
           need == k \notin snd.have
       IN  SenderBecomes([snd EXCEPT !.read[k] = IF need \/ opts.checksum THEN source ELSE @,
                                     !.pc[i] = IF need THEN "sending" ELSE Turn(k + Parallel),
                                     !.seq[i] = IF need THEN k ELSE k + Parallel], <<>>)
    /\ UNCHANGED <<opts, rcv, sink, up, toS, source, env>>

\* source.slice() rejects, for a chunk to be sent or for one that is only hashed.
SourceFails(i) ==
    /\ \/ snd.pc[i] = "sending"
       \/ snd.pc[i] = "gate" /\ snd.state # "paused" /\ snd.seq[i] \in snd.have /\ opts.checksum
    /\ WorkerThrows(i, FALSE)
    /\ UNCHANGED <<opts, rcv, sink, up, toS, source, env>>

\* awaitDrain of an open channel resolves, sooner or later; of a closed one it rejects.
Drains(c) == chan[c].st = "open"

\* After awaitDrain: the frame is sent, whatever pause() did meanwhile.
WorkerSends(i) ==
    /\ snd.pc[i] = "sending"
    /\ LET c == <<snd.batch, i>>
           k == snd.seq[i]
       IN  IF ~ Drains(c) THEN WorkerThrows(i, TRUE)
           ELSE /\ snd' = [snd EXCEPT !.seq[i] = k + Parallel, !.pc[i] = Turn(k + Parallel)]
                /\ chan' = [chan EXCEPT ![c].wire = Append(@, <<k, snd.read[k]>>)]
                /\ UNCHANGED toR
    /\ UNCHANGED <<opts, rcv, sink, up, toS, source, env>>

\* Mutant: the digest is taken before the last chunk is hashed.
RunEndsUnhashed ==
    /\ snd.run = "live"
    /\ \A i \in Worker : snd.pc[i] = "end"
    /\ SenderBecomes([snd EXCEPT !.run = "none", !.state = After(@, "completing")],
                     <<[type |-> "sent", digest |-> [snd.read EXCEPT ![Total - 1] = Unread]]>>)
    /\ UNCHANGED <<opts, rcv, sink, up, toS, source, env>>

\* Every worker ended: Sent goes out, also when Completing is refused in Paused.
RunEnds ==
    /\ snd.run = "live"
    /\ \A i \in Worker : snd.pc[i] = "end"
    /\ SenderBecomes([snd EXCEPT !.run = "none", !.state = After(@, "completing")],
                     <<[type |-> "sent", digest |-> snd.read]>>)
    /\ UNCHANGED <<opts, rcv, sink, up, toS, source, env>>

-----------------------------------------------------------------------------
(* The receiver.                                                           *)

\* A data channel arrives: bound to the transfer, or kept for an offer to come.
ChannelArrives(c) ==
    /\ chan[c].st = "opening"
    /\ ~ rcv.closed
    /\ LET bound == rcv.state \notin Terminal \cup {"idle"} IN
       /\ chan' = [chan EXCEPT ![c].st = "open", ![c].rx = IF bound THEN "attached" ELSE "pending"]
       /\ rcv' = [rcv EXCEPT !.ttl = @ \/ ~ bound]
    /\ UNCHANGED <<opts, snd, sink, up, toS, toR, source, env>>

\* _discardPendingChannels
Discarded(ch) ==
    [c \in Channel |-> IF ch[c].rx = "pending"
                       THEN [ch[c] EXCEPT !.st = "closed", !.rx = "none", !.wire = <<>>] ELSE ch[c]]

PendingExpires ==
    /\ rcv.ttl
    /\ rcv' = [rcv EXCEPT !.ttl = FALSE]
    /\ chan' = Discarded(chan)
    /\ UNCHANGED <<opts, snd, sink, up, toS, toR, source, env>>

\* attachChannel of every channel that came before its offer.
PendingAttached(ch) ==
    [c \in Channel |-> IF ch[c].rx = "pending" THEN [ch[c] EXCEPT !.rx = "attached"] ELSE ch[c]]

\* An Offer: refused by the manager's policy, a new transfer that takes the pending
\* channels, or a re-offer that asks to resume.  A transfer that ended is no longer
\* registered: the offer would start another one, which is not followed.
OnOffer ==
    \/ /\ rcv.state = "idle"
       /\ chan' = Discarded(chan)
       /\ rcv' = [rcv EXCEPT !.ttl = FALSE]
       /\ toS' = Posted(toS, <<Plain("reject")>>)
       /\ UNCHANGED sink
    \/ /\ rcv.state = "idle"
       /\ rcv' = [rcv EXCEPT !.state = "offered", !.ttl = FALSE]
       /\ chan' = PendingAttached(chan)
       /\ UNCHANGED <<sink, toS>>
    \/ /\ rcv.state # "idle"
       /\ ReceiverBecomes(rcv, sink,
              IF rcv.state \in Terminal \cup {"offered"} THEN <<>> ELSE <<Having("resume-request")>>)

\* Mutant: Sent alone claims completion.
ClaimedOnSent(r) ==
    IF r.state \notin Terminal /\ r.senderDone /\ r.completing = "no"
    THEN [r EXCEPT !.completing = "writes"] ELSE r

\* _tryComplete up to its first await: claimed once, when Sent and every chunk came.
Claimed(r) ==
    IF /\ r.state \notin Terminal
       /\ r.senderDone
       /\ \A k \in Chunk : r.received[k] # Unread
       /\ r.completing = "no"
    THEN [r EXCEPT !.completing = "writes"] ELSE r

\* handleControl of the receiver; Pause and Resume of the sender are ignored.
OnMessage(msg) ==
    IF rcv.state \in Terminal \cup {"idle"} THEN rcv
    ELSE IF msg.type = "sent" THEN Claimed([rcv EXCEPT !.senderDone = TRUE, !.expected = msg.digest])
    ELSE IF msg.type = "cancel" THEN Cancelled(rcv)
    ELSE rcv

ReceiverControl ==
    /\ toR # <<>>
    /\ ~ rcv.closed
    /\ toR' = Tail(toR)
    /\ IF Head(toR).type = "offer" THEN OnOffer
       ELSE ReceiverBecomes(OnMessage(Head(toR)), sink, <<>>)
    /\ UNCHANGED <<opts, snd, up, source, env>>

\* accept(sink): the sink is opened asynchronously.
Accept ==
    /\ rcv.state = "offered"
    /\ ReceiverBecomes([rcv EXCEPT !.state = "accepted"],
                       [sink EXCEPT !.given = TRUE, !.handle = "opening"], <<>>)
    /\ UNCHANGED <<opts, snd, up, toR, source, env>>

\* What open() and close() of the sink leave.
SinkOpened(k) == [k EXCEPT !.handle = "open"]
SinkClosed(k) == [k EXCEPT !.handle = "none", !.final = TRUE, !.closed = TRUE]

\* open() resolved: Accept is sent, also by a transfer that has ended meanwhile.
SinkOpens ==
    /\ sink.handle = "opening"
    /\ ReceiverBecomes([rcv EXCEPT !.state = After(@, "active")],
                       SinkOpened(sink), <<Having("accept")>>)
    /\ UNCHANGED <<opts, snd, up, toR, source, env>>

SinkOpenFails ==
    /\ sink.handle = "opening"
    /\ ReceiverBecomes(Failed(rcv), [sink EXCEPT !.handle = "none"], CancelNote(rcv))
    /\ UNCHANGED <<opts, snd, up, toR, source, env>>

Reject ==
    /\ rcv.state = "offered"
    /\ ReceiverBecomes(Cancelled(rcv), sink, <<Plain("reject")>>)
    /\ UNCHANGED <<opts, snd, up, toR, source, env>>

ReceiverPause ==
    /\ Eventful
    /\ rcv.state = "active"
    /\ env' = [env EXCEPT !.calls = @ + 1]
    /\ ReceiverBecomes([rcv EXCEPT !.state = "paused"], sink, <<Plain("pause")>>)
    /\ UNCHANGED <<opts, snd, up, toR, source>>

ReceiverResume ==
    /\ Eventful
    /\ rcv.state = "paused"
    /\ env' = [env EXCEPT !.calls = @ + 1]
    /\ ReceiverBecomes([rcv EXCEPT !.state = "active"], sink, <<Plain("resume")>>)
    /\ UNCHANGED <<opts, snd, up, toR, source>>

ReceiverCancel ==
    /\ rcv.state \notin Terminal \cup {"idle"}
    /\ ReceiverBecomes(Cancelled(rcv), sink, <<Plain("cancel")>>)
    /\ UNCHANGED <<opts, snd, up, toR, source, env>>

\* close() of the receiving manager before the offer: it stops listening.
ReceiverCloses ==
    /\ rcv.state = "idle"
    /\ ~ rcv.closed
    /\ rcv' = [rcv EXCEPT !.closed = TRUE, !.ttl = FALSE]
    /\ chan' = Discarded(chan)
    /\ UNCHANGED <<opts, snd, sink, up, toS, toR, source, env>>

\* Mutant: a chunk does not try to complete.
FrameArrivesOnly(c) ==
    /\ chan[c].rx = "attached"
    /\ chan[c].wire # <<>>
    /\ LET frame == Head(chan[c].wire)
           new == rcv.state \notin Terminal /\ sink.given /\ rcv.received[frame[1]] = Unread
       IN  rcv' = IF new THEN [rcv EXCEPT !.received[frame[1]] = frame[2],
                                          !.chain = Append(@, frame)]
                         ELSE rcv
    /\ chan' = [chan EXCEPT ![c].wire = Tail(@)]
    /\ UNCHANGED <<opts, snd, sink, up, toS, toR, source, env>>

\* _onMessage: ignored when terminal or without a sink, refused when invalid, not
\* stored twice; a new chunk is queued for writing and completion is tried.
FrameArrives(c) ==
    /\ chan[c].rx = "attached"
    /\ chan[c].wire # <<>>
    /\ LET frame == Head(chan[c].wire)
           new == /\ rcv.state \notin Terminal
                  /\ sink.given
                  /\ rcv.received[frame[1]] = Unread
       IN  rcv' = IF new THEN Claimed([rcv EXCEPT !.received[frame[1]] = frame[2],
                                                  !.chain = Append(@, frame)])
                         ELSE rcv
    /\ chan' = [chan EXCEPT ![c].wire = Tail(@)]
    /\ UNCHANGED <<opts, snd, sink, up, toS, toR, source, env>>

FrameInvalid(c) ==
    /\ chan[c].rx = "attached"
    /\ chan[c].wire # <<>>
    /\ rcv.state \notin Terminal
    /\ sink.given
    /\ ReceiverBecomes(Failed(rcv), sink, <<Plain("cancel")>>)
    /\ UNCHANGED <<opts, snd, up, toR, source, env>>

\* The write chain: a task that finds the transfer alive hashes its chunk ...
WriteHashes ==
    /\ rcv.chain # <<>>
    /\ opts.checksum
    /\ ~ rcv.hashing
    /\ rcv' = [rcv EXCEPT !.hashing = TRUE]
    /\ UNCHANGED <<opts, snd, sink, chan, up, toS, toR, source, env>>

\* ... and writes it without looking again: a sink without a handle is reopened.
Written(k, frame) ==
    [k EXCEPT !.handle = "open",
              !.data = [(IF k.handle = "none" THEN NoContent ELSE k.data)
                           EXCEPT ![frame[1]] = frame[2]]]

ChainPopped == [rcv EXCEPT !.chain = Tail(@), !.hashing = FALSE]

WriteDone ==
    /\ rcv.chain # <<>>
    /\ rcv.hashing = opts.checksum
    /\ rcv' = ChainPopped
    /\ sink' = Written(sink, Head(rcv.chain))
    /\ UNCHANGED <<opts, snd, chan, up, toS, toR, source, env>>

WriteFails ==
    /\ rcv.chain # <<>>
    /\ rcv.hashing = opts.checksum
    /\ ReceiverBecomes(Failed(ChainPopped), AbortSink(sink), CancelNote(rcv))
    /\ UNCHANGED <<opts, snd, up, toR, source, env>>

\* Completing, where legal, and sink.close() in flight.
Closing(r) == [r EXCEPT !.completing = "closing", !.state = After(@, "completing")]

\* _tryComplete after the writes: its last look at isTerminal.
WritesAwaited ==
    /\ rcv.completing = "writes"
    /\ rcv.chain = <<>>
    /\ rcv' = IF rcv.state \in Terminal THEN [rcv EXCEPT !.completing = "done"]
              ELSE IF opts.checksum THEN [rcv EXCEPT !.completing = "digest"]
              ELSE Closing(rcv)
    /\ UNCHANGED <<opts, snd, sink, chan, up, toS, toR, source, env>>

\* The digest is final: a mismatch ends the transfer, a match closes the sink.
Verify ==
    /\ rcv.completing = "digest"
    /\ IF rcv.received = rcv.expected
       THEN ReceiverBecomes(Closing(rcv), sink, <<>>)
       ELSE ReceiverBecomes([Failed(rcv) EXCEPT !.completing = "done", !.mismatch = TRUE],
                            AbortSink(sink), <<Plain("checksum-mismatch")>>)
    /\ UNCHANGED <<opts, snd, up, toR, source, env>>

SinkCloses ==
    /\ rcv.completing = "closing"
    /\ ReceiverBecomes([rcv EXCEPT !.completing = "done", !.state = After(@, "completed")],
                       SinkClosed(sink), <<Plain("complete")>>)
    /\ UNCHANGED <<opts, snd, up, toR, source, env>>

SinkCloseFails ==
    /\ rcv.completing = "closing"
    /\ ReceiverBecomes([Failed(rcv) EXCEPT !.completing = "done"], sink, CancelNote(rcv))
    /\ UNCHANGED <<opts, snd, up, toR, source, env>>

-----------------------------------------------------------------------------
(* The environment.                                                        *)

Dropped(ch, lost) ==
    [c \in Channel |-> IF c \in lost /\ ch[c].st # "none"
                       THEN [ch[c] EXCEPT !.st = "closed", !.wire = <<>>] ELSE ch[c]]

\* One data channel fails.
ChannelDrops(c) ==
    /\ Eventful
    /\ chan[c].st \in {"opening", "open"}
    /\ env' = [env EXCEPT !.drops = @ + 1]
    /\ chan' = Dropped(chan, {c})
    /\ UNCHANGED <<opts, snd, rcv, sink, up, toS, toR, source>>

\* The peer connection is replaced: every channel is gone, the control channel too.
ConnectionDrops ==
    /\ Eventful
    /\ up
    /\ snd.state # "idle"
    /\ env' = [env EXCEPT !.drops = @ + 1]
    /\ up' = FALSE
    /\ toS' = <<>>
    /\ toR' = <<>>
    /\ chan' = Dropped(chan, Channel)
    /\ UNCHANGED <<opts, snd, rcv, sink, source>>

SourceEdited ==
    /\ source < MaxEdits
    /\ Eventful
    /\ snd.state \notin Terminal
    /\ source' = source + 1
    /\ UNCHANGED <<opts, snd, rcv, sink, chan, up, toS, toR, env>>

\* The steps the code takes by itself once their cause is there.
Progress ==
    \/ OfferTimeout
    \/ SenderControl
    \/ ReceiverControl
    \/ RunEnds
    \/ SinkOpens
    \/ WriteHashes
    \/ WriteDone
    \/ WritesAwaited
    \/ Verify
    \/ SinkCloses
    \/ \E i \in Worker : WorkerOpens(i) \/ WorkerReads(i) \/ WorkerSends(i)
    \/ \E c \in Channel : ChannelArrives(c) \/ FrameArrives(c)

Next ==
    \/ Progress
    \/ SendFile
    \/ ResumeSend
    \/ AcceptThenPause
    \/ SenderPause
    \/ SenderResume
    \/ SenderCancel
    \/ \E i \in Worker : SourceFails(i)
    \/ PendingExpires
    \/ Accept
    \/ SinkOpenFails
    \/ Reject
    \/ ReceiverPause
    \/ ReceiverResume
    \/ ReceiverCancel
    \/ ReceiverCloses
    \/ \E c \in Channel : FrameInvalid(c)
    \/ WriteFails
    \/ SinkCloseFails
    \/ \E c \in Channel : ChannelDrops(c)
    \/ ConnectionDrops
    \/ SourceEdited

Spec == Init /\ [][Next]_vars

-----------------------------------------------------------------------------
(* Properties.                                                             *)

\* The variables have their types.
TypeOK ==
    /\ opts \in [resumable : BOOLEAN, checksum : BOOLEAN, timed : BOOLEAN]
    /\ snd.state \in State \ {"accepted"}
    /\ snd.interrupted \in BOOLEAN
    /\ snd.timer \in {"off", "offer", "reoffer"}
    /\ snd.batch \in 1 .. MaxBatches
    /\ snd.have \subseteq Chunk
    /\ snd.run \in {"none", "live", "dead", "reoffered"}
    /\ snd.pc \in [Worker -> {"open", "gate", "sending", "end"}]
    /\ snd.read \in Content
    /\ rcv.state \in State
    /\ rcv.received \in Content
    /\ rcv.expected \in Content
    /\ rcv.chain \in Seq(Chunk \X Version)
    /\ rcv.completing \in {"no", "writes", "digest", "closing", "done"}
    /\ sink.handle \in {"none", "opening", "open"}
    /\ sink.data \in Content
    /\ \A c \in Channel : /\ chan[c].st \in {"none", "opening", "open", "closed"}
                          /\ chan[c].rx \in {"none", "pending", "attached"}
                          /\ chan[c].wire \in Seq(Chunk \X Version)
    /\ source \in Version

\* A transfer that either side reports as completed is a whole file: the sink was
\* closed, not discarded, with every chunk in it, and with a checksum it holds what
\* the sender read in its last run, not a mixture of two versions of the source.
CompletedIsWhole ==
    "completed" \in {snd.state, rcv.state} =>
        /\ sink.closed /\ ~ sink.aborted
        /\ \A k \in Chunk : sink.data[k] # Unread
        /\ opts.checksum => sink.data = rcv.expected

\* The receiver reports a checksum mismatch only when the source really changed:
\* interruptions, resent and duplicate chunks do not make the two digests differ.
NoFalseMismatch == rcv.mismatch => source > 0

\* Nothing is left for the code to do by itself: no timer, message, frame or promise
\* and no runnable worker.  Every Progress step uses one of these up, so by their
\* fairness such a state is reached whenever the environment rests.
Quiet ==
    /\ snd.timer = "off" /\ toS = <<>> /\ (toR = <<>> \/ rcv.closed)
    /\ snd.run = "live" => \E i \in Worker : snd.pc[i] # "end"
    /\ \A i \in Worker :
          /\ snd.pc[i] = "open" => chan[<<snd.batch, i>>].st \notin {"open", "closed"}
          /\ snd.pc[i] = "gate" => snd.state = "paused"
          /\ snd.pc[i] # "sending"
    /\ sink.handle # "opening" /\ rcv.chain = <<>> /\ rcv.completing \in {"no", "done"}
    /\ \A c \in Channel :
          /\ chan[c].st = "opening" => rcv.closed
          /\ chan[c].rx = "attached" => chan[c].wire = <<>>

\* Without a pause nobody is left waiting for ever, whatever the order of offer, answer,
\* timeout, chunks, Sent, failing sources or sinks and lost channels: an offered transfer
\* ends or is interrupted unless the network failed (it is also interrupted when the
\* channels it waited for were discarded); a side that ended is followed by the other
\* one while the control channel lives; and an interrupted transfer that was offered
\* again is resumed or given up.  With offerTimeoutMs = 0 the sender may wait in Offered
\* as long as the receiving application does not answer, or its manager is closed, and
\* for the answer to a repeated offer that was lost with the control channel.
TransferEnds ==
    Quiet /\ env.calls = 0 =>
        /\ \/ snd.state \in Terminal \cup {"idle"} \/ snd.interrupted \/ env.drops > 0
           \/ ~ opts.timed /\ snd.state = "offered" /\ (rcv.state = "offered" \/ rcv.closed)
        /\ up /\ rcv.state \in Terminal => snd.state \in Terminal
        /\ up /\ snd.state \in Terminal => rcv.state \in Terminal \cup {"idle"}
        /\ snd.run = "reoffered" => ~ opts.timed /\ ~ up

\* ReceiveTransfer.ts:347-349 of the completion it has claimed: "Every path past
\* here is terminal (complete or fail), so the flag never needs resetting."
CompletionIsTerminal == rcv.completing = "done" => rcv.state \in Terminal

\* ReceiveTransfer.ts:114-116: a transfer that ends without completing aborts the
\* sink "so a Node sink's handle is released and its partial file discarded".
EndReleasesSink ==
    rcv.state \in {"failed", "cancelled"} => sink.handle # "open"
=============================================================================
