------------------------- MODULE FileTransferProofs -------------------------
(* Invariance proofs for FileTransfer, for every number of chunks, channels,  *)
(* batches and edits of the source.                                           *)
(*                                                                            *)
(* The inductive invariant has five parts: what the sender's workers have     *)
(* read (SendInv), how the sink, the write chain and the completion of the    *)
(* receiver agree (SinkInv), that no content is newer than the source         *)
(* (FreshInv), and what a control message on its way says of the side that    *)
(* sent it (SentInv for Sent and Cancel, CompleteInv for Complete).           *)
EXTENDS FileTransfer, SequenceTheorems, WellFoundedInduction, TLAPS

\* The ranges of the fields, so that the provers need not look into them.
Frame    == Chunk \X Version
Frames   == Seq(Frame)
PcState  == {"open", "gate", "sending", "end"}
Pcs      == [Worker -> PcState]
Seqs     == [Worker -> Nat]
Batches  == 1..MaxBatches
Chunks   == SUBSET Chunk
RunState == {"none", "live", "dead", "reoffered"}
Timers   == {"off", "offer", "reoffer"}
Claims   == {"no", "writes", "digest", "closing", "done"}
Handles  == {"none", "opening", "open"}
Links    == {"none", "opening", "open", "closed"}
Binding  == {"none", "pending", "attached"}

SndType == [state : State \ {"accepted"}, interrupted : BOOLEAN, timer : Timers,
            batch : Batches, have : Chunks, run : RunState, pc : Pcs, seq : Seqs,
            read : Content]
RcvType == [state : State, closed : BOOLEAN, ttl : BOOLEAN, received : Content,
            senderDone : BOOLEAN, expected : Content, chain : Frames, hashing : BOOLEAN,
            completing : Claims, mismatch : BOOLEAN]
SinkType == [given : BOOLEAN, handle : Handles, final : BOOLEAN, closed : BOOLEAN,
             aborted : BOOLEAN, data : Content]
ChanType == [st : Links, rx : Binding, wire : Frames]

\* Messages that end the transfer for the sender, and all control messages.
Fatal  == {"cancel", "reject", "checksum-mismatch"}
ToSMsg == [type : Fatal \cup {"complete", "pause", "resume"}]
             \cup [type : {"accept", "resume-request"}, have : Chunks]
ToRMsg == [type : {"offer", "cancel", "pause", "resume"}]
             \cup [type : {"sent"}, digest : Content]

Typing ==
    /\ opts \in [resumable : BOOLEAN, checksum : BOOLEAN, timed : BOOLEAN]
    /\ snd \in SndType /\ rcv \in RcvType /\ sink \in SinkType
    /\ chan \in [Channel -> ChanType] /\ up \in BOOLEAN
    /\ toS \in Seq(ToSMsg) /\ toR \in Seq(ToRMsg)
    /\ source \in Version

-----------------------------------------------------------------------------
(* The inductive invariant *)

Full(f) == \A k \in Chunk : f[k] # Unread

\* The chunks of worker i.
Lane(i) == {i + m * Parallel : m \in Nat}

\* A worker with a chunk to send has read it; with a checksum, a live run has read
\* every chunk its workers are past.
LaneInv(o, s, i) ==
    /\ s.seq[i] \in Lane(i)
    /\ s.pc[i] = "open" => s.seq[i] = i
    /\ s.pc[i] \in {"gate", "sending"} => s.seq[i] < Total
    /\ s.pc[i] = "sending" => s.read[s.seq[i]] # Unread
    /\ s.run = "live" /\ s.pc[i] = "end" => s.seq[i] >= Total
    /\ o.checksum /\ s.run = "live" =>
          \A k \in Chunk : k \in Lane(i) /\ k < s.seq[i] => s.read[k] # Unread

\* A live run belongs to a transfer that was accepted and is not interrupted.
SendInv(o, s) ==
    /\ s.run = "live" => ~ s.interrupted /\ s.state \notin {"idle", "offered"}
    /\ \A i \in Worker : LaneInv(o, s, i)

\* Completion is claimed with every chunk received and leaves the chain empty; the
\* sink is closed once, by the completion, or discarded by a transfer that failed.
SinkBase(o, r, k) ==
    /\ ~ k.given => /\ \A x \in Chunk : r.received[x] = Unread
                    /\ r.chain = << >> /\ k.handle = "none"
                    /\ r.state \notin {"accepted", "active", "paused", "completing"}
    /\ \A i \in 1..Len(r.chain) : r.received[r.chain[i][1]] = r.chain[i][2]
    /\ r.hashing => r.chain # << >>
    /\ k.final => k.aborted \/ k.closed
    /\ k.aborted => k.final /\ r.state \in {"failed", "cancelled"}
    /\ k.closed => k.final /\ r.completing = "done"
    /\ r.state = "completed" => k.closed
    /\ r.completing # "no" => r.senderDone /\ Full(r.received)
    /\ r.completing \in {"digest", "closing", "done"} => r.chain = << >>
    /\ r.completing = "digest" => o.checksum
    /\ r.completing = "closing" /\ o.checksum => r.received = r.expected
    /\ k.closed /\ ~ k.aborted => Full(k.data) /\ (o.checksum => k.data = r.expected)

\* Until then every chunk received is in the sink or in the write chain.
Held(r, k, x) ==
    \/ r.received[x] = Unread
    \/ k.data[x] = r.received[x]
    \/ \E i \in 1..Len(r.chain) : r.chain[i] = <<x, r.received[x]>>
SinkLive(r, k) ==
    ~ k.final => /\ k.given => k.handle # "none" /\ r.state \notin {"failed", "cancelled"}
                 /\ \A x \in Chunk : Held(r, k, x)

SinkInv(o, r, k) == SinkBase(o, r, k) /\ SinkLive(r, k)

\* No content is newer than the source, and a mismatch needs an edit.
UpToDate(v, f) == \A k \in Chunk : f[k] <= v
WireInv(v, c) == \A i \in 1..Len(c.wire) : c.wire[i][2] <= v
FreshInv(v, s, r, ch, q) ==
    /\ UpToDate(v, s.read) /\ UpToDate(v, r.received) /\ UpToDate(v, r.expected)
    /\ r.mismatch => v > 0
    /\ \A c \in Channel : WireInv(v, ch[c])
    /\ \A i \in 1..Len(q) : q[i].type = "sent" => UpToDate(v, q[i].digest)

\* Sent goes out once, after the last run; Cancel is sent by a sender that ended.
Sent(r, q) == r.senderDone \/ \E i \in 1..Len(q) : q[i].type = "sent"
SentInv(o, s, r, q) ==
    /\ Sent(r, q) => s.run = "none" /\ ~ s.interrupted /\ s.state \notin {"idle", "offered"}
    /\ \A i, j \in 1..Len(q) : q[i].type = "sent" /\ q[j].type = "sent" => i = j
    /\ r.senderDone => \A i \in 1..Len(q) : q[i].type # "sent"
    /\ \A i \in 1..Len(q) : q[i].type = "cancel" => s.state \in Terminal
    /\ o.checksum => /\ \A i \in 1..Len(q) : q[i].type = "sent" => Full(q[i].digest)
                     /\ r.senderDone => Full(r.expected)

\* A receiver that failed has told the sender, as long as the channel lives; so a
\* Complete that the sender acts upon comes from a sink that was closed.
Kept(k) == k.closed /\ ~ k.aborted
CompleteInv(s, r, k, u, q) ==
    /\ \A i \in 1..Len(q) : q[i].type = "complete" =>
          \/ Kept(k) \/ s.state \in Terminal
          \/ \E j \in 1..Len(q) : j < i /\ q[j].type \in Fatal
    /\ u /\ r.state \in {"failed", "cancelled"} =>
          s.state \in Terminal \/ \E i \in 1..Len(q) : q[i].type \in Fatal
    /\ s.state = "completed" => Kept(k)

IndInv ==
    /\ Typing
    /\ SendInv(opts, snd)
    /\ SinkInv(opts, rcv, sink)
    /\ FreshInv(source, snd, rcv, chan, toR)
    /\ SentInv(opts, snd, rcv, toR)
    /\ CompleteInv(snd, rcv, sink, up, toS)

-----------------------------------------------------------------------------
(* Lanes: worker i has the chunks i, i + Parallel, ... *)

\* A set of natural numbers that is not empty has a least element.
LEMMA LeastNatural ==
    ASSUME NEW T \in SUBSET Nat, T # {}
    PROVE  \E m \in T : \A n \in T : m <= n
<1> DEFINE R == OpToRel(<, Nat)
<1>1. \A x, y \in Nat : <<x, y>> \in R <=> x < y
  BY DEF OpToRel
<1>2. IsWellFoundedOn(R, Nat)
  BY NatLessThanWellFounded
<1> HIDE DEF R
<1>3. PICK m \in T : \A y \in T : ~ (<<y, m>> \in R)
  BY <1>2, WFMin
<1>4. ASSUME NEW n \in T PROVE m <= n
  <2>1. m \in Nat /\ n \in Nat
    OBVIOUS
  <2>2. ~ (n < m)
    BY <1>1, <1>3, <2>1, Zenon
  <2> QED
    BY <2>1, <2>2
<1> QED
  BY <1>4

\* A lane starts at its worker and goes on in steps of Parallel.
LEMMA LaneSteps ==
    ASSUME NEW i \in Worker
    PROVE  i \in Lane(i) /\ \A x \in Lane(i) : x \in Nat /\ x + Parallel \in Lane(i)
<1>1. Parallel \in Nat /\ i \in Nat
  BY SizesAssumption DEF Worker
<1>2. i = i + 0 * Parallel
  BY <1>1
<1>3. i \in Lane(i)
  BY <1>2 DEF Lane
<1>4. ASSUME NEW x \in Lane(i) PROVE x \in Nat /\ x + Parallel \in Lane(i)
  <2>1. PICK m \in Nat : x = i + m * Parallel
    BY DEF Lane
  <2>2. m * Parallel \in Nat
    BY <1>1
  <2>3. (m + 1) * Parallel = m * Parallel + Parallel
    BY <1>1
  <2>4. x + Parallel = i + (m + 1) * Parallel
    BY <1>1, <2>1, <2>2, <2>3
  <2> QED
    BY <1>1, <2>1, <2>2, <2>4 DEF Lane
<1> QED
  BY <1>3, <1>4

\* Between an element of a lane and the next there is none.
LEMMA LaneGaps ==
    ASSUME NEW i \in Worker, NEW x \in Lane(i), NEW y \in Lane(i), x < y
    PROVE  x + Parallel <= y
<1>1. Parallel \in Nat /\ i \in Nat
  BY SizesAssumption DEF Worker
<1>2. PICK m \in Nat : x = i + m * Parallel
  BY DEF Lane
<1>3. PICK n \in Nat : y = i + n * Parallel
  BY DEF Lane
<1>4. m * Parallel \in Nat /\ n * Parallel \in Nat
  BY <1>1
<1>5. m < n
  <2>1. SUFFICES ASSUME n <= m PROVE n * Parallel <= m * Parallel
    BY <1>1, <1>2, <1>3, <1>4
  <2> QED
    BY <1>1, <2>1
<1>6. (m + 1) * Parallel <= n * Parallel /\ (m + 1) * Parallel = m * Parallel + Parallel
  BY <1>1, <1>5
<1> QED
  BY <1>1, <1>2, <1>3, <1>4, <1>6

\* Every chunk is in some lane.
LEMMA LanesCover ==
    ASSUME NEW k \in Nat
    PROVE  \E i \in Worker : k \in Lane(i)
<1> DEFINE T == {x \in Nat : \A i \in Worker : x \notin Lane(i)}
<1>1. SUFFICES ASSUME T # {} PROVE FALSE
  OBVIOUS
<1>2. PICK m \in T : \A n \in T : m <= n
  BY <1>1, LeastNatural
<1>3. Parallel \in Nat /\ Parallel > 0
  BY SizesAssumption
<1>4. CASE m < Parallel
  <2>1. m \in Worker
    BY <1>3, <1>4 DEF Worker
  <2> QED
    BY <2>1, LaneSteps
<1>5. CASE m >= Parallel
  <2>1. m - Parallel \in Nat /\ m - Parallel < m
    BY <1>3, <1>5
  <2>2. m - Parallel \notin T
    BY <1>2, <2>1
  <2>3. PICK i \in Worker : m - Parallel \in Lane(i)
    BY <2>1, <2>2
  <2>4. (m - Parallel) + Parallel = m
    BY <1>3
  <2> QED
    BY <2>3, <2>4, LaneSteps
<1> QED
  BY <1>3, <1>4, <1>5

-----------------------------------------------------------------------------
(* Queues *)

\* p is q with m at the end; p is q without its head.
Grown(q, m, p) ==
    /\ Len(p) = Len(q) + 1
    /\ p[Len(q) + 1] = m
    /\ \A i \in 1..Len(q) : p[i] = q[i]
Shrunk(q, p) ==
    /\ Len(q) = Len(p) + 1
    /\ \A i \in 1..Len(p) : p[i] = q[i + 1]

\* Posting a message lengthens the queue of a live control channel by it.
LEMMA Growing ==
    ASSUME NEW S, NEW q \in Seq(S), NEW m \in S, NEW p, p = q \o <<m>>
    PROVE  p \in Seq(S) /\ Grown(q, m, p)
<1>1. <<m>> \in Seq(S) /\ Len(<<m>>) = 1 /\ <<m>>[1] = m
  OBVIOUS
<1>2. p \in Seq(S) /\ Len(p) = Len(q) + 1
  BY <1>1
<1>3. Len(q) \in Nat
  OBVIOUS
<1>4. \A i \in 1..Len(q) : p[i] = q[i]
  BY <1>1, <1>3
<1>5. p[Len(q) + 1] = m
  BY <1>1, <1>3
<1> QED
  BY <1>2, <1>4, <1>5 DEF Grown

\* The same for Append, which puts a frame on a wire or into the write chain.
LEMMA Appending ==
    ASSUME NEW S, NEW q \in Seq(S), NEW m \in S, NEW p, p = Append(q, m)
    PROVE  p \in Seq(S) /\ Grown(q, m, p)
<1>1. p \in Seq(S) /\ Len(p) = Len(q) + 1
  OBVIOUS
<1>2. Len(q) \in Nat
  OBVIOUS
<1>3. \A i \in 1..Len(q) : p[i] = q[i]
  BY <1>2
<1>4. p[Len(q) + 1] = m
  BY <1>2
<1> QED
  BY <1>1, <1>3, <1>4 DEF Grown

\* Taking the head off a queue shifts the rest.
LEMMA Shrinking ==
    ASSUME NEW S, NEW q \in Seq(S), q # << >>, NEW p, p = Tail(q)
    PROVE  p \in Seq(S) /\ Shrunk(q, p) /\ Head(q) = q[1] /\ Head(q) \in S
<1>1. Len(q) \in Nat /\ Len(q) >= 1
  OBVIOUS
<1>2. p \in Seq(S) /\ Len(p) = Len(q) - 1
  BY <1>1
<1>3. \A i \in 1..Len(p) : p[i] = q[i + 1]
  BY <1>1, <1>2
<1>4. Head(q) = q[1] /\ q[1] \in S
  BY <1>1
<1> QED
  BY <1>1, <1>2, <1>3, <1>4 DEF Shrunk

\* What posting nothing, or one message, does to a queue.
Post(u, q, m, p) == (u /\ Grown(q, m, p)) \/ (~ u /\ p = q)

\* Posting no message leaves the queue as it was.
LEMMA PostNone ==
    ASSUME NEW S, NEW q \in Seq(S)
    PROVE  Posted(q, << >>) = q
<1>1. q \o << >> = q
  OBVIOUS
<1> QED
  BY <1>1 DEF Posted

\* Posting one message appends it, if the connection is up.
LEMMA PostOne ==
    ASSUME NEW S, NEW q \in Seq(S), NEW m \in S, NEW p, p = Posted(q, <<m>>)
    PROVE  p \in Seq(S) /\ Post(up, q, m, p)
<1>1. CASE up
  <2>1. p = q \o <<m>>
    BY <1>1 DEF Posted
  <2> QED
    BY <1>1, <2>1, Growing DEF Post
<1>2. CASE ~ up
  BY <1>2 DEF Posted, Post
<1> QED
  BY <1>1, <1>2

-----------------------------------------------------------------------------
(* The messages on their way, when one side moves *)

\* The sender of a Sent: its run is over and will not be resumed.
Settled(s) == s.run = "none" /\ ~ s.interrupted /\ s.state \notin {"idle", "offered"}

\* What the sender may post besides Sent.
SenderPosts(s, q, p) ==
    \/ p = q
    \/ \E m \in ToRMsg : /\ Grown(q, m, p) /\ m.type # "sent"
                         /\ m.type = "cancel" => s.state \in Terminal

\* A sender that does not come back from an end, nor runs again after Sent, leaves
\* the messages to the receiver as they should be.
LEMMA SentAfterSender ==
    ASSUME NEW o, NEW s, NEW s2, NEW r, NEW q \in Seq(ToRMsg), NEW p \in Seq(ToRMsg),
           SentInv(o, s, r, q), s.state \in Terminal => s2.state \in Terminal,
           Sent(r, q) => Settled(s2), SenderPosts(s2, q, p)
    PROVE  SentInv(o, s2, r, p)
<1>1. CASE p = q
  BY <1>1 DEF SentInv, Settled
<1>2. CASE p # q
  <2>1. PICK m \in ToRMsg : /\ Grown(q, m, p) /\ m.type # "sent"
                            /\ m.type = "cancel" => s2.state \in Terminal
    BY <1>2 DEF SenderPosts
  <2>2. Len(q) \in Nat
    OBVIOUS
  <2>3. \A i \in 1..Len(p) : (i \in 1..Len(q) /\ p[i] = q[i]) \/ (i = Len(q) + 1 /\ p[i] = m)
    BY <2>1, <2>2 DEF Grown
  <2>4. \A i \in 1..Len(p) : p[i].type = "sent" => i \in 1..Len(q) /\ p[i] = q[i]
    BY <2>1, <2>3
  <2>5. Sent(r, p) => Sent(r, q)
    BY <2>4 DEF Sent
  <2>6. \A i \in 1..Len(p) : p[i].type = "cancel" => s2.state \in Terminal
    BY <2>1, <2>3 DEF SentInv
  <2> QED
    BY <2>4, <2>5, <2>6 DEF SentInv, Settled
<1> QED
  BY <1>1, <1>2

\* Taking a message off the queue to the sender, which ends the transfer if it is
\* a fatal one.
SenderTakes(s, q, p) == p = q \/ (Shrunk(q, p) /\ (q[1].type \in Fatal => s.state \in Terminal))

\* A sender that ends, or takes a message that is not fatal, keeps the promises of the
\* complete message and of a receiver that gave up.
LEMMA CompleteAfterSender ==
    ASSUME NEW s, NEW s2, NEW r, NEW k, NEW u, NEW q \in Seq(ToSMsg), NEW p \in Seq(ToSMsg),
           CompleteInv(s, r, k, u, q), s.state \in Terminal => s2.state \in Terminal,
           s2.state = "completed" => Kept(k), SenderTakes(s2, q, p)
    PROVE  CompleteInv(s2, r, k, u, p)
<1>1. CASE p = q
  BY <1>1 DEF CompleteInv
<1>2. CASE s2.state \in Terminal
  BY <1>2 DEF CompleteInv
<1>3. CASE p # q /\ s2.state \notin Terminal
  <2>1. Shrunk(q, p) /\ q[1].type \notin Fatal /\ s.state \notin Terminal
    BY <1>3 DEF SenderTakes
  <2>2. Len(q) \in Nat /\ Len(p) \in Nat /\ Len(q) = Len(p) + 1
    BY <2>1 DEF Shrunk
  <2>3. \A j \in 1..Len(q) : j = 1 \/ (j - 1 \in 1..Len(p) /\ p[j - 1] = q[j])
    <3> TAKE j \in 1..Len(q)
    <3>1. j = 1 \/ (j - 1 \in 1..Len(p) /\ (j - 1) + 1 = j)
      BY <2>2
    <3> QED
      BY <2>1, <3>1 DEF Shrunk
  <2>4. ASSUME NEW i \in 1..Len(p), p[i].type = "complete"
        PROVE  Kept(k) \/ \E j \in 1..Len(p) : j < i /\ p[j].type \in Fatal
    <3>1. i + 1 \in 1..Len(q) /\ q[i + 1] = p[i]
      BY <2>1, <2>2 DEF Shrunk
    <3>2. Kept(k) \/ \E j \in 1..Len(q) : j < i + 1 /\ q[j].type \in Fatal
      BY <2>1, <2>4, <3>1 DEF CompleteInv
    <3>3. ASSUME NEW j \in 1..Len(q), j < i + 1, q[j].type \in Fatal
          PROVE  \E n \in 1..Len(p) : n < i /\ p[n].type \in Fatal
      <4>1. j - 1 \in 1..Len(p) /\ p[j - 1] = q[j] /\ j - 1 < i
        BY <2>1, <2>3, <3>3
      <4> QED
        BY <3>3, <4>1
    <3> QED
      BY <3>2, <3>3
  <2>5. ASSUME u, r.state \in {"failed", "cancelled"}
        PROVE  \E n \in 1..Len(p) : p[n].type \in Fatal
    <3>1. PICK j \in 1..Len(q) : q[j].type \in Fatal
      BY <2>1, <2>5 DEF CompleteInv
    <3> QED
      BY <2>1, <2>3, <3>1
  <2> QED
    BY <1>3, <2>4, <2>5 DEF CompleteInv, Terminal
<1> QED
  BY <1>1, <1>2, <1>3

\* The receiver takes Sent once and remembers its digest, or drops a message.
ReceiverTakes(r, r2, q, p) ==
    \/ p = q /\ r2.senderDone = r.senderDone /\ r2.expected = r.expected
    \/ Shrunk(q, p) /\ r2.senderDone = r.senderDone /\ r2.expected = r.expected
    \/ Shrunk(q, p) /\ q[1].type = "sent" /\ r2.senderDone /\ r2.expected = q[1].digest

\* A receiver that takes a message keeps what it was told of the sender's end.
LEMMA SentAfterReceiver ==
    ASSUME NEW o, NEW s, NEW r, NEW r2, NEW q \in Seq(ToRMsg), NEW p \in Seq(ToRMsg),
           SentInv(o, s, r, q), ReceiverTakes(r, r2, q, p)
    PROVE  SentInv(o, s, r2, p)
<1>1. CASE p = q /\ r2.senderDone = r.senderDone /\ r2.expected = r.expected
  BY <1>1 DEF SentInv, Sent
<1>2. CASE Shrunk(q, p)
  <2>1. Len(q) \in Nat /\ Len(p) \in Nat /\ Len(q) = Len(p) + 1
    BY <1>2 DEF Shrunk
  <2>2. 1 \in 1..Len(q)
    BY <2>1
  <2>3. \A i \in 1..Len(p) : i + 1 \in 1..Len(q) /\ p[i] = q[i + 1] /\ i + 1 # 1
    BY <1>2, <2>1 DEF Shrunk
  <2>4. Sent(r2, p) => Sent(r, q)
    BY <1>1, <1>2, <2>2, <2>3 DEF Sent, ReceiverTakes
  <2>5. r2.senderDone => \A i \in 1..Len(p) : p[i].type # "sent"
    BY <1>1, <1>2, <2>2, <2>3 DEF SentInv, ReceiverTakes
  <2>6. \A i, j \in 1..Len(p) : p[i].type = "sent" /\ p[j].type = "sent" => i = j
    <3> TAKE i, j \in 1..Len(p)
    <3>1. q[i + 1].type = "sent" /\ q[j + 1].type = "sent" => i + 1 = j + 1
      BY <2>3 DEF SentInv
    <3> QED
      BY <2>3, <3>1
  <2>7. o.checksum /\ r2.senderDone => Full(r2.expected)
    BY <1>1, <1>2, <2>2 DEF SentInv, ReceiverTakes
  <2> QED
    BY <2>3, <2>4, <2>5, <2>6, <2>7 DEF SentInv
<1> QED
  BY <1>1, <1>2 DEF ReceiverTakes

\* What the receiver may post: Complete only for a sink that is kept, or behind a
\* message that ends the transfer.
ReceiverPosts(s, k, q, p) ==
    \/ p = q
    \/ \E m \in ToSMsg : /\ Grown(q, m, p)
                         /\ m.type = "complete" => \/ Kept(k) \/ s.state \in Terminal
                                                   \/ \E i \in 1..Len(q) : q[i].type \in Fatal

\* So does a receiver that posts a message: complete only with the bytes kept, and a
\* fatal one when it gives up.
LEMMA CompleteAfterReceiver ==
    ASSUME NEW s, NEW r, NEW r2, NEW k, NEW k2, NEW u, NEW q \in Seq(ToSMsg), NEW p \in Seq(ToSMsg),
           CompleteInv(s, r, k, u, q), Kept(k) => Kept(k2), ReceiverPosts(s, k2, q, p),
           u /\ r2.state \in {"failed", "cancelled"} =>
              s.state \in Terminal \/ \E i \in 1..Len(p) : p[i].type \in Fatal
    PROVE  CompleteInv(s, r2, k2, u, p)
<1>1. CASE p = q
  BY <1>1 DEF CompleteInv
<1>2. CASE p # q
  <2>1. PICK m \in ToSMsg :
           /\ Grown(q, m, p)
           /\ m.type = "complete" => \/ Kept(k2) \/ s.state \in Terminal
                                     \/ \E i \in 1..Len(q) : q[i].type \in Fatal
    BY <1>2 DEF ReceiverPosts
  <2>2. Len(q) \in Nat
    OBVIOUS
  <2>3. \A i \in 1..Len(p) : (i \in 1..Len(q) /\ p[i] = q[i]) \/ (i = Len(q) + 1 /\ p[i] = m)
    BY <2>1, <2>2 DEF Grown
  <2>4. \A i \in 1..Len(q) : i \in 1..Len(p) /\ p[i] = q[i] /\ i < Len(q) + 1
    BY <2>1, <2>2 DEF Grown
  <2>5. ASSUME NEW i \in 1..Len(p), p[i].type = "complete"
        PROVE  \/ Kept(k2) \/ s.state \in Terminal
               \/ \E j \in 1..Len(p) : j < i /\ p[j].type \in Fatal
    <3>1. CASE i \in 1..Len(q) /\ p[i] = q[i]
      <4>1. \/ Kept(k2) \/ s.state \in Terminal
            \/ \E j \in 1..Len(q) : j < i /\ q[j].type \in Fatal
        BY <2>5, <3>1 DEF CompleteInv
      <4> QED
        BY <2>4, <4>1
    <3>2. CASE i = Len(q) + 1 /\ p[i] = m
      BY <2>1, <2>4, <2>5, <3>2
    <3> QED
      BY <2>3, <3>1, <3>2
  <2> QED
    BY <2>5 DEF CompleteInv
<1> QED
  BY <1>1, <1>2

-----------------------------------------------------------------------------
(* A step of the sender, and one of the receiver *)

ChannelsOK(v, ch) == ch \in [Channel -> ChanType] /\ \A c \in Channel : WireInv(v, ch[c])

\* A step of the sender that reads and posts what it may keeps the invariant.
LEMMA SenderStep ==
    ASSUME IndInv, UNCHANGED <<opts, rcv, sink, up, source>>,
           snd' \in SndType, SendInv(opts, snd'), UpToDate(source, snd'.read),
           ChannelsOK(source, chan'),
           toS' \in Seq(ToSMsg), SenderTakes(snd', toS, toS'),
           toR' \in Seq(ToRMsg), SenderPosts(snd', toR, toR'),
           snd.state \in Terminal => snd'.state \in Terminal,
           snd'.state = "completed" => Kept(sink),
           Sent(rcv, toR) => Settled(snd')
    PROVE  IndInv'
<1>1. Typing'
  BY DEF IndInv, Typing, ChannelsOK
<1>2. SendInv(opts', snd') /\ SinkInv(opts', rcv', sink')
  BY DEF IndInv
<1>3. SentInv(opts', snd', rcv', toR')
  BY SentAfterSender DEF IndInv, Typing
<1>4. CompleteInv(snd', rcv', sink', up', toS')
  BY CompleteAfterSender DEF IndInv, Typing
<1>5. FreshInv(source', snd', rcv', chan', toR')
  <2>1. \A i \in 1..Len(toR') : toR'[i].type = "sent" => i \in 1..Len(toR) /\ toR'[i] = toR[i]
    <3>1. CASE toR' = toR
      BY <3>1
    <3>2. CASE toR' # toR
      <4>1. PICK m \in ToRMsg : Grown(toR, m, toR') /\ m.type # "sent"
        BY <3>2 DEF SenderPosts
      <4>2. Len(toR) \in Nat
        BY DEF IndInv, Typing
      <4> QED
        BY <4>1, <4>2 DEF Grown
    <3> QED
      BY <3>1, <3>2
  <2> QED
    BY <2>1 DEF IndInv, FreshInv, ChannelsOK
<1> QED
  BY <1>1, <1>2, <1>3, <1>4, <1>5 DEF IndInv

\* A step of the receiver that keeps its own part and tells the sender of a failure
\* keeps the invariant.
LEMMA ReceiverStep ==
    ASSUME IndInv, UNCHANGED <<opts, snd, up, source>>,
           rcv' \in RcvType, sink' \in SinkType, SinkInv(opts, rcv', sink'),
           UpToDate(source, rcv'.received), rcv'.mismatch => source > 0,
           ChannelsOK(source, chan'),
           toR' \in Seq(ToRMsg), ReceiverTakes(rcv, rcv', toR, toR'),
           toS' \in Seq(ToSMsg), ReceiverPosts(snd, sink', toS, toS'),
           Kept(sink) => Kept(sink'),
           up /\ rcv'.state \in {"failed", "cancelled"} =>
              snd.state \in Terminal \/ \E i \in 1..Len(toS') : toS'[i].type \in Fatal
    PROVE  IndInv'
<1>1. Typing'
  BY DEF IndInv, Typing, ChannelsOK
<1>2. SendInv(opts', snd') /\ SinkInv(opts', rcv', sink')
  BY DEF IndInv
<1>3. SentInv(opts', snd', rcv', toR')
  BY SentAfterReceiver DEF IndInv, Typing
<1>4. CompleteInv(snd', rcv', sink', up', toS')
  BY CompleteAfterReceiver DEF IndInv, Typing
<1>5. FreshInv(source', snd', rcv', chan', toR')
  <2>1. Len(toR) \in Nat /\ Len(toR') \in Nat
    BY DEF IndInv, Typing
  <2>2. \A i \in 1..Len(toR') : \E j \in 1..Len(toR) : toR'[i] = toR[j]
    <3>1. CASE toR' = toR
      BY <3>1
    <3>2. CASE Shrunk(toR, toR')
      <4>1. \A i \in 1..Len(toR') : i + 1 \in 1..Len(toR) /\ toR'[i] = toR[i + 1]
        BY <2>1, <3>2 DEF Shrunk
      <4> QED
        BY <4>1
    <3> QED
      BY <3>1, <3>2 DEF ReceiverTakes
  <2>3. UpToDate(source, rcv'.expected)
    <3>1. CASE rcv'.expected = rcv.expected
      BY <3>1 DEF IndInv, FreshInv
    <3>2. CASE Shrunk(toR, toR') /\ toR[1].type = "sent" /\ rcv'.expected = toR[1].digest
      <4>1. 1 \in 1..Len(toR)
        BY <2>1, <3>2 DEF Shrunk
      <4> QED
        BY <3>2, <4>1 DEF IndInv, FreshInv
    <3> QED
      BY <3>1, <3>2 DEF ReceiverTakes
  <2> QED
    BY <2>2, <2>3 DEF IndInv, FreshInv, ChannelsOK
<1> QED
  BY <1>1, <1>2, <1>3, <1>4, <1>5 DEF IndInv

-----------------------------------------------------------------------------
(* Channels *)

\* The wires of ch2 are those of ch, or empty.
Cut(ch, ch2) ==
    /\ ch2 \in [Channel -> ChanType]
    /\ \A c \in Channel : ch2[c].wire = ch[c].wire \/ ch2[c].wire = << >>

\* Closing links and emptying wires keeps the frames on the wires up to date.
LEMMA Cutting ==
    ASSUME NEW v, NEW ch, NEW ch2, ChannelsOK(v, ch), Cut(ch, ch2)
    PROVE  ChannelsOK(v, ch2)
<1>1. Len(<< >>) = 0
  OBVIOUS
<1>2. ASSUME NEW c \in Channel PROVE WireInv(v, ch2[c])
  <2>1. CASE ch2[c].wire = ch[c].wire
    BY <2>1 DEF ChannelsOK, WireInv
  <2>2. CASE ch2[c].wire = << >>
    BY <1>1, <2>2 DEF WireInv
  <2> QED
    BY <2>1, <2>2 DEF Cut
<1> QED
  BY <1>2 DEF ChannelsOK, Cut

\* Changing the state of a channel or its binding, and cutting its wire.
LEMMA LinkChanged ==
    ASSUME NEW d \in ChanType, NEW st \in Links, NEW rx \in Binding
    PROVE  /\ [d EXCEPT !.st = st] \in ChanType /\ [d EXCEPT !.st = st].wire = d.wire
           /\ [d EXCEPT !.rx = rx] \in ChanType /\ [d EXCEPT !.rx = rx].wire = d.wire
           /\ [d EXCEPT !.st = st, !.rx = rx] \in ChanType
           /\ [d EXCEPT !.st = st, !.rx = rx].wire = d.wire
           /\ [d EXCEPT !.st = st, !.wire = << >>] \in ChanType
           /\ [d EXCEPT !.st = st, !.wire = << >>].wire = << >>
           /\ [d EXCEPT !.st = st, !.rx = rx, !.wire = << >>] \in ChanType
           /\ [d EXCEPT !.st = st, !.rx = rx, !.wire = << >>].wire = << >>
<1>1. << >> \in Frames
  BY DEF Frames
<1> QED
  BY <1>1 DEF ChanType

\* Closing and opening a batch of channels only cuts wires.
LEMMA BatchChanged ==
    ASSUME NEW ch \in [Channel -> ChanType], NEW b
    PROVE  Cut(ch, ClosedBatch(ch, b)) /\ Cut(ch, Opened(ch, b))
<1>1. "closed" \in Links /\ "opening" \in Links /\ "none" \in Binding
  BY DEF Links, Binding
<1> QED
  BY <1>1, LinkChanged DEF Cut, ClosedBatch, Opened

\* So does discarding or attaching the pending channels.
LEMMA PendingChanged ==
    ASSUME NEW ch \in [Channel -> ChanType]
    PROVE  Cut(ch, Discarded(ch)) /\ Cut(ch, PendingAttached(ch))
<1>1. "closed" \in Links /\ "none" \in Binding /\ "attached" \in Binding
  BY DEF Links, Binding
<1>2. \A c \in Channel : ch[c] \in ChanType
  OBVIOUS
<1>3. Cut(ch, Discarded(ch))
  <2>1. ASSUME NEW c \in Channel
        PROVE  Discarded(ch)[c] \in ChanType /\ Discarded(ch)[c].wire \in {ch[c].wire, << >>}
    <3>1. CASE ch[c].rx = "pending"
      <4>1. PICK d \in ChanType : d = ch[c]
        BY <1>2
      <4>2. PICK e : e = [d EXCEPT !.st = "closed", !.rx = "none", !.wire = << >>]
        OBVIOUS
      <4>3. e \in ChanType /\ e.wire = << >>
        <5>1. << >> \in Frames
          BY DEF Frames
        <5> QED
          BY <1>1, <4>2, <5>1 DEF ChanType
      <4> QED
        BY <3>1, <4>1, <4>2, <4>3 DEF Discarded
    <3>2. CASE ch[c].rx # "pending"
      BY <1>2, <3>2 DEF Discarded
    <3> QED
      BY <3>1, <3>2
  <2>2. Discarded(ch) \in [Channel -> ChanType]
    <3>1. Discarded(ch) = [c \in Channel |-> Discarded(ch)[c]]
      BY DEF Discarded
    <3> QED
      BY <2>1, <3>1
  <2> QED
    BY <2>1, <2>2 DEF Cut
<1>4. Cut(ch, PendingAttached(ch))
  BY <1>1, <1>2, LinkChanged DEF Cut, PendingAttached
<1> QED
  BY <1>3, <1>4

\* So does losing channels with the connection.
LEMMA ChannelsDropped ==
    ASSUME NEW ch \in [Channel -> ChanType], NEW lost
    PROVE  Cut(ch, Dropped(ch, lost))
<1>1. "closed" \in Links /\ "none" \in Binding
  BY DEF Links, Binding
<1> QED
  BY <1>1, LinkChanged DEF Cut, Dropped

-----------------------------------------------------------------------------
(* The sender *)

\* A sender that ends keeps what it has read and is settled.
LEMMA SenderEnds ==
    ASSUME NEW o, NEW s \in SndType, SendInv(o, s), NEW d,
           d = [s EXCEPT !.timer = "off", !.run = "none", !.interrupted = FALSE,
                         !.pc = [i \in Worker |-> "end"]]
    PROVE  /\ d \in SndType /\ SendInv(o, d)
           /\ d.state = s.state /\ d.read = s.read
           /\ d.run = "none" /\ ~ d.interrupted
<1>1. "off" \in Timers /\ "none" \in RunState /\ [i \in Worker |-> "end"] \in Pcs
  BY DEF Timers, RunState, Pcs, PcState
<1>2. /\ d \in SndType /\ d.state = s.state /\ d.read = s.read /\ d.run = "none"
      /\ d.interrupted = FALSE /\ d.pc = [i \in Worker |-> "end"] /\ d.seq = s.seq
  BY <1>1 DEF SndType
<1>3. SendInv(o, d)
  BY <1>2 DEF SendInv, LaneInv
<1> QED
  BY <1>2, <1>3

\* What a handler of the sender that ends in SenderBecomes has to show.
LEMMA SenderHandler ==
    ASSUME IndInv, UNCHANGED <<opts, rcv, sink, up, source>>,
           NEW s \in SndType, NEW msgs, SenderBecomes(s, msgs),
           SendInv(opts, s), UpToDate(source, s.read),
           snd.state \in Terminal => s.state \in Terminal,
           s.state = "completed" => Kept(sink),
           Sent(rcv, toR) => Settled(s) \/ s.state \in Terminal,
           \/ msgs = << >>
           \/ \E m \in ToRMsg : msgs = <<m>> /\ m.type # "sent"
                                /\ (m.type = "cancel" => s.state \in Terminal),
           toS' \in Seq(ToSMsg), SenderTakes(s, toS, toS')
    PROVE  IndInv'
<1>1. chan \in [Channel -> ChanType] /\ toR \in Seq(ToRMsg) /\ ChannelsOK(source, chan)
  BY DEF IndInv, Typing, FreshInv, ChannelsOK
<1>2. ChannelsOK(source, chan')
  BY <1>1, BatchChanged, Cutting DEF SenderBecomes
<1>3. /\ snd' \in SndType /\ SendInv(opts, snd') /\ snd'.state = s.state
      /\ snd'.read = s.read /\ (Sent(rcv, toR) => Settled(snd'))
  <2>1. CASE s.state \in Terminal
    BY <2>1, SenderEnds DEF SenderBecomes, Settled, Terminal
  <2>2. CASE s.state \notin Terminal
    BY <2>2 DEF SenderBecomes
  <2> QED
    BY <2>1, <2>2
<1>4. toR' = Posted(toR, msgs)
  BY DEF SenderBecomes
<1>5. toR' \in Seq(ToRMsg) /\ SenderPosts(snd', toR, toR')
  <2>1. CASE msgs = << >>
    BY <1>1, <1>4, <2>1, PostNone DEF SenderPosts
  <2>2. CASE msgs # << >>
    <3>1. PICK m \in ToRMsg : msgs = <<m>> /\ m.type # "sent"
                              /\ (m.type = "cancel" => s.state \in Terminal)
      BY <2>2
    <3>2. toR' \in Seq(ToRMsg) /\ Post(up, toR, m, toR')
      BY <1>1, <1>4, <3>1, PostOne
    <3> QED
      BY <1>3, <3>1, <3>2 DEF SenderPosts, Post
  <2> QED
    BY <2>1, <2>2
<1>6. SenderTakes(snd', toS, toS')
  BY <1>3 DEF SenderTakes
<1> QED
  BY <1>2, <1>3, <1>5, <1>6, SenderStep

\* The state of the sender before a step, and messages it may post.
LEMMA SenderFacts ==
    ASSUME IndInv
    PROVE  /\ snd \in SndType /\ SendInv(opts, snd) /\ UpToDate(source, snd.read)
           /\ toS \in Seq(ToSMsg) /\ toR \in Seq(ToRMsg) /\ SenderTakes(snd, toS, toS)
           /\ snd.state = "completed" => Kept(sink)
           /\ Sent(rcv, toR) => Settled(snd)
           /\ source \in Version /\ opts.checksum \in BOOLEAN
  BY DEF IndInv, Typing, FreshInv, SentInv, CompleteInv, Settled, SenderTakes

\* The messages of the sender are well formed.
LEMMA SenderMessages ==
    /\ \A type \in {"offer", "cancel", "pause", "resume"} :
          Plain(type) \in ToRMsg /\ Plain(type).type = type
    /\ Offer \in ToRMsg /\ Offer.type = "offer"
  BY DEF Plain, Offer, ToRMsg

\* What transitionTo can lead to.
LEMMA AfterState ==
    ASSUME NEW a \in State, NEW b \in State
    PROVE  /\ After(a, b) \in {a, b}
           /\ a \in Terminal => After(a, b) = a
           /\ b \in {"failed", "cancelled"} => After(a, b) \in Terminal
           /\ b \in {"failed", "cancelled"} /\ After(a, b) = "completed" => a = "completed"
           /\ b = "completed" /\ After(a, b) # a => a = "completing"
           /\ b = "completing" /\ After(a, b) # a => a = "active"
           /\ b = "active" /\ After(a, b) # a => a \in {"accepted", "paused"}
  BY DEF After, Terminal, LegalTransitions, State

\* A sender that only changes its state, to an end or to another state of an offer
\* that was accepted, its timer or its batch.
SameWork(s, d) ==
    /\ d.read = s.read /\ d.run = s.run /\ d.interrupted = s.interrupted
    /\ d.pc = s.pc /\ d.seq = s.seq
    /\ d.state \in {"idle", "offered"} => s.state = d.state

\* A change of the sender's state alone keeps its lanes.
LEMMA SenderStateChanged ==
    ASSUME NEW o, NEW s, NEW d, SendInv(o, s), SameWork(s, d)
    PROVE  SendInv(o, d) /\ (Settled(s) => Settled(d))
  BY DEF SendInv, LaneInv, Settled, SameWork

\* A transfer that is given up because of its timer, a message or the application.
GivenUp(s, d) == d = Failed(s) \/ d = Cancelled(s)
\* Failing or cancelling keeps the sender's lanes and ends the transfer.
LEMMA SenderGivesUp ==
    ASSUME NEW o, NEW s \in SndType, SendInv(o, s), NEW d, GivenUp(s, d)
    PROVE  /\ d \in SndType /\ SendInv(o, d) /\ d.read = s.read /\ d.state \in Terminal
           /\ d.state = "completed" => s.state = "completed"
<1>1. PICK x \in {"failed", "cancelled"} : d = [s EXCEPT !.state = After(s.state, x)]
  BY DEF GivenUp, Failed, Cancelled
<1>2. s.state \in State \ {"accepted"} /\ x \in State
  BY DEF SndType, State, Terminal
<1>3. PICK y \in Terminal : y = After(s.state, x)
  BY <1>2, AfterState
<1>4. y = "completed" => s.state = "completed"
  BY <1>2, <1>3, AfterState
<1>5. y \in State \ {"accepted"} /\ d = [s EXCEPT !.state = y]
  BY <1>1, <1>3 DEF State, Terminal
<1>6. /\ d \in SndType /\ d.state = y /\ d.read = s.read /\ d.run = s.run
      /\ d.interrupted = s.interrupted /\ d.pc = s.pc /\ d.seq = s.seq
  BY <1>5 DEF SndType
<1>7. SameWork(s, d)
  BY <1>3, <1>6 DEF SameWork, Terminal
<1> QED
  BY <1>3, <1>4, <1>6, <1>7, SenderStateChanged

\* The timer disarmed.
LEMMA TimerOff ==
    ASSUME NEW o, NEW s \in SndType, SendInv(o, s), NEW d, d = [s EXCEPT !.timer = "off"]
    PROVE  /\ d \in SndType /\ SendInv(o, d) /\ d.read = s.read /\ d.state = s.state
           /\ d.have = s.have /\ d.interrupted = s.interrupted /\ (Settled(s) => Settled(d))
<1>1. "off" \in Timers
  BY DEF Timers
<1>2. /\ d \in SndType /\ d.state = s.state /\ d.read = s.read /\ d.run = s.run
      /\ d.interrupted = s.interrupted /\ d.pc = s.pc /\ d.seq = s.seq /\ d.have = s.have
  BY <1>1 DEF SndType
<1>3. SameWork(s, d)
  BY <1>2 DEF SameWork
<1> QED
  BY <1>2, <1>3, SenderStateChanged

\* OfferTimeout fails a transfer that still waits, or only disarms the timer.
LEMMA OfferTimeoutStep ==
    ASSUME IndInv, OfferTimeout PROVE IndInv'
<1> USE SenderFacts, SenderMessages
<1>1. UNCHANGED <<opts, rcv, sink, up, source>> /\ toS' = toS
  BY DEF OfferTimeout
<1>2. PICK s : s = [snd EXCEPT !.timer = "off"]
  OBVIOUS
<1>3. s \in SndType /\ SendInv(opts, s) /\ s.read = snd.read /\ s.state = snd.state /\ (Settled(snd) => Settled(s))
  BY <1>2, TimerOff
<1>4. CASE SenderBecomes(s, << >>)
  BY <1>1, <1>3, <1>4, SenderHandler DEF SenderTakes
<1>5. CASE SenderBecomes(Failed(s), <<Plain("cancel")>>)
  <2>1. PICK d : d = Failed(s)
    OBVIOUS
  <2>2. /\ d \in SndType /\ SendInv(opts, d) /\ d.read = s.read /\ d.state \in Terminal
        /\ d.state = "completed" => s.state = "completed"
    BY <1>3, <2>1, SenderGivesUp DEF GivenUp
  <2>3. SenderBecomes(d, <<Plain("cancel")>>) /\ SenderTakes(d, toS, toS')
    BY <1>1, <1>5, <2>1 DEF SenderTakes
  <2> QED
    BY <1>1, <1>3, <2>2, <2>3, SenderHandler
<1> QED
  BY <1>2, <1>4, <1>5 DEF OfferTimeout

\* No content at all is a content and newer than nothing.
LEMMA NothingRead ==
    ASSUME NEW v \in Version
    PROVE  NoContent \in Content /\ UpToDate(v, NoContent) /\ \A k \in Chunk : NoContent[k] = Unread
<1>1. \A k \in Chunk : NoContent[k] = Unread
  BY DEF NoContent
<1>2. NoContent \in Content
  BY DEF NoContent, Content
<1>3. v \in Nat /\ Unread <= v
  BY BoundsAssumption DEF Version, Unread
<1> QED
  BY <1>1, <1>2, <1>3 DEF UpToDate

\* A run starts with its workers at the head of their lanes and nothing read.
LEMMA RunStarts ==
    ASSUME NEW o, NEW s \in SndType, NEW have \in Chunks, NEW d, d = Running(s, have)
    PROVE  /\ d \in SndType /\ SendInv(o, d) /\ d.read = NoContent /\ d.state = "active"
           /\ d.run = "live" /\ ~ d.interrupted
<1>1. [i \in Worker |-> "open"] \in Pcs /\ [i \in Worker |-> i] \in Seqs
  BY DEF Pcs, PcState, Seqs, Worker
<1>2. NoContent \in Content
  BY DEF NoContent, Content
<1>3. "live" \in RunState /\ "active" \in State \ {"accepted"}
  BY DEF RunState, State
<1>4. /\ d \in SndType /\ d.read = NoContent /\ d.state = "active" /\ d.run = "live"
      /\ d.interrupted = FALSE /\ d.pc = [i \in Worker |-> "open"] /\ d.seq = [i \in Worker |-> i]
  BY <1>1, <1>2, <1>3 DEF SndType, Running
<1>5. ASSUME NEW i \in Worker PROVE LaneInv(o, d, i)
  <2>1. i \in Lane(i) /\ \A x \in Lane(i) : x \in Nat
    BY LaneSteps
  <2>2. i \in Nat /\ i < Parallel /\ Parallel \in Nat
    BY SizesAssumption DEF Worker
  <2>3. \A x \in Lane(i) : ~ (x < i)
    BY <2>1, <2>2, LaneGaps
  <2>4. d.seq[i] = i /\ d.pc[i] = "open"
    BY <1>4
  <2> QED
    BY <2>1, <2>3, <2>4 DEF LaneInv
<1> QED
  BY <1>4, <1>5 DEF SendInv

\* pause() and resume() move between Active and Paused only.
LEMMA SenderGate ==
    ASSUME NEW o, NEW s \in SndType, SendInv(o, s), NEW d, d = SenderPaused(s) \/ d = SenderResumed(s)
    PROVE  /\ d \in SndType /\ SendInv(o, d) /\ d.read = s.read
           /\ s.state \in Terminal => d.state \in Terminal
           /\ d.state = "completed" => s.state = "completed"
           /\ Settled(s) => Settled(d)
<1>1. PICK x : /\ d = [s EXCEPT !.state = x]
               /\ x = s.state \/ (x \in {"active", "paused"} /\ s.state \in {"active", "paused"})
  BY DEF SenderPaused, SenderResumed
<1>2. s.state \in State \ {"accepted"} /\ x \in State \ {"accepted"}
  BY <1>1 DEF SndType, State
<1>3. /\ d \in SndType /\ d.state = x /\ d.read = s.read /\ d.run = s.run
      /\ d.interrupted = s.interrupted /\ d.pc = s.pc /\ d.seq = s.seq
  BY <1>1, <1>2 DEF SndType
<1>4. SameWork(s, d)
  BY <1>1, <1>3 DEF SameWork
<1> QED
  BY <1>1, <1>3, <1>4, SenderStateChanged DEF Terminal

\* Posting the offer says nothing of the sender's end.
LEMMA OfferPosted ==
    ASSUME NEW s, toR \in Seq(ToRMsg), NEW p, p = Posted(toR, <<Offer>>)
    PROVE  p \in Seq(ToRMsg) /\ SenderPosts(s, toR, p)
<1>1. Offer \in ToRMsg /\ Offer.type = "offer"
  BY SenderMessages
<1>2. p \in Seq(ToRMsg) /\ Post(up, toR, Offer, p)
  BY <1>1, PostOne
<1> QED
  BY <1>1, <1>2 DEF SenderPosts, Post

\* sendFile offers the file.
LEMMA SendFileStep ==
    ASSUME IndInv, SendFile PROVE IndInv'
<1> USE SenderFacts
<1>1. UNCHANGED <<opts, rcv, sink, up, source>> /\ toS' = toS /\ snd' = Offered(snd) /\ snd.state = "idle"
  BY DEF SendFile
<1>2. Armed("offer") \in Timers /\ "offered" \in State \ {"accepted"}
  BY DEF Armed, Timers, State
<1>3. /\ snd' \in SndType /\ snd'.read = snd.read /\ snd'.state = "offered" /\ snd'.run = snd.run
      /\ snd'.interrupted = snd.interrupted /\ snd'.pc = snd.pc /\ snd'.seq = snd.seq
  BY <1>1, <1>2 DEF SndType, Offered
<1>4. snd.run # "live" /\ ~ Sent(rcv, toR)
  BY <1>1 DEF SendInv, Settled
<1>5. SendInv(opts, snd')
  BY <1>3, <1>4 DEF SendInv, LaneInv
<1>6. ChannelsOK(source, chan')
  <2>1. ChannelsOK(source, chan) /\ chan \in [Channel -> ChanType]
    BY DEF IndInv, FreshInv, Typing, ChannelsOK
  <2> QED
    BY <2>1, BatchChanged, Cutting DEF SendFile
<1>7. toR' \in Seq(ToRMsg) /\ SenderPosts(snd', toR, toR')
  BY OfferPosted DEF SendFile
<1>8. SenderTakes(snd', toS, toS') /\ snd'.state # "completed" /\ snd.state \notin Terminal
  BY <1>1, <1>3 DEF SenderTakes, Terminal
<1> QED
  BY <1>1, <1>3, <1>4, <1>5, <1>6, <1>7, <1>8, SenderStep

\* resumeSend offers an interrupted transfer again, over new channels.
LEMMA ResumeSendStep ==
    ASSUME IndInv, ResumeSend PROVE IndInv'
<1> USE SenderFacts
<1>1. /\ UNCHANGED <<opts, rcv, sink, up, source>> /\ toS' = toS /\ snd' = Reoffered(snd)
      /\ snd.interrupted /\ snd.batch < MaxBatches
  BY DEF ResumeSend
<1>2. PICK b \in Batches : b = snd.batch + 1
  BY <1>1, SizesAssumption DEF SndType, Batches
<1>3. /\ Armed("reoffer") \in Timers /\ "reoffered" \in RunState
      /\ [i \in Worker |-> "end"] \in Pcs
  BY DEF Armed, Timers, RunState, Pcs, PcState
<1>4. snd' = [snd EXCEPT !.batch = b, !.timer = Armed("reoffer"), !.run = "reoffered",
                         !.pc = [i \in Worker |-> "end"]]
  BY <1>1, <1>2 DEF Reoffered, SndType
<1>5. /\ snd' \in SndType /\ snd'.read = snd.read /\ snd'.state = snd.state /\ snd'.run = "reoffered"
      /\ snd'.pc = [i \in Worker |-> "end"] /\ snd'.seq = snd.seq
  BY <1>3, <1>4 DEF SndType
<1>6. ~ Sent(rcv, toR)
  BY <1>1 DEF Settled
<1>7. SendInv(opts, snd')
  BY <1>5 DEF SendInv, LaneInv
<1>8. ChannelsOK(source, chan')
  <2>1. ChannelsOK(source, chan) /\ chan \in [Channel -> ChanType]
    BY DEF IndInv, FreshInv, Typing, ChannelsOK
  <2>2. PICK ch : ch = ClosedBatch(chan, snd.batch)
    OBVIOUS
  <2>3. ChannelsOK(source, ch) /\ ch \in [Channel -> ChanType]
    BY <2>1, <2>2, BatchChanged, Cutting DEF Cut
  <2>4. chan' = Opened(ch, snd.batch + 1)
    BY <2>2 DEF ResumeSend
  <2> QED
    BY <2>3, <2>4, BatchChanged, Cutting
<1>9. toR' \in Seq(ToRMsg) /\ SenderPosts(snd', toR, toR')
  BY OfferPosted DEF ResumeSend
<1>10. SenderTakes(snd', toS, toS')
  BY <1>1 DEF SenderTakes
<1> QED
  BY <1>1, <1>5, <1>6, <1>7, <1>8, <1>9, <1>10, SenderStep

\* pause(), resume() and cancel() of the sending application.
LEMMA SenderCallStep ==
    ASSUME IndInv, SenderPause \/ SenderResume \/ SenderCancel PROVE IndInv'
<1> USE SenderFacts, SenderMessages
<1>1. UNCHANGED <<opts, rcv, sink, up, source>> /\ toS' = toS
  BY DEF SenderPause, SenderResume, SenderCancel
<1>2. CASE SenderPause \/ SenderResume
  <2>1. PICK type \in {"pause", "resume"} :
           SenderBecomes(SenderPaused(snd), <<Plain(type)>>) \/ SenderBecomes(SenderResumed(snd), <<Plain(type)>>)
    BY <1>2 DEF SenderPause, SenderResume
  <2>2. PICK d : (d = SenderPaused(snd) \/ d = SenderResumed(snd)) /\ SenderBecomes(d, <<Plain(type)>>)
    BY <2>1
  <2>3. /\ d \in SndType /\ SendInv(opts, d) /\ d.read = snd.read
        /\ snd.state \in Terminal => d.state \in Terminal
        /\ d.state = "completed" => snd.state = "completed"
        /\ Settled(snd) => Settled(d)
    BY <2>2, SenderGate
  <2>4. SenderTakes(d, toS, toS') /\ Plain(type) \in ToRMsg /\ Plain(type).type \notin {"sent", "cancel"}
    BY <1>1 DEF SenderTakes
  <2> QED
    BY <1>1, <2>2, <2>3, <2>4, SenderHandler
<1>3. CASE SenderCancel
  <2>1. PICK d : d = Cancelled(snd)
    OBVIOUS
  <2>2. /\ d \in SndType /\ SendInv(opts, d) /\ d.read = snd.read /\ d.state \in Terminal
        /\ d.state = "completed" => snd.state = "completed"
    BY <2>1, SenderGivesUp DEF GivenUp
  <2>3. SenderBecomes(d, <<Plain("cancel")>>) /\ SenderTakes(d, toS, toS')
    BY <1>1, <1>3, <2>1 DEF SenderTakes, SenderCancel
  <2> QED
    BY <1>1, <2>2, <2>3, SenderHandler
<1> QED
  BY <1>2, <1>3

\* What a control message makes of the sender, message by message.
LEMMA HandledCases ==
    ASSUME NEW s, NEW m
    PROVE  /\ m.type \in {"accept", "resume-request"} =>
                Handled(s, m) = IF MayBegin(s) THEN Running(s, m.have) ELSE s
           /\ m.type \in {"reject", "checksum-mismatch"} => Handled(s, m) = Failed(s)
           /\ m.type = "complete" => Handled(s, m) = [s EXCEPT !.state = After(@, "completed")]
           /\ m.type = "pause" => Handled(s, m) = SenderPaused(s)
           /\ m.type = "resume" => Handled(s, m) = SenderResumed(s)
           /\ m.type = "cancel" => Handled(s, m) = Cancelled(s)
<1>1. m.type \in {"accept", "resume-request"} =>
                Handled(s, m) = IF MayBegin(s) THEN Running(s, m.have) ELSE s
  BY DEF Handled
<1>2. m.type \in {"reject", "checksum-mismatch"} => Handled(s, m) = Failed(s)
  BY DEF Handled
<1>3. m.type = "complete" => Handled(s, m) = [s EXCEPT !.state = After(@, "completed")]
  BY DEF Handled
<1>4. m.type = "pause" => Handled(s, m) = SenderPaused(s)
  BY DEF Handled
<1>5. m.type = "resume" => Handled(s, m) = SenderResumed(s)
  BY DEF Handled
<1>6. m.type = "cancel" => Handled(s, m) = Cancelled(s)
  BY DEF Handled
<1> QED
  BY <1>1, <1>2, <1>3, <1>4, <1>5, <1>6

\* A control message that the sender takes: a fatal one ends it, a Complete completes
\* it only if the receiver's sink is kept, an Accept starts a run unless one has ended.
LEMMA SenderControlStep ==
    ASSUME IndInv, SenderControl PROVE IndInv'
<1> USE SenderFacts
<1>1. UNCHANGED <<opts, rcv, sink, up, source>> /\ toS' = Tail(toS) /\ toS # << >>
  BY DEF SenderControl
<1>2. /\ toS' \in Seq(ToSMsg) /\ Shrunk(toS, toS') /\ Head(toS) = toS[1] /\ Head(toS) \in ToSMsg
  BY <1>1, Shrinking
<1>3. PICK m \in ToSMsg : m = toS[1] /\ m = Head(toS)
  BY <1>2
<1>4. CASE snd.state \in Terminal
  <2>1. SenderBecomes(snd, << >>) /\ SenderTakes(snd, toS, toS')
    BY <1>2, <1>4 DEF SenderControl, SenderTakes
  <2> QED
    BY <1>1, <1>2, <2>1, SenderHandler
<1>5. CASE snd.state \notin Terminal
  <2>1. PICK s : s = [snd EXCEPT !.timer = "off"]
    OBVIOUS
  <2>2. /\ s \in SndType /\ SendInv(opts, s) /\ s.read = snd.read /\ s.state = snd.state
        /\ s.interrupted = snd.interrupted /\ (Settled(snd) => Settled(s))
    BY <2>1, TimerOff
  <2>3. PICK d : d = Handled(s, m)
    OBVIOUS
  <2>4. SenderBecomes(d, << >>)
    BY <1>3, <1>5, <2>1, <2>3 DEF SenderControl
  <2> USE HandledCases
  <2>5. CASE m.type \in Fatal
    <3>1. GivenUp(s, d)
      BY <2>3, <2>5 DEF Fatal, GivenUp
    <3>2. /\ d \in SndType /\ SendInv(opts, d) /\ d.read = s.read /\ d.state \in Terminal
          /\ d.state = "completed" => s.state = "completed"
      BY <2>2, <3>1, SenderGivesUp
    <3>3. SenderTakes(d, toS, toS')
      BY <1>2, <3>2 DEF SenderTakes
    <3> QED
      BY <1>1, <1>2, <2>2, <2>4, <3>2, <3>3, SenderHandler
  <2>6. CASE m.type \in {"pause", "resume"}
    <3>1. d = SenderPaused(s) \/ d = SenderResumed(s)
      BY <2>3, <2>6
    <3>2. /\ d \in SndType /\ SendInv(opts, d) /\ d.read = s.read
          /\ d.state = "completed" => s.state = "completed"
          /\ Settled(s) => Settled(d)
      BY <2>2, <3>1, SenderGate
    <3>3. SenderTakes(d, toS, toS')
      BY <1>2, <1>3, <2>6 DEF SenderTakes, Fatal
    <3> QED
      BY <1>1, <1>2, <1>5, <2>2, <2>4, <3>2, <3>3, SenderHandler
  <2>7. CASE m.type = "complete"
    <3>1. Kept(sink)
      <4>1. 1 \in 1..Len(toS) /\ \A j \in 1..Len(toS) : ~ (j < 1)
        BY <1>2 DEF Shrunk
      <4> QED
        BY <1>3, <1>5, <2>7, <4>1 DEF IndInv, CompleteInv
    <3>2. PICK x : x = After(s.state, "completed") /\ d = [s EXCEPT !.state = x]
      BY <2>3, <2>7
    <3>3. s.state \in State \ {"accepted"} /\ "completed" \in State
      BY <2>2 DEF SndType, State, Terminal
    <3>4. x \in State \ {"accepted"} /\ (x = s.state \/ x = "completed")
      BY <3>2, <3>3, AfterState
    <3>5. /\ d \in SndType /\ d.state = x /\ d.read = s.read /\ d.run = s.run
          /\ d.interrupted = s.interrupted /\ d.pc = s.pc /\ d.seq = s.seq
      BY <2>2, <3>2, <3>4 DEF SndType
    <3>6. SameWork(s, d)
      BY <3>4, <3>5 DEF SameWork
    <3>7. SendInv(opts, d) /\ (Settled(s) => Settled(d))
      BY <2>2, <3>6, SenderStateChanged
    <3>8. SenderTakes(d, toS, toS')
      BY <1>2, <1>3, <2>7 DEF SenderTakes, Fatal
    <3> QED
      BY <1>1, <1>2, <1>5, <2>2, <2>4, <3>1, <3>5, <3>7, <3>8, SenderHandler
  <2>8. CASE m.type \in {"accept", "resume-request"}
    <3>1. m.have \in Chunks
      BY <2>8 DEF ToSMsg, Fatal
    <3>2. SenderTakes(d, toS, toS')
      BY <1>2, <1>3, <2>8 DEF SenderTakes, Fatal
    <3>3. CASE MayBegin(s)
      <4>1. d = Running(s, m.have)
        BY <2>3, <2>8, <3>3
      <4>2. d \in SndType /\ SendInv(opts, d) /\ d.read = NoContent /\ d.state = "active"
        BY <2>2, <3>1, <4>1, RunStarts
      <4>3. ~ Sent(rcv, toR)
        BY <2>2, <3>3 DEF MayBegin, Settled
      <4>4. UpToDate(source, d.read) /\ d.state # "completed"
        BY <4>2, NothingRead
      <4> QED
        BY <1>1, <1>2, <1>5, <2>4, <3>2, <4>2, <4>3, <4>4, SenderHandler
    <3>4. CASE ~ MayBegin(s)
      <4>1. d = s
        BY <2>3, <2>8, <3>4
      <4> QED
        BY <1>1, <1>2, <1>5, <2>2, <2>4, <3>2, <4>1, SenderHandler
    <3> QED
      BY <3>3, <3>4
  <2>9. m.type \in Fatal \cup {"complete", "pause", "resume", "accept", "resume-request"}
    BY DEF ToSMsg
  <2> QED
    BY <2>5, <2>6, <2>7, <2>8, <2>9
<1> QED
  BY <1>4, <1>5

\* An Accept whose listener pauses the run at once.
LEMMA AcceptThenPauseStep ==
    ASSUME IndInv, AcceptThenPause PROVE IndInv'
<1> USE SenderFacts
<1>1. /\ UNCHANGED <<opts, rcv, sink, up, source>> /\ toS' = Tail(toS) /\ toS # << >>
      /\ Head(toS).type = "accept" /\ snd.state = "offered"
  BY DEF AcceptThenPause
<1>2. /\ toS' \in Seq(ToSMsg) /\ Shrunk(toS, toS') /\ Head(toS) = toS[1] /\ Head(toS) \in ToSMsg
  BY <1>1, Shrinking
<1>3. PICK have \in Chunks : have = Head(toS).have
  BY <1>1, <1>2 DEF ToSMsg, Fatal
<1>4. PICK s : s = [snd EXCEPT !.timer = "off"]
  OBVIOUS
<1>5. s \in SndType
  BY <1>4, TimerOff
<1>6. PICK b : b = Running(s, have)
  OBVIOUS
<1>7. b \in SndType /\ SendInv(opts, b) /\ b.read = NoContent /\ b.state = "active"
  BY <1>5, <1>6, RunStarts
<1>8. PICK d : d = SenderPaused(b)
  OBVIOUS
<1>9. d \in SndType /\ SendInv(opts, d) /\ d.read = NoContent /\ d.state # "completed"
  BY <1>7, <1>8, SenderGate
<1>10. SenderBecomes(d, <<Plain("pause")>>)
  BY <1>3, <1>4, <1>6, <1>8 DEF AcceptThenPause
<1>11. UpToDate(source, d.read) /\ ~ Sent(rcv, toR) /\ snd.state \notin Terminal
  BY <1>1, <1>9, NothingRead DEF Settled, Terminal
<1>12. SenderTakes(d, toS, toS')
  BY <1>1, <1>2 DEF SenderTakes, Fatal
<1>13. Plain("pause") \in ToRMsg /\ Plain("pause").type = "pause"
  BY SenderMessages
<1> QED
  BY <1>1, <1>2, <1>9, <1>10, <1>11, <1>12, <1>13, SenderHandler

\* A worker that stops, with its run or alone.
Stopped(s, d, i, run) == d = [s EXCEPT !.pc[i] = "end", !.run = run]
\* A worker that stops the run keeps the lanes of the others.
LEMMA WorkerStops ==
    ASSUME NEW o, NEW s \in SndType, NEW i \in Worker, SendInv(o, s), NEW run \in RunState, run # "live",
           NEW d, Stopped(s, d, i, run)
    PROVE  d \in SndType /\ SendInv(o, d) /\ d.read = s.read /\ d.state = s.state /\ d.run = run
<1>1. PICK pc \in Pcs : pc = [s.pc EXCEPT ![i] = "end"]
  BY DEF SndType, Pcs, PcState
<1>2. /\ d \in SndType /\ d.read = s.read /\ d.state = s.state /\ d.run = run
      /\ d.pc = pc /\ d.seq = s.seq
  BY <1>1 DEF SndType, Stopped
<1>3. \A j \in Worker : pc[j] = "end" \/ pc[j] = s.pc[j]
  BY <1>1 DEF SndType, Pcs
<1> QED
  BY <1>2, <1>3 DEF SendInv, LaneInv

\* A worker throws: nothing, an interruption, or the end of the transfer.
LEMMA WorkerThrowsStep ==
    ASSUME IndInv, NEW i \in Worker, NEW lost, WorkerThrows(i, lost),
           UNCHANGED <<opts, rcv, sink, up, toS, source>>
    PROVE  IndInv'
<1> USE SenderFacts
<1>1. toS' = toS
  OBVIOUS
<1>2. CASE snd.run # "live"
  <2>1. PICK d : d = [snd EXCEPT !.pc[i] = "end"]
    OBVIOUS
  <2>2. PICK run \in RunState : run = snd.run /\ run # "live"
    BY <1>2 DEF SndType
  <2>3. Stopped(snd, d, i, run) /\ d.interrupted = snd.interrupted
    BY <2>1, <2>2 DEF SndType, Stopped
  <2>4. d \in SndType /\ SendInv(opts, d) /\ d.read = snd.read /\ d.state = snd.state /\ d.run = run
    BY <2>2, <2>3, WorkerStops
  <2>5. SenderBecomes(d, << >>) /\ SenderTakes(d, toS, toS') /\ (Settled(snd) => Settled(d))
    BY <1>1, <1>2, <2>1, <2>2, <2>3, <2>4 DEF WorkerThrows, SenderTakes, Settled
  <2> QED
    BY <1>1, <2>4, <2>5, SenderHandler
<1>3. CASE snd.run = "live"
  <2>1. ~ Sent(rcv, toR)
    BY <1>3 DEF Settled
  <2>2. PICK s : s = [snd EXCEPT !.pc[i] = "end", !.run = "dead"]
    OBVIOUS
  <2>3. s \in SndType /\ SendInv(opts, s) /\ s.read = snd.read /\ s.state = snd.state /\ s.run = "dead"
    <3>1. Stopped(snd, s, i, "dead") /\ "dead" \in RunState
      BY <2>2 DEF Stopped, RunState
    <3> QED
      BY <3>1, WorkerStops
  <2>4. CASE lost /\ opts.resumable
    <3>1. PICK x \in State \ {"accepted"} : /\ x = IF s.state = "active" THEN "paused" ELSE s.state
                                            /\ x \in {"paused", s.state}
      BY <2>3 DEF SndType, State
    <3>2. PICK b \in BOOLEAN : b <=> s.state = "active"
      OBVIOUS
    <3>3. PICK d : d = [s EXCEPT !.interrupted = (s.state = "active"),
                                 !.state = IF @ = "active" THEN "paused" ELSE @]
      OBVIOUS
    <3>4. d = [s EXCEPT !.interrupted = b, !.state = x]
      BY <2>3, <3>1, <3>2, <3>3 DEF SndType
    <3>5. /\ d \in SndType /\ d.read = s.read /\ d.state = x /\ d.run = "dead"
          /\ d.pc = s.pc /\ d.seq = s.seq
      BY <2>3, <3>1, <3>2, <3>4 DEF SndType
    <3>6. SendInv(opts, d)
      BY <2>3, <3>5 DEF SendInv, LaneInv
    <3>7. SenderBecomes(d, << >>) /\ SenderTakes(d, toS, toS')
      BY <1>1, <1>3, <2>2, <2>4, <3>3 DEF WorkerThrows, SenderTakes
    <3>8. /\ snd.state \in Terminal => d.state \in Terminal
          /\ d.state = "completed" => snd.state = "completed"
      BY <2>3, <3>1, <3>5 DEF Terminal
    <3> QED
      BY <1>1, <2>1, <2>3, <3>5, <3>6, <3>7, <3>8, SenderHandler
  <2>5. CASE ~ (lost /\ opts.resumable)
    <3>1. PICK d : d = Failed(s)
      OBVIOUS
    <3>2. /\ d \in SndType /\ SendInv(opts, d) /\ d.read = s.read /\ d.state \in Terminal
          /\ d.state = "completed" => s.state = "completed"
      BY <2>3, <3>1, SenderGivesUp DEF GivenUp
    <3>3. SenderBecomes(d, <<Plain("cancel")>>) /\ SenderTakes(d, toS, toS')
      BY <1>1, <1>3, <2>2, <2>5, <3>1 DEF WorkerThrows, SenderTakes
    <3> QED
      BY <1>1, <2>3, <3>2, <3>3, SenderMessages, SenderHandler
  <2> QED
    BY <2>4, <2>5
<1> QED
  BY <1>2, <1>3

\* A worker whose channel is open takes its first turn.
LEMMA WorkerOpensStep ==
    ASSUME IndInv, NEW i \in Worker, WorkerOpens(i) PROVE IndInv'
<1> USE SenderFacts
<1>1. UNCHANGED <<opts, rcv, sink, up, toS, source>> /\ toS' = toS /\ snd.pc[i] = "open"
  BY DEF WorkerOpens
<1>2. CASE WorkerThrows(i, TRUE)
  BY <1>1, <1>2, WorkerThrowsStep
<1>3. CASE SenderBecomes([snd EXCEPT !.pc[i] = Turn(i)], << >>)
  <2>1. PICK d : d = [snd EXCEPT !.pc[i] = Turn(i)]
    OBVIOUS
  <2>2. Turn(i) \in PcState /\ Turn(i) # "sending" /\ Turn(i) # "open"
    BY DEF Turn, PcState
  <2>3. PICK pc \in Pcs : pc = [snd.pc EXCEPT ![i] = Turn(i)]
    BY <2>2 DEF SndType, Pcs
  <2>4. /\ d \in SndType /\ d.read = snd.read /\ d.state = snd.state /\ d.run = snd.run
        /\ d.pc = pc /\ d.seq = snd.seq /\ d.interrupted = snd.interrupted
    BY <2>1, <2>3 DEF SndType
  <2>5. pc[i] = Turn(i) /\ \A j \in Worker : j # i => pc[j] = snd.pc[j]
    BY <2>3 DEF SndType, Pcs
  <2>6. ASSUME NEW j \in Worker PROVE LaneInv(opts, d, j)
    <3>1. CASE j # i
      BY <2>4, <2>5, <3>1 DEF SendInv, LaneInv
    <3>2. CASE j = i
      <4>1. i \in Int /\ Total \in Int /\ snd.seq[i] = i
        BY <1>1, SizesAssumption DEF Worker, SendInv, LaneInv
      <4> QED
        BY <2>2, <2>4, <2>5, <3>2, <4>1 DEF SendInv, LaneInv, Turn
    <3> QED
      BY <3>1, <3>2
  <2>7. SendInv(opts, d)
    BY <2>4, <2>6 DEF SendInv
  <2>8. SenderBecomes(d, << >>) /\ SenderTakes(d, toS, toS') /\ (Settled(snd) => Settled(d))
    BY <1>1, <1>3, <2>1, <2>4 DEF SenderTakes, Settled
  <2> QED
    BY <1>1, <2>4, <2>7, <2>8, SenderHandler
<1> QED
  BY <1>2, <1>3 DEF WorkerOpens

\* Worker i, at chunk k, has content v for it and goes on to n: it sends the chunk
\* or is done with it.
Works(o, s, d, i, v, n) ==
    /\ d.read = [s.read EXCEPT ![s.seq[i]] = v]
    /\ d.seq = [s.seq EXCEPT ![i] = n]
    /\ d.pc = [s.pc EXCEPT ![i] = IF n = s.seq[i] THEN "sending" ELSE Turn(n)]
    /\ d.run = s.run /\ d.state = s.state /\ d.interrupted = s.interrupted
    /\ \/ n = s.seq[i] /\ v # Unread
       \/ n = s.seq[i] + Parallel /\ (o.checksum => v # Unread)

\* A worker that reads its chunk, or moves to its next one, keeps its lane's chunks read.
LEMMA WorkerWorks ==
    ASSUME NEW o, NEW s \in SndType, NEW d \in SndType, NEW i \in Worker,
           NEW v, v = s.read[s.seq[i]] \/ v # Unread, NEW n,
           s.pc[i] \in {"gate", "sending"}, SendInv(o, s), Works(o, s, d, i, v, n)
    PROVE  SendInv(o, d)
<1>1. PICK k \in Chunk : k = s.seq[i] /\ k \in Lane(i)
  BY SizesAssumption, LaneSteps DEF SendInv, LaneInv, Chunk
<1>2. Parallel \in Nat /\ Parallel > 0 /\ Total \in Nat /\ k \in Nat
  BY <1>1, SizesAssumption DEF Chunk
<1>3. n \in Lane(i) /\ n \in Nat /\ (n = k \/ n = k + Parallel)
  BY <1>1, <1>2, LaneSteps DEF Works
<1>4. s.read \in Content /\ s.seq \in Seqs /\ s.pc \in Pcs
  BY DEF SndType
<1>5. d.read[k] = v /\ \A x \in Chunk : x # k => d.read[x] = s.read[x]
  BY <1>1, <1>4 DEF Works, Content
<1>6. \A x \in Chunk : s.read[x] # Unread => d.read[x] # Unread
  BY <1>1, <1>5
<1>7. d.seq[i] = n /\ \A j \in Worker : j # i => d.seq[j] = s.seq[j]
  BY <1>4 DEF Works, Seqs
<1>8. /\ d.pc[i] = IF n = k THEN "sending" ELSE Turn(n)
      /\ \A j \in Worker : j # i => d.pc[j] = s.pc[j]
  BY <1>1, <1>4 DEF Works, Pcs
<1>9. ASSUME NEW j \in Worker, j # i PROVE LaneInv(o, d, j)
  <2>1. LaneInv(o, s, j) /\ d.run = s.run /\ d.seq[j] = s.seq[j] /\ d.pc[j] = s.pc[j]
    BY <1>7, <1>8, <1>9 DEF SendInv, Works
  <2>2. d.pc[j] = "sending" => s.seq[j] \in Chunk
    BY <2>1, LaneSteps, SizesAssumption DEF LaneInv, Chunk
  <2> QED
    BY <1>6, <2>1, <2>2 DEF LaneInv
<1>10. LaneInv(o, d, i)
  <2>1. LaneInv(o, s, i) /\ d.run = s.run
    BY DEF SendInv, Works
  <2>2. CASE n = k
    <3>1. d.pc[i] = "sending" /\ v # Unread /\ d.seq[i] = k /\ k < Total
      BY <1>1, <1>2, <1>7, <1>8, <2>2 DEF Works, Chunk
    <3>2. d.read[k] # Unread
      BY <1>5, <3>1
    <3> QED
      BY <1>1, <1>6, <2>1, <3>1, <3>2 DEF LaneInv
  <2>3. CASE n = k + Parallel
    <3>1. n # k /\ d.pc[i] = Turn(n) /\ d.seq[i] = n /\ (o.checksum => v # Unread)
      BY <1>1, <1>2, <1>7, <1>8, <2>3 DEF Works
    <3>2. (d.pc[i] = "gate" /\ n < Total) \/ (d.pc[i] = "end" /\ n >= Total)
      BY <1>2, <1>3, <3>1 DEF Turn
    <3>3. ASSUME NEW x \in Chunk, x \in Lane(i), x < n, o.checksum, s.run = "live"
          PROVE  d.read[x] # Unread
      <4>1. x \in Nat
        BY <3>3, LaneSteps
      <4>2. ~ (k < x)
        BY <1>1, <1>2, <2>3, <3>3, <4>1, LaneGaps
      <4>3. x = k \/ x < k
        BY <1>2, <4>1, <4>2
      <4> QED
        BY <1>1, <1>5, <2>1, <3>1, <3>3, <4>3 DEF LaneInv
    <3> QED
      BY <1>3, <2>1, <3>1, <3>2, <3>3 DEF LaneInv
  <2> QED
    BY <1>3, <2>2, <2>3
<1> QED
  BY <1>9, <1>10 DEF SendInv, Works

\* The chunk a worker is at, and the next one of its lane.
LEMMA WorkerAt ==
    ASSUME IndInv, NEW i \in Worker, snd.pc[i] \in {"gate", "sending"}
    PROVE  /\ snd.seq[i] \in Chunk /\ snd.seq[i] + Parallel \in Nat
           /\ Turn(snd.seq[i] + Parallel) \in PcState /\ snd.read[snd.seq[i]] \in Version \cup {Unread}
           /\ snd.seq[i] # snd.seq[i] + Parallel
<1>1. snd.seq[i] \in Chunk /\ snd.seq[i] \in Nat
  <2>1. LaneInv(opts, snd, i)
    BY SenderFacts DEF SendInv
  <2>2. snd.seq[i] < Total /\ snd.seq[i] \in Nat
    BY <2>1, LaneSteps DEF LaneInv
  <2> QED
    BY <2>2, SizesAssumption DEF Chunk
<1>2. Turn(snd.seq[i] + Parallel) \in PcState
  BY DEF Turn, PcState
<1>3. snd.read \in Content
  BY SenderFacts DEF SndType
<1> QED
  BY <1>1, <1>2, <1>3, SizesAssumption DEF Content

\* A worker passes the gate: it reads the chunk when it is needed or hashed.
LEMMA WorkerReadsStep ==
    ASSUME IndInv, NEW i \in Worker, WorkerReads(i) PROVE IndInv'
<1> USE SenderFacts
<1>1. UNCHANGED <<opts, rcv, sink, up, toS, source>> /\ toS' = toS /\ snd.pc[i] = "gate"
  BY DEF WorkerReads
<1>2. PICK k \in Chunk : k = snd.seq[i]
  BY <1>1, WorkerAt
<1>3. PICK need \in BOOLEAN : need <=> k \notin snd.have
  OBVIOUS
<1>4. PICK v \in Version \cup {Unread} :
         v = IF need \/ opts.checksum THEN source ELSE snd.read[k]
  BY <1>1, <1>2, WorkerAt
<1>5. PICK n \in Nat : n = (IF need THEN k ELSE k + Parallel)
  BY <1>1, <1>2, WorkerAt DEF Chunk
<1>6. PICK c \in PcState : c = (IF need THEN "sending" ELSE Turn(k + Parallel))
  BY <1>1, <1>2, WorkerAt DEF PcState
<1>7. PICK d : d = [snd EXCEPT !.read[k] = v, !.pc[i] = c, !.seq[i] = n]
  OBVIOUS
<1>8. SenderBecomes(d, << >>)
  <2>1. d = [snd EXCEPT !.read[k] = IF need \/ opts.checksum THEN source ELSE @,
                        !.pc[i] = IF need THEN "sending" ELSE Turn(k + Parallel),
                        !.seq[i] = IF need THEN k ELSE k + Parallel]
    BY <1>4, <1>5, <1>6, <1>7 DEF SndType
  <2> QED
    BY <1>2, <1>3, <2>1 DEF WorkerReads
<1>9. PICK read \in Content : read = [snd.read EXCEPT ![k] = v]
  BY DEF SndType, Content
<1>10. PICK pc \in Pcs : pc = [snd.pc EXCEPT ![i] = c]
  BY DEF SndType, Pcs
<1>11. PICK seq \in Seqs : seq = [snd.seq EXCEPT ![i] = n]
  BY DEF SndType, Seqs
<1>12. d = [snd EXCEPT !.read = read, !.pc = pc, !.seq = seq]
  BY <1>7, <1>9, <1>10, <1>11 DEF SndType
<1>13. /\ d \in SndType /\ d.read = read /\ d.pc = pc /\ d.seq = seq /\ d.run = snd.run
       /\ d.state = snd.state /\ d.interrupted = snd.interrupted
  BY <1>12 DEF SndType
<1>14. source # Unread /\ k # k + Parallel
  BY <1>1, <1>2, WorkerAt, BoundsAssumption DEF Version, Unread
<1>15. Works(opts, snd, d, i, v, n) /\ (v = snd.read[snd.seq[i]] \/ v # Unread)
  BY <1>2, <1>4, <1>5, <1>6, <1>9, <1>10, <1>11, <1>13, <1>14 DEF Works
<1>16. SendInv(opts, d)
  BY <1>1, <1>13, <1>15, WorkerWorks
<1>17. UpToDate(source, d.read)
  <2>1. v <= source
    BY <1>4, BoundsAssumption DEF UpToDate, Version
  <2>2. snd.read \in Content
    BY DEF SndType
  <2> QED
    BY <1>9, <1>13, <2>1, <2>2 DEF UpToDate, Content
<1>18. SenderTakes(d, toS, toS') /\ (Settled(snd) => Settled(d))
  BY <1>1, <1>13 DEF SenderTakes, Settled
<1> QED
  BY <1>1, <1>8, <1>13, <1>16, <1>17, <1>18, SenderHandler

\* A worker sends the chunk it has read, or throws because its channel is lost.
LEMMA WorkerSendsStep ==
    ASSUME IndInv, NEW i \in Worker, WorkerSends(i) PROVE IndInv'
<1> USE SenderFacts
<1>1. UNCHANGED <<opts, rcv, sink, up, toS, source>> /\ toS' = toS /\ snd.pc[i] = "sending"
  BY DEF WorkerSends
<1>2. PICK c : c = <<snd.batch, i>>
  OBVIOUS
<1>3. CASE ~ Drains(c)
  BY <1>1, <1>2, <1>3, WorkerThrowsStep DEF WorkerSends
<1>4. CASE Drains(c)
  <2>1. PICK k \in Chunk : k = snd.seq[i]
    BY <1>1, WorkerAt
  <2>2. PICK v \in Version : v = snd.read[k]
    BY <1>1, <2>1, WorkerAt DEF SendInv, LaneInv
  <2>3. PICK n \in Nat : n = k + Parallel
    BY <1>1, <2>1, WorkerAt
  <2>4. PICK s \in PcState : s = Turn(n)
    BY <1>1, <2>1, <2>3, WorkerAt
  <2>5. /\ snd' = [snd EXCEPT !.seq[i] = n, !.pc[i] = s]
        /\ chan' = [chan EXCEPT ![c].wire = Append(@, <<k, v>>)]
        /\ toR' = toR
    BY <1>2, <1>4, <2>1, <2>2, <2>3, <2>4 DEF WorkerSends
  <2>6. PICK pc \in Pcs : pc = [snd.pc EXCEPT ![i] = s]
    BY DEF SndType, Pcs
  <2>7. PICK seq \in Seqs : seq = [snd.seq EXCEPT ![i] = n]
    BY DEF SndType, Seqs
  <2>8. snd' = [snd EXCEPT !.seq = seq, !.pc = pc]
    BY <2>5, <2>6, <2>7 DEF SndType
  <2>9. /\ snd' \in SndType /\ snd'.read = snd.read /\ snd'.pc = pc /\ snd'.seq = seq
        /\ snd'.run = snd.run /\ snd'.state = snd.state /\ snd'.interrupted = snd.interrupted
    BY <2>8 DEF SndType
  <2>10. v # Unread /\ snd.read = [snd.read EXCEPT ![k] = v] /\ n # k
    BY <1>1, <2>1, <2>2, <2>3, WorkerAt, BoundsAssumption DEF Version, Unread, SndType, Content
  <2>11. Works(opts, snd, snd', i, v, n)
    BY <2>1, <2>3, <2>4, <2>6, <2>7, <2>9, <2>10 DEF Works
  <2>12. SendInv(opts, snd')
    BY <1>1, <2>9, <2>10, <2>11, WorkerWorks
  <2>13. ChannelsOK(source, chan')
    <3>1. c \in Channel
      BY <1>2 DEF Channel, SndType, Batches
    <3>2. chan \in [Channel -> ChanType] /\ ChannelsOK(source, chan)
      BY DEF IndInv, Typing, FreshInv, ChannelsOK
    <3>3. PICK q \in Seq(Frame) : q = chan[c].wire
      BY <3>1, <3>2 DEF ChanType, Frames
    <3>4. PICK f \in Frame : f = <<k, v>>
      BY DEF Frame
    <3>5. PICK p : p = Append(q, f)
      OBVIOUS
    <3>6. p \in Seq(Frame) /\ Grown(q, f, p)
      BY <3>5, Appending
    <3>7. PICK d : d = [chan[c] EXCEPT !.wire = p]
      OBVIOUS
    <3>8. d \in ChanType /\ d.wire = p /\ chan[c] \in ChanType
      BY <3>1, <3>2, <3>6, <3>7 DEF ChanType, Frames
    <3>9. chan' = [chan EXCEPT ![c] = d]
      BY <2>5, <3>1, <3>2, <3>3, <3>4, <3>5, <3>7, <3>8
    <3>10. v <= source /\ f[2] = v
      BY <2>1, <2>2, <3>4 DEF UpToDate
    <3>11. WireInv(source, d)
      <4>1. \A j \in 1..Len(q) : q[j][2] <= source
        BY <3>1, <3>2, <3>3 DEF ChannelsOK, WireInv
      <4>2. Len(q) \in Nat
        OBVIOUS
      <4> QED
        BY SMTT(60), <3>6, <3>8, <3>10, <4>1, <4>2 DEF WireInv, Grown
    <3> QED
      BY <3>1, <3>2, <3>8, <3>9, <3>11 DEF ChannelsOK
  <2>14. SenderTakes(snd', toS, toS') /\ SenderPosts(snd', toR, toR') /\ (Settled(snd) => Settled(snd'))
    BY <1>1, <2>5, <2>9 DEF SenderTakes, SenderPosts, Settled
  <2> QED
    BY <1>1, <2>5, <2>9, <2>12, <2>13, <2>14, SenderStep
<1> QED
  BY <1>3, <1>4

\* A source that cannot be read makes its worker throw.
LEMMA SourceFailsStep ==
    ASSUME IndInv, NEW i \in Worker, SourceFails(i) PROVE IndInv'
  BY WorkerThrowsStep DEF SourceFails

\* The run ends when every worker is past its lane: with a checksum every chunk was
\* read, because the lanes cover the file.
LEMMA RunEndsStep ==
    ASSUME IndInv, RunEnds PROVE IndInv'
<1> USE SenderFacts
<1>1. /\ UNCHANGED <<opts, rcv, sink, up, toS, source>> /\ toS' = toS /\ snd.run = "live"
      /\ \A i \in Worker : snd.pc[i] = "end"
  BY DEF RunEnds
<1>2. ~ Sent(rcv, toR) /\ ~ snd.interrupted /\ snd.state \notin {"idle", "offered"}
  BY <1>1 DEF Settled, SendInv
<1>3. opts.checksum => Full(snd.read)
  <2>1. ASSUME opts.checksum, NEW k \in Chunk PROVE snd.read[k] # Unread
    <3>1. k \in Nat /\ k < Total /\ Total \in Nat
      BY SizesAssumption DEF Chunk
    <3>2. PICK i \in Worker : k \in Lane(i)
      BY <3>1, LanesCover
    <3>3. LaneInv(opts, snd, i)
      BY DEF SendInv
    <3>4. snd.seq[i] >= Total /\ snd.seq[i] \in Nat
      BY <1>1, <3>3, LaneSteps DEF LaneInv
    <3> QED
      BY <1>1, <2>1, <3>1, <3>2, <3>3, <3>4 DEF LaneInv
  <2> QED
    BY <2>1 DEF Full
<1>4. PICK x : x = After(snd.state, "completing")
  OBVIOUS
<1>5. snd.state \in State \ {"accepted"} /\ "completing" \in State
  BY DEF SndType, State
<1>6. x \in State \ {"accepted"} /\ x \in {snd.state, "completing"} /\ (snd.state \in Terminal => x = snd.state)
  BY <1>4, <1>5, AfterState
<1>7. PICK s : s = [snd EXCEPT !.run = "none", !.state = x]
  OBVIOUS
<1>8. PICK m : m = [type |-> "sent", digest |-> snd.read]
  OBVIOUS
<1>9. SenderBecomes(s, <<m>>)
  <2>1. s = [snd EXCEPT !.run = "none", !.state = After(@, "completing")]
    BY <1>4, <1>7
  <2> QED
    BY <1>8, <2>1 DEF RunEnds
<1>10. /\ s \in SndType /\ s.state = x /\ s.read = snd.read /\ s.run = "none"
       /\ s.interrupted = snd.interrupted /\ s.pc = snd.pc /\ s.seq = snd.seq
  <2>1. "none" \in RunState
    BY DEF RunState
  <2> QED
    BY <1>6, <1>7, <2>1 DEF SndType
<1>11. SendInv(opts, s)
  BY <1>10 DEF SendInv, LaneInv
<1>12. /\ snd' \in SndType /\ SendInv(opts, snd') /\ snd'.state = x /\ snd'.read = snd.read
       /\ Settled(snd')
  <2>1. CASE s.state \in Terminal
    BY ZenonT(60), <1>2, <1>6, <1>9, <1>10, <1>11, <2>1, SenderEnds DEF SenderBecomes, Settled
  <2>2. CASE s.state \notin Terminal
    BY <1>2, <1>6, <1>9, <1>10, <1>11, <2>2 DEF SenderBecomes, Settled
  <2> QED
    BY <2>1, <2>2
<1>13. m \in ToRMsg /\ m.type = "sent" /\ m.digest = snd.read
  BY <1>8 DEF ToRMsg, SndType
<1>14. toR' \in Seq(ToRMsg) /\ Post(up, toR, m, toR')
  BY <1>9, <1>13, PostOne DEF SenderBecomes
<1>15. Len(toR) \in Nat
  OBVIOUS
<1>16. \A i \in 1..Len(toR') : \/ i \in 1..Len(toR) /\ toR'[i] = toR[i]
                               \/ i = Len(toR) + 1 /\ toR'[i] = m
  BY <1>14, <1>15 DEF Post, Grown
<1>17. ~ rcv.senderDone /\ \A i \in 1..Len(toR) : toR[i].type # "sent"
  BY <1>2 DEF Sent
<1>18. \A i \in 1..Len(toR') : toR'[i].type = "sent" => i = Len(toR) + 1 /\ toR'[i] = m
  BY <1>16, <1>17
<1>19. ChannelsOK(source, chan')
  <2>1. chan \in [Channel -> ChanType] /\ ChannelsOK(source, chan)
    BY DEF IndInv, Typing, FreshInv, ChannelsOK
  <2> QED
    BY <1>9, <2>1, BatchChanged, Cutting DEF SenderBecomes
<1>20. snd.state \in Terminal => snd'.state \in Terminal
  BY <1>6, <1>12
<1>21. Typing'
  BY <1>1, <1>12, <1>14, <1>19 DEF IndInv, Typing, ChannelsOK
<1>22. SinkInv(opts', rcv', sink')
  BY <1>1 DEF IndInv
<1>23. FreshInv(source', snd', rcv', chan', toR')
  BY <1>1, <1>12, <1>13, <1>18, <1>19 DEF IndInv, FreshInv, ChannelsOK
<1>24. SentInv(opts', snd', rcv', toR')
  <2>1. \A i \in 1..Len(toR') : toR'[i].type = "cancel" => snd'.state \in Terminal
    BY <1>13, <1>16, <1>20 DEF IndInv, SentInv
  <2>2. opts.checksum => \A i \in 1..Len(toR') : toR'[i].type = "sent" => Full(toR'[i].digest)
    BY <1>3, <1>13, <1>18
  <2> QED
    BY <1>1, <1>12, <1>17, <1>18, <2>1, <2>2 DEF SentInv, Settled
<1>25. CompleteInv(snd', rcv', sink', up', toS')
  <2>1. snd'.state = "completed" => Kept(sink)
    BY <1>6, <1>12
  <2>2. SenderTakes(snd', toS, toS')
    BY <1>1 DEF SenderTakes
  <2>3. CompleteInv(snd, rcv, sink, up, toS)
    BY DEF IndInv
  <2> QED
    BY <1>1, <1>20, <2>1, <2>2, <2>3, CompleteAfterSender
<1> QED
  BY <1>1, <1>12, <1>21, <1>22, <1>23, <1>24, <1>25 DEF IndInv

-----------------------------------------------------------------------------
(* The receiver *)

\* Discarding the sink: once, and not a sink that was closed.
LEMMA SinkDiscarded ==
    ASSUME NEW k \in SinkType, NEW a, a = AbortSink(k)
    PROVE  /\ a \in SinkType /\ a.given = k.given /\ a.closed = k.closed
           /\ k.final \/ ~ k.given => a = k
           /\ ~ k.final /\ k.given => a.final /\ a.aborted
<1>1. CASE k.final \/ ~ k.given
  BY <1>1 DEF AbortSink
<1>2. CASE ~ (k.final \/ ~ k.given)
  <2>1. PICK h \in Handles : h = IF k.handle = "open" THEN "none" ELSE k.handle
    BY DEF SinkType, Handles
  <2>2. a = [k EXCEPT !.final = TRUE, !.aborted = TRUE, !.data = NoContent, !.handle = h]
    BY <1>2, <2>1 DEF AbortSink, SinkType
  <2>3. NoContent \in Content
    BY DEF NoContent, Content
  <2> QED
    BY <1>2, <2>2, <2>3 DEF SinkType
<1> QED
  BY <1>1, <1>2

\* What _onTerminal leaves of a receiver r with sink k.
Ends(r, r2) ==
    r2 = IF r.state \in Terminal
         THEN [r EXCEPT !.chain = IF r.hashing THEN <<Head(@)>> ELSE <<>>] ELSE r
Settles(r, k, k2) == k2 = IF r.state \in {"failed", "cancelled"} THEN AbortSink(k) ELSE k

\* Settling a receiver that ended leaves at most the frame being written.
LEMMA ChainTruncated ==
    ASSUME NEW o, NEW k, NEW r \in RcvType, SinkBase(o, r, k), NEW r2, Ends(r, r2)
    PROVE  /\ r2 \in RcvType
           /\ \E c \in Frames : r2 = [r EXCEPT !.chain = c]
           /\ r2.chain = << >> \/ r2.chain = r.chain \/ (r2.chain = <<r.chain[1]>> /\ r.chain # << >>)
           /\ r.chain = << >> => r2.chain = << >>
           /\ r.state \notin Terminal => r2 = r
           /\ r2.hashing => r2.chain # << >>
<1>1. r.chain \in Seq(Frame) /\ r.hashing \in BOOLEAN
  BY DEF RcvType, Frames
<1>2. CASE r.state \notin Terminal
  <2>1. r2 = r /\ r = [r EXCEPT !.chain = r.chain]
    BY <1>2 DEF Ends, RcvType
  <2> QED
    BY <1>1, <1>2, <2>1 DEF SinkBase, Frames
<1>3. CASE r.state \in Terminal /\ r.hashing
  <2>1. r.chain # << >> /\ Head(r.chain) = r.chain[1] /\ Head(r.chain) \in Frame
    BY <1>1, <1>3, Shrinking DEF SinkBase
  <2>2. PICK c \in Frames : c = <<Head(r.chain)>>
    <3>1. <<Head(r.chain)>> \in Seq(Frame)
      BY <2>1
    <3> QED
      BY <3>1 DEF Frames
  <2>3. r2 = [r EXCEPT !.chain = c]
    BY <1>3, <2>2 DEF Ends
  <2>4. r2 \in RcvType /\ r2.chain = c
    BY <2>3 DEF RcvType
  <2> QED
    BY <1>3, <2>1, <2>2, <2>3, <2>4
<1>4. CASE r.state \in Terminal /\ ~ r.hashing
  <2>1. PICK c \in Frames : c = << >>
    <3>1. << >> \in Seq(Frame)
      OBVIOUS
    <3> QED
      BY <3>1 DEF Frames
  <2>2. r2 = [r EXCEPT !.chain = c]
    BY <1>4, <2>1 DEF Ends
  <2>3. r2 \in RcvType /\ r2.chain = c /\ r2.hashing = r.hashing
    BY <2>2 DEF RcvType
  <2> QED
    BY <1>4, <2>1, <2>2, <2>3
<1> QED
  BY <1>2, <1>3, <1>4

\* The fields of the receiver other than its chain.
SameBut(r, r2) ==
    /\ r2.state = r.state /\ r2.received = r.received /\ r2.senderDone = r.senderDone
    /\ r2.expected = r.expected /\ r2.hashing = r.hashing /\ r2.completing = r.completing
    /\ r2.mismatch = r.mismatch

\* A receiver that settles, with its sink, keeps what is known of the sink.
LEMMA ReceiverSettles ==
    ASSUME NEW o, NEW r \in RcvType, NEW k \in SinkType, SinkBase(o, r, k),
           r.state \notin {"failed", "cancelled"} => SinkLive(r, k),
           NEW r2, Ends(r, r2), NEW k2, Settles(r, k, k2)
    PROVE  /\ r2 \in RcvType /\ k2 \in SinkType /\ SinkInv(o, r2, k2) /\ SameBut(r, r2)
           /\ Kept(k) => Kept(k2)
<1>1. /\ r2 \in RcvType
      /\ r2.chain = << >> \/ r2.chain = r.chain \/ (r2.chain = <<r.chain[1]>> /\ r.chain # << >>)
      /\ r.chain = << >> => r2.chain = << >>
      /\ r.state \notin Terminal => r2 = r
      /\ r2.hashing => r2.chain # << >>
  BY ChainTruncated
<1>2. SameBut(r, r2)
  <2>1. PICK c \in Frames : r2 = [r EXCEPT !.chain = c]
    BY ChainTruncated
  <2> QED
    BY <2>1 DEF RcvType, SameBut
<1>3. \A i \in 1..Len(r2.chain) : r2.received[r2.chain[i][1]] = r2.chain[i][2]
  <2>1. r.chain \in Seq(Frame)
    BY DEF RcvType, Frames
  <2>2. CASE r2.chain = << >>
    BY <2>2
  <2>3. CASE r2.chain = r.chain
    BY <1>2, <2>3 DEF SinkBase, SameBut
  <2>4. CASE r2.chain = <<r.chain[1]>> /\ r.chain # << >>
    <3>1. 1 \in 1..Len(r.chain)
      BY <2>1, <2>4
    <3>2. \A i \in 1..Len(r2.chain) : r2.chain[i] = r.chain[1]
      BY <2>4
    <3> QED
      BY <1>2, <3>1, <3>2 DEF SinkBase, SameBut
  <2> QED
    BY <1>1, <2>2, <2>3, <2>4
<1>4. CASE r.state \in {"failed", "cancelled"}
  <2>1. k2 = AbortSink(k)
    BY <1>4 DEF Settles
  <2>2. /\ k2 \in SinkType /\ k2.given = k.given /\ k2.closed = k.closed
        /\ k.final \/ ~ k.given => k2 = k
        /\ ~ k.final /\ k.given => k2.final /\ k2.aborted
    BY <2>1, SinkDiscarded
  <2>3. SinkBase(o, r2, k2)
    BY <1>1, <1>2, <1>3, <1>4, <2>2 DEF SinkBase, SameBut
  <2>4. SinkLive(r2, k2)
    BY <1>2, <2>2 DEF SinkBase, SinkLive, SameBut, Held
  <2> QED
    BY <1>1, <1>2, <2>2, <2>3, <2>4 DEF SinkInv, SinkBase, Kept
<1>5. CASE r.state = "completed"
  <2>1. k2 = k /\ k.final /\ r.chain = << >>
    BY <1>5 DEF Settles, SinkBase
  <2>2. SinkBase(o, r2, k2)
    BY <1>1, <1>2, <1>3, <2>1 DEF SinkBase, SameBut
  <2> QED
    BY <1>1, <1>2, <2>1, <2>2 DEF SinkInv, SinkLive
<1>6. CASE r.state \notin Terminal
  <2>1. r2 = r /\ k2 = k
    BY <1>1, <1>6 DEF Settles, Terminal
  <2> QED
    BY <1>1, <1>2, <1>6, <2>1 DEF SinkInv, Terminal
<1> QED
  BY <1>4, <1>5, <1>6 DEF Terminal

\* The state of the receiver before a step.
HasFatal(q) == \E i \in 1..Len(q) : q[i].type \in Fatal

\* What the receiver's actions use of the inductive invariant.
LEMMA ReceiverFacts ==
    ASSUME IndInv
    PROVE  /\ rcv \in RcvType /\ sink \in SinkType /\ SinkBase(opts, rcv, sink) /\ SinkLive(rcv, sink)
           /\ UpToDate(source, rcv.received) /\ (rcv.mismatch => source > 0)
           /\ toS \in Seq(ToSMsg) /\ toR \in Seq(ToRMsg)
           /\ chan \in [Channel -> ChanType] /\ ChannelsOK(source, chan)
           /\ up /\ rcv.state \in {"failed", "cancelled"} => snd.state \in Terminal \/ HasFatal(toS)
           /\ source \in Version
  BY DEF IndInv, Typing, SinkInv, FreshInv, CompleteInv, ChannelsOK, HasFatal

\* A receiver that failed has told the sender or does so now.
Tells(r, msgs) ==
    up /\ r.state \in {"failed", "cancelled"} =>
        \/ snd.state \in Terminal \/ HasFatal(toS)
        \/ \E m \in ToSMsg : msgs = <<m>> /\ m.type \in Fatal

\* A message of the receiver; Complete is the one that needs a reason.
Says(k, msgs) ==
    \/ msgs = << >>
    \/ \E m \in ToSMsg : /\ msgs = <<m>>
                         /\ up /\ m.type = "complete" =>
                               Kept(k) \/ snd.state \in Terminal \/ HasFatal(toS)

\* What a handler of the receiver that ends in ReceiverBecomes has to show.
LEMMA ReceiverHandler ==
    ASSUME IndInv, UNCHANGED <<opts, snd, up, source>>,
           NEW r \in RcvType, NEW k \in SinkType, NEW msgs, ReceiverBecomes(r, k, msgs),
           SinkBase(opts, r, k), r.state \notin {"failed", "cancelled"} => SinkLive(r, k),
           UpToDate(source, r.received), r.mismatch => source > 0,
           toR' \in Seq(ToRMsg), ReceiverTakes(rcv, r, toR, toR'),
           Kept(sink) => Kept(k), Says(k, msgs), Tells(r, msgs)
    PROVE  IndInv'
<1> USE ReceiverFacts
<1>1. Ends(r, rcv') /\ Settles(r, k, sink')
  BY DEF ReceiverBecomes, Ends, Settles
<1>2. /\ rcv' \in RcvType /\ sink' \in SinkType /\ SinkInv(opts, rcv', sink') /\ SameBut(r, rcv')
      /\ Kept(k) => Kept(sink')
  BY <1>1, ReceiverSettles
<1>3. ChannelsOK(source, chan')
  <2>1. "closed" \in Links /\ "none" \in Binding
    BY DEF Links, Binding
  <2>2. Cut(chan, chan')
    BY <2>1, LinkChanged DEF ReceiverBecomes, Cut
  <2> QED
    BY <2>2, Cutting
<1>4. ReceiverTakes(rcv, rcv', toR, toR')
  BY <1>2 DEF ReceiverTakes, SameBut
<1>5. /\ toS' \in Seq(ToSMsg) /\ ReceiverPosts(snd, sink', toS, toS')
      /\ up /\ rcv'.state \in {"failed", "cancelled"} => snd.state \in Terminal \/ HasFatal(toS')
  <2>1. toS' = Posted(toS, msgs)
    BY DEF ReceiverBecomes
  <2>2. rcv'.state = r.state
    BY <1>2 DEF SameBut
  <2>3. CASE msgs = << >>
    <3>1. toS' = toS /\ ~ \E m \in ToSMsg : msgs = <<m>>
      BY <2>1, <2>3, PostNone
    <3> QED
      BY <2>2, <3>1 DEF ReceiverPosts, Tells
  <2>4. CASE msgs # << >>
    <3>1. PICK m \in ToSMsg : /\ msgs = <<m>>
                              /\ up /\ m.type = "complete" =>
                                    Kept(k) \/ snd.state \in Terminal \/ HasFatal(toS)
      BY <2>4 DEF Says
    <3>2. toS' \in Seq(ToSMsg) /\ Post(up, toS, m, toS')
      BY <2>1, <3>1, PostOne
    <3>3. CASE ~ up
      BY <3>2, <3>3 DEF Post, ReceiverPosts
    <3>4. CASE up
      <4>1. Grown(toS, m, toS') /\ Len(toS) \in Nat
        BY <3>2, <3>4 DEF Post
      <4>2. HasFatal(toS) => HasFatal(toS')
        BY <4>1 DEF Grown, HasFatal
      <4>3. m.type \in Fatal => HasFatal(toS')
        <5>1. Len(toS) + 1 \in 1..Len(toS') /\ toS'[Len(toS) + 1] = m
          BY <4>1 DEF Grown
        <5> QED
          BY <5>1 DEF HasFatal
      <4>4. \A n \in ToSMsg : msgs = <<n>> => n = m
        BY <3>1
      <4>5. ReceiverPosts(snd, sink', toS, toS')
        BY <1>2, <3>1, <3>4, <4>1 DEF ReceiverPosts, HasFatal
      <4> QED
        BY <2>2, <3>2, <3>4, <4>2, <4>3, <4>4, <4>5 DEF Tells
    <3> QED
      BY <3>3, <3>4
  <2> QED
    BY <2>3, <2>4
<1>6. UpToDate(source, rcv'.received) /\ (rcv'.mismatch => source > 0) /\ (Kept(sink) => Kept(sink'))
  BY <1>2 DEF SameBut
<1> QED
  BY <1>2, <1>3, <1>4, <1>5, <1>6, ReceiverStep DEF HasFatal

\* The messages of the receiver are well formed.
LEMMA ReceiverMessages ==
    /\ \A type \in Fatal \cup {"complete", "pause", "resume"} :
          Plain(type) \in ToSMsg /\ Plain(type).type = type
    /\ \A type \in {"accept", "resume-request"} :
          Having(type) \in ToSMsg /\ Having(type).type = type
<1>1. {k \in Chunk : rcv.received[k] # Unread} \in Chunks
  BY DEF Chunks
<1> QED
  BY <1>1 DEF Plain, Having, ToSMsg

\* Saying nothing, something harmless, or something fatal.
LEMMA Saying ==
    ASSUME NEW k
    PROVE  /\ Says(k, << >>)
           /\ \A type \in Fatal \cup {"pause", "resume"} : Says(k, <<Plain(type)>>)
           /\ \A type \in {"accept", "resume-request"} : Says(k, <<Having(type)>>)
           /\ \A type \in Fatal : \A r : Tells(r, <<Plain(type)>>)
<1>1. \A type \in Fatal \cup {"pause", "resume"} : type # "complete"
  BY DEF Fatal
<1>2. \A type \in Fatal \cup {"pause", "resume"} : Says(k, <<Plain(type)>>)
  BY <1>1, ReceiverMessages DEF Says
<1>3. \A type \in {"accept", "resume-request"} : Says(k, <<Having(type)>>)
  BY ReceiverMessages DEF Says
<1>4. \A type \in Fatal : \A r : Tells(r, <<Plain(type)>>)
  BY ReceiverMessages DEF Tells
<1> QED
  BY <1>2, <1>3, <1>4 DEF Says

\* A transfer that ended earlier, or one that has not, has nothing new to tell.
LEMMA Telling ==
    ASSUME IndInv, NEW r, NEW msgs
    PROVE  /\ r.state \notin {"failed", "cancelled"} => Tells(r, msgs)
           /\ rcv.state \in {"failed", "cancelled"} => Tells(r, msgs)
           /\ snd.state \in Terminal => Tells(r, msgs)
  BY ReceiverFacts DEF Tells

\* The cancel note of a transfer that fails, unless it had ended before.
LEMMA CancelNoted ==
    ASSUME IndInv, NEW r, NEW k, rcv.state = "completed" => r.state = "completed"
    PROVE  Says(k, CancelNote(rcv)) /\ Tells(r, CancelNote(rcv))
<1>1. "cancel" \in Fatal
  BY DEF Fatal
<1>2. CASE rcv.state \in Terminal
  <2>1. rcv.state \in {"failed", "cancelled"} \/ r.state \notin {"failed", "cancelled"}
    BY <1>2 DEF Terminal
  <2> QED
    BY <1>2, <2>1, Saying, Telling DEF CancelNote
<1>3. CASE rcv.state \notin Terminal
  BY <1>1, <1>3, Saying DEF CancelNote
<1> QED
  BY <1>2, <1>3

\* A receiver that gives up.
SameTransfer(r, d) ==
    /\ d.received = r.received /\ d.senderDone = r.senderDone /\ d.expected = r.expected
    /\ d.chain = r.chain /\ d.hashing = r.hashing /\ d.completing = r.completing
    /\ d.mismatch = r.mismatch

\* Failing or cancelling keeps the sink and completes nothing.
LEMMA ReceiverGivesUp ==
    ASSUME NEW o, NEW r \in RcvType, NEW k, SinkBase(o, r, k), NEW d, GivenUp(r, d)
    PROVE  /\ d \in RcvType /\ SinkBase(o, d, k) /\ d.state \in Terminal
           /\ d.state \notin {"failed", "cancelled"} => k.final
           /\ d.state = "completed" <=> r.state = "completed"
           /\ SameTransfer(r, d)
<1>1. PICK x \in {"failed", "cancelled"} : d = [r EXCEPT !.state = After(r.state, x)]
  BY DEF GivenUp, Failed, Cancelled
<1>2. r.state \in State /\ x \in State
  BY DEF RcvType, State, Terminal
<1>3. PICK y \in Terminal : y = After(r.state, x)
  BY <1>2, AfterState
<1>4. (y = "completed" => r.state = "completed") /\ (r.state \in Terminal => y = r.state)
  BY <1>2, <1>3, AfterState
<1>5. y \in State /\ d = [r EXCEPT !.state = y]
  BY <1>1, <1>3 DEF State, Terminal
<1>6. d \in RcvType /\ d.state = y /\ SameTransfer(r, d)
  BY <1>5 DEF RcvType, SameTransfer
<1>7. SinkBase(o, d, k)
  BY <1>3, <1>4, <1>6 DEF SinkBase, SameTransfer, Terminal
<1> QED
  BY <1>3, <1>4, <1>6, <1>7 DEF Terminal, SinkBase

\* Reject, cancel() and an invalid frame end the transfer and say so.
LEMMA ReceiverEndsStep ==
    ASSUME IndInv, Reject \/ ReceiverCancel \/ \E c \in Channel : FrameInvalid(c) PROVE IndInv'
<1> USE ReceiverFacts
<1>1. UNCHANGED <<opts, snd, up, source>> /\ toR' = toR
  BY DEF Reject, ReceiverCancel, FrameInvalid
<1>2. PICK type \in Fatal : \/ ReceiverBecomes(Failed(rcv), sink, <<Plain(type)>>)
                           \/ ReceiverBecomes(Cancelled(rcv), sink, <<Plain(type)>>)
  <2>1. "cancel" \in Fatal /\ "reject" \in Fatal
    BY DEF Fatal
  <2> QED
    BY <2>1 DEF Reject, ReceiverCancel, FrameInvalid
<1>3. PICK d : GivenUp(rcv, d) /\ ReceiverBecomes(d, sink, <<Plain(type)>>)
  BY <1>2 DEF GivenUp
<1>4. /\ d \in RcvType /\ SinkBase(opts, d, sink) /\ SameTransfer(rcv, d)
      /\ d.state \notin {"failed", "cancelled"} => sink.final
  BY <1>3, ReceiverGivesUp
<1>5. d.state \notin {"failed", "cancelled"} => SinkLive(d, sink)
  BY <1>4 DEF SinkLive
<1>6. Says(sink, <<Plain(type)>>) /\ Tells(d, <<Plain(type)>>)
  BY Saying
<1>7. ReceiverTakes(rcv, d, toR, toR')
  BY <1>1, <1>4 DEF ReceiverTakes, SameTransfer
<1>8. UpToDate(source, d.received) /\ (d.mismatch => source > 0)
  BY <1>4 DEF SameTransfer
<1> QED
  BY <1>1, <1>3, <1>4, <1>5, <1>6, <1>7, <1>8, ReceiverHandler

\* A receiver that only changes its state.
LEMMA ReceiverStateChanged ==
    ASSUME NEW r \in RcvType, NEW x \in State, NEW d, d = [r EXCEPT !.state = x]
    PROVE  d \in RcvType /\ d.state = x /\ SameTransfer(r, d)
  BY DEF RcvType, SameTransfer

\* accept() hands over a sink that is being opened.
LEMMA AcceptStep ==
    ASSUME IndInv, Accept PROVE IndInv'
<1> USE ReceiverFacts
<1>1. UNCHANGED <<opts, snd, up, source>> /\ toR' = toR /\ rcv.state = "offered"
  BY DEF Accept
<1>2. PICK d : d = [rcv EXCEPT !.state = "accepted"]
  OBVIOUS
<1>3. d \in RcvType /\ d.state = "accepted" /\ SameTransfer(rcv, d)
  BY <1>2, ReceiverStateChanged DEF State
<1>4. PICK k : k = [sink EXCEPT !.given = TRUE, !.handle = "opening"]
  OBVIOUS
<1>5. /\ k \in SinkType /\ k.given /\ k.handle = "opening" /\ k.final = sink.final
      /\ k.closed = sink.closed /\ k.aborted = sink.aborted /\ k.data = sink.data
  BY <1>4 DEF SinkType, Handles
<1>6. SinkBase(opts, d, k)
  BY <1>1, <1>3, <1>5 DEF SinkBase, SameTransfer
<1>7. SinkLive(d, k)
  BY <1>1, <1>3, <1>5 DEF SinkLive, SameTransfer, Held
<1>8. ReceiverBecomes(d, k, << >>) /\ Says(k, << >>) /\ Tells(d, << >>)
  BY <1>2, <1>3, <1>4, Saying, Telling DEF Accept
<1>9. ReceiverTakes(rcv, d, toR, toR') /\ (Kept(sink) => Kept(k))
  BY <1>1, <1>3, <1>5 DEF ReceiverTakes, SameTransfer, Kept
<1>10. UpToDate(source, d.received) /\ (d.mismatch => source > 0)
  BY <1>3 DEF SameTransfer
<1> QED
  BY <1>1, <1>3, <1>5, <1>6, <1>7, <1>8, <1>9, <1>10, ReceiverHandler

\* open() resolves: the state may be any, the sink is open.
LEMMA SinkOpensStep ==
    ASSUME IndInv, SinkOpens PROVE IndInv'
<1> USE ReceiverFacts
<1>1. UNCHANGED <<opts, snd, up, source>> /\ toR' = toR /\ sink.handle = "opening"
  BY DEF SinkOpens
<1>2. rcv.state \in State /\ "active" \in State
  BY DEF RcvType, State
<1>3. PICK x \in State : /\ x = After(rcv.state, "active")
                         /\ x = rcv.state \/ (x = "active" /\ rcv.state \in {"accepted", "paused"})
  BY <1>2, AfterState
<1>4. PICK d : d = [rcv EXCEPT !.state = x]
  OBVIOUS
<1>5. d \in RcvType /\ d.state = x /\ SameTransfer(rcv, d)
  BY <1>4, ReceiverStateChanged
<1>6. PICK k : k = SinkOpened(sink)
  OBVIOUS
<1>7. /\ k \in SinkType /\ k.given = sink.given /\ k.handle = "open" /\ k.final = sink.final
      /\ k.closed = sink.closed /\ k.aborted = sink.aborted /\ k.data = sink.data
  BY <1>6 DEF SinkType, Handles, SinkOpened
<1>8. sink.given
  BY <1>1 DEF SinkBase, SinkType
<1>9. SinkBase(opts, d, k)
  BY <1>3, <1>5, <1>7, <1>8 DEF SinkBase, SameTransfer
<1>10. SinkLive(d, k)
  BY <1>3, <1>5, <1>7, <1>8 DEF SinkLive, SameTransfer, Held
<1>11. ReceiverBecomes(d, k, <<Having("accept")>>)
  BY <1>3, <1>4, <1>6 DEF SinkOpens
<1>12. Says(k, <<Having("accept")>>) /\ Tells(d, <<Having("accept")>>)
  <2>1. rcv.state \in {"failed", "cancelled"} \/ d.state \notin {"failed", "cancelled"}
    BY <1>3, <1>5
  <2> QED
    BY <2>1, Saying, Telling
<1>13. ReceiverTakes(rcv, d, toR, toR') /\ (Kept(sink) => Kept(k))
  BY <1>1, <1>5, <1>7 DEF ReceiverTakes, SameTransfer, Kept
<1>14. UpToDate(source, d.received) /\ (d.mismatch => source > 0)
  BY <1>5 DEF SameTransfer
<1> QED
  BY <1>1, <1>5, <1>7, <1>9, <1>10, <1>11, <1>12, <1>13, <1>14, ReceiverHandler

\* open() rejects: the transfer fails, if it has not ended.
LEMMA SinkOpenFailsStep ==
    ASSUME IndInv, SinkOpenFails PROVE IndInv'
<1> USE ReceiverFacts
<1>1. UNCHANGED <<opts, snd, up, source>> /\ toR' = toR /\ sink.handle = "opening"
  BY DEF SinkOpenFails
<1>2. PICK k : k = [sink EXCEPT !.handle = "none"]
  OBVIOUS
<1>3. /\ k \in SinkType /\ k.given = sink.given /\ k.handle = "none" /\ k.final = sink.final
      /\ k.closed = sink.closed /\ k.aborted = sink.aborted /\ k.data = sink.data
  BY <1>2 DEF SinkType, Handles
<1>4. SinkBase(opts, rcv, k)
  BY <1>3 DEF SinkBase
<1>5. PICK d : d = Failed(rcv)
  OBVIOUS
<1>6. /\ d \in RcvType /\ SinkBase(opts, d, k) /\ SameTransfer(rcv, d)
      /\ d.state \notin {"failed", "cancelled"} => k.final
      /\ d.state = "completed" <=> rcv.state = "completed"
  BY <1>4, <1>5, ReceiverGivesUp DEF GivenUp
<1>7. d.state \notin {"failed", "cancelled"} => SinkLive(d, k)
  BY <1>6 DEF SinkLive
<1>8. ReceiverBecomes(d, k, CancelNote(rcv))
  BY <1>2, <1>5 DEF SinkOpenFails
<1>9. Says(k, CancelNote(rcv)) /\ Tells(d, CancelNote(rcv))
  BY <1>6, CancelNoted
<1>10. ReceiverTakes(rcv, d, toR, toR') /\ (Kept(sink) => Kept(k))
  BY <1>1, <1>3, <1>6 DEF ReceiverTakes, SameTransfer, Kept
<1>11. UpToDate(source, d.received) /\ (d.mismatch => source > 0)
  BY <1>6 DEF SameTransfer
<1> QED
  BY <1>1, <1>3, <1>6, <1>7, <1>8, <1>9, <1>10, <1>11, ReceiverHandler

\* pause() and resume() of the receiving application.
LEMMA ReceiverCallStep ==
    ASSUME IndInv, ReceiverPause \/ ReceiverResume PROVE IndInv'
<1> USE ReceiverFacts
<1>1. UNCHANGED <<opts, snd, up, source>> /\ toR' = toR /\ rcv.state \in {"active", "paused"}
  BY DEF ReceiverPause, ReceiverResume
<1>2. PICK x \in {"active", "paused"}, type \in {"pause", "resume"} :
         ReceiverBecomes([rcv EXCEPT !.state = x], sink, <<Plain(type)>>)
  BY DEF ReceiverPause, ReceiverResume
<1>3. PICK d : d = [rcv EXCEPT !.state = x]
  OBVIOUS
<1>4. d \in RcvType /\ d.state = x /\ SameTransfer(rcv, d)
  BY <1>3, ReceiverStateChanged DEF State
<1>5. SinkBase(opts, d, sink) /\ SinkLive(d, sink)
  BY ZenonT(60), <1>1, <1>4 DEF SinkBase, SinkLive, SameTransfer, Held
<1>6. Says(sink, <<Plain(type)>>) /\ Tells(d, <<Plain(type)>>)
  BY <1>4, Saying, Telling
<1>7. ReceiverTakes(rcv, d, toR, toR') /\ ReceiverBecomes(d, sink, <<Plain(type)>>)
  BY <1>1, <1>2, <1>3, <1>4 DEF ReceiverTakes, SameTransfer
<1>8. UpToDate(source, d.received) /\ (d.mismatch => source > 0)
  BY <1>4 DEF SameTransfer
<1> QED
  BY <1>1, <1>4, <1>5, <1>6, <1>7, <1>8, ReceiverHandler

\* A step that leaves the transfer, the sink and the messages alone.
LEMMA LinkStep ==
    ASSUME IndInv, UNCHANGED <<opts, snd, sink, up, toS, toR, source>>,
           rcv' \in RcvType, rcv'.state = rcv.state, SameTransfer(rcv, rcv'),
           ChannelsOK(source, chan')
    PROVE  IndInv'
<1> USE ReceiverFacts
<1>1. SinkInv(opts, rcv', sink')
  BY ZenonT(60) DEF SinkInv, SinkBase, SinkLive, SameTransfer, Held
<1>2. ReceiverTakes(rcv, rcv', toR, toR') /\ ReceiverPosts(snd, sink', toS, toS')
  BY DEF ReceiverTakes, SameTransfer, ReceiverPosts
<1>3. UpToDate(source, rcv'.received) /\ (rcv'.mismatch => source > 0)
  BY DEF SameTransfer
<1>4. up /\ rcv'.state \in {"failed", "cancelled"} =>
         snd.state \in Terminal \/ \E i \in 1..Len(toS') : toS'[i].type \in Fatal
  BY DEF HasFatal
<1> QED
  BY <1>1, <1>2, <1>3, <1>4, ReceiverStep

\* A data channel arrives, its wait for an offer expires, or the manager closes.
LEMMA ChannelArrivesStep ==
    ASSUME IndInv, NEW c \in Channel, ChannelArrives(c) PROVE IndInv'
<1> USE ReceiverFacts
<1>1. PICK b \in BOOLEAN : b <=> rcv.state \notin Terminal \cup {"idle"}
  OBVIOUS
<1>2. PICK rx \in Binding : rx = (IF b THEN "attached" ELSE "pending")
  BY DEF Binding
<1>3. PICK t \in BOOLEAN : t <=> rcv.ttl \/ ~ b
  OBVIOUS
<1>4. /\ UNCHANGED <<opts, snd, sink, up, toS, toR, source>>
      /\ chan' = [chan EXCEPT ![c].st = "open", ![c].rx = IF b THEN "attached" ELSE "pending"]
      /\ rcv' = [rcv EXCEPT !.ttl = @ \/ ~ b]
  BY <1>1 DEF ChannelArrives
<1>5. rcv' = [rcv EXCEPT !.ttl = t]
  BY <1>3, <1>4 DEF RcvType
<1>6. rcv' \in RcvType /\ rcv'.state = rcv.state /\ SameTransfer(rcv, rcv')
  BY <1>5 DEF RcvType, SameTransfer
<1>7. PICK d : d = [chan[c] EXCEPT !.st = "open", !.rx = rx]
  OBVIOUS
<1>8. d \in ChanType /\ d.wire = chan[c].wire
  BY <1>7 DEF ChanType, Links
<1>9. chan' = [chan EXCEPT ![c] = d]
  BY <1>2, <1>4, <1>7 DEF ChanType
<1>10. Cut(chan, chan')
  BY <1>8, <1>9 DEF Cut
<1> QED
  BY <1>4, <1>6, <1>10, LinkStep, Cutting

\* The pending channels expire, or the receiver closes them.
LEMMA PendingStep ==
    ASSUME IndInv, PendingExpires \/ ReceiverCloses PROVE IndInv'
<1> USE ReceiverFacts
<1>1. UNCHANGED <<opts, snd, sink, up, toS, toR, source>> /\ chan' = Discarded(chan)
  BY DEF PendingExpires, ReceiverCloses
<1>2. rcv' \in RcvType /\ rcv'.state = rcv.state /\ SameTransfer(rcv, rcv')
  BY DEF RcvType, SameTransfer, PendingExpires, ReceiverCloses
<1> QED
  BY <1>1, <1>2, PendingChanged, Cutting, LinkStep

\* What a message makes of the receiver.
LEMMA OnMessageCases ==
    ASSUME NEW m
    PROVE  /\ rcv.state \in Terminal \cup {"idle"} => OnMessage(m) = rcv
           /\ rcv.state \notin Terminal \cup {"idle"} =>
                 /\ m.type = "sent" =>
                       OnMessage(m) = Claimed([rcv EXCEPT !.senderDone = TRUE, !.expected = m.digest])
                 /\ m.type = "cancel" => OnMessage(m) = Cancelled(rcv)
                 /\ m.type \notin {"sent", "cancel"} => OnMessage(m) = rcv
<1>1. rcv.state \in Terminal \cup {"idle"} => OnMessage(m) = rcv
  BY DEF OnMessage
<1>2. rcv.state \notin Terminal \cup {"idle"} /\ m.type = "sent" =>
          OnMessage(m) = Claimed([rcv EXCEPT !.senderDone = TRUE, !.expected = m.digest])
  BY DEF OnMessage
<1>3. rcv.state \notin Terminal \cup {"idle"} /\ m.type = "cancel" => OnMessage(m) = Cancelled(rcv)
  BY DEF OnMessage
<1>4. rcv.state \notin Terminal \cup {"idle"} /\ m.type \notin {"sent", "cancel"} => OnMessage(m) = rcv
  BY DEF OnMessage
<1> QED
  BY <1>1, <1>2, <1>3, <1>4

\* Claiming completion.
LEMMA Claiming ==
    ASSUME NEW o, NEW r \in RcvType, NEW k, SinkBase(o, r, k), NEW d, d = Claimed(r)
    PROVE  /\ d \in RcvType /\ SinkBase(o, d, k) /\ d.state = r.state /\ d.received = r.received
           /\ d.senderDone = r.senderDone /\ d.expected = r.expected /\ d.chain = r.chain
           /\ d.mismatch = r.mismatch
<1>1. CASE d = r
  BY <1>1
<1>2. CASE d # r
  <2>1. /\ r.senderDone /\ Full(r.received) /\ r.completing = "no"
        /\ d = [r EXCEPT !.completing = "writes"]
    BY <1>2 DEF Claimed, Full
  <2>2. /\ d \in RcvType /\ d.state = r.state /\ d.received = r.received
        /\ d.senderDone = r.senderDone /\ d.expected = r.expected /\ d.chain = r.chain
        /\ d.mismatch = r.mismatch /\ d.completing = "writes" /\ d.hashing = r.hashing
    BY <2>1 DEF RcvType, Claims
  <2>3. SinkBase(o, d, k)
    BY <2>1, <2>2 DEF SinkBase
  <2> QED
    BY <2>2, <2>3
<1> QED
  BY <1>1, <1>2

\* The receiver takes an Offer: it refuses it, is created by it, or asks to resume.
LEMMA OnOfferStep ==
    ASSUME IndInv, OnOffer, UNCHANGED <<opts, snd, up, source>>,
           toR' \in Seq(ToRMsg), Shrunk(toR, toR')
    PROVE  IndInv'
<1> USE ReceiverFacts
<1>1. CASE /\ rcv.state = "idle"
           /\ chan' = Discarded(chan)
           /\ rcv' = [rcv EXCEPT !.ttl = FALSE]
           /\ toS' = Posted(toS, <<Plain("reject")>>)
           /\ UNCHANGED sink
  <2>1. rcv' \in RcvType /\ rcv'.state = rcv.state /\ SameTransfer(rcv, rcv')
    BY <1>1 DEF RcvType, SameTransfer
  <2>2. SinkInv(opts, rcv', sink')
    BY ZenonT(60), <1>1, <2>1 DEF SinkInv, SinkBase, SinkLive, SameTransfer, Held
  <2>3. PICK m \in ToSMsg : m = Plain("reject") /\ m.type # "complete"
    BY ReceiverMessages DEF Fatal
  <2>4. toS' \in Seq(ToSMsg) /\ Post(up, toS, m, toS')
    BY <1>1, <2>3, PostOne
  <2>5. ReceiverPosts(snd, sink', toS, toS')
    BY <2>3, <2>4 DEF ReceiverPosts, Post
  <2>6. ReceiverTakes(rcv, rcv', toR, toR')
    BY <2>1 DEF ReceiverTakes, SameTransfer
  <2>7. UpToDate(source, rcv'.received) /\ (rcv'.mismatch => source > 0)
    BY <2>1 DEF SameTransfer
  <2>8. ChannelsOK(source, chan') /\ rcv'.state \notin {"failed", "cancelled"}
    BY <1>1, <2>1, PendingChanged, Cutting
  <2> QED
    BY <1>1, <2>1, <2>2, <2>4, <2>5, <2>6, <2>7, <2>8, ReceiverStep
<1>2. CASE /\ rcv.state = "idle"
           /\ rcv' = [rcv EXCEPT !.state = "offered", !.ttl = FALSE]
           /\ chan' = PendingAttached(chan)
           /\ UNCHANGED <<sink, toS>>
  <2>1. rcv' \in RcvType /\ rcv'.state = "offered" /\ SameTransfer(rcv, rcv')
    BY <1>2 DEF RcvType, SameTransfer, State
  <2>2. SinkInv(opts, rcv', sink')
    BY ZenonT(60), <1>2, <2>1 DEF SinkInv, SinkBase, SinkLive, SameTransfer, Held
  <2>3. ReceiverPosts(snd, sink', toS, toS')
    BY <1>2 DEF ReceiverPosts
  <2>4. ReceiverTakes(rcv, rcv', toR, toR')
    BY <2>1 DEF ReceiverTakes, SameTransfer
  <2>5. UpToDate(source, rcv'.received) /\ (rcv'.mismatch => source > 0)
    BY <2>1 DEF SameTransfer
  <2>6. ChannelsOK(source, chan') /\ rcv'.state \notin {"failed", "cancelled"}
    BY <1>2, <2>1, PendingChanged, Cutting
  <2> QED
    BY <1>2, <2>1, <2>2, <2>3, <2>4, <2>5, <2>6, ReceiverStep
<1>3. CASE /\ rcv.state # "idle"
           /\ ReceiverBecomes(rcv, sink,
                 IF rcv.state \in Terminal \cup {"offered"} THEN <<>> ELSE <<Having("resume-request")>>)
  <2>1. PICK msgs : /\ ReceiverBecomes(rcv, sink, msgs)
                    /\ msgs = << >> \/ msgs = <<Having("resume-request")>>
    BY <1>3
  <2>2. Says(sink, msgs) /\ Tells(rcv, msgs)
    <3>1. rcv.state \in {"failed", "cancelled"} \/ rcv.state \notin {"failed", "cancelled"}
      OBVIOUS
    <3> QED
      BY <2>1, <3>1, Saying, Telling
  <2>3. ReceiverTakes(rcv, rcv, toR, toR')
    BY DEF ReceiverTakes
  <2> QED
    BY <2>1, <2>2, <2>3, ReceiverHandler
<1> QED
  BY <1>1, <1>2, <1>3 DEF OnOffer

\* Any other message: Sent may complete the transfer, Cancel ends it.
LEMMA ReceiverControlStep ==
    ASSUME IndInv, ReceiverControl PROVE IndInv'
<1> USE ReceiverFacts
<1>1. UNCHANGED <<opts, snd, up, source>> /\ toR' = Tail(toR) /\ toR # << >>
  BY DEF ReceiverControl
<1>2. /\ toR' \in Seq(ToRMsg) /\ Shrunk(toR, toR') /\ Head(toR) = toR[1] /\ Head(toR) \in ToRMsg
  BY <1>1, Shrinking
<1>3. PICK m \in ToRMsg : m = toR[1] /\ m = Head(toR)
  BY <1>2
<1>4. 1 \in 1..Len(toR)
  BY <1>2 DEF Shrunk
<1>5. CASE m.type = "offer"
  <2>1. OnOffer
    BY <1>3, <1>5 DEF ReceiverControl
  <2> QED
    BY <1>1, <1>2, <2>1, OnOfferStep
<1>6. CASE m.type # "offer"
  <2>1. PICK d : d = OnMessage(m)
    OBVIOUS
  <2>2. ReceiverBecomes(d, sink, << >>)
    BY <1>3, <1>6, <2>1 DEF ReceiverControl
  <2>3. CASE d = rcv
    <3>1. rcv.state \in {"failed", "cancelled"} \/ rcv.state \notin {"failed", "cancelled"}
      OBVIOUS
    <3>2. Says(sink, << >>) /\ Tells(rcv, << >>) /\ ReceiverTakes(rcv, rcv, toR, toR')
      BY <1>2, <3>1, Saying, Telling DEF ReceiverTakes
    <3> QED
      BY <1>1, <1>2, <2>2, <2>3, <3>2, ReceiverHandler
  <2>4. CASE d = Cancelled(rcv) /\ m.type = "cancel"
    <3>1. snd.state \in Terminal
      BY <1>3, <1>4, <2>4 DEF IndInv, SentInv
    <3>2. /\ d \in RcvType /\ SinkBase(opts, d, sink) /\ SameTransfer(rcv, d)
          /\ d.state \notin {"failed", "cancelled"} => sink.final
      BY <2>4, ReceiverGivesUp DEF GivenUp
    <3>3. d.state \notin {"failed", "cancelled"} => SinkLive(d, sink)
      BY <3>2 DEF SinkLive
    <3>4. Says(sink, << >>) /\ Tells(d, << >>) /\ ReceiverTakes(rcv, d, toR, toR')
      BY <1>2, <3>1, <3>2, Saying, Telling DEF ReceiverTakes, SameTransfer
    <3>5. UpToDate(source, d.received) /\ (d.mismatch => source > 0)
      BY <3>2 DEF SameTransfer
    <3> QED
      BY <1>1, <1>2, <2>2, <3>2, <3>3, <3>4, <3>5, ReceiverHandler
  <2>5. CASE /\ rcv.state \notin Terminal /\ m.type = "sent"
             /\ d = Claimed([rcv EXCEPT !.senderDone = TRUE, !.expected = m.digest])
    <3>1. m.digest \in Content
      BY <2>5 DEF ToRMsg
    <3>2. PICK r : r = [rcv EXCEPT !.senderDone = TRUE, !.expected = m.digest]
      OBVIOUS
    <3>3. /\ r \in RcvType /\ r.state = rcv.state /\ r.received = rcv.received /\ r.senderDone
          /\ r.expected = m.digest /\ r.chain = rcv.chain /\ r.hashing = rcv.hashing
          /\ r.completing = rcv.completing /\ r.mismatch = rcv.mismatch
      BY <3>1, <3>2 DEF RcvType
    <3>4. ~ rcv.senderDone
      BY <1>3, <1>4, <2>5 DEF IndInv, SentInv
    <3>5. rcv.completing = "no" /\ ~ sink.closed
      BY <3>4 DEF SinkBase, SinkType
    <3>6. SinkBase(opts, r, sink)
      BY <3>3, <3>5 DEF SinkBase
    <3>7. d = Claimed(r)
      BY <2>5, <3>2
    <3>8. /\ d \in RcvType /\ SinkBase(opts, d, sink) /\ d.state = r.state /\ d.received = r.received
          /\ d.senderDone = r.senderDone /\ d.expected = r.expected /\ d.chain = r.chain
          /\ d.mismatch = r.mismatch
      BY <3>3, <3>6, <3>7, Claiming
    <3>9. SinkLive(d, sink)
      BY <3>3, <3>8 DEF SinkLive, Held
    <3>10. ReceiverTakes(rcv, d, toR, toR')
      BY <1>2, <1>3, <2>5, <3>3, <3>8 DEF ReceiverTakes
    <3>11. Says(sink, << >>) /\ Tells(d, << >>)
      BY <2>5, <3>3, <3>8, Saying, Telling DEF Terminal
    <3> QED
      BY <1>1, <1>2, <2>2, <3>3, <3>8, <3>9, <3>10, <3>11, ReceiverHandler
  <2> QED
    BY <2>1, <2>3, <2>4, <2>5, OnMessageCases
<1> QED
  BY <1>5, <1>6

\* A step of the receiver alone, that says and takes nothing and does not end it.
LEMMA ReceiverAlone ==
    ASSUME IndInv, UNCHANGED <<opts, snd, up, toS, toR, source>>, rcv' \in RcvType, sink' \in SinkType,
           SinkBase(opts, rcv', sink'), SinkLive(rcv', sink'),
           rcv'.state \in {"failed", "cancelled"} => rcv.state \in {"failed", "cancelled"},
           rcv'.senderDone = rcv.senderDone, rcv'.expected = rcv.expected,
           rcv'.mismatch = rcv.mismatch,
           UpToDate(source, rcv'.received), ChannelsOK(source, chan'), Kept(sink) => Kept(sink')
    PROVE  IndInv'
<1> USE ReceiverFacts
<1>1. SinkInv(opts, rcv', sink')
  BY DEF SinkInv
<1>2. ReceiverTakes(rcv, rcv', toR, toR') /\ ReceiverPosts(snd, sink', toS, toS')
  BY DEF ReceiverTakes, ReceiverPosts
<1>3. up /\ rcv'.state \in {"failed", "cancelled"} =>
         snd.state \in Terminal \/ \E i \in 1..Len(toS') : toS'[i].type \in Fatal
  BY DEF HasFatal
<1> QED
  BY <1>1, <1>2, <1>3, ReceiverStep

\* A chunk that is new joins the write chain; its content is no older one's.
LEMMA ChunkStored ==
    ASSUME NEW o, NEW r \in RcvType, NEW k \in SinkType, SinkBase(o, r, k), SinkLive(r, k),
           k.given, NEW x \in Chunk, NEW v \in Version, r.received[x] = Unread,
           r.state \notin Terminal,
           NEW received \in Content, received = [r.received EXCEPT ![x] = v],
           NEW chain \in Frames, Grown(r.chain, <<x, v>>, chain),
           NEW d, d = [r EXCEPT !.received = received, !.chain = chain]
    PROVE  d \in RcvType /\ SinkBase(o, d, k) /\ SinkLive(d, k)
<1>1. /\ d \in RcvType /\ d.received = received /\ d.chain = chain /\ d.state = r.state
      /\ d.senderDone = r.senderDone /\ d.expected = r.expected /\ d.hashing = r.hashing
      /\ d.completing = r.completing
  BY DEF RcvType
<1>2. r.chain \in Seq(Frame) /\ r.received \in Content /\ chain \in Seq(Frame)
  BY DEF RcvType, Frames
<1>3. received[x] = v /\ \A y \in Chunk : y # x => received[y] = r.received[y]
  BY <1>2 DEF Content
<1>4. Len(r.chain) \in Nat
  BY <1>2
<1>5. \A i \in 1..Len(chain) : \/ i \in 1..Len(r.chain) /\ chain[i] = r.chain[i]
                               \/ i = Len(r.chain) + 1 /\ chain[i] = <<x, v>>
  BY <1>4 DEF Grown
<1>6. \A i \in 1..Len(r.chain) : i \in 1..Len(chain) /\ chain[i] = r.chain[i]
  BY <1>4 DEF Grown
<1>7. Len(r.chain) + 1 \in 1..Len(chain) /\ chain[Len(r.chain) + 1] = <<x, v>>
  BY <1>4 DEF Grown
<1>8. r.completing = "no" /\ chain # << >> /\ ~ k.closed
  <2>1. r.completing = "no"
    BY DEF SinkBase, Full
  <2>2. Len(chain) # 0
    BY <1>4, <1>7
  <2> QED
    BY <2>1, <2>2 DEF SinkBase, SinkType
<1>9. \A i \in 1..Len(chain) : received[chain[i][1]] = chain[i][2]
  <2>1. ASSUME NEW i \in 1..Len(r.chain) PROVE received[r.chain[i][1]] = r.chain[i][2]
    <3>1. r.chain[i] \in Frame
      BY <1>2
    <3>2. r.chain[i][1] \in Chunk /\ r.chain[i][2] # Unread
      BY <3>1, BoundsAssumption DEF Frame, Version, Unread
    <3>3. r.received[r.chain[i][1]] = r.chain[i][2]
      BY DEF SinkBase
    <3> QED
      BY <1>3, <3>2, <3>3
  <2>2. <<x, v>>[1] = x /\ <<x, v>>[2] = v
    OBVIOUS
  <2> QED
    BY <1>3, <1>5, <2>1, <2>2
<1>10. SinkBase(o, d, k)
  BY <1>1, <1>8, <1>9 DEF SinkBase
<1>11. ASSUME ~ k.final, NEW y \in Chunk PROVE Held(d, k, y)
  <2>1. CASE y = x
    BY <1>1, <1>3, <1>7, <2>1 DEF Held
  <2>2. CASE y # x
    <3>1. Held(r, k, y) /\ received[y] = r.received[y]
      BY <1>3, <1>11, <2>2 DEF SinkLive
    <3> QED
      BY <1>1, <1>6, <3>1 DEF Held
  <2> QED
    BY <2>1, <2>2
<1>12. SinkLive(d, k)
  BY <1>1, <1>11 DEF SinkLive
<1> QED
  BY <1>1, <1>10, <1>12

\* A frame arrives: dropped, or stored and completion tried.
LEMMA FrameArrivesStep ==
    ASSUME IndInv, NEW c \in Channel, FrameArrives(c) PROVE IndInv'
<1> USE ReceiverFacts
<1>1. /\ UNCHANGED <<opts, snd, up, toS, toR, source>> /\ sink' = sink
      /\ chan[c].wire # << >> /\ chan' = [chan EXCEPT ![c].wire = Tail(@)]
  BY DEF FrameArrives
<1>2. PICK q \in Seq(Frame) : q = chan[c].wire /\ q # << >>
  BY <1>1 DEF ChanType, Frames
<1>3. PICK p : p = Tail(q)
  OBVIOUS
<1>4. p \in Seq(Frame) /\ Shrunk(q, p) /\ Head(q) = q[1] /\ Head(q) \in Frame
  BY <1>2, <1>3, Shrinking
<1>5. PICK f \in Frame : f = Head(q) /\ f = q[1]
  BY <1>4
<1>6. PICK x \in Chunk, v \in Version : f = <<x, v>>
  BY DEF Frame
<1>7. v <= source /\ f[1] = x /\ f[2] = v
  <2>1. 1 \in 1..Len(q)
    BY <1>2, <1>4 DEF Shrunk
  <2> QED
    BY <1>2, <1>5, <1>6, <2>1 DEF ChannelsOK, WireInv
<1>8. ChannelsOK(source, chan')
  <2>1. PICK d : d = [chan[c] EXCEPT !.wire = p]
    OBVIOUS
  <2>2. d \in ChanType /\ d.wire = p
    BY <1>4, <2>1 DEF ChanType, Frames
  <2>3. chan' = [chan EXCEPT ![c] = d]
    BY <1>1, <1>2, <1>3, <2>1
  <2>4. WireInv(source, d)
    <3>1. \A i \in 1..Len(p) : i + 1 \in 1..Len(q) /\ p[i] = q[i + 1]
      BY <1>4 DEF Shrunk
    <3> QED
      BY <1>2, <2>2, <3>1 DEF ChannelsOK, WireInv
  <2> QED
    BY <2>2, <2>3, <2>4 DEF ChannelsOK
<1>9. CASE rcv' = rcv
  BY <1>1, <1>8, <1>9, ReceiverAlone
<1>10. CASE rcv' # rcv
  <2>1. /\ rcv.state \notin Terminal /\ sink.given /\ rcv.received[x] = Unread
        /\ rcv' = Claimed([rcv EXCEPT !.received[x] = v, !.chain = Append(@, f)])
    BY <1>2, <1>5, <1>7, <1>10 DEF FrameArrives
  <2>2. PICK received \in Content : received = [rcv.received EXCEPT ![x] = v]
    BY DEF RcvType, Content
  <2>3. PICK chain \in Frames : chain = Append(rcv.chain, f) /\ Grown(rcv.chain, <<x, v>>, chain)
    <3>1. rcv.chain \in Seq(Frame)
      BY DEF RcvType, Frames
    <3> QED
      BY <1>6, <3>1, Appending DEF Frames
  <2>4. PICK d : d = [rcv EXCEPT !.received = received, !.chain = chain]
    OBVIOUS
  <2>5. rcv' = Claimed(d)
    BY <2>1, <2>2, <2>3, <2>4 DEF RcvType
  <2>6. d \in RcvType /\ SinkBase(opts, d, sink) /\ SinkLive(d, sink)
    BY <2>1, <2>2, <2>3, <2>4, ChunkStored
  <2>7. /\ d.state = rcv.state /\ d.received = received /\ d.senderDone = rcv.senderDone
        /\ d.expected = rcv.expected /\ d.mismatch = rcv.mismatch
    BY <2>4 DEF RcvType
  <2>8. /\ rcv' \in RcvType /\ SinkBase(opts, rcv', sink) /\ rcv'.state = d.state
        /\ rcv'.received = d.received /\ rcv'.senderDone = d.senderDone
        /\ rcv'.expected = d.expected /\ rcv'.chain = d.chain /\ rcv'.mismatch = d.mismatch
    BY SMTT(60), <2>5, <2>6, Claiming
  <2>9. SinkLive(rcv', sink)
    BY <2>6, <2>8 DEF SinkLive, Held
  <2>10. UpToDate(source, rcv'.received)
    <3>1. rcv.received \in Content
      BY DEF RcvType
    <3> QED
      BY <1>7, <2>2, <2>7, <2>8, <3>1 DEF UpToDate, Content
  <2> QED
    BY <1>1, <1>8, <2>7, <2>8, <2>9, <2>10, ReceiverAlone
<1> QED
  BY <1>9, <1>10

\* A queued write hashes its chunk.
LEMMA WriteHashesStep ==
    ASSUME IndInv, WriteHashes PROVE IndInv'
<1> USE ReceiverFacts
<1>1. /\ UNCHANGED <<opts, snd, up, toS, toR, source>> /\ sink' = sink /\ chan' = chan
      /\ rcv.chain # << >> /\ rcv' = [rcv EXCEPT !.hashing = TRUE]
  BY DEF WriteHashes
<1>2. /\ rcv' \in RcvType /\ rcv'.state = rcv.state /\ rcv'.received = rcv.received
      /\ rcv'.senderDone = rcv.senderDone /\ rcv'.expected = rcv.expected
      /\ rcv'.chain = rcv.chain /\ rcv'.completing = rcv.completing /\ rcv'.mismatch = rcv.mismatch
  BY <1>1 DEF RcvType
<1>3. SinkBase(opts, rcv', sink') /\ SinkLive(rcv', sink')
  BY <1>1, <1>2 DEF SinkBase, SinkLive, Held
<1> QED
  BY <1>1, <1>2, <1>3, ReceiverAlone

\* The head of the write chain taken off.
LEMMA ChainPops ==
    ASSUME IndInv, rcv.chain # << >>
    PROVE  /\ ChainPopped \in RcvType /\ ChainPopped.state = rcv.state
           /\ ChainPopped.received = rcv.received /\ ChainPopped.senderDone = rcv.senderDone
           /\ ChainPopped.expected = rcv.expected /\ ChainPopped.completing = rcv.completing
           /\ ChainPopped.mismatch = rcv.mismatch
           /\ SinkBase(opts, ChainPopped, sink)
           /\ Shrunk(rcv.chain, ChainPopped.chain)
           /\ rcv.chain[1] = Head(rcv.chain) /\ Head(rcv.chain) \in Frame
           /\ rcv.received[Head(rcv.chain)[1]] = Head(rcv.chain)[2]
           /\ rcv.completing \in {"no", "writes"} /\ ~ sink.closed /\ sink.given
<1> USE ReceiverFacts
<1>1. rcv.chain \in Seq(Frame)
  BY DEF RcvType, Frames
<1>2. PICK p : p = Tail(rcv.chain)
  OBVIOUS
<1>3. p \in Seq(Frame) /\ Shrunk(rcv.chain, p) /\ Head(rcv.chain) = rcv.chain[1] /\ Head(rcv.chain) \in Frame
  BY <1>1, <1>2, Shrinking
<1>4. PICK d : d = ChainPopped
  OBVIOUS
<1>5. d = [rcv EXCEPT !.chain = p, !.hashing = FALSE]
  BY <1>2, <1>4 DEF ChainPopped
<1>6. /\ d \in RcvType /\ d.state = rcv.state /\ d.received = rcv.received
      /\ d.senderDone = rcv.senderDone /\ d.expected = rcv.expected
      /\ d.chain = p /\ d.hashing = FALSE /\ d.completing = rcv.completing /\ d.mismatch = rcv.mismatch
  BY <1>3, <1>5 DEF RcvType, Frames
<1>7. rcv.completing \in {"no", "writes"} /\ ~ sink.closed /\ sink.given
  <2>1. rcv.completing \in Claims /\ rcv.completing \notin {"digest", "closing", "done"}
    BY DEF RcvType, SinkBase
  <2> QED
    BY <2>1 DEF SinkBase, SinkType, Claims
<1>8. \A i \in 1..Len(p) : i + 1 \in 1..Len(rcv.chain) /\ p[i] = rcv.chain[i + 1]
  BY <1>3 DEF Shrunk
<1>9. 1 \in 1..Len(rcv.chain)
  BY <1>1, <1>3 DEF Shrunk
<1>10. SinkBase(opts, d, sink)
  BY SMTT(60), <1>6, <1>7, <1>8 DEF SinkBase
<1> QED
  BY <1>3, <1>4, <1>6, <1>7, <1>9, <1>10 DEF SinkBase

\* A write puts its chunk into the sink; a sink that is still wanted has a handle,
\* so what was written before stays.
LEMMA WriteDoneStep ==
    ASSUME IndInv, WriteDone PROVE IndInv'
<1> USE ReceiverFacts
<1>1. /\ UNCHANGED <<opts, snd, up, toS, toR, source>> /\ chan' = chan /\ rcv.chain # << >>
      /\ rcv' = ChainPopped /\ sink' = Written(sink, Head(rcv.chain))
  BY DEF WriteDone
<1>2. /\ rcv' \in RcvType /\ rcv'.state = rcv.state /\ rcv'.received = rcv.received
      /\ rcv'.senderDone = rcv.senderDone /\ rcv'.expected = rcv.expected
      /\ rcv'.completing = rcv.completing /\ rcv'.mismatch = rcv.mismatch
      /\ SinkBase(opts, rcv', sink) /\ Shrunk(rcv.chain, rcv'.chain)
      /\ rcv.chain[1] = Head(rcv.chain) /\ Head(rcv.chain) \in Frame
      /\ rcv.received[Head(rcv.chain)[1]] = Head(rcv.chain)[2]
      /\ ~ sink.closed /\ sink.given
  BY <1>1, ChainPops
<1>3. PICK x \in Chunk, v \in Version : Head(rcv.chain) = <<x, v>>
  BY <1>2 DEF Frame
<1>4. rcv.received[x] = v
  BY <1>2, <1>3
<1>5. PICK old \in Content : old = IF sink.handle = "none" THEN NoContent ELSE sink.data
  BY DEF SinkType, NoContent, Content
<1>6. PICK data \in Content : data = [old EXCEPT ![x] = v]
  BY DEF Content
<1>7. sink' = [sink EXCEPT !.handle = "open", !.data = data]
  <2>1. PICK f : f = Head(rcv.chain) /\ f[1] = x /\ f[2] = v
    BY <1>3
  <2>2. data = [(IF sink.handle = "none" THEN NoContent ELSE sink.data) EXCEPT ![f[1]] = f[2]]
    BY <1>5, <1>6, <2>1
  <2>3. sink' = Written(sink, f)
    BY <1>1, <2>1
  <2> QED
    BY <2>2, <2>3 DEF Written
<1>8. /\ sink' \in SinkType /\ sink'.given = sink.given /\ sink'.handle = "open"
      /\ sink'.final = sink.final /\ sink'.closed = sink.closed /\ sink'.aborted = sink.aborted
      /\ sink'.data = data
  BY <1>7 DEF SinkType, Handles
<1>9. SinkBase(opts, rcv', sink')
  BY <1>2, <1>8 DEF SinkBase
<1>10. ASSUME ~ sink.final, NEW y \in Chunk PROVE Held(rcv', sink', y)
  <2>1. Held(rcv, sink, y) /\ old = sink.data
    BY <1>2, <1>5, <1>10 DEF SinkLive
  <2>2. data[x] = v /\ (y # x => data[y] = sink.data[y])
    BY <1>6, <2>1 DEF Content
  <2>3. CASE y = x
    BY <1>2, <1>4, <1>8, <2>2, <2>3 DEF Held
  <2>4. CASE y # x
    <3>1. ASSUME NEW i \in 1..Len(rcv.chain), rcv.chain[i] = <<y, rcv.received[y]>>
          PROVE  \E j \in 1..Len(rcv'.chain) : rcv'.chain[j] = <<y, rcv.received[y]>>
      <4>1. i # 1
        BY <1>2, <1>3, <2>4, <3>1
      <4>2. Len(rcv'.chain) \in Nat
        BY <1>2 DEF RcvType, Frames
      <4>3. i - 1 \in 1..Len(rcv'.chain) /\ (i - 1) + 1 = i
        BY <1>2, <4>1, <4>2 DEF Shrunk
      <4>4. rcv'.chain[i - 1] = rcv.chain[i]
        BY <1>2, <4>3 DEF Shrunk
      <4> QED
        BY <3>1, <4>3, <4>4
    <3> QED
      BY <1>2, <1>8, <2>1, <2>2, <2>4, <3>1 DEF Held
  <2> QED
    BY <2>3, <2>4
<1>11. SinkLive(rcv', sink')
  BY <1>2, <1>8, <1>10 DEF SinkLive
<1>12. Kept(sink) => Kept(sink')
  BY <1>8 DEF Kept
<1> QED
  BY <1>1, <1>2, <1>8, <1>9, <1>11, <1>12, ReceiverAlone

\* A write that fails discards the sink and fails the transfer.
LEMMA WriteFailsStep ==
    ASSUME IndInv, WriteFails PROVE IndInv'
<1> USE ReceiverFacts
<1>1. UNCHANGED <<opts, snd, up, source>> /\ toR' = toR /\ rcv.chain # << >>
  BY DEF WriteFails
<1>2. PICK r \in RcvType : r = ChainPopped
  BY <1>1, ChainPops
<1>3. /\ r.state = rcv.state /\ r.received = rcv.received /\ r.senderDone = rcv.senderDone
      /\ r.expected = rcv.expected /\ r.mismatch = rcv.mismatch
      /\ SinkBase(opts, r, sink) /\ ~ sink.closed /\ sink.given
  BY <1>1, <1>2, ChainPops
<1>4. PICK d : d = Failed(r)
  OBVIOUS
<1>5. /\ d \in RcvType /\ SinkBase(opts, d, sink) /\ SameTransfer(r, d) /\ d.state \in Terminal
      /\ d.state = "completed" <=> rcv.state = "completed"
  BY <1>3, <1>4, ReceiverGivesUp DEF GivenUp
<1>6. d.state \in {"failed", "cancelled"}
  BY <1>3, <1>5 DEF Terminal, SinkBase
<1>7. PICK k : k = AbortSink(sink)
  OBVIOUS
<1>8. /\ k \in SinkType /\ k.given = sink.given /\ k.closed = sink.closed
      /\ sink.final \/ ~ sink.given => k = sink
      /\ ~ sink.final /\ sink.given => k.final /\ k.aborted
  BY <1>7, SinkDiscarded
<1>9. SinkBase(opts, d, k)
  BY <1>3, <1>5, <1>6, <1>8 DEF SinkBase
<1>10. ReceiverBecomes(d, k, CancelNote(rcv))
  BY <1>2, <1>4, <1>7 DEF WriteFails
<1>11. Says(k, CancelNote(rcv)) /\ Tells(d, CancelNote(rcv))
  BY <1>5, CancelNoted
<1>12. ReceiverTakes(rcv, d, toR, toR') /\ (Kept(sink) => Kept(k))
  BY <1>1, <1>3, <1>5 DEF ReceiverTakes, SameTransfer, Kept
<1>13. UpToDate(source, d.received) /\ (d.mismatch => source > 0)
  BY <1>3, <1>5 DEF SameTransfer
<1> QED
  BY <1>1, <1>5, <1>6, <1>8, <1>9, <1>10, <1>11, <1>12, <1>13, ReceiverHandler

\* Closing the sink begins with every chunk written.
MayClose(o, r) ==
    /\ r.chain = << >> /\ r.completing \in {"writes", "digest"}
    /\ o.checksum => r.received = r.expected
\* The sink begins to close: the receiver is completing.
LEMMA ClosingBegins ==
    ASSUME NEW o, NEW r \in RcvType, NEW k \in SinkType, SinkBase(o, r, k), MayClose(o, r),
           NEW d, d = Closing(r)
    PROVE  /\ d \in RcvType /\ SinkBase(o, d, k) /\ (SinkLive(r, k) => SinkLive(d, k))
           /\ d.state \in {"failed", "cancelled"} => r.state \in {"failed", "cancelled"}
           /\ d.received = r.received /\ d.senderDone = r.senderDone /\ d.expected = r.expected
           /\ d.mismatch = r.mismatch
<1> USE DEF MayClose
<1>1. r.state \in State /\ "completing" \in State
  BY DEF RcvType, State
<1>2. PICK x \in State : /\ x = After(r.state, "completing")
                         /\ x = r.state \/ (x = "completing" /\ r.state = "active")
  BY <1>1, AfterState
<1>3. d = [r EXCEPT !.completing = "closing", !.state = x]
  BY <1>2 DEF Closing
<1>4. /\ d \in RcvType /\ d.state = x /\ d.received = r.received /\ d.senderDone = r.senderDone
      /\ d.expected = r.expected /\ d.mismatch = r.mismatch /\ d.chain = r.chain
      /\ d.hashing = r.hashing /\ d.completing = "closing"
  BY <1>3 DEF RcvType, Claims
<1>5. ~ k.closed
  BY DEF SinkBase, SinkType
<1>6. SinkBase(o, d, k)
  BY <1>2, <1>4, <1>5 DEF SinkBase
<1>7. SinkLive(r, k) => SinkLive(d, k)
  BY <1>2, <1>4 DEF SinkLive, Held
<1> QED
  BY <1>2, <1>4, <1>6, <1>7

\* The claimed completion after its writes.
LEMMA WritesAwaitedStep ==
    ASSUME IndInv, WritesAwaited PROVE IndInv'
<1> USE ReceiverFacts
<1>1. /\ UNCHANGED <<opts, snd, up, toS, toR, source>> /\ sink' = sink /\ chan' = chan
      /\ rcv.completing = "writes" /\ rcv.chain = << >>
  BY DEF WritesAwaited
<1>2. ~ sink.closed
  BY <1>1 DEF SinkBase, SinkType
<1>3. CASE rcv' = [rcv EXCEPT !.completing = "done"] /\ rcv.state \in Terminal
  <2>1. /\ rcv' \in RcvType /\ rcv'.state = rcv.state /\ rcv'.received = rcv.received
        /\ rcv'.senderDone = rcv.senderDone /\ rcv'.expected = rcv.expected
        /\ rcv'.chain = rcv.chain /\ rcv'.completing = "done" /\ rcv'.mismatch = rcv.mismatch
        /\ rcv'.hashing = rcv.hashing
    BY <1>3 DEF RcvType, Claims
  <2>2. SinkBase(opts, rcv', sink') /\ SinkLive(rcv', sink')
    BY <1>1, <1>2, <2>1 DEF SinkBase, SinkLive, Held
  <2> QED
    BY <1>1, <2>1, <2>2, ReceiverAlone
<1>4. CASE rcv' = [rcv EXCEPT !.completing = "digest"] /\ opts.checksum
  <2>1. /\ rcv' \in RcvType /\ rcv'.state = rcv.state /\ rcv'.received = rcv.received
        /\ rcv'.senderDone = rcv.senderDone /\ rcv'.expected = rcv.expected
        /\ rcv'.chain = rcv.chain /\ rcv'.completing = "digest" /\ rcv'.mismatch = rcv.mismatch
        /\ rcv'.hashing = rcv.hashing
    BY <1>4 DEF RcvType, Claims
  <2>2. SinkBase(opts, rcv', sink') /\ SinkLive(rcv', sink')
    BY <1>1, <1>2, <1>4, <2>1 DEF SinkBase, SinkLive, Held
  <2> QED
    BY <1>1, <2>1, <2>2, ReceiverAlone
<1>5. CASE rcv' = Closing(rcv) /\ ~ opts.checksum
  <2>1. /\ rcv' \in RcvType /\ SinkBase(opts, rcv', sink) /\ SinkLive(rcv', sink)
        /\ rcv'.state \in {"failed", "cancelled"} => rcv.state \in {"failed", "cancelled"}
        /\ rcv'.received = rcv.received /\ rcv'.senderDone = rcv.senderDone
        /\ rcv'.expected = rcv.expected /\ rcv'.mismatch = rcv.mismatch
    <3>1. MayClose(opts, rcv)
      BY <1>1, <1>5 DEF MayClose
    <3> QED
      BY <1>5, <3>1, ClosingBegins
  <2> QED
    BY <1>1, <2>1, ReceiverAlone
<1> QED
  BY <1>3, <1>4, <1>5 DEF WritesAwaited

\* Two full contents that are no newer than the unedited source are the same.
LEMMA UneditedContents ==
    ASSUME NEW f \in Content, NEW g \in Content, Full(f), Full(g), UpToDate(0, f), UpToDate(0, g)
    PROVE  f = g
<1>1. ASSUME NEW k \in Chunk PROVE f[k] = 0 /\ g[k] = 0
  <2>1. f[k] \in Version /\ g[k] \in Version
    BY DEF Full, Content
  <2>2. f[k] <= 0 /\ g[k] <= 0
    BY DEF UpToDate
  <2> QED
    BY <2>1, <2>2, BoundsAssumption DEF Version
<1> QED
  BY <1>1 DEF Content

\* The digests are compared: unequal ones need an edit of the source.
LEMMA VerifyStep ==
    ASSUME IndInv, Verify PROVE IndInv'
<1> USE ReceiverFacts
<1>1. UNCHANGED <<opts, snd, up, source>> /\ toR' = toR /\ rcv.completing = "digest"
  BY DEF Verify
<1>2. ~ sink.closed /\ rcv.chain = << >> /\ opts.checksum /\ rcv.senderDone /\ Full(rcv.received)
  BY <1>1 DEF SinkBase, SinkType
<1>3. CASE rcv.received = rcv.expected
  <2>1. PICK d : d = Closing(rcv)
    OBVIOUS
  <2>2. /\ d \in RcvType /\ SinkBase(opts, d, sink) /\ SinkLive(d, sink)
        /\ d.state \in {"failed", "cancelled"} => rcv.state \in {"failed", "cancelled"}
        /\ d.received = rcv.received /\ d.senderDone = rcv.senderDone
        /\ d.expected = rcv.expected /\ d.mismatch = rcv.mismatch
    <3>1. MayClose(opts, rcv)
      BY <1>1, <1>2, <1>3 DEF MayClose
    <3> QED
      BY <2>1, <3>1, ClosingBegins
  <2>3. ReceiverBecomes(d, sink, << >>) /\ Says(sink, << >>) /\ Tells(d, << >>)
    BY <1>3, <2>1, <2>2, Saying, Telling DEF Verify
  <2>4. ReceiverTakes(rcv, d, toR, toR')
    BY <1>1, <2>2 DEF ReceiverTakes
  <2> QED
    BY <1>1, <2>2, <2>3, <2>4, ReceiverHandler
<1>4. CASE rcv.received # rcv.expected
  <2>1. source > 0
    <3>1. rcv.received \in Content /\ rcv.expected \in Content
      BY DEF RcvType
    <3>2. Full(rcv.expected) /\ UpToDate(source, rcv.expected)
      BY <1>2 DEF IndInv, SentInv, FreshInv
    <3>3. source # 0
      BY <1>2, <1>4, <3>1, <3>2, UneditedContents
    <3> QED
      BY <3>3, BoundsAssumption DEF Version
  <2>2. PICK r : r = Failed(rcv)
    OBVIOUS
  <2>3. /\ r \in RcvType /\ SinkBase(opts, r, sink) /\ SameTransfer(rcv, r) /\ r.state \in Terminal
        /\ r.state = "completed" <=> rcv.state = "completed"
    BY <2>2, ReceiverGivesUp DEF GivenUp
  <2>4. r.state \in {"failed", "cancelled"}
    BY <1>2, <2>3 DEF Terminal, SinkBase
  <2>5. PICK d : d = [r EXCEPT !.completing = "done", !.mismatch = TRUE]
    OBVIOUS
  <2>6. /\ d \in RcvType /\ d.state = r.state /\ d.received = r.received
        /\ d.senderDone = r.senderDone /\ d.expected = r.expected /\ d.chain = r.chain
        /\ d.hashing = r.hashing /\ d.completing = "done"
    BY <2>3, <2>5 DEF RcvType, Claims
  <2>7. PICK k : k = AbortSink(sink)
    OBVIOUS
  <2>8. /\ k \in SinkType /\ k.given = sink.given /\ k.closed = sink.closed
        /\ sink.final \/ ~ sink.given => k = sink
        /\ ~ sink.final /\ sink.given => k.final /\ k.aborted
    BY <2>7, SinkDiscarded
  <2>9. SinkBase(opts, d, k)
    BY <1>1, <1>2, <2>3, <2>4, <2>6, <2>8 DEF SinkBase, SameTransfer
  <2>10. ReceiverBecomes(d, k, <<Plain("checksum-mismatch")>>)
    BY <1>4, <2>2, <2>5, <2>7 DEF Verify
  <2>11. Says(k, <<Plain("checksum-mismatch")>>) /\ Tells(d, <<Plain("checksum-mismatch")>>)
    BY Saying DEF Fatal
  <2>12. ReceiverTakes(rcv, d, toR, toR') /\ (Kept(sink) => Kept(k))
    BY <1>1, <1>2, <2>3, <2>6 DEF ReceiverTakes, SameTransfer, Kept
  <2>13. UpToDate(source, d.received)
    BY <2>3, <2>6 DEF SameTransfer
  <2> QED
    BY <1>1, <2>1, <2>4, <2>6, <2>8, <2>9, <2>10, <2>11, <2>12, <2>13, ReceiverHandler
<1> QED
  BY <1>3, <1>4

\* close() resolves: the sink holds every chunk received, unless it was discarded.
LEMMA SinkClosesStep ==
    ASSUME IndInv, SinkCloses PROVE IndInv'
<1> USE ReceiverFacts
<1>1. UNCHANGED <<opts, snd, up, source>> /\ toR' = toR /\ rcv.completing = "closing"
  BY DEF SinkCloses
<1>2. /\ ~ sink.closed /\ rcv.chain = << >> /\ Full(rcv.received) /\ rcv.senderDone
      /\ opts.checksum => rcv.received = rcv.expected
      /\ rcv.state # "completed"
  BY <1>1 DEF SinkBase, SinkType
<1>3. rcv.state \in State /\ "completed" \in State
  BY DEF RcvType, State, Terminal
<1>4. PICK x \in State : /\ x = After(rcv.state, "completed")
                         /\ x = rcv.state \/ (x = "completed" /\ rcv.state = "completing")
  BY <1>3, AfterState
<1>5. PICK d : d = [rcv EXCEPT !.completing = "done", !.state = x]
  OBVIOUS
<1>6. /\ d \in RcvType /\ d.state = x /\ d.received = rcv.received
      /\ d.senderDone = rcv.senderDone /\ d.expected = rcv.expected /\ d.chain = rcv.chain
      /\ d.hashing = rcv.hashing /\ d.completing = "done" /\ d.mismatch = rcv.mismatch
  BY <1>5 DEF RcvType, Claims
<1>7. PICK k : k = SinkClosed(sink)
  OBVIOUS
<1>8. /\ k \in SinkType /\ k.given = sink.given /\ k.handle = "none" /\ k.final /\ k.closed
      /\ k.aborted = sink.aborted /\ k.data = sink.data
  BY <1>7 DEF SinkType, Handles, SinkClosed
<1>9. ~ sink.aborted => Full(sink.data) /\ (opts.checksum => sink.data = rcv.expected)
  <2>1. SUFFICES ASSUME ~ sink.aborted PROVE sink.data = rcv.received
    BY <1>2
  <2>2. ~ sink.final
    BY <1>2, <2>1 DEF SinkBase
  <2>3. ASSUME NEW y \in Chunk PROVE sink.data[y] = rcv.received[y]
    <3>1. Held(rcv, sink, y) /\ Len(rcv.chain) = 0
      BY <1>2, <2>2 DEF SinkLive
    <3> QED
      BY <1>2, <3>1 DEF Held, Full
  <2>4. sink.data \in Content /\ rcv.received \in Content
    BY DEF SinkType, RcvType
  <2> QED
    BY <2>3, <2>4 DEF Content
<1>10. SinkBase(opts, d, k)
  BY <1>2, <1>4, <1>6, <1>8, <1>9 DEF SinkBase
<1>11. SinkLive(d, k)
  BY <1>8 DEF SinkLive
<1>12. ReceiverBecomes(d, k, <<Plain("complete")>>)
  BY <1>4, <1>5, <1>7 DEF SinkCloses
<1>13. Says(k, <<Plain("complete")>>)
  <2>1. Plain("complete") \in ToSMsg
    BY ReceiverMessages
  <2>2. up => Kept(k) \/ snd.state \in Terminal \/ HasFatal(toS)
    BY <1>8 DEF Kept, SinkBase
  <2> QED
    BY <2>1, <2>2 DEF Says
<1>14. Tells(d, <<Plain("complete")>>)
  <2>1. rcv.state \in {"failed", "cancelled"} \/ d.state \notin {"failed", "cancelled"}
    BY <1>4, <1>6
  <2> QED
    BY <2>1, Telling
<1>15. ReceiverTakes(rcv, d, toR, toR') /\ (Kept(sink) => Kept(k))
  BY <1>1, <1>2, <1>6 DEF ReceiverTakes, Kept
<1>16. UpToDate(source, d.received) /\ (d.mismatch => source > 0)
  BY <1>6
<1> QED
  BY <1>1, <1>6, <1>8, <1>10, <1>11, <1>12, <1>13, <1>14, <1>15, <1>16, ReceiverHandler

\* close() rejects.
LEMMA SinkCloseFailsStep ==
    ASSUME IndInv, SinkCloseFails PROVE IndInv'
<1> USE ReceiverFacts
<1>1. UNCHANGED <<opts, snd, up, source>> /\ toR' = toR /\ rcv.completing = "closing"
  BY DEF SinkCloseFails
<1>2. ~ sink.closed /\ rcv.chain = << >> /\ rcv.senderDone /\ Full(rcv.received)
  BY <1>1 DEF SinkBase, SinkType
<1>3. PICK r : r = Failed(rcv)
  OBVIOUS
<1>4. /\ r \in RcvType /\ SinkBase(opts, r, sink) /\ SameTransfer(rcv, r) /\ r.state \in Terminal
      /\ r.state = "completed" <=> rcv.state = "completed"
  BY <1>3, ReceiverGivesUp DEF GivenUp
<1>5. r.state \in {"failed", "cancelled"}
  BY <1>2, <1>4 DEF Terminal, SinkBase
<1>6. PICK d : d = [r EXCEPT !.completing = "done"]
  OBVIOUS
<1>7. /\ d \in RcvType /\ d.state = r.state /\ d.received = r.received
      /\ d.senderDone = r.senderDone /\ d.expected = r.expected /\ d.chain = r.chain
      /\ d.hashing = r.hashing /\ d.completing = "done" /\ d.mismatch = r.mismatch
  BY <1>4, <1>6 DEF RcvType, Claims
<1>8. SinkBase(opts, d, sink)
  BY <1>1, <1>2, <1>4, <1>5, <1>7 DEF SinkBase, SameTransfer
<1>9. ReceiverBecomes(d, sink, CancelNote(rcv))
  BY <1>3, <1>6 DEF SinkCloseFails
<1>10. Says(sink, CancelNote(rcv)) /\ Tells(d, CancelNote(rcv))
  BY <1>4, <1>7, CancelNoted
<1>11. ReceiverTakes(rcv, d, toR, toR')
  BY <1>1, <1>4, <1>7 DEF ReceiverTakes, SameTransfer
<1>12. UpToDate(source, d.received) /\ (d.mismatch => source > 0)
  BY <1>4, <1>7 DEF SameTransfer
<1> QED
  BY <1>1, <1>5, <1>7, <1>8, <1>9, <1>10, <1>11, <1>12, ReceiverHandler

-----------------------------------------------------------------------------
(* The environment *)

\* A channel, or with the connection every channel and message, is lost.
LEMMA DropStep ==
    ASSUME IndInv, ConnectionDrops \/ \E c \in Channel : ChannelDrops(c) PROVE IndInv'
<1> USE ReceiverFacts
<1>1. CASE \E c \in Channel : ChannelDrops(c)
  <2>1. PICK c \in Channel : ChannelDrops(c)
    BY <1>1
  <2>2. UNCHANGED <<opts, snd, rcv, sink, up, toS, toR, source>> /\ chan' = Dropped(chan, {c})
    BY <2>1 DEF ChannelDrops
  <2>3. ChannelsOK(source, chan') /\ SameTransfer(rcv, rcv')
    BY <2>2, ChannelsDropped, Cutting DEF SameTransfer
  <2> QED
    BY <2>2, <2>3, LinkStep
<1>2. CASE ConnectionDrops
  <2>1. /\ UNCHANGED <<opts, snd, rcv, sink, source>> /\ chan' = Dropped(chan, Channel)
        /\ up' = FALSE /\ toS' = << >> /\ toR' = << >>
    BY <1>2 DEF ConnectionDrops
  <2>2. ChannelsOK(source, chan')
    BY <2>1, ChannelsDropped, Cutting
  <2>3. toS' \in Seq(ToSMsg) /\ toR' \in Seq(ToRMsg) /\ Len(toS') = 0 /\ Len(toR') = 0
    BY <2>1
  <2>4. Typing'
    BY <2>1, <2>2, <2>3 DEF IndInv, Typing, ChannelsOK
  <2>5. SendInv(opts', snd') /\ SinkInv(opts', rcv', sink')
    BY <2>1 DEF IndInv
  <2>6. FreshInv(source', snd', rcv', chan', toR')
    BY <2>1, <2>2, <2>3 DEF IndInv, FreshInv, ChannelsOK
  <2>7. SentInv(opts', snd', rcv', toR')
    BY <2>1, <2>3 DEF IndInv, SentInv, Sent
  <2>8. CompleteInv(snd', rcv', sink', up', toS')
    BY <2>1, <2>3 DEF IndInv, CompleteInv
  <2> QED
    BY <2>4, <2>5, <2>6, <2>7, <2>8 DEF IndInv
<1> QED
  BY <1>1, <1>2

\* The source is edited: what was read before is older.
LEMMA SourceEditedStep ==
    ASSUME IndInv, SourceEdited PROVE IndInv'
<1>1. /\ UNCHANGED <<opts, snd, rcv, sink, chan, up, toS, toR>> /\ source' = source + 1
      /\ source < MaxEdits
  BY DEF SourceEdited
<1>2. source \in Int /\ source >= 0 /\ source' \in Version
  BY <1>1, BoundsAssumption DEF IndInv, Typing, Version
<1>3. Typing'
  BY <1>1, <1>2 DEF IndInv, Typing
<1>4. ASSUME NEW f \in Content, UpToDate(source, f) PROVE UpToDate(source', f)
  <2>1. ASSUME NEW k \in Chunk PROVE f[k] <= source'
    <3>1. f[k] \in Int /\ f[k] <= source
      BY <1>4, BoundsAssumption DEF UpToDate, Content, Version, Unread
    <3> QED
      BY <1>1, <1>2, <3>1
  <2> QED
    BY <2>1 DEF UpToDate
<1>5. ASSUME NEW c \in Channel PROVE WireInv(source', chan[c])
  <2>1. chan[c].wire \in Seq(Frame) /\ WireInv(source, chan[c])
    BY DEF IndInv, Typing, FreshInv, ChanType, Frames
  <2>2. ASSUME NEW i \in 1..Len(chan[c].wire) PROVE chan[c].wire[i][2] <= source'
    <3>1. chan[c].wire[i] \in Frame /\ chan[c].wire[i][2] <= source
      BY <2>1 DEF WireInv
    <3>2. chan[c].wire[i][2] \in Int
      BY <3>1, BoundsAssumption DEF Frame, Version
    <3> QED
      BY <1>1, <1>2, <3>1, <3>2
  <2> QED
    BY <2>2 DEF WireInv
<1>6. \A i \in 1..Len(toR) : toR[i].type = "sent" => UpToDate(source', toR[i].digest)
  <2>1. ASSUME NEW i \in 1..Len(toR), toR[i].type = "sent" PROVE UpToDate(source', toR[i].digest)
    <3>1. toR[i] \in ToRMsg
      BY DEF IndInv, Typing
    <3>2. toR[i].digest \in Content
      BY <2>1, <3>1 DEF ToRMsg
    <3>3. UpToDate(source, toR[i].digest)
      BY <2>1 DEF IndInv, FreshInv
    <3> QED
      BY <1>4, <3>2, <3>3
  <2> QED
    BY <2>1
<1>7. FreshInv(source', snd', rcv', chan', toR')
  <2>1. snd.read \in Content /\ rcv.received \in Content /\ rcv.expected \in Content
    BY DEF IndInv, Typing, SndType, RcvType
  <2>2. UpToDate(source', snd.read) /\ UpToDate(source', rcv.received) /\ UpToDate(source', rcv.expected)
    BY <1>4, <2>1 DEF IndInv, FreshInv
  <2>3. source' > 0
    BY <1>1, <1>2
  <2> QED
    BY <1>1, <1>5, <1>6, <2>2, <2>3 DEF FreshInv
<1> QED
  BY <1>1, <1>3, <1>7 DEF IndInv

-----------------------------------------------------------------------------
(* The theorems *)

\* The invariant holds when the transfer objects are created.
LEMMA Initially ==
    ASSUME Init PROVE IndInv
<1> USE DEF Init
<1>1. 0 \in Version /\ 1 \in Batches
  BY SizesAssumption, BoundsAssumption DEF Version, Batches
<1>2. NoContent \in Content /\ UpToDate(0, NoContent) /\ \A k \in Chunk : NoContent[k] = Unread
  BY <1>1, NothingRead
<1>3. [i \in Worker |-> "end"] \in Pcs /\ [i \in Worker |-> i] \in Seqs /\ {} \in Chunks
  BY DEF Pcs, PcState, Seqs, Worker, Chunks
<1>4. << >> \in Frames /\ Len(<< >>) = 0
  BY DEF Frames
<1>5. snd \in SndType
  BY <1>1, <1>2, <1>3 DEF NewSender, SndType, State, Timers, RunState
<1>6. rcv \in RcvType
  BY <1>2, <1>4 DEF NewReceiver, RcvType, State, Claims
<1>7. sink \in SinkType
  BY <1>2 DEF NewSink, SinkType, Handles
<1>8. chan \in [Channel -> ChanType]
  <2>1. [st |-> "none", rx |-> "none", wire |-> <<>>] \in ChanType
    BY <1>4 DEF ChanType, Links, Binding
  <2> QED
    BY <2>1
<1>9. toS \in Seq(ToSMsg) /\ toR \in Seq(ToRMsg) /\ Len(toS) = 0 /\ Len(toR) = 0
  OBVIOUS
<1>10. Typing
  BY <1>1, <1>5, <1>6, <1>7, <1>8, <1>9 DEF Typing
<1>11. SendInv(opts, snd)
  <2>1. ASSUME NEW i \in Worker PROVE LaneInv(opts, snd, i)
    <3>1. i \in Lane(i)
      BY LaneSteps
    <3> QED
      BY <3>1 DEF LaneInv, NewSender
  <2> QED
    BY <2>1 DEF SendInv, NewSender
<1>12. SinkInv(opts, rcv, sink)
  BY <1>2, <1>4 DEF SinkInv, SinkBase, SinkLive, Held, NewReceiver, NewSink
<1>13. FreshInv(source, snd, rcv, chan, toR)
  BY <1>2, <1>4, <1>9 DEF FreshInv, WireInv, NewReceiver, NewSender
<1>14. SentInv(opts, snd, rcv, toR)
  BY <1>9 DEF SentInv, Sent, NewReceiver, NewSender
<1>15. CompleteInv(snd, rcv, sink, up, toS)
  BY <1>9 DEF CompleteInv, NewReceiver, NewSender
<1> QED
  BY <1>10, <1>11, <1>12, <1>13, <1>14, <1>15 DEF IndInv

\* Every step of the sender, the receiver or the environment keeps the invariant.
LEMMA Preserved ==
    ASSUME IndInv, [Next]_vars PROVE IndInv'
<1>1. CASE UNCHANGED vars
  BY <1>1 DEF vars, IndInv, Typing
<1>2. CASE Progress
  BY <1>2, OfferTimeoutStep, SenderControlStep, ReceiverControlStep, RunEndsStep, SinkOpensStep,
     WriteHashesStep, WriteDoneStep, WritesAwaitedStep, VerifyStep, SinkClosesStep, WorkerOpensStep,
     WorkerReadsStep, WorkerSendsStep, ChannelArrivesStep, FrameArrivesStep DEF Progress
<1>3. CASE Next /\ ~ Progress
  BY <1>3, SendFileStep, ResumeSendStep, AcceptThenPauseStep, SenderCallStep, SourceFailsStep,
     PendingStep, AcceptStep, SinkOpenFailsStep, ReceiverEndsStep, ReceiverCallStep,
     WriteFailsStep, SinkCloseFailsStep, DropStep, SourceEditedStep DEF Next
<1> QED
  BY <1>1, <1>2, <1>3

\* The inductive invariant holds of every transfer.
THEOREM Invariance == Spec => []IndInv
<1>1. Init => IndInv
  BY Initially
<1>2. IndInv /\ [Next]_vars => IndInv'
  BY Preserved
<1> QED
  BY <1>1, <1>2, PTL DEF Spec

\* The variables of a transfer have their types.
THEOREM TypeCorrect == Spec => []TypeOK
<1>1. IndInv => TypeOK
  BY DEF IndInv, Typing, TypeOK, SndType, RcvType, SinkType, ChanType, Timers, Batches, Chunks,
         RunState, Pcs, PcState, Claims, Handles, Links, Binding, Frames, Frame
<1> QED
  BY <1>1, Invariance, PTL

\* A transfer that either side reports as completed is a whole file: the sink was
\* closed and not discarded, with every chunk, and with a checksum it holds what the
\* sender read in its last run (_tryComplete, _onTerminal and the control messages).
THEOREM CompletedWhole == Spec => []CompletedIsWhole
<1>1. IndInv => CompletedIsWhole
  BY DEF IndInv, SinkInv, SinkBase, CompleteInv, Kept, Full, CompletedIsWhole
<1> QED
  BY <1>1, Invariance, PTL

\* A checksum mismatch is reported only when the source was edited: resumed runs,
\* skipped and repeated chunks do not make the digests differ.
THEOREM MismatchIsReal == Spec => []NoFalseMismatch
<1>1. IndInv => NoFalseMismatch
  BY DEF IndInv, FreshInv, NoFalseMismatch
<1> QED
  BY <1>1, Invariance, PTL
=============================================================================
