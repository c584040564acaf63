------------------------- MODULE TransferEndsProofs -------------------------
(* No transfer is left waiting: FileTransfer keeps TransferEnds, for every    *)
(* number of chunks, channels, batches and edits and any order of messages,   *)
(* frames, failures and losses.                                               *)
(*                                                                            *)
(* TransferEnds is about states in which nothing is left to do.  That such a  *)
(* state is an end follows from an invariant about who waits for whom         *)
(* (EndInv, on top of IndInv of FileTransferProofs): whoever waits is owed a  *)
(* timer, a message or a frame that exists.  Its parts, in CalmOf, are the    *)
(* sender's timer and run (Waits), what cannot have happened before the       *)
(* receiver is active (EarlyInv), how the end of one side reaches the other   *)
(* (RefusedInv, ToldInv), Sent and the claim of completion (SentAll,          *)
(* ClaimInv), the channels (Lines, BindInv) and the chunks: those the sender  *)
(* skips were received (Haves), those it is past too or are on a wire         *)
(* (Delivery, unless something was lost).  A step of the sender or of the     *)
(* receiver keeps it by SenderCalm or ReceiverCalm, which say what the side   *)
(* that moves has to respect.  Pledged is about the answer to an offer: its   *)
(* timer is armed unless it is disabled, and the answer is due.               *)
EXTENDS FileTransferProofs

-----------------------------------------------------------------------------
(* The second invariant: who waits for whom, without a pause *)

Has(q, type) == \E i \in 1..Len(q) : q[i].type = type
Over(t) == t.state \in Terminal

\* What the sender waits for: an Active transfer has its run, and the timers belong to
\* an offer and to an interrupted transfer that was offered again.
Waits(s) ==
    /\ s.interrupted <=> s.state = "paused"
    /\ s.run = "live" <=> s.state = "active"
    /\ s.timer = "offer" => s.state = "offered"
    /\ s.timer = "reoffer" => s.run = "reoffered"
    /\ s.run = "reoffered" => s.interrupted
    /\ s.state = "idle" => s.batch = 1
    /\ Over(s) => \A i \in Worker : s.pc[i] = "end"

\* The channels of the current batch were opened.
Lines(s, ch) == s.state # "idle" => \A i \in Worker : ch[<<s.batch, i>>].st # "none"

\* Before the receiver is active the sender has not started, and nothing but refusals
\* and one offer is on its way.
Early(r) == r.state \in {"idle", "offered", "accepted"}
Unstarted(s) ==
    /\ s.state \in {"idle", "offered"} \cup Terminal
    /\ s.run = "none" /\ ~ s.interrupted
    /\ \A i \in Worker : s.pc[i] = "end"
Refusals(q) == \A i \in 1..Len(q) : q[i].type \in Fatal
NoFrames(ch) == \A c \in Channel : ch[c].wire = << >>
OfferOnce(q) == \A i, j \in 1..Len(q) : q[i].type = "offer" /\ q[j].type = "offer" => i = j
EarlyInv(s, r, k, ch, qs, qr) ==
    Early(r) =>
        /\ Unstarted(s) /\ Refusals(qs) /\ ~ Sent(r, qr) /\ NoFrames(ch) /\ OfferOnce(qr)
        /\ r.state # "accepted" => ~ k.given
        /\ r.state # "idle" => ~ Has(qr, "offer")
IdleInv(s, r, qs, qr) == s.state = "idle" => r.state = "idle" /\ qs = << >> /\ qr = << >>

\* An end of one side is known to the other one or on its way to it, unless the offer
\* was never taken up.
OffersFirst(q) == \A i, j \in 1..Len(q) : q[i].type = "cancel" /\ q[j].type = "offer" => j < i
Unoffered(r, q) == r.state = "idle" /\ ~ Has(q, "offer")
RefusedInv(r, qs, qr) ==
    /\ OffersFirst(qr)
    /\ Has(qs, "reject") => Over(r) \/ Unoffered(r, qr)
    /\ Has(qs, "cancel") \/ Has(qs, "checksum-mismatch") \/ Has(qs, "complete") => Over(r)
    /\ Has(qs, "complete") => r.senderDone
    /\ ~ Has(qs, "pause") /\ ~ Has(qs, "resume")
    /\ r.closed => r.state = "idle"
ToldInv(s, r, u, qs, qr) ==
    /\ u /\ Over(s) => Over(r) \/ Has(qr, "cancel") \/ Unoffered(r, qr)
    /\ u /\ r.state = "completed" => Over(s) \/ Has(qs, "complete")
    /\ ~ u => qs = << >> /\ qr = << >>

\* Sent follows the last chunk, and a sender that is completing has sent it.
AllSent(s) == s.state \in {"completing"} \cup Terminal /\ \A i \in Worker : s.seq[i] >= Total
SentAll(s, r, u, qr) ==
    /\ Sent(r, qr) => AllSent(s)
    /\ u /\ s.state = "completing" => Sent(r, qr) \/ Over(r)

\* Completion is claimed when Sent and every chunk came, and then gets through.
ClaimInv(r) ==
    /\ r.state # "paused"
    /\ r.completing = "closing" => r.state = "completing" \/ Over(r)
    /\ r.completing = "done" => Over(r)
    /\ r.senderDone /\ Full(r.received) /\ ~ Over(r) => r.completing # "no"

\* An open channel is bound to the transfer or waits for its offer.
Bound(r, d) ==
    /\ d.rx = "pending" => r.state = "idle" \/ Over(r)
    /\ d.st = "open" => d.rx # "none"
    /\ d.wire # << >> => d.rx = "attached" \/ Over(r)
BindInv(r, ch) == \A c \in Channel : Bound(r, ch[c])

\* The chunks the sender skips were received.
Came(r, K) == \A k \in K : r.received[k] # Unread
Answer(m) == m.type \in {"accept", "resume-request"}
Haves(s, r, q) == Came(r, s.have) /\ \A i \in 1..Len(q) : Answer(q[i]) => Came(r, q[i].have)

\* A chunk the sender is past was received or is on a wire, as long as none was lost.
Arriving(ch, k) ==
    \E c \in Channel : ch[c].rx = "attached" /\ \E i \in 1..Len(ch[c].wire) : ch[c].wire[i][1] = k
Got(r, ch, k) == r.received[k] # Unread \/ Arriving(ch, k) \/ Over(r)
Delivery(s, r, ch) ==
    \A i \in Worker : \A k \in Chunk : k \in Lane(i) /\ k < s.seq[i] => Got(r, ch, k)

CalmOf(s, r, k, ch, u, qs, qr) ==
    /\ Waits(s) /\ Lines(s, ch)
    /\ EarlyInv(s, r, k, ch, qs, qr) /\ IdleInv(s, r, qs, qr)
    /\ RefusedInv(r, qs, qr) /\ ToldInv(s, r, u, qs, qr)
    /\ SentAll(s, r, u, qr)
    /\ ClaimInv(r) /\ BindInv(r, ch) /\ Haves(s, r, qs)
Calm == CalmOf(snd, rcv, sink, chan, up, toS, toR)
Lossless == env.drops = 0 => up /\ Delivery(snd, rcv, chan)
Counters == env \in [drops : Nat, calls : Nat]

\* An offer or re-offer has its timer, unless offerTimeoutMs is 0; and while the control
\* channel lives its answer is on its way or due from the receiver or its application.
Asks(s) == s.state = "offered" \/ s.run = "reoffered"
Timely(o, s) ==
    o.timed => /\ s.state = "offered" => s.timer = "offer"
               /\ s.run = "reoffered" => s.timer = "reoffer"
Due(r, qs, qr) ==
    \/ Over(r) \/ r.state \in {"offered", "accepted"} \/ r.closed \/ Has(qr, "offer")
    \/ Has(qs, "reject") \/ Has(qs, "accept") \/ Has(qs, "resume-request")
Accepting(r, k) == r.state = "accepted" => k.handle = "opening" /\ r.chain = << >>
Pledged ==
    Timely(opts, snd) /\ (up /\ Asks(snd) => Due(rcv, toS, toR)) /\ Accepting(rcv, sink)

EndInv == Counters /\ (env.calls = 0 => Calm /\ Lossless /\ Pledged)

-----------------------------------------------------------------------------
(* Queues, by the types of their messages *)

\* Posting adds the type of the message.
LEMMA HasPosted ==
    ASSUME NEW S, NEW q \in Seq(S), NEW p \in Seq(S), NEW u, NEW m, Post(u, q, m, p)
    PROVE  /\ \A t : Has(p, t) <=> Has(q, t) \/ (u /\ m.type = t)
           /\ ~ u => p = q
           /\ OfferOnce(q) /\ (m.type = "offer" => ~ Has(q, "offer")) => OfferOnce(p)
           /\ OffersFirst(q) /\ (m.type = "offer" => ~ Has(q, "cancel")) => OffersFirst(p)
           /\ Refusals(q) /\ m.type \in Fatal => Refusals(p)
<1>1. CASE ~ u
  BY <1>1 DEF Post
<1>2. CASE u
  <2>1. Grown(q, m, p) /\ u
    BY <1>2 DEF Post
  <2>2. Len(q) \in Nat
    OBVIOUS
  <2>3. \A i \in 1..Len(p) : (i \in 1..Len(q) /\ p[i] = q[i]) \/ (i = Len(q) + 1 /\ p[i] = m)
    BY <2>1, <2>2 DEF Grown
  <2>4. \A i \in 1..Len(q) : i \in 1..Len(p) /\ p[i] = q[i] /\ i < Len(q) + 1
    BY <2>1, <2>2 DEF Grown
  <2>5. Len(q) + 1 \in 1..Len(p) /\ p[Len(q) + 1] = m
    BY <2>1, <2>2 DEF Grown
  <2>6. \A t : Has(p, t) <=> Has(q, t) \/ (u /\ m.type = t)
    BY <2>1, <2>3, <2>4, <2>5 DEF Has
  <2>7. OfferOnce(q) /\ (m.type = "offer" => ~ Has(q, "offer")) => OfferOnce(p)
    BY <2>3 DEF OfferOnce, Has
  <2>8. OffersFirst(q) /\ (m.type = "offer" => ~ Has(q, "cancel")) => OffersFirst(p)
    BY <2>3, <2>4 DEF OffersFirst, Has
  <2>9. Refusals(q) /\ m.type \in Fatal => Refusals(p)
    BY <2>3 DEF Refusals
  <2> QED
    BY <1>2, <2>6, <2>7, <2>8, <2>9
<1> QED
  BY <1>1, <1>2

\* A message that was posted over a live link is in the queue.
LEMMA PostedHas ==
    ASSUME NEW S, NEW q \in Seq(S), NEW p \in Seq(S), NEW u, NEW m, Post(u, q, m, p), u
    PROVE  Has(p, m.type)
BY HasPosted

\* Taking the head leaves the rest.
LEMMA HasTaken ==
    ASSUME NEW S, NEW q \in Seq(S), NEW p \in Seq(S), Shrunk(q, p)
    PROVE  /\ \A t : Has(p, t) => Has(q, t)
           /\ \A t : Has(q, t) => Has(p, t) \/ q[1].type = t
           /\ Has(q, q[1].type)
           /\ OfferOnce(q) => OfferOnce(p) /\ (q[1].type = "offer" => ~ Has(p, "offer"))
           /\ OffersFirst(q) => OffersFirst(p) /\ (q[1].type = "cancel" => ~ Has(p, "offer"))
           /\ Refusals(q) => Refusals(p)
           /\ q # << >>
<1>1. Len(q) \in Nat /\ Len(p) \in Nat /\ Len(q) = Len(p) + 1
  BY DEF Shrunk
<1>2. \A i \in 1..Len(p) : i + 1 \in 1..Len(q) /\ p[i] = q[i + 1] /\ i + 1 # 1 /\ ~ (i + 1 < 1)
  BY <1>1 DEF Shrunk
<1>3. 1 \in 1..Len(q)
  BY <1>1
<1>4. \A j \in 1..Len(q) : j = 1 \/ (j - 1 \in 1..Len(p) /\ p[j - 1] = q[j])
  <2> TAKE j \in 1..Len(q)
  <2>1. j = 1 \/ (j - 1 \in 1..Len(p) /\ (j - 1) + 1 = j)
    BY <1>1
  <2> QED
    BY <2>1 DEF Shrunk
<1>5. \A t : Has(p, t) => Has(q, t)
  BY <1>2 DEF Has
<1>6. \A t : Has(q, t) => Has(p, t) \/ q[1].type = t
  BY <1>4 DEF Has
<1>7. Has(q, q[1].type)
  BY <1>3 DEF Has
<1>8. OfferOnce(q) => OfferOnce(p) /\ (q[1].type = "offer" => ~ Has(p, "offer"))
  <2>1. ASSUME OfferOnce(q), NEW i \in 1..Len(p), NEW j \in 1..Len(p), p[i].type = "offer", p[j].type = "offer"
        PROVE  i = j
    <3>1. i + 1 = j + 1
      BY <1>2, <2>1 DEF OfferOnce
    <3> QED
      BY <1>1, <3>1
  <2>2. ASSUME OfferOnce(q), q[1].type = "offer" PROVE ~ Has(p, "offer")
    BY <1>2, <1>3, <2>2 DEF OfferOnce, Has
  <2> QED
    BY <2>1, <2>2 DEF OfferOnce
<1>9. OffersFirst(q) => OffersFirst(p) /\ (q[1].type = "cancel" => ~ Has(p, "offer"))
  <2>1. ASSUME OffersFirst(q), NEW i \in 1..Len(p), NEW j \in 1..Len(p), p[i].type = "cancel", p[j].type = "offer"
        PROVE  j < i
    <3>1. j + 1 < i + 1
      BY <1>2, <2>1 DEF OffersFirst
    <3> QED
      BY <1>1, <3>1
  <2>2. ASSUME OffersFirst(q), q[1].type = "cancel" PROVE ~ Has(p, "offer")
    BY <1>2, <1>3, <2>2 DEF OffersFirst, Has
  <2> QED
    BY <2>1, <2>2 DEF OffersFirst
<1>10. Refusals(q) => Refusals(p)
  BY <1>2 DEF Refusals
<1>11. q # << >>
  BY <1>1
<1> QED
  BY <1>5, <1>6, <1>7, <1>8, <1>9, <1>10, <1>11

\* Sent has been received, or is in the queue.
LEMMA SentHas ==
    ASSUME NEW r, NEW q
    PROVE  Sent(r, q) <=> r.senderDone \/ Has(q, "sent")
BY DEF Sent, Has

\* An empty queue has no message.
LEMMA HasNone ==
    /\ \A t : ~ Has(<< >>, t)
    /\ OfferOnce(<< >>) /\ OffersFirst(<< >>) /\ Refusals(<< >>)
<1>1. Len(<< >>) = 0
  OBVIOUS
<1>2. 1..Len(<< >>) = {}
  BY <1>1
<1> QED
  BY <1>2 DEF Has, OfferOnce, OffersFirst, Refusals

-----------------------------------------------------------------------------
(* A step of the sender *)

\* The queue to the side that moves: as it was, or without its head.
Fewer(q, p) == p = q \/ Shrunk(q, p)

\* What the sender posts: an offer to a receiver that has none or was active, Sent after
\* its last chunk, or anything else.
Notes(s2, r, u, qs2, qr, qr2) ==
    \/ qr2 = qr
    \/ \E m \in ToRMsg :
          /\ Post(u, qr, m, qr2)
          /\ m.type = "offer" => /\ ~ Has(qr, "cancel") /\ ~ Over(s2)
                                 /\ ~ Early(r) \/ (r.state = "idle" /\ qr = << >> /\ qs2 = << >>)
          /\ m.type = "sent" => ~ Early(r) /\ AllSent(s2)

\* What the sender's queue tells after the step.
LEMMA SenderQueue ==
    ASSUME NEW q \in Seq(ToSMsg), NEW p \in Seq(ToSMsg), Fewer(q, p)
    PROVE  /\ \A t : Has(p, t) => Has(q, t)
           /\ Refusals(q) => Refusals(p)
           /\ q = << >> => p = << >>
BY HasTaken DEF Fewer

\* What the receiver's queue tells after the step.
LEMMA SenderNote ==
    ASSUME NEW s2, NEW r, NEW u, NEW qs2, NEW q \in Seq(ToRMsg), NEW p \in Seq(ToRMsg),
           Notes(s2, r, u, qs2, q, p)
    PROVE  /\ \A t : Has(q, t) => Has(p, t)
           /\ Has(p, "sent") => Has(q, "sent") \/ (~ Early(r) /\ AllSent(s2))
           /\ ~ u => p = q
           /\ OffersFirst(q) => OffersFirst(p)
           /\ Early(r) /\ OfferOnce(q) => OfferOnce(p)
           /\ Has(p, "offer") => \/ Has(q, "offer")
                                 \/ ~ Over(s2) /\ (~ Early(r) \/ (r.state = "idle" /\ qs2 = << >>))
<1>1. CASE p = q
  BY <1>1
<1>2. CASE p # q
  <2>1. PICK m \in ToRMsg :
          /\ Post(u, q, m, p)
          /\ m.type = "offer" => /\ ~ Has(q, "cancel") /\ ~ Over(s2)
                                 /\ ~ Early(r) \/ (r.state = "idle" /\ q = << >> /\ qs2 = << >>)
          /\ m.type = "sent" => ~ Early(r) /\ AllSent(s2)
    BY <1>2 DEF Notes
  <2>2. /\ \A t : Has(p, t) <=> Has(q, t) \/ (u /\ m.type = t)
        /\ ~ u => p = q
        /\ OfferOnce(q) /\ (m.type = "offer" => ~ Has(q, "offer")) => OfferOnce(p)
        /\ OffersFirst(q) /\ (m.type = "offer" => ~ Has(q, "cancel")) => OffersFirst(p)
    BY <2>1, HasPosted
  <2>3. q = << >> => ~ Has(q, "offer")
    BY HasNone
  <2> QED
    BY <2>1, <2>2, <2>3
<1> QED
  BY <1>1, <1>2

\* The sender moves and the receiver does not: what the sender has to keep.
LEMMA SenderCalm ==
    ASSUME NEW s, NEW s2, NEW r, NEW k, NEW ch, NEW ch2, NEW u,
           NEW qs \in Seq(ToSMsg), NEW qs2 \in Seq(ToSMsg),
           NEW qr \in Seq(ToRMsg), NEW qr2 \in Seq(ToRMsg),
           CalmOf(s, r, k, ch, u, qs, qr),
           Waits(s2), Lines(s2, ch2), s2.state # "idle",
           Fewer(qs, qs2), Notes(s2, r, u, qs2, qr, qr2),
           Early(r) => Unstarted(s2) /\ NoFrames(ch2),
           Has(qs, "complete") => Has(qs2, "complete") \/ Over(s2),
           Over(s) => Over(s2), AllSent(s) => AllSent(s2),
           u /\ Over(s2) => Over(s) \/ Over(r) \/ Has(qr2, "cancel") \/ Unoffered(r, qr2),
           u /\ s2.state = "completing" => s.state = "completing" \/ Has(qr2, "sent"),
           BindInv(r, ch2), Came(r, s2.have)
    PROVE  CalmOf(s2, r, k, ch2, u, qs2, qr2)
<1>1. /\ \A t : Has(qs2, t) => Has(qs, t)
      /\ Refusals(qs) => Refusals(qs2)
      /\ qs = << >> => qs2 = << >>
  BY SenderQueue
<1>2. /\ \A t : Has(qr, t) => Has(qr2, t)
      /\ Has(qr2, "sent") => Has(qr, "sent") \/ (~ Early(r) /\ AllSent(s2))
      /\ ~ u => qr2 = qr
      /\ OffersFirst(qr) => OffersFirst(qr2)
      /\ Early(r) /\ OfferOnce(qr) => OfferOnce(qr2)
      /\ Has(qr2, "offer") => \/ Has(qr, "offer")
                              \/ ~ Over(s2) /\ (~ Early(r) \/ (r.state = "idle" /\ qs2 = << >>))
  BY SenderNote
<1>3. (Sent(r, qr) <=> r.senderDone \/ Has(qr, "sent")) /\ (Sent(r, qr2) <=> r.senderDone \/ Has(qr2, "sent"))
  BY SentHas
<1>4. \A t : ~ Has(<< >>, t)
  BY HasNone
<1>5. EarlyInv(s2, r, k, ch2, qs2, qr2)
  <2>1. EarlyInv(s, r, k, ch, qs, qr)
    BY DEF CalmOf
  <2> QED
    BY <1>1, <1>2, <1>3, <2>1 DEF EarlyInv, Early
<1>6. IdleInv(s2, r, qs2, qr2)
  BY DEF IdleInv
<1>7. Unoffered(r, qr) /\ Has(qs2, "reject") => Unoffered(r, qr2)
  BY <1>2, <1>4 DEF Unoffered, Early
<1>8. RefusedInv(r, qs2, qr2)
  <2>1. RefusedInv(r, qs, qr)
    BY DEF CalmOf
  <2> QED
    BY <1>1, <1>2, <1>7, <2>1 DEF RefusedInv
<1>9. ToldInv(s2, r, u, qs2, qr2)
  <2>1. ToldInv(s, r, u, qs, qr)
    BY DEF CalmOf
  <2>2. Over(s2) /\ Unoffered(r, qr) => Unoffered(r, qr2)
    BY <1>2 DEF Unoffered
  <2>3. u /\ Over(s2) => Over(r) \/ Has(qr2, "cancel") \/ Unoffered(r, qr2)
    BY <1>2, <2>1, <2>2 DEF ToldInv
  <2>4. u /\ r.state = "completed" => Over(s2) \/ Has(qs2, "complete")
    BY <2>1 DEF ToldInv
  <2> QED
    BY <1>1, <1>2, <2>1, <2>3, <2>4 DEF ToldInv
<1>10. SentAll(s2, r, u, qr2)
  <2>1. SentAll(s, r, u, qr)
    BY DEF CalmOf
  <2> QED
    BY <1>2, <1>3, <2>1 DEF SentAll
<1>11. ClaimInv(r)
  BY DEF CalmOf
<1>12. Haves(s2, r, qs2)
  <2>1. Haves(s, r, qs)
    BY DEF CalmOf
  <2>2. CASE qs2 = qs
    BY <2>1, <2>2 DEF Haves
  <2>3. CASE Shrunk(qs, qs2)
    <3>1. Len(qs) \in Nat /\ Len(qs2) \in Nat /\ Len(qs) = Len(qs2) + 1
      BY <2>3 DEF Shrunk
    <3>2. \A i \in 1..Len(qs2) : i + 1 \in 1..Len(qs) /\ qs2[i] = qs[i + 1]
      BY <2>3, <3>1 DEF Shrunk
    <3>3. \A i \in 1..Len(qs2) : Answer(qs2[i]) => Came(r, qs2[i].have)
      BY <2>1, <3>2 DEF Haves
    <3> QED
      BY <3>3 DEF Haves
  <2> QED
    BY <2>2, <2>3 DEF Fewer
<1> QED
  BY <1>5, <1>6, <1>8, <1>9, <1>10, <1>11, <1>12 DEF CalmOf

-----------------------------------------------------------------------------
(* A step of the receiver *)

\* What the receiver posts: while it is not active only a refusal, an end only when it
\* has ended or refused the offer, an answer with chunks it has.
Replies(r2, u, qr2, qs, qs2) ==
    \/ qs2 = qs
    \/ \E m \in ToSMsg :
          /\ Post(u, qs, m, qs2)
          /\ m.type \notin {"pause", "resume"}
          /\ Early(r2) => m.type \in Fatal
          /\ m.type = "reject" => Over(r2) \/ Unoffered(r2, qr2)
          /\ m.type \in {"cancel", "checksum-mismatch", "complete"} => Over(r2)
          /\ m.type = "complete" => r2.senderDone
          /\ Answer(m) => Came(r2, m.have)

\* The receiver keeps the chunks it has.
Keeps(r, r2) == \A x \in Chunk : r.received[x] # Unread => r2.received[x] # Unread

\* What the sender's queue tells after the step.
LEMMA ReceiverReply ==
    ASSUME NEW r2, NEW u, NEW qr2, NEW q \in Seq(ToSMsg), NEW p \in Seq(ToSMsg),
           Replies(r2, u, qr2, q, p)
    PROVE  /\ \A t : Has(q, t) => Has(p, t)
           /\ ~ u => p = q
           /\ Early(r2) /\ Refusals(q) => Refusals(p)
           /\ Has(p, "reject") => Has(q, "reject") \/ Over(r2) \/ Unoffered(r2, qr2)
           /\ Has(p, "cancel") => Has(q, "cancel") \/ Over(r2)
           /\ Has(p, "checksum-mismatch") => Has(q, "checksum-mismatch") \/ Over(r2)
           /\ Has(p, "complete") => Has(q, "complete") \/ (Over(r2) /\ r2.senderDone)
           /\ Has(p, "pause") => Has(q, "pause")
           /\ Has(p, "resume") => Has(q, "resume")
<1>1. CASE p = q
  BY <1>1
<1>2. CASE p # q
  <2>1. PICK m \in ToSMsg :
          /\ Post(u, q, m, p)
          /\ m.type \notin {"pause", "resume"}
          /\ Early(r2) => m.type \in Fatal
          /\ m.type = "reject" => Over(r2) \/ Unoffered(r2, qr2)
          /\ m.type \in {"cancel", "checksum-mismatch", "complete"} => Over(r2)
          /\ m.type = "complete" => r2.senderDone
    BY <1>2 DEF Replies
  <2>2. /\ \A t : Has(p, t) <=> Has(q, t) \/ (u /\ m.type = t)
        /\ ~ u => p = q
        /\ Refusals(q) /\ m.type \in Fatal => Refusals(p)
    BY <2>1, HasPosted
  <2> QED
    BY <2>1, <2>2
<1> QED
  BY <1>1, <1>2

\* The chunks that were answered stay received.
LEMMA ReceiverHaves ==
    ASSUME NEW s \in SndType, NEW r, NEW r2, NEW u, NEW qr2,
           NEW q \in Seq(ToSMsg), NEW p \in Seq(ToSMsg),
           Haves(s, r, q), Keeps(r, r2), Replies(r2, u, qr2, q, p)
    PROVE  Haves(s, r2, p)
<1>1. \A K \in Chunks : Came(r, K) => Came(r2, K)
  BY DEF Came, Keeps, Chunks
<1>2. s.have \in Chunks
  BY DEF SndType
<1>3. \A m \in ToSMsg : Answer(m) => m.have \in Chunks
  BY DEF ToSMsg, Answer, Fatal
<1>4. \A i \in 1..Len(q) : Answer(q[i]) => Came(r2, q[i].have)
  <2> TAKE i \in 1..Len(q)
  <2>1. q[i] \in ToSMsg
    OBVIOUS
  <2> QED
    BY <1>1, <1>3, <2>1 DEF Haves
<1>5. Came(r2, s.have)
  BY <1>1, <1>2 DEF Haves
<1>6. CASE p = q
  BY <1>4, <1>5, <1>6 DEF Haves
<1>7. CASE p # q
  <2>1. PICK m \in ToSMsg : Post(u, q, m, p) /\ (Answer(m) => Came(r2, m.have))
    BY <1>7 DEF Replies
  <2>2. Grown(q, m, p)
    BY <1>7, <2>1 DEF Post
  <2>3. Len(q) \in Nat
    OBVIOUS
  <2>4. \A i \in 1..Len(p) : (i \in 1..Len(q) /\ p[i] = q[i]) \/ (i = Len(q) + 1 /\ p[i] = m)
    BY <2>2, <2>3 DEF Grown
  <2>5. \A i \in 1..Len(p) : Answer(p[i]) => Came(r2, p[i].have)
    BY <1>4, <2>1, <2>4
  <2> QED
    BY <1>5, <2>5 DEF Haves
<1> QED
  BY <1>6, <1>7

\* What the receiver's own queue tells after the step.
LEMMA ReceiverQueue ==
    ASSUME NEW q \in Seq(ToRMsg), NEW p \in Seq(ToRMsg), Fewer(q, p)
    PROVE  /\ \A t : Has(p, t) => Has(q, t)
           /\ OfferOnce(q) => OfferOnce(p)
           /\ OffersFirst(q) => OffersFirst(p)
           /\ q = << >> => p = << >>
BY HasTaken DEF Fewer

\* The receiver moves and the sender does not: what the receiver has to keep.
LEMMA ReceiverCalm ==
    ASSUME NEW s \in SndType, NEW r, NEW r2, NEW k, NEW k2, NEW ch, NEW ch2, NEW u,
           NEW qs \in Seq(ToSMsg), NEW qs2 \in Seq(ToSMsg),
           NEW qr \in Seq(ToRMsg), NEW qr2 \in Seq(ToRMsg),
           CalmOf(s, r, k, ch, u, qs, qr),
           Lines(s, ch2), Fewer(qr, qr2), Replies(r2, u, qr2, qs, qs2),
           Early(r2) => /\ Early(r) /\ NoFrames(ch2)
                        /\ r2.state # "accepted" => ~ k2.given
                        /\ r2.state # "idle" => ~ Has(qr2, "offer"),
           s.state = "idle" => r2.state = "idle" /\ qs2 = qs,
           Over(r) => Over(r2), Unoffered(r, qr) => Unoffered(r2, qr2),
           Has(qr, "cancel") => Has(qr2, "cancel") \/ Over(r2) \/ Unoffered(r2, qr2),
           r2.closed => r2.state = "idle", r.senderDone => r2.senderDone,
           u /\ r2.state = "completed" => r.state = "completed" \/ Has(qs2, "complete"),
           Sent(r2, qr2) => Sent(r, qr), Sent(r, qr) => Sent(r2, qr2) \/ Over(r2),
           ClaimInv(r2), BindInv(r2, ch2), Keeps(r, r2)
    PROVE  CalmOf(s, r2, k2, ch2, u, qs2, qr2)
<1>1. /\ \A t : Has(qr2, t) => Has(qr, t)
      /\ OfferOnce(qr) => OfferOnce(qr2)
      /\ OffersFirst(qr) => OffersFirst(qr2)
      /\ qr = << >> => qr2 = << >>
  BY ReceiverQueue
<1>2. /\ \A t : Has(qs, t) => Has(qs2, t)
      /\ ~ u => qs2 = qs
      /\ Early(r2) /\ Refusals(qs) => Refusals(qs2)
      /\ Has(qs2, "reject") => Has(qs, "reject") \/ Over(r2) \/ Unoffered(r2, qr2)
      /\ Has(qs2, "cancel") => Has(qs, "cancel") \/ Over(r2)
      /\ Has(qs2, "checksum-mismatch") => Has(qs, "checksum-mismatch") \/ Over(r2)
      /\ Has(qs2, "complete") => Has(qs, "complete") \/ (Over(r2) /\ r2.senderDone)
      /\ Has(qs2, "pause") => Has(qs, "pause")
      /\ Has(qs2, "resume") => Has(qs, "resume")
  BY ReceiverReply
<1>3. Waits(s)
  BY DEF CalmOf
<1>4. EarlyInv(s, r2, k2, ch2, qs2, qr2)
  <2>1. EarlyInv(s, r, k, ch, qs, qr)
    BY DEF CalmOf
  <2> QED
    BY <1>1, <1>2, <2>1 DEF EarlyInv
<1>5. IdleInv(s, r2, qs2, qr2)
  <2>1. IdleInv(s, r, qs, qr)
    BY DEF CalmOf
  <2> QED
    BY <1>1, <2>1 DEF IdleInv
<1>6. RefusedInv(r2, qs2, qr2)
  <2>1. RefusedInv(r, qs, qr)
    BY DEF CalmOf
  <2> QED
    BY <1>1, <1>2, <2>1 DEF RefusedInv
<1>7. ToldInv(s, r2, u, qs2, qr2)
  <2>1. ToldInv(s, r, u, qs, qr)
    BY DEF CalmOf
  <2> QED
    BY <1>1, <1>2, <2>1 DEF ToldInv
<1>8. SentAll(s, r2, u, qr2)
  <2>1. SentAll(s, r, u, qr)
    BY DEF CalmOf
  <2> QED
    BY <2>1 DEF SentAll
<1>9. Haves(s, r2, qs2)
  <2>1. Haves(s, r, qs)
    BY DEF CalmOf
  <2> QED
    BY <2>1, ReceiverHaves
<1> QED
  BY <1>3, <1>4, <1>5, <1>6, <1>7, <1>8, <1>9 DEF CalmOf

-----------------------------------------------------------------------------
(* The sender and its channels *)

\* Links are closed or opened, bindings and wires stay.
Relinked(ch, ch2) ==
    /\ ch2 \in [Channel -> ChanType]
    /\ \A c \in Channel : /\ ch2[c].rx = ch[c].rx /\ ch2[c].wire = ch[c].wire
                          /\ ch2[c].st = ch[c].st \/ ch2[c].st \in {"opening", "closed"}

\* What the second invariant says of the channels survives.
LEMMA RelinkedKeeps ==
    ASSUME NEW ch, NEW ch2, Relinked(ch, ch2)
    PROVE  /\ \A r : BindInv(r, ch) => BindInv(r, ch2)
           /\ NoFrames(ch) => NoFrames(ch2)
           /\ \A r : \A x \in Chunk : Got(r, ch, x) => Got(r, ch2, x)
           /\ \A c \in Channel : ch2[c].st = "none" => ch[c].st = "none"
<1>1. \A r : BindInv(r, ch) => BindInv(r, ch2)
  BY DEF Relinked, BindInv, Bound
<1>2. NoFrames(ch) => NoFrames(ch2)
  BY DEF Relinked, NoFrames
<1>3. \A x : Arriving(ch, x) => Arriving(ch2, x)
  BY DEF Relinked, Arriving
<1>4. \A c \in Channel : ch2[c].st = "none" => ch[c].st = "none"
  BY DEF Relinked
<1> QED
  BY <1>1, <1>2, <1>3, <1>4 DEF Got

\* The channels of a batch are the workers'.
LEMMA BatchChannels ==
    ASSUME NEW b \in Batches, NEW i \in Worker
    PROVE  <<b, i>> \in Channel /\ <<b, i>>[1] = b
BY DEF Channel, Batches

\* Closing or opening a batch relinks its channels.
LEMMA BatchRelinked ==
    ASSUME NEW ch \in [Channel -> ChanType], NEW b
    PROVE  /\ Relinked(ch, ch) /\ Relinked(ch, ClosedBatch(ch, b)) /\ Relinked(ch, Opened(ch, b))
           /\ \A c \in Channel : c[1] = b => Opened(ch, b)[c].st = "opening"
<1>1. \A c \in Channel : ch[c] \in ChanType
  OBVIOUS
<1>2. ASSUME NEW d \in ChanType, NEW st \in Links
      PROVE  /\ [d EXCEPT !.st = st] \in ChanType /\ [d EXCEPT !.st = st].st = st
             /\ [d EXCEPT !.st = st].rx = d.rx /\ [d EXCEPT !.st = st].wire = d.wire
  BY DEF ChanType
<1>3. "closed" \in Links /\ "opening" \in Links
  BY DEF Links
<1>4. Relinked(ch, ClosedBatch(ch, b))
  BY <1>1, <1>2, <1>3 DEF Relinked, ClosedBatch
<1>5. Relinked(ch, Opened(ch, b)) /\ \A c \in Channel : c[1] = b => Opened(ch, b)[c].st = "opening"
  BY <1>1, <1>2, <1>3 DEF Relinked, Opened
<1>6. Relinked(ch, ch)
  BY DEF Relinked
<1> QED
  BY <1>4, <1>5, <1>6

\* Chunks the sender is past stay on their way.
LEMMA DeliveryKept ==
    ASSUME NEW s, NEW s2, NEW r, NEW ch, NEW ch2, Delivery(s, r, ch), s2.seq = s.seq, Relinked(ch, ch2)
    PROVE  Delivery(s2, r, ch2)
BY RelinkedKeeps DEF Delivery

\* The step keeps the second invariant, and loses no chunk.
Onward == Calm' /\ (Delivery(snd, rcv, chan) => Delivery(snd, rcv, chan)')

\* What SenderBecomes leaves of a sender that ends, and of one that goes on.
Ended(s, d) ==
    /\ d \in SndType /\ d.state = s.state /\ d.seq = s.seq /\ d.have = s.have /\ d.batch = s.batch
    /\ d.timer = "off" /\ d.run = "none" /\ ~ d.interrupted /\ \A i \in Worker : d.pc[i] = "end"

\* SenderBecomes ends the transfer or lets it go on; links are closed at most.
LEMMA Becoming ==
    ASSUME NEW s \in SndType, NEW msgs, SenderBecomes(s, msgs), chan \in [Channel -> ChanType]
    PROVE  /\ s.state \in Terminal => Ended(s, snd')
           /\ s.state \notin Terminal => snd' = s /\ chan' = chan
           /\ Relinked(chan, chan') /\ toR' = Posted(toR, msgs)
<1>1. Relinked(chan, chan')
  BY BatchRelinked DEF SenderBecomes
<1>2. CASE s.state \in Terminal
  <2>1. snd' = [s EXCEPT !.timer = "off", !.run = "none", !.interrupted = FALSE,
                         !.pc = [i \in Worker |-> "end"]]
    BY <1>2 DEF SenderBecomes
  <2>2. [i \in Worker |-> "end"] \in Pcs /\ "off" \in Timers /\ "none" \in RunState
    BY DEF Pcs, PcState, Timers, RunState
  <2>3. Ended(s, snd')
    BY <2>1, <2>2 DEF Ended, SndType
  <2> QED
    BY <1>1, <1>2, <2>3 DEF SenderBecomes
<1>3. CASE s.state \notin Terminal
  BY <1>1, <1>3 DEF SenderBecomes
<1> QED
  BY <1>2, <1>3

\* An ended sender waits for nothing.
LEMMA EndedWaits ==
    ASSUME NEW s, NEW d, Ended(s, d), s.state \in Terminal
    PROVE  Waits(d) /\ Unstarted(d) /\ d.state # "idle" /\ Over(d) /\ d.state # "completing"
BY DEF Ended, Waits, Unstarted, Over, Terminal

\* Posting nothing, or one message of the sender.
LEMMA Noting ==
    ASSUME NEW q \in Seq(ToRMsg), NEW msgs, NEW p, p = Posted(q, msgs)
    PROVE  /\ msgs = << >> => p = q
           /\ \A m \in ToRMsg : msgs = <<m>> => p \in Seq(ToRMsg) /\ Post(up, q, m, p)
BY PostNone, PostOne

\* The sender ends, and tells the receiver unless that is over or has no offer.
LEMMA SenderEndsCalm ==
    ASSUME IndInv, Calm, UNCHANGED <<rcv, sink, up>>, toS' \in Seq(ToSMsg), Fewer(toS, toS'),
           NEW s \in SndType, NEW msgs, SenderBecomes(s, msgs), s.state \in Terminal,
           s.seq = snd.seq, s.have = snd.have, s.batch = snd.batch, snd.state # "idle",
           msgs = << >> \/ msgs = <<Plain("cancel")>>,
           up /\ msgs = << >> => Over(snd) \/ Over(rcv) \/ Unoffered(rcv, toR)
    PROVE  Onward
<1>1. /\ snd \in SndType /\ chan \in [Channel -> ChanType]
      /\ toS \in Seq(ToSMsg) /\ toR \in Seq(ToRMsg)
  BY DEF IndInv, Typing
<1>2. Ended(s, snd') /\ Relinked(chan, chan') /\ toR' = Posted(toR, msgs)
  BY <1>1, Becoming
<1>3. Waits(snd') /\ Unstarted(snd') /\ snd'.state # "idle" /\ Over(snd') /\ snd'.state # "completing"
  BY <1>2, EndedWaits
<1>4. Plain("cancel") \in ToRMsg /\ Plain("cancel").type = "cancel"
  BY SenderMessages
<1>5. /\ msgs = << >> => toR' = toR
      /\ msgs = <<Plain("cancel")>> => toR' \in Seq(ToRMsg) /\ Post(up, toR, Plain("cancel"), toR')
  BY <1>1, <1>2, <1>4, Noting
<1>6. toR' \in Seq(ToRMsg)
  BY <1>1, <1>5
<1>7. Notes(snd', rcv, up, toS', toR, toR')
  BY <1>4, <1>5 DEF Notes
<1>8. up => Over(snd) \/ Over(rcv) \/ Has(toR', "cancel") \/ Unoffered(rcv, toR')
  <2>1. CASE msgs = << >>
    BY <1>5, <2>1
  <2>2. CASE msgs = <<Plain("cancel")>>
    <3>1. Post(up, toR, Plain("cancel"), toR')
      BY <1>5, <2>2
    <3>2. up => Has(toR', "cancel")
      BY <1>1, <1>4, <1>6, <3>1, PostedHas
    <3> QED
      BY <3>2
  <2> QED
    BY <2>1, <2>2
<1>9. /\ Lines(snd, chan) /\ EarlyInv(snd, rcv, sink, chan, toS, toR)
      /\ BindInv(rcv, chan) /\ Haves(snd, rcv, toS)
  BY DEF Calm, CalmOf
<1>10. /\ BindInv(rcv, chan') /\ (NoFrames(chan) => NoFrames(chan'))
       /\ \A c \in Channel : chan'[c].st = "none" => chan[c].st = "none"
  BY <1>2, <1>9, RelinkedKeeps
<1>11. Lines(snd', chan')
  <2>1. snd'.batch = snd.batch /\ snd.batch \in Batches
    BY <1>1, <1>2 DEF Ended, SndType
  <2> QED
    BY <1>9, <1>10, <2>1, BatchChannels DEF Lines
<1>12. Early(rcv) => Unstarted(snd') /\ NoFrames(chan')
  BY <1>3, <1>9, <1>10 DEF EarlyInv
<1>13. AllSent(snd) => AllSent(snd')
  BY <1>2, <1>3 DEF AllSent, Ended, Over
<1>14. Came(rcv, snd'.have)
  BY <1>2, <1>9 DEF Haves, Ended
<1>15. CalmOf(snd', rcv, sink, chan', up, toS', toR')
  <2>1. CalmOf(snd, rcv, sink, chan, up, toS, toR)
    BY DEF Calm
  <2> QED
    BY <1>1, <1>3, <1>6, <1>7, <1>8, <1>10, <1>11, <1>12, <1>13, <1>14, <2>1, SenderCalm
<1>16. Calm'
  BY <1>15 DEF Calm
<1>17. snd'.seq = snd.seq
  BY <1>2 DEF Ended
<1>18. Delivery(snd, rcv, chan) => Delivery(snd', rcv, chan')
  BY <1>2, <1>17, DeliveryKept
<1> QED
  BY <1>16, <1>18 DEF Onward

\* Failing and cancelling end the transfer and change nothing else; so does disarming
\* the timer before.
SamePlan(s, d) == d.seq = s.seq /\ d.have = s.have /\ d.batch = s.batch

\* A sender that gives up keeps its plan, whatever became of its timer.
LEMMA GivingUp ==
    ASSUME NEW s \in SndType, NEW x \in {s.timer, "off"}, NEW t, t = [s EXCEPT !.timer = x],
           NEW d, GivenUp(t, d)
    PROVE  d \in SndType /\ d.state \in Terminal /\ SamePlan(s, d)
<1>1. t \in SndType /\ t.state = s.state /\ SamePlan(s, t)
  BY DEF SndType, SamePlan, Timers
<1>2. t.state \in State
  BY <1>1 DEF SndType
<1>3. \A b \in {"failed", "cancelled"} : After(t.state, b) \in Terminal
  BY <1>2, AfterState DEF State, Terminal
<1>4. \E y \in Terminal : d = [t EXCEPT !.state = y]
  BY <1>3 DEF GivenUp, Failed, Cancelled
<1>5. PICK y \in Terminal : d = [t EXCEPT !.state = y]
  BY <1>4
<1>6. y \in State \ {"accepted"}
  BY DEF State, Terminal
<1>7. d \in SndType /\ d.state = y /\ SamePlan(t, d)
  BY <1>1, <1>5, <1>6 DEF SndType, SamePlan
<1> QED
  BY <1>1, <1>7 DEF SamePlan

\* The offer timer that fires finds the sender waiting.
LEMMA OfferTimeoutCalm ==
    ASSUME IndInv, Calm, OfferTimeout
    PROVE  Onward
<1>1. snd \in SndType /\ toS \in Seq(ToSMsg) /\ snd.timer \in Timers
  BY DEF IndInv, Typing, SndType
<1>2. Waits(snd)
  BY DEF Calm, CalmOf
<1>3. snd.timer = "offer" => snd.state = "offered"
  BY <1>2 DEF Waits
<1>4. snd.timer # "offer" => snd.interrupted /\ snd.state = "paused"
  BY <1>1, <1>2 DEF Waits, Timers, OfferTimeout
<1> DEFINE t == [snd EXCEPT !.timer = "off"]
<1>5. SenderBecomes(Failed(t), <<Plain("cancel")>>) /\ UNCHANGED <<rcv, sink, up, toS>>
  BY <1>3, <1>4 DEF OfferTimeout
<1>6. Failed(t) \in SndType /\ Failed(t).state \in Terminal /\ SamePlan(snd, Failed(t))
  BY <1>1, GivingUp DEF GivenUp
<1>7. snd.state # "idle"
  BY <1>3, <1>4
<1> HIDE DEF t
<1>8. toS' \in Seq(ToSMsg) /\ Fewer(toS, toS')
  BY <1>1, <1>5 DEF Fewer
<1>9. <<Plain("cancel")>> # << >>
  OBVIOUS
<1>10. PICK d : d = Failed(t)
  OBVIOUS
<1>11. d \in SndType /\ d.state \in Terminal /\ SenderBecomes(d, <<Plain("cancel")>>)
       /\ d.seq = snd.seq /\ d.have = snd.have /\ d.batch = snd.batch
  BY <1>5, <1>6, <1>10 DEF SamePlan
<1> QED
  BY <1>5, <1>7, <1>8, <1>9, <1>11, SenderEndsCalm

\* cancel() of the sending application.
LEMMA SenderCancelCalm ==
    ASSUME IndInv, Calm, SenderCancel
    PROVE  Onward
<1>1. snd \in SndType /\ toS \in Seq(ToSMsg)
  BY DEF IndInv, Typing
<1>2. snd = [snd EXCEPT !.timer = snd.timer]
  BY <1>1 DEF SndType
<1>3. PICK d : d = Cancelled(snd)
  OBVIOUS
<1>4. d \in SndType /\ d.state \in Terminal /\ SamePlan(snd, d)
  BY <1>1, <1>2, <1>3, GivingUp DEF GivenUp
<1>5. SenderBecomes(d, <<Plain("cancel")>>) /\ UNCHANGED <<rcv, sink, up, toS>> /\ snd.state # "idle"
  BY <1>3 DEF SenderCancel
<1>6. toS' \in Seq(ToSMsg) /\ Fewer(toS, toS') /\ <<Plain("cancel")>> # << >>
  BY <1>1, <1>5 DEF Fewer
<1> QED
  BY <1>4, <1>5, <1>6, SenderEndsCalm DEF SamePlan

\* A sender that has ended is the one that cancels, so before that none is on its way.
LEMMA NoCancelYet ==
    ASSUME IndInv, ~ Over(snd)
    PROVE  ~ Has(toR, "cancel")
BY DEF IndInv, SentInv, Has, Over

\* The parts of the second invariant that the sender's steps use.
LEMMA CalmSender ==
    ASSUME IndInv, Calm
    PROVE  /\ snd \in SndType /\ chan \in [Channel -> ChanType]
           /\ toS \in Seq(ToSMsg) /\ toR \in Seq(ToRMsg)
           /\ Waits(snd) /\ Lines(snd, chan) /\ BindInv(rcv, chan) /\ Came(rcv, snd.have)
           /\ Early(rcv) => Unstarted(snd) /\ NoFrames(chan)
           /\ snd.state = "idle" => rcv.state = "idle" /\ toS = << >> /\ toR = << >>
           /\ CalmOf(snd, rcv, sink, chan, up, toS, toR)
<1>1. snd \in SndType /\ chan \in [Channel -> ChanType] /\ toS \in Seq(ToSMsg) /\ toR \in Seq(ToRMsg)
  BY DEF IndInv, Typing
<1> QED
  BY <1>1 DEF Calm, CalmOf, EarlyInv, IdleInv, Haves

\* The channels of the batch stay opened.
LEMMA LinesKept ==
    ASSUME NEW s \in SndType, NEW s2, NEW ch, NEW ch2, Lines(s, ch), s.state # "idle",
           s2.batch = s.batch, Relinked(ch, ch2)
    PROVE  Lines(s2, ch2)
<1>1. s.batch \in Batches
  BY DEF SndType
<1> QED
  BY <1>1, BatchChannels, RelinkedKeeps DEF Lines

\* sendFile offers the file to a receiver that has nothing yet.
LEMMA SendFileCalm ==
    ASSUME IndInv, Calm, SendFile
    PROVE  Onward
<1>1. /\ snd \in SndType /\ chan \in [Channel -> ChanType]
      /\ toS \in Seq(ToSMsg) /\ toR \in Seq(ToRMsg)
      /\ Waits(snd) /\ BindInv(rcv, chan) /\ Came(rcv, snd.have)
      /\ Early(rcv) => Unstarted(snd) /\ NoFrames(chan)
      /\ snd.state = "idle" => rcv.state = "idle" /\ toS = << >> /\ toR = << >>
      /\ CalmOf(snd, rcv, sink, chan, up, toS, toR)
  BY CalmSender
<1>2. /\ snd.state = "idle" /\ snd' = Offered(snd) /\ chan' = Opened(chan, 1)
      /\ toR' = Posted(toR, <<Offer>>) /\ UNCHANGED <<rcv, sink, up, toS>>
  BY DEF SendFile
<1>3. rcv.state = "idle" /\ toS = << >> /\ toR = << >> /\ Unstarted(snd) /\ NoFrames(chan) /\ Early(rcv)
  BY <1>1, <1>2 DEF Early
<1>4. /\ snd'.state = "offered" /\ snd'.timer \in {"offer", "off"} /\ snd'.seq = snd.seq /\ snd'.have = snd.have
      /\ snd'.batch = snd.batch /\ snd'.run = snd.run /\ snd'.interrupted = snd.interrupted
      /\ snd'.pc = snd.pc
  BY <1>1, <1>2 DEF Offered, Armed, SndType
<1>5. Waits(snd') /\ Unstarted(snd') /\ ~ Over(snd') /\ ~ AllSent(snd) /\ ~ Over(snd)
  BY <1>1, <1>2, <1>3, <1>4 DEF Waits, Unstarted, Over, AllSent, Terminal
<1>6. Relinked(chan, chan') /\ \A c \in Channel : c[1] = 1 => chan'[c].st = "opening"
  BY <1>1, <1>2, BatchRelinked
<1>7. BindInv(rcv, chan') /\ NoFrames(chan')
  BY <1>1, <1>3, <1>6, RelinkedKeeps
<1>8. Lines(snd', chan')
  <2>1. snd'.batch = 1 /\ snd'.batch \in Batches
    BY <1>1, <1>2, <1>4 DEF Waits, SndType
  <2> QED
    BY <1>6, <2>1, BatchChannels DEF Lines
<1>9. Offer \in ToRMsg /\ Offer.type = "offer"
  BY SenderMessages
<1>10. toR' \in Seq(ToRMsg) /\ Post(up, toR, Offer, toR')
  BY <1>1, <1>2, <1>9, PostOne
<1>11. Notes(snd', rcv, up, toS, toR, toR')
  <2>1. ~ Has(toR, "cancel")
    BY <1>3, HasNone
  <2> QED
    BY <1>3, <1>5, <1>9, <1>10, <2>1 DEF Notes
<1>12. Fewer(toS, toS)
  BY DEF Fewer
<1>13. CalmOf(snd', rcv, sink, chan', up, toS, toR')
  BY <1>1, <1>4, <1>5, <1>7, <1>8, <1>10, <1>11, <1>12, SenderCalm
<1>14. Calm'
  BY <1>2, <1>13 DEF Calm
<1>15. Delivery(snd, rcv, chan) => Delivery(snd', rcv, chan')
  BY <1>4, <1>6, DeliveryKept
<1> QED
  BY <1>2, <1>14, <1>15 DEF Onward

\* resumeSend offers an interrupted transfer again; its receiver has been active.
LEMMA ResumeSendCalm ==
    ASSUME IndInv, Calm, ResumeSend
    PROVE  Onward
<1>1. /\ snd \in SndType /\ chan \in [Channel -> ChanType]
      /\ toS \in Seq(ToSMsg) /\ toR \in Seq(ToRMsg)
      /\ Waits(snd) /\ BindInv(rcv, chan) /\ Came(rcv, snd.have)
      /\ Early(rcv) => Unstarted(snd) /\ NoFrames(chan)
      /\ CalmOf(snd, rcv, sink, chan, up, toS, toR)
  BY CalmSender
<1>2. PICK mid : mid = ClosedBatch(chan, snd.batch)
  OBVIOUS
<1>3. /\ snd.interrupted /\ snd.batch < MaxBatches /\ snd' = Reoffered(snd)
      /\ chan' = Opened(mid, snd.batch + 1)
      /\ toR' = Posted(toR, <<Offer>>) /\ UNCHANGED <<rcv, sink, up, toS>>
  BY <1>2 DEF ResumeSend
<1>4. snd.state = "paused" /\ ~ Early(rcv)
  BY <1>1, <1>3 DEF Waits, Unstarted
<1>5. /\ snd'.state = "paused" /\ snd'.timer \in {"reoffer", "off"} /\ snd'.seq = snd.seq /\ snd'.have = snd.have
      /\ snd'.batch = snd.batch + 1 /\ snd'.run = "reoffered" /\ snd'.interrupted
  BY <1>1, <1>3, <1>4 DEF Reoffered, Armed, SndType
<1>6. Waits(snd') /\ ~ Over(snd') /\ ~ AllSent(snd) /\ ~ Over(snd)
  BY <1>4, <1>5 DEF Waits, Over, AllSent, Terminal
<1>7. Relinked(chan, mid)
  BY <1>1, <1>2, BatchRelinked
<1>8. mid \in [Channel -> ChanType]
  BY <1>7 DEF Relinked
<1>9. Relinked(mid, chan') /\ \A c \in Channel : c[1] = snd.batch + 1 => chan'[c].st = "opening"
  BY <1>3, <1>8, BatchRelinked
<1>10. BindInv(rcv, chan')
  BY <1>1, <1>7, <1>9, RelinkedKeeps
<1>11. Lines(snd', chan')
  <2>1. snd'.batch \in Batches
    BY <1>1, <1>3, <1>5, SizesAssumption DEF SndType, Batches
  <2> QED
    BY <1>5, <1>9, <2>1, BatchChannels DEF Lines
<1>12. Offer \in ToRMsg /\ Offer.type = "offer"
  BY SenderMessages
<1>13. toR' \in Seq(ToRMsg) /\ Post(up, toR, Offer, toR')
  BY <1>1, <1>3, <1>12, PostOne
<1>14. Notes(snd', rcv, up, toS, toR, toR')
  <2>1. ~ Has(toR, "cancel")
    BY <1>6, NoCancelYet
  <2> QED
    BY <1>4, <1>6, <1>12, <1>13, <2>1 DEF Notes
<1>15. Fewer(toS, toS)
  BY DEF Fewer
<1>16. CalmOf(snd', rcv, sink, chan', up, toS, toR')
  BY <1>1, <1>4, <1>5, <1>6, <1>10, <1>11, <1>13, <1>14, <1>15, SenderCalm
<1>17. Calm'
  BY <1>3, <1>16 DEF Calm
<1>18. Delivery(snd, rcv, chan) => Delivery(snd', rcv, chan')
  <2>1. Delivery(snd, rcv, chan) => Delivery(snd, rcv, mid)
    BY <1>7, DeliveryKept
  <2>2. Delivery(snd, rcv, mid) => Delivery(snd', rcv, chan')
    BY <1>5, <1>9, DeliveryKept
  <2> QED
    BY <2>1, <2>2
<1> QED
  BY <1>3, <1>17, <1>18 DEF Onward

\* A chunk of a lane is not before the lane's worker.
LEMMA LaneFrom ==
    ASSUME NEW i \in Worker, NEW k \in Lane(i)
    PROVE  k \in Nat /\ i <= k
<1>1. Parallel \in Nat /\ i \in Nat
  BY SizesAssumption DEF Worker
<1>2. PICK m \in Nat : k = i + m * Parallel
  BY DEF Lane
<1>3. m * Parallel \in Nat
  BY <1>1
<1> QED
  BY <1>1, <1>2, <1>3

\* A run that starts is past no chunk.
LEMMA RunCalm ==
    ASSUME NEW s \in SndType, NEW have \in Chunks, NEW d, d = Running(s, have), s.timer = "off", s.state # "idle"
    PROVE  /\ Waits(d) /\ d.state = "active" /\ ~ Over(d) /\ d.have = have /\ d.batch = s.batch
           /\ \A r, ch : Delivery(d, r, ch)
<1>1. /\ d.state = "active" /\ d.run = "live" /\ ~ d.interrupted /\ d.timer = "off" /\ d.have = have
      /\ d.batch = s.batch /\ d.seq = [i \in Worker |-> i]
  BY DEF Running, SndType
<1>2. \A i \in Worker : d.seq[i] = i
  BY <1>1
<1>3. \A i \in Worker : \A k \in Chunk : ~ (k \in Lane(i) /\ k < d.seq[i])
  <2> TAKE i \in Worker
  <2> TAKE k \in Chunk
  <2>1. i \in Nat /\ (k \in Lane(i) => k \in Nat /\ i <= k)
    BY LaneFrom, SizesAssumption DEF Worker
  <2> QED
    BY <1>2, <2>1
<1> QED
  BY <1>1, <1>3 DEF Waits, Over, Terminal, Delivery

\* What the sender knows of the receiver from the message it takes.
LEMMA TakenMessage ==
    ASSUME IndInv, Calm, toS # << >>
    PROVE  /\ toS[1] \in ToSMsg /\ snd.state # "idle"
           /\ toS[1].type \notin {"pause", "resume"}
           /\ toS[1].type = "reject" => Over(rcv) \/ Unoffered(rcv, toR)
           /\ toS[1].type \in {"cancel", "checksum-mismatch", "complete"} => Over(rcv)
           /\ toS[1].type = "complete" => AllSent(snd)
           /\ Answer(toS[1]) => ~ Early(rcv) /\ Came(rcv, toS[1].have) /\ toS[1].have \in Chunks
<1>1. toS \in Seq(ToSMsg) /\ 1 \in 1..Len(toS) /\ toS[1] \in ToSMsg
  <2>1. toS \in Seq(ToSMsg)
    BY DEF IndInv, Typing
  <2>2. 1 \in 1..Len(toS)
    BY <2>1
  <2> QED
    BY <2>1, <2>2
<1>2. Has(toS, toS[1].type)
  BY <1>1 DEF Has
<1>3. /\ RefusedInv(rcv, toS, toR) /\ SentAll(snd, rcv, up, toR) /\ Haves(snd, rcv, toS)
      /\ EarlyInv(snd, rcv, sink, chan, toS, toR) /\ IdleInv(snd, rcv, toS, toR)
  BY DEF Calm, CalmOf
<1>4. toS[1].type = "complete" => AllSent(snd)
  BY <1>2, <1>3 DEF RefusedInv, SentAll, Sent
<1>5. Answer(toS[1]) => ~ Early(rcv) /\ Came(rcv, toS[1].have) /\ toS[1].have \in Chunks
  <2>1. Answer(toS[1]) => ~ Early(rcv)
    BY <1>1, <1>3 DEF Answer, EarlyInv, Refusals, Fatal
  <2>2. Answer(toS[1]) => Came(rcv, toS[1].have)
    BY <1>1, <1>3 DEF Haves
  <2>3. Answer(toS[1]) => toS[1].have \in Chunks
    BY <1>1 DEF Answer, ToSMsg, Fatal
  <2> QED
    BY <2>1, <2>2, <2>3
<1>6. snd.state # "idle"
  BY <1>3 DEF IdleInv
<1>7. toS[1].type \notin {"pause", "resume"}
  BY <1>2, <1>3 DEF RefusedInv
<1>8. /\ toS[1].type = "reject" => Over(rcv) \/ Unoffered(rcv, toR)
      /\ toS[1].type \in {"cancel", "checksum-mismatch", "complete"} => Over(rcv)
  BY <1>2, <1>3 DEF RefusedInv
<1> QED
  BY <1>1, <1>4, <1>5, <1>6, <1>7, <1>8

\* A control message that the sender takes: an end that the receiver knows of, an
\* answer that starts a run, or one that comes too late.
LEMMA SenderControlCalm ==
    ASSUME IndInv, Calm, SenderControl
    PROVE  Onward
<1>1. /\ snd \in SndType /\ chan \in [Channel -> ChanType]
      /\ toS \in Seq(ToSMsg) /\ toR \in Seq(ToRMsg)
      /\ Waits(snd) /\ Lines(snd, chan) /\ BindInv(rcv, chan) /\ Came(rcv, snd.have)
      /\ CalmOf(snd, rcv, sink, chan, up, toS, toR)
  BY CalmSender
<1>2. toS # << >> /\ UNCHANGED <<rcv, sink, up>> /\ toS' = Tail(toS)
  BY DEF SenderControl
<1>3. toS' \in Seq(ToSMsg) /\ Shrunk(toS, toS') /\ Head(toS) = toS[1]
  BY <1>1, <1>2, Shrinking
<1>4. Fewer(toS, toS')
  BY <1>3 DEF Fewer
<1>5. PICK m : m = toS[1]
  OBVIOUS
<1>6. /\ m \in ToSMsg /\ snd.state # "idle" /\ m.type \notin {"pause", "resume"}
      /\ m.type = "reject" => Over(rcv) \/ Unoffered(rcv, toR)
      /\ m.type \in {"cancel", "checksum-mismatch", "complete"} => Over(rcv)
      /\ m.type = "complete" => AllSent(snd)
      /\ Answer(m) => ~ Early(rcv) /\ Came(rcv, m.have) /\ m.have \in Chunks
  BY <1>2, <1>5, TakenMessage
<1>7. CASE Over(snd)
  <2>1. SenderBecomes(snd, << >>) /\ snd.state \in Terminal
    BY <1>7 DEF SenderControl, Over
  <2> QED
    BY <1>1, <1>2, <1>3, <1>4, <1>6, <1>7, <2>1, SenderEndsCalm
<1>8. CASE ~ Over(snd)
  <2>1. PICK t : t = [snd EXCEPT !.timer = "off"]
    OBVIOUS
  <2>2. t \in SndType /\ SamePlan(snd, t) /\ t.state = snd.state /\ t.interrupted = snd.interrupted
        /\ t.run = snd.run /\ t.timer = "off"
    BY <1>1, <2>1 DEF SndType, SamePlan, Timers
  <2>3. SenderBecomes(Handled(t, m), << >>)
    BY <1>3, <1>5, <1>8, <2>1 DEF SenderControl, Over
  <2>4. /\ Answer(m) => Handled(t, m) = IF MayBegin(t) THEN Running(t, m.have) ELSE t
        /\ m.type \in {"reject", "checksum-mismatch"} => Handled(t, m) = Failed(t)
        /\ m.type = "complete" => Handled(t, m) = [t EXCEPT !.state = After(@, "completed")]
        /\ m.type = "cancel" => Handled(t, m) = Cancelled(t)
    BY HandledCases DEF Answer
  <2>5. Answer(m) \/ m.type \in {"reject", "checksum-mismatch", "cancel"} \/ m.type = "complete"
    BY <1>6 DEF ToSMsg, Answer, Fatal
  <2>6. CASE m.type \in {"reject", "checksum-mismatch", "cancel"}
    <3>1. PICK d : d = Handled(t, m)
      OBVIOUS
    <3>2. GivenUp(t, d)
      BY <2>4, <2>6, <3>1 DEF GivenUp
    <3>3. d \in SndType /\ d.state \in Terminal /\ SamePlan(snd, d)
      BY <1>1, <2>1, <3>2, GivingUp
    <3>4. Over(rcv) \/ Unoffered(rcv, toR)
      BY <1>6, <2>6
    <3>5. d.seq = snd.seq /\ d.have = snd.have /\ d.batch = snd.batch /\ SenderBecomes(d, << >>)
      BY <2>3, <3>1, <3>3 DEF SamePlan
    <3> QED
      BY <1>2, <1>3, <1>4, <1>6, <3>3, <3>4, <3>5, SenderEndsCalm
  <2>7. CASE m.type = "complete"
    <3>1. PICK d : d = Handled(t, m)
      OBVIOUS
    <3>2. snd.state = "completing"
      BY <1>6, <1>8, <2>7 DEF AllSent, Over
    <3>3. After("completing", "completed") = "completed"
      BY DEF After, LegalTransitions, Terminal
    <3>4. d = [t EXCEPT !.state = "completed"]
      BY <2>2, <2>4, <2>7, <3>1, <3>2, <3>3
    <3>5. d \in SndType /\ d.state \in Terminal /\ SamePlan(snd, d)
      BY <2>2, <3>4 DEF SndType, SamePlan, State, Terminal
    <3>6. d.seq = snd.seq /\ d.have = snd.have /\ d.batch = snd.batch /\ SenderBecomes(d, << >>)
      BY <2>3, <3>1, <3>5 DEF SamePlan
    <3> QED
      BY <1>2, <1>3, <1>4, <1>6, <2>7, <3>5, <3>6, SenderEndsCalm
  <2>8. CASE Answer(m)
    <3>1. ~ Early(rcv) /\ Came(rcv, m.have) /\ m.have \in Chunks
      BY <1>6, <2>8
    <3>2. Has(toS, "complete") => Has(toS', "complete")
      BY <1>1, <1>3, <1>5, <2>8, HasTaken DEF Answer
    <3>3. PICK d : d = Handled(t, m)
      OBVIOUS
    <3>4. /\ d \in SndType /\ Waits(d) /\ ~ Over(d) /\ d.state # "idle" /\ d.batch = snd.batch
          /\ Came(rcv, d.have) /\ (AllSent(snd) => AllSent(d))
          /\ d.state = "completing" => snd.state = "completing"
          /\ Delivery(snd, rcv, chan) => Delivery(d, rcv, chan)
      <4>1. CASE MayBegin(t)
        <5>1. d = Running(t, m.have)
          BY <2>4, <2>8, <3>3, <4>1
        <5>2. /\ Waits(d) /\ d.state = "active" /\ ~ Over(d) /\ d.have = m.have /\ d.batch = t.batch
              /\ Delivery(d, rcv, chan)
          BY <1>6, <2>2, <3>1, <5>1, RunCalm
        <5>3. d \in SndType
          BY <2>2, <3>1, <5>1, RunStarts
        <5>4. ~ AllSent(snd)
          BY <2>2, <4>1 DEF MayBegin, AllSent, Terminal
        <5> QED
          BY <2>2, <3>1, <5>2, <5>3, <5>4 DEF SamePlan
      <4>2. CASE ~ MayBegin(t)
        <5>1. d = t
          BY <2>4, <2>8, <3>3, <4>2
        <5>2. snd.state # "offered" /\ snd.state # "paused"
          BY <1>1, <2>2, <4>2 DEF MayBegin, Waits
        <5>3. Waits(d)
          BY <1>1, <1>6, <1>8, <2>2, <5>1, <5>2 DEF Waits, Over
        <5>4. Delivery(snd, rcv, chan) => Delivery(d, rcv, chan)
          BY <2>2, <5>1 DEF Delivery, SamePlan
        <5> QED
          BY <1>1, <1>6, <1>8, <2>2, <5>1, <5>3, <5>4 DEF SamePlan, Over, AllSent
      <4> QED
        BY <4>1, <4>2
    <3>5. SenderBecomes(d, << >>) /\ d.state \notin Terminal
      BY <2>3, <3>3, <3>4 DEF Over
    <3>6. snd' = d /\ chan' = chan /\ toR' = toR
      BY <1>1, <3>4, <3>5, Becoming, PostNone
    <3>7. Lines(d, chan)
      BY <1>1, <1>6, <3>4 DEF Lines
    <3>8. Notes(d, rcv, up, toS', toR, toR)
      BY DEF Notes
    <3>9. CalmOf(d, rcv, sink, chan, up, toS', toR)
      BY <1>1, <1>3, <1>4, <1>8, <3>1, <3>2, <3>4, <3>7, <3>8, SenderCalm
    <3>10. Calm'
      BY <1>2, <3>6, <3>9 DEF Calm
    <3>11. Delivery(snd, rcv, chan) => Delivery(snd', rcv', chan')
      BY <1>2, <3>4, <3>6
    <3> QED
      BY <3>10, <3>11 DEF Onward
  <2> QED
    BY <2>5, <2>6, <2>7, <2>8
<1> QED
  BY <1>7, <1>8

\* A worker at work belongs to a transfer that was accepted and has not ended.
LEMMA Busy ==
    ASSUME IndInv, Calm, NEW i \in Worker, snd.pc[i] # "end"
    PROVE  ~ Early(rcv) /\ ~ Over(snd) /\ snd.state # "idle"
<1>1. Waits(snd) /\ (Early(rcv) => Unstarted(snd)) /\ (snd.state = "idle" => rcv.state = "idle")
  BY CalmSender
<1> QED
  BY <1>1 DEF Waits, Unstarted, Early

\* A worker that moves changes neither the transfer's state nor the messages.
SameStage(s, d) ==
    /\ d.state = s.state /\ d.timer = s.timer /\ d.run = s.run /\ d.interrupted = s.interrupted
    /\ d.batch = s.batch /\ d.have = s.have

\* A worker moves on within its stage: the second invariant does not look at it.
LEMMA WorkerCalm ==
    ASSUME IndInv, Calm, UNCHANGED <<rcv, sink, up, toS, toR>>, ~ Early(rcv), ~ Over(snd),
           snd.state # "idle", SameStage(snd, snd'), AllSent(snd) => AllSent(snd'),
           Lines(snd', chan'), BindInv(rcv, chan')
    PROVE  Calm'
<1>1. /\ toS \in Seq(ToSMsg) /\ toR \in Seq(ToRMsg) /\ Waits(snd) /\ Came(rcv, snd.have)
      /\ CalmOf(snd, rcv, sink, chan, up, toS, toR)
  BY CalmSender
<1>2. Waits(snd') /\ ~ Over(snd') /\ Came(rcv, snd'.have) /\ snd'.state # "idle"
      /\ (snd'.state = "completing" => snd.state = "completing")
  BY <1>1 DEF Waits, SameStage, Over
<1>3. Fewer(toS, toS) /\ Notes(snd', rcv, up, toS, toR, toR)
  BY DEF Fewer, Notes
<1>4. CalmOf(snd', rcv, sink, chan', up, toS, toR)
  BY <1>1, <1>2, <1>3, SenderCalm
<1> QED
  BY <1>4 DEF Calm

\* A worker throws: unheard, as an interruption, or as the end of the transfer.
LEMMA WorkerThrowsCalm ==
    ASSUME IndInv, Calm, NEW i \in Worker, NEW lost, snd.pc[i] # "end", WorkerThrows(i, lost),
           UNCHANGED <<opts, rcv, sink, up, toS>>
    PROVE  Onward
<1>1. /\ snd \in SndType /\ chan \in [Channel -> ChanType]
      /\ toS \in Seq(ToSMsg) /\ toR \in Seq(ToRMsg)
      /\ Waits(snd) /\ Lines(snd, chan) /\ BindInv(rcv, chan) /\ Came(rcv, snd.have)
      /\ CalmOf(snd, rcv, sink, chan, up, toS, toR)
  BY CalmSender
<1>2. ~ Early(rcv) /\ ~ Over(snd) /\ snd.state # "idle"
  BY Busy
<1>3. PICK pc \in Pcs : pc = [snd.pc EXCEPT ![i] = "end"]
  BY <1>1 DEF SndType, Pcs, PcState
<1>4. Fewer(toS, toS) /\ toS' = toS
  BY DEF Fewer
<1>5. CASE snd.run # "live"
  <2>1. PICK d : d = [snd EXCEPT !.pc = pc]
    OBVIOUS
  <2>2. d \in SndType /\ SameStage(snd, d) /\ d.seq = snd.seq
    BY <1>1, <2>1 DEF SndType, SameStage
  <2>3. [snd EXCEPT !.pc[i] = "end"] = d
    BY <1>1, <1>3, <2>1 DEF SndType
  <2>4. SenderBecomes(d, << >>)
    BY <1>5, <2>3 DEF WorkerThrows
  <2>5. d.state \notin Terminal
    BY <1>2, <2>2 DEF SameStage, Over
  <2>6. snd' = d /\ chan' = chan /\ toR' = toR
    BY <1>1, <2>2, <2>4, <2>5, Becoming, PostNone
  <2>7. Lines(snd', chan') /\ BindInv(rcv, chan') /\ (AllSent(snd) => AllSent(snd'))
    BY <1>1, <1>2, <2>2, <2>6 DEF Lines, SameStage, AllSent
  <2>8. Calm'
    BY <1>2, <1>4, <2>2, <2>6, <2>7, WorkerCalm
  <2>9. Delivery(snd, rcv, chan) => Delivery(snd', rcv', chan')
    BY <2>2, <2>6 DEF Delivery
  <2> QED
    BY <2>8, <2>9 DEF Onward
<1>6. CASE snd.run = "live" /\ lost /\ opts.resumable
  <2>1. snd.state = "active"
    BY <1>1, <1>6 DEF Waits
  <2>2. PICK d : d = [snd EXCEPT !.pc = pc, !.run = "dead", !.interrupted = TRUE, !.state = "paused"]
    OBVIOUS
  <2>3. d \in SndType /\ d.state = "paused" /\ d.interrupted /\ d.run = "dead" /\ SamePlan(snd, d)
        /\ d.timer = snd.timer
    BY <1>1, <2>2 DEF SndType, SamePlan, RunState, State, Terminal
  <2>4. PICK s : s = [snd EXCEPT !.pc[i] = "end", !.run = "dead"]
    OBVIOUS
  <2>5. s = [snd EXCEPT !.pc = pc, !.run = "dead"]
    BY <1>1, <1>3, <2>4 DEF SndType
  <2>6. s.state = "active"
    BY <1>1, <2>1, <2>5 DEF SndType
  <2>7. d = [s EXCEPT !.interrupted = (s.state = "active"),
                      !.state = IF @ = "active" THEN "paused" ELSE @]
    BY <1>1, <2>2, <2>5, <2>6 DEF SndType
  <2>8. SenderBecomes(d, << >>)
    BY <1>6, <2>4, <2>7 DEF WorkerThrows
  <2>9. d.state \notin Terminal
    BY <2>3 DEF Terminal
  <2>10. snd' = d /\ chan' = chan /\ toR' = toR
    BY <1>1, <2>3, <2>8, <2>9, Becoming, PostNone
  <2>11. Waits(d) /\ ~ Over(d) /\ ~ AllSent(snd)
    BY <1>1, <2>1, <2>3, <2>9 DEF Waits, Over, AllSent, Terminal
  <2>12. Lines(d, chan) /\ Came(rcv, d.have) /\ Notes(d, rcv, up, toS, toR, toR)
    BY <1>1, <1>2, <2>3 DEF Lines, SamePlan, Notes
  <2>13. CalmOf(d, rcv, sink, chan, up, toS, toR)
    BY <1>1, <1>2, <1>4, <2>3, <2>11, <2>12, SenderCalm
  <2>14. Calm'
    BY <1>4, <2>10, <2>13 DEF Calm
  <2>15. Delivery(snd, rcv, chan) => Delivery(snd', rcv', chan')
    BY <2>3, <2>10 DEF Delivery, SamePlan
  <2> QED
    BY <2>14, <2>15 DEF Onward
<1>7. CASE snd.run = "live" /\ ~ (lost /\ opts.resumable)
  <2>1. PICK s : s = [snd EXCEPT !.pc[i] = "end", !.run = "dead"]
    OBVIOUS
  <2>2. s = [snd EXCEPT !.pc = pc, !.run = "dead"]
    BY <1>1, <1>3, <2>1 DEF SndType
  <2>3. s \in SndType /\ SamePlan(snd, s)
    BY <1>1, <2>2 DEF SndType, SamePlan, RunState
  <2>4. s = [s EXCEPT !.timer = s.timer]
    BY <2>3 DEF SndType
  <2>5. PICK d : d = Failed(s)
    OBVIOUS
  <2>6. d \in SndType /\ d.state \in Terminal /\ SamePlan(s, d)
    BY <2>3, <2>4, <2>5, GivingUp DEF GivenUp
  <2>7. SenderBecomes(d, <<Plain("cancel")>>)
    BY <1>7, <2>1, <2>5 DEF WorkerThrows
  <2>8. d.seq = snd.seq /\ d.have = snd.have /\ d.batch = snd.batch /\ <<Plain("cancel")>> # << >>
    BY <2>3, <2>6 DEF SamePlan
  <2> QED
    BY <1>1, <1>2, <1>4, <2>6, <2>7, <2>8, SenderEndsCalm
<1> QED
  BY <1>5, <1>6, <1>7

\* A worker whose channel is open takes its first turn.
LEMMA WorkerOpensCalm ==
    ASSUME IndInv, Calm, NEW i \in Worker, WorkerOpens(i)
    PROVE  Onward
<1>1. /\ snd \in SndType /\ chan \in [Channel -> ChanType]
      /\ toS \in Seq(ToSMsg) /\ toR \in Seq(ToRMsg)
      /\ Lines(snd, chan) /\ BindInv(rcv, chan)
  BY CalmSender
<1>2. UNCHANGED <<opts, rcv, sink, up, toS>> /\ snd.pc[i] = "open"
  BY DEF WorkerOpens
<1>3. ~ Early(rcv) /\ ~ Over(snd) /\ snd.state # "idle"
  BY <1>2, Busy
<1>4. CASE WorkerThrows(i, TRUE)
  BY <1>2, <1>4, WorkerThrowsCalm
<1>5. CASE SenderBecomes([snd EXCEPT !.pc[i] = Turn(i)], << >>)
  <2>1. PICK pc \in Pcs : pc = [snd.pc EXCEPT ![i] = Turn(i)]
    BY <1>1 DEF SndType, Pcs, PcState, Turn
  <2>2. PICK d : d = [snd EXCEPT !.pc = pc]
    OBVIOUS
  <2>3. [snd EXCEPT !.pc[i] = Turn(i)] = d
    BY <1>1, <2>1, <2>2 DEF SndType
  <2>4. d \in SndType /\ SameStage(snd, d) /\ d.seq = snd.seq
    BY <1>1, <2>2 DEF SndType, SameStage
  <2>5. d.state \notin Terminal /\ SenderBecomes(d, << >>)
    BY <1>3, <1>5, <2>3, <2>4 DEF SameStage, Over
  <2>6. snd' = d /\ chan' = chan /\ toR' = toR
    BY <1>1, <2>4, <2>5, Becoming, PostNone
  <2>7. Lines(snd', chan') /\ BindInv(rcv, chan') /\ (AllSent(snd) => AllSent(snd'))
    BY <1>1, <1>3, <2>4, <2>6 DEF Lines, SameStage, AllSent
  <2>8. Calm'
    BY <1>2, <1>3, <2>4, <2>6, <2>7, WorkerCalm
  <2>9. Delivery(snd, rcv, chan) => Delivery(snd', rcv', chan')
    BY <1>2, <2>4, <2>6 DEF Delivery
  <2> QED
    BY <2>8, <2>9 DEF Onward
<1> QED
  BY <1>4, <1>5 DEF WorkerOpens

\* A worker that goes on from a chunk that was received or is on its way.
LEMMA DeliveryWorks ==
    ASSUME NEW s \in SndType, NEW d, NEW r, NEW ch, NEW ch2, NEW i \in Worker,
           Delivery(s, r, ch), s.seq[i] \in Lane(i),
           d.seq = [s.seq EXCEPT ![i] = s.seq[i] + Parallel],
           Got(r, ch2, s.seq[i]), \A x \in Chunk : Got(r, ch, x) => Got(r, ch2, x)
    PROVE  Delivery(d, r, ch2)
<1>1. s.seq \in Seqs
  BY DEF SndType
<1>2. d.seq[i] = s.seq[i] + Parallel /\ \A j \in Worker : j # i => d.seq[j] = s.seq[j]
  BY <1>1 DEF Seqs
<1>3. ASSUME NEW j \in Worker, NEW x \in Chunk, x \in Lane(j), x < d.seq[j]
      PROVE  Got(r, ch2, x)
  <2>1. CASE j # i
    BY <1>2, <1>3, <2>1 DEF Delivery
  <2>2. CASE j = i
    <3>1. x \in Nat /\ s.seq[i] \in Nat /\ Parallel \in Nat
      BY <1>3, <2>2, LaneSteps, SizesAssumption
    <3>2. ~ (s.seq[i] < x)
      BY <1>2, <1>3, <2>2, <3>1, LaneGaps
    <3>3. x = s.seq[i] \/ x < s.seq[i]
      BY <3>1, <3>2
    <3> QED
      BY <1>3, <2>2, <3>3 DEF Delivery
  <2> QED
    BY <2>1, <2>2
<1> QED
  BY <1>3 DEF Delivery

\* A worker past the gate reads its chunk, or skips one that the receiver has.
LEMMA WorkerReadsCalm ==
    ASSUME IndInv, Calm, NEW i \in Worker, WorkerReads(i)
    PROVE  Onward
<1>1. /\ snd \in SndType /\ chan \in [Channel -> ChanType]
      /\ toS \in Seq(ToSMsg) /\ toR \in Seq(ToRMsg)
      /\ Lines(snd, chan) /\ BindInv(rcv, chan) /\ Came(rcv, snd.have)
  BY CalmSender
<1>2. UNCHANGED <<opts, rcv, sink, up, toS>> /\ snd.pc[i] = "gate"
  BY DEF WorkerReads
<1>3. ~ Early(rcv) /\ ~ Over(snd) /\ snd.state # "idle"
  BY <1>2, Busy
<1>4. PICK k \in Chunk : k = snd.seq[i]
  BY <1>2, WorkerAt
<1>5. PICK need \in BOOLEAN : need <=> k \notin snd.have
  OBVIOUS
<1>6. PICK v \in Version \cup {Unread} :
         v = IF need \/ opts.checksum THEN source ELSE snd.read[k]
  BY <1>2, <1>4, WorkerAt, SenderFacts
<1>7. PICK n \in Nat : n = (IF need THEN k ELSE k + Parallel)
  BY <1>2, <1>4, WorkerAt, SizesAssumption DEF Chunk
<1>8. PICK c \in PcState : c = (IF need THEN "sending" ELSE Turn(k + Parallel))
  BY <1>2, <1>4, WorkerAt DEF PcState
<1>9. PICK read \in Content : read = [snd.read EXCEPT ![k] = v]
  BY <1>1 DEF SndType, Content
<1>10. PICK pc \in Pcs : pc = [snd.pc EXCEPT ![i] = c]
  BY <1>1 DEF SndType, Pcs
<1>11. PICK seq \in Seqs : seq = [snd.seq EXCEPT ![i] = n]
  BY <1>1 DEF SndType, Seqs
<1>12. PICK d : d = [snd EXCEPT !.read = read, !.pc = pc, !.seq = seq]
  OBVIOUS
<1>13. d = [snd EXCEPT !.read[k] = IF need \/ opts.checksum THEN source ELSE @,
                       !.pc[i] = IF need THEN "sending" ELSE Turn(k + Parallel),
                       !.seq[i] = IF need THEN k ELSE k + Parallel]
  BY <1>1, <1>6, <1>7, <1>8, <1>9, <1>10, <1>11, <1>12 DEF SndType
<1>14. SenderBecomes(d, << >>)
  BY <1>4, <1>5, <1>13 DEF WorkerReads
<1>15. d \in SndType /\ SameStage(snd, d) /\ d.seq = seq
  BY <1>1, <1>12 DEF SndType, SameStage
<1>16. d.state \notin Terminal
  BY <1>3, <1>15 DEF SameStage, Over
<1>17. snd' = d /\ chan' = chan /\ toR' = toR
  BY <1>1, <1>14, <1>15, <1>16, Becoming, PostNone
<1>18. ~ AllSent(snd)
  BY <1>4, SizesAssumption DEF AllSent, Chunk
<1>19. Lines(snd', chan') /\ BindInv(rcv, chan')
  BY <1>1, <1>3, <1>15, <1>17 DEF Lines, SameStage
<1>20. Calm'
  BY <1>2, <1>3, <1>15, <1>17, <1>18, <1>19, WorkerCalm
<1>21. ASSUME Delivery(snd, rcv, chan) PROVE Delivery(d, rcv, chan)
  <2>1. snd.seq \in Seqs /\ snd.seq[i] \in Lane(i)
    BY <1>1, SenderFacts DEF SndType, SendInv, LaneInv
  <2>2. CASE need
    <3>1. seq = snd.seq
      BY <1>4, <1>7, <1>11, <2>1, <2>2 DEF Seqs
    <3> QED
      BY <1>15, <1>21, <3>1 DEF Delivery
  <2>3. CASE ~ need
    <3>1. rcv.received[k] # Unread
      BY <1>1, <1>5, <2>3 DEF Came
    <3>2. Got(rcv, chan, snd.seq[i])
      BY <1>4, <3>1 DEF Got
    <3>3. d.seq = [snd.seq EXCEPT ![i] = snd.seq[i] + Parallel]
      BY <1>4, <1>7, <1>11, <1>15, <2>3
    <3> QED
      BY <1>1, <1>21, <2>1, <3>2, <3>3, DeliveryWorks
  <2> QED
    BY <2>2, <2>3
<1> QED
  BY <1>2, <1>17, <1>20, <1>21 DEF Onward

\* The source cannot be read.
LEMMA SourceFailsCalm ==
    ASSUME IndInv, Calm, NEW i \in Worker, SourceFails(i)
    PROVE  Onward
BY WorkerThrowsCalm DEF SourceFails

\* A frame joins the wire of a channel.
Transmits(ch, c, f, ch2) == ch2 = [ch EXCEPT ![c].wire = Append(@, f)]

\* The channel keeps its link and its binding.
LEMMA WireGrows ==
    ASSUME NEW ch \in [Channel -> ChanType], NEW c \in Channel, NEW f \in Frame,
           NEW ch2, Transmits(ch, c, f, ch2)
    PROVE  /\ ch2 \in [Channel -> ChanType] /\ \A e \in Channel : e # c => ch2[e] = ch[e]
           /\ ch2[c].st = ch[c].st /\ ch2[c].rx = ch[c].rx
           /\ ch2[c].wire # << >> /\ Grown(ch[c].wire, f, ch2[c].wire)
<1>1. PICK q \in Seq(Frame) : q = ch[c].wire
  BY DEF ChanType, Frames
<1>2. PICK p : p = Append(q, f)
  OBVIOUS
<1>3. p \in Seq(Frame) /\ Grown(q, f, p) /\ p # << >>
  <2>1. p \in Seq(Frame) /\ Grown(q, f, p)
    BY <1>2, Appending
  <2>2. Len(p) = Len(q) + 1 /\ Len(q) \in Nat
    BY <2>1 DEF Grown
  <2> QED
    BY <2>1, <2>2
<1>4. PICK d : d = [ch[c] EXCEPT !.wire = p]
  OBVIOUS
<1>5. ch[c] \in ChanType
  OBVIOUS
<1>6. d \in ChanType /\ d.wire = p /\ d.st = ch[c].st /\ d.rx = ch[c].rx
  BY <1>3, <1>4, <1>5 DEF ChanType, Frames
<1>7. ch2 = [ch EXCEPT ![c] = d]
  BY <1>1, <1>2, <1>4, <1>5 DEF Transmits
<1>8. ch2[c] = d /\ \A e \in Channel : e # c => ch2[e] = ch[e]
  BY <1>7
<1> QED
  BY <1>1, <1>3, <1>6, <1>7, <1>8

\* So its chunk and those before it are on their way.
LEMMA WireArrives ==
    ASSUME NEW ch \in [Channel -> ChanType], NEW c \in Channel, NEW f \in Frame,
           NEW ch2, Transmits(ch, c, f, ch2)
    PROVE  /\ ch[c].rx = "attached" => Arriving(ch2, f[1])
           /\ \A y : Arriving(ch, y) => Arriving(ch2, y)
<1>1. PICK x : x = f[1]
  OBVIOUS
<1>2. /\ \A e \in Channel : e # c => ch2[e] = ch[e]
      /\ ch2[c].rx = ch[c].rx /\ Grown(ch[c].wire, f, ch2[c].wire)
  BY WireGrows
<1>3. PICK q, p : q = ch[c].wire /\ p = ch2[c].wire
  OBVIOUS
<1>4. q \in Seq(Frame)
  BY <1>3 DEF ChanType, Frames
<1>5. Len(q) \in Nat /\ Len(p) = Len(q) + 1 /\ p[Len(q) + 1] = f /\ \A j \in 1..Len(q) : p[j] = q[j]
  BY <1>2, <1>3, <1>4 DEF Grown
<1>6. Len(q) + 1 \in 1..Len(p) /\ p[Len(q) + 1][1] = x
  BY <1>1, <1>5
<1>7. ch[c].rx = "attached" => Arriving(ch2, x)
  BY <1>2, <1>3, <1>6 DEF Arriving
<1>8. ASSUME NEW y, Arriving(ch, y) PROVE Arriving(ch2, y)
  <2>1. PICK e \in Channel : ch[e].rx = "attached" /\ \E j \in 1..Len(ch[e].wire) : ch[e].wire[j][1] = y
    BY <1>8 DEF Arriving
  <2>2. PICK j \in 1..Len(ch[e].wire) : ch[e].wire[j][1] = y
    BY <2>1
  <2>3. CASE e # c
    BY <1>2, <2>1, <2>2, <2>3 DEF Arriving
  <2>4. CASE e = c
    <3>1. j \in 1..Len(p) /\ p[j][1] = y
      BY <1>3, <1>5, <2>2, <2>4
    <3> QED
      BY <1>2, <1>3, <2>1, <2>4, <3>1 DEF Arriving
  <2> QED
    BY <2>3, <2>4
<1> QED
  BY <1>1, <1>7, <1>8

\* A worker sends its chunk over a channel that is bound to the transfer.
LEMMA WorkerSendsCalm ==
    ASSUME IndInv, Calm, NEW i \in Worker, WorkerSends(i)
    PROVE  Onward
<1>1. /\ snd \in SndType /\ chan \in [Channel -> ChanType]
      /\ toS \in Seq(ToSMsg) /\ toR \in Seq(ToRMsg)
      /\ Lines(snd, chan) /\ BindInv(rcv, chan)
  BY CalmSender
<1>2. UNCHANGED <<opts, rcv, sink, up, toS>> /\ snd.pc[i] = "sending"
  BY DEF WorkerSends
<1>3. ~ Early(rcv) /\ ~ Over(snd) /\ snd.state # "idle"
  BY <1>2, Busy
<1>4. PICK c : c = <<snd.batch, i>>
  OBVIOUS
<1>5. CASE ~ Drains(c)
  BY <1>2, <1>4, <1>5, WorkerThrowsCalm DEF WorkerSends
<1>6. CASE Drains(c)
  <2>1. PICK k \in Chunk : k = snd.seq[i]
    BY <1>2, WorkerAt
  <2>2. PICK v \in Version : v = snd.read[k]
    BY <1>2, <2>1, WorkerAt, SenderFacts DEF SendInv, LaneInv
  <2>3. PICK n \in Nat : n = k + Parallel
    BY <1>2, <2>1, WorkerAt
  <2>4. PICK t \in PcState : t = Turn(n)
    BY <1>2, <2>1, <2>3, WorkerAt
  <2>5. PICK f \in Frame : f = <<k, v>>
    BY DEF Frame
  <2>6. /\ snd' = [snd EXCEPT !.seq[i] = n, !.pc[i] = t]
        /\ Transmits(chan, c, f, chan') /\ toR' = toR
    BY <1>4, <1>6, <2>1, <2>2, <2>3, <2>4, <2>5 DEF WorkerSends, Transmits
  <2>7. PICK pc \in Pcs : pc = [snd.pc EXCEPT ![i] = t]
    BY <1>1 DEF SndType, Pcs
  <2>8. PICK seq \in Seqs : seq = [snd.seq EXCEPT ![i] = n]
    BY <1>1 DEF SndType, Seqs
  <2>9. snd' = [snd EXCEPT !.seq = seq, !.pc = pc]
    BY <1>1, <2>6, <2>7, <2>8 DEF SndType
  <2>10. snd' \in SndType /\ SameStage(snd, snd') /\ snd'.seq = seq
    BY <1>1, <2>9 DEF SndType, SameStage
  <2>11. c \in Channel /\ snd.batch \in Batches
    BY <1>1, <1>4, BatchChannels DEF SndType
  <2>12. /\ chan' \in [Channel -> ChanType] /\ \A e \in Channel : e # c => chan'[e] = chan[e]
         /\ chan'[c].st = chan[c].st /\ chan'[c].rx = chan[c].rx
    BY <1>1, <2>6, <2>11, WireGrows
  <2>13. chan[c].rx = "attached" \/ Over(rcv)
    <3>1. chan[c].st = "open" /\ Bound(rcv, chan[c]) /\ chan[c].rx \in Binding
      BY <1>1, <1>6, <2>11 DEF Drains, BindInv, ChanType
    <3> QED
      BY <1>3, <3>1 DEF Bound, Binding, Early
  <2>14. BindInv(rcv, chan')
    <3>1. ASSUME NEW e \in Channel PROVE Bound(rcv, chan'[e])
      <4>1. CASE e = c
        <5>1. Bound(rcv, chan[c])
          BY <1>1, <2>11 DEF BindInv
        <5> QED
          BY <2>12, <2>13, <4>1, <5>1 DEF Bound
      <4>2. CASE e # c
        BY <1>1, <2>12, <4>2 DEF BindInv
      <4> QED
        BY <4>1, <4>2
    <3> QED
      BY <3>1 DEF BindInv
  <2>15. Lines(snd', chan')
    <3>1. \A e \in Channel : chan'[e].st = chan[e].st
      BY <2>12
    <3> QED
      BY <1>1, <1>3, <2>10, <2>11, <3>1, BatchChannels DEF Lines, SameStage
  <2>16. ~ AllSent(snd)
    BY <2>1, SizesAssumption DEF AllSent, Chunk
  <2>17. Calm'
    BY <1>2, <1>3, <2>6, <2>10, <2>14, <2>15, <2>16, WorkerCalm
  <2>18. ASSUME Delivery(snd, rcv, chan) PROVE Delivery(snd', rcv, chan')
    <3>1. snd.seq[i] \in Lane(i)
      BY SenderFacts DEF SendInv, LaneInv
    <3>2. /\ chan[c].rx = "attached" => Arriving(chan', f[1])
          /\ \A y : Arriving(chan, y) => Arriving(chan', y)
      BY <1>1, <2>6, <2>11, WireArrives
    <3>3. Got(rcv, chan', snd.seq[i]) /\ \A x \in Chunk : Got(rcv, chan, x) => Got(rcv, chan', x)
      <4>1. f[1] = k
        BY <2>5
      <4> QED
        BY <2>1, <2>13, <3>2, <4>1 DEF Got
    <3>4. snd'.seq = [snd.seq EXCEPT ![i] = snd.seq[i] + Parallel]
      BY <2>1, <2>3, <2>8, <2>10
    <3> QED
      BY <1>1, <2>18, <3>1, <3>3, <3>4, DeliveryWorks
  <2> QED
    BY <1>2, <2>17, <2>18 DEF Onward
<1> QED
  BY <1>5, <1>6

\* Every worker is past its lane: Sent goes out and the sender waits for the receiver.
LEMMA RunEndsCalm ==
    ASSUME IndInv, Calm, RunEnds
    PROVE  Onward
<1>1. /\ snd \in SndType /\ chan \in [Channel -> ChanType]
      /\ toS \in Seq(ToSMsg) /\ toR \in Seq(ToRMsg)
      /\ Waits(snd) /\ Lines(snd, chan) /\ BindInv(rcv, chan) /\ Came(rcv, snd.have)
      /\ Early(rcv) => Unstarted(snd) /\ NoFrames(chan)
      /\ CalmOf(snd, rcv, sink, chan, up, toS, toR)
  BY CalmSender
<1>2. /\ UNCHANGED <<rcv, sink, up, toS>> /\ snd.run = "live"
      /\ \A i \in Worker : snd.pc[i] = "end"
  BY DEF RunEnds
<1>3. snd.state = "active" /\ ~ Early(rcv)
  BY <1>1, <1>2 DEF Waits, Unstarted
<1>4. After("active", "completing") = "completing"
  BY DEF After, LegalTransitions, Terminal
<1>5. PICK d : d = [snd EXCEPT !.run = "none", !.state = "completing"]
  OBVIOUS
<1>6. PICK m : m = [type |-> "sent", digest |-> snd.read]
  OBVIOUS
<1>7. SenderBecomes(d, <<m>>)
  <2>1. d = [snd EXCEPT !.run = "none", !.state = After(@, "completing")]
    BY <1>3, <1>4, <1>5
  <2> QED
    BY <1>6, <2>1 DEF RunEnds
<1>8. d \in SndType /\ SamePlan(snd, d) /\ d.state = "completing" /\ d.run = "none"
      /\ d.interrupted = snd.interrupted /\ d.timer = snd.timer
  BY <1>1, <1>5 DEF SndType, SamePlan, RunState, State, Terminal
<1>9. m \in ToRMsg /\ m.type = "sent"
  BY <1>1, <1>6 DEF ToRMsg, SndType
<1>10. d.state \notin Terminal /\ ~ Over(d) /\ d.state # "idle" /\ Waits(d) /\ ~ AllSent(snd) /\ ~ Over(snd)
  BY <1>1, <1>3, <1>8 DEF Waits, Over, Terminal, AllSent
<1>11. snd' = d /\ chan' = chan /\ toR' = Posted(toR, <<m>>)
  BY <1>1, <1>7, <1>8, <1>10, Becoming
<1>12. toR' \in Seq(ToRMsg) /\ Post(up, toR, m, toR')
  BY <1>1, <1>9, <1>11, PostOne
<1>13. AllSent(d)
  <2>1. \A i \in Worker : snd.seq[i] >= Total
    BY <1>2, SenderFacts DEF SendInv, LaneInv
  <2> QED
    BY <1>8, <2>1 DEF AllSent, SamePlan
<1>14. Notes(d, rcv, up, toS, toR, toR') /\ Fewer(toS, toS)
  BY <1>3, <1>9, <1>12, <1>13 DEF Notes, Fewer
<1>15. up => Has(toR', "sent")
  BY <1>1, <1>9, <1>12, PostedHas
<1>16. Lines(d, chan) /\ Came(rcv, d.have)
  BY <1>1, <1>3, <1>8 DEF Lines, SamePlan
<1>17. CalmOf(d, rcv, sink, chan, up, toS, toR')
  BY <1>1, <1>3, <1>10, <1>12, <1>14, <1>15, <1>16, SenderCalm
<1>18. Calm'
  BY <1>2, <1>11, <1>17 DEF Calm
<1>19. Delivery(snd, rcv, chan) => Delivery(d, rcv, chan)
  BY <1>8 DEF Delivery, SamePlan
<1> QED
  BY <1>2, <1>11, <1>18, <1>19 DEF Onward

-----------------------------------------------------------------------------
(* The receiver *)

\* The parts of the invariants that the receiver's steps use.
LEMMA CalmReceiver ==
    ASSUME IndInv, Calm
    PROVE  /\ snd \in SndType /\ rcv \in RcvType /\ sink \in SinkType /\ chan \in [Channel -> ChanType]
           /\ toS \in Seq(ToSMsg) /\ toR \in Seq(ToRMsg)
           /\ Lines(snd, chan) /\ BindInv(rcv, chan) /\ ClaimInv(rcv)
           /\ rcv.closed => rcv.state = "idle"
           /\ Early(rcv) => /\ ~ Sent(rcv, toR) /\ NoFrames(chan) /\ OfferOnce(toR)
                            /\ rcv.state # "accepted" => ~ sink.given
                            /\ rcv.state # "idle" => ~ Has(toR, "offer")
           /\ snd.state = "idle" => rcv.state = "idle" /\ toS = << >> /\ toR = << >>
           /\ CalmOf(snd, rcv, sink, chan, up, toS, toR)
<1>1. /\ snd \in SndType /\ rcv \in RcvType /\ sink \in SinkType /\ chan \in [Channel -> ChanType]
      /\ toS \in Seq(ToSMsg) /\ toR \in Seq(ToRMsg)
  BY DEF IndInv, Typing
<1> QED
  BY <1>1 DEF Calm, CalmOf, EarlyInv, IdleInv, RefusedInv

\* A receiver that was told Sent, has claimed completion or has a sink is past its offer.
LEMMA PastOffer ==
    ASSUME IndInv, Calm
    PROVE  /\ rcv.completing # "no" => ~ Early(rcv) /\ rcv.senderDone
           /\ sink.given => rcv.state \notin {"idle", "offered"}
           /\ sink.handle = "opening" => sink.given
           /\ rcv.chain # << >> => sink.given
           /\ ~ sink.given => Early(rcv) \/ Over(rcv)
<1>1. SinkBase(opts, rcv, sink) /\ rcv.state \in State
  BY ReceiverFacts DEF RcvType
<1>2. Early(rcv) => ~ Sent(rcv, toR) /\ (rcv.state # "accepted" => ~ sink.given)
  BY CalmReceiver
<1>3. rcv.completing # "no" => ~ Early(rcv) /\ rcv.senderDone
  BY <1>1, <1>2 DEF SinkBase, Sent
<1>4. sink.given => rcv.state \notin {"idle", "offered"}
  BY <1>2 DEF Early
<1>5. sink.handle = "opening" => sink.given
  BY <1>1 DEF SinkBase
<1>6. rcv.chain # << >> => sink.given
  BY <1>1 DEF SinkBase
<1>7. ~ sink.given => Early(rcv) \/ Over(rcv)
  BY <1>1 DEF SinkBase, Early, Over, State
<1> QED
  BY <1>3, <1>4, <1>5, <1>6, <1>7

\* Links are closed and wires cut where the receiver lets go of them.
Severed(ch, ch2) ==
    /\ ch2 \in [Channel -> ChanType]
    /\ \A c \in Channel : /\ ch2[c].rx = ch[c].rx
                          /\ ch2[c].st = ch[c].st \/ ch2[c].st = "closed"

\* What ReceiverBecomes leaves.
SameReceiver(r, r2) ==
    /\ r2.state = r.state /\ r2.closed = r.closed /\ r2.received = r.received
    /\ r2.senderDone = r.senderDone /\ r2.completing = r.completing

\* ReceiverBecomes keeps the receiver and cuts channels only when it ends.
LEMMA Settling ==
    ASSUME IndInv, NEW r \in RcvType, NEW k \in SinkType, NEW msgs, ReceiverBecomes(r, k, msgs)
    PROVE  /\ SameReceiver(r, rcv') /\ sink'.given = k.given /\ Severed(chan, chan')
           /\ toS' = Posted(toS, msgs)
           /\ r.state \notin Terminal => rcv' = r /\ sink' = k /\ chan' = chan
<1>1. chan \in [Channel -> ChanType]
  BY DEF IndInv, Typing
<1>2. SameReceiver(r, rcv')
  <2>1. CASE r.state \in Terminal
    <3>1. PICK x : rcv' = [r EXCEPT !.chain = x]
      BY <2>1 DEF ReceiverBecomes
    <3> QED
      BY <3>1 DEF SameReceiver, RcvType
  <2>2. CASE r.state \notin Terminal
    BY <2>2 DEF ReceiverBecomes, SameReceiver
  <2> QED
    BY <2>1, <2>2
<1>3. sink'.given = k.given
  BY SinkDiscarded DEF ReceiverBecomes
<1>4. \A c \in Channel : chan[c] \in ChanType
  BY <1>1
<1>5. ASSUME NEW d \in ChanType
      PROVE  /\ [d EXCEPT !.st = "closed", !.wire = << >>] \in ChanType
             /\ [d EXCEPT !.st = "closed", !.wire = << >>].st = "closed"
             /\ [d EXCEPT !.st = "closed", !.wire = << >>].rx = d.rx
  <2>1. PICK x \in Links : x = "closed"
    BY DEF Links
  <2>2. [d EXCEPT !.st = x, !.wire = << >>] \in ChanType
    BY LinkChanged DEF Binding
  <2>3. [d EXCEPT !.st = x, !.wire = << >>].st = x /\ [d EXCEPT !.st = x, !.wire = << >>].rx = d.rx
    BY DEF ChanType
  <2> QED
    BY <2>1, <2>2, <2>3
<1>6. Severed(chan, chan')
  BY <1>4, <1>5 DEF ReceiverBecomes, Severed
<1>7. r.state \notin Terminal => rcv' = r /\ sink' = k /\ chan' = chan
  <2>1. SUFFICES ASSUME r.state \notin Terminal PROVE rcv' = r /\ sink' = k /\ chan' = chan
    OBVIOUS
  <2>2. rcv' = r
    BY <2>1 DEF ReceiverBecomes
  <2>3. sink' = k
    BY <2>1 DEF ReceiverBecomes, Terminal
  <2>4. chan' = [c \in Channel |-> chan[c]]
    BY <2>1 DEF ReceiverBecomes
  <2> QED
    BY <1>1, <2>2, <2>3, <2>4
<1>8. toS' = Posted(toS, msgs)
  BY DEF ReceiverBecomes
<1> QED
  BY <1>2, <1>3, <1>6, <1>7, <1>8

\* A link that was opened stays so.
LEMMA SeveredLines ==
    ASSUME NEW s \in SndType, NEW ch, NEW ch2, Lines(s, ch), Severed(ch, ch2)
    PROVE  Lines(s, ch2)
<1>1. s.batch \in Batches
  BY DEF SndType
<1> QED
  BY <1>1, BatchChannels DEF Lines, Severed

\* What a receiver that ends may say: nothing, that it ended, or a late answer.
Farewell(msgs) ==
    \/ msgs = << >>
    \/ \E m \in ToSMsg : /\ msgs = <<m>> /\ m.type \notin {"pause", "resume"}
                         /\ m.type = "complete" => rcv.senderDone
                         /\ Answer(m) => Came(rcv, m.have)

\* The receiver ends, or has ended.
LEMMA ReceiverEndsCalm ==
    ASSUME IndInv, Calm, UNCHANGED <<snd, up>>, toR' \in Seq(ToRMsg), Fewer(toR, toR'),
           NEW r \in RcvType, NEW k \in SinkType, NEW msgs, ReceiverBecomes(r, k, msgs),
           r.state \in Terminal, rcv.state # "idle", r.received = rcv.received,
           r.senderDone = rcv.senderDone, r.closed = rcv.closed, Farewell(msgs),
           r.state = "completed" => rcv.state = "completed" \/ msgs = <<Plain("complete")>>
    PROVE  Onward
<1>1. /\ snd \in SndType /\ chan \in [Channel -> ChanType]
      /\ toS \in Seq(ToSMsg) /\ toR \in Seq(ToRMsg)
      /\ Lines(snd, chan) /\ BindInv(rcv, chan)
      /\ rcv.closed => rcv.state = "idle"
      /\ snd.state = "idle" => rcv.state = "idle"
      /\ CalmOf(snd, rcv, sink, chan, up, toS, toR)
  BY CalmReceiver
<1>2. /\ SameReceiver(r, rcv') /\ sink'.given = k.given /\ Severed(chan, chan')
      /\ toS' = Posted(toS, msgs)
  BY Settling
<1>3. Over(rcv') /\ ~ Early(rcv') /\ ~ rcv'.closed /\ rcv'.senderDone = rcv.senderDone
      /\ rcv'.received = rcv.received
  BY <1>1, <1>2 DEF SameReceiver, Over, Early, Terminal
<1>4. ClaimInv(rcv')
  BY <1>3 DEF ClaimInv, Over, Terminal
<1>5. BindInv(rcv', chan')
  BY <1>1, <1>2, <1>3 DEF BindInv, Bound, Severed
<1>6. Lines(snd, chan')
  BY <1>1, <1>2, SeveredLines
<1>7. toS' \in Seq(ToSMsg) /\ Replies(rcv', up, toR', toS, toS')
  <2>1. CASE msgs = << >>
    BY <1>1, <1>2, <2>1, PostNone DEF Replies
  <2>2. CASE msgs # << >>
    <3>1. PICK m \in ToSMsg : /\ msgs = <<m>> /\ m.type \notin {"pause", "resume"}
                              /\ m.type = "complete" => rcv.senderDone
                              /\ Answer(m) => Came(rcv, m.have)
      BY <2>2 DEF Farewell
    <3>2. toS' \in Seq(ToSMsg) /\ Post(up, toS, m, toS')
      BY <1>1, <1>2, <3>1, PostOne
    <3>3. Answer(m) => Came(rcv', m.have)
      BY <1>3, <3>1 DEF Came
    <3> QED
      BY <1>3, <3>1, <3>2, <3>3 DEF Replies
  <2> QED
    BY <2>1, <2>2
<1>8. up /\ rcv'.state = "completed" => rcv.state = "completed" \/ Has(toS', "complete")
  <2>1. CASE msgs = <<Plain("complete")>>
    <3>1. PICK m \in ToSMsg : m = Plain("complete") /\ m.type = "complete"
      BY ReceiverMessages
    <3>2. Post(up, toS, m, toS')
      BY <1>1, <1>2, <2>1, <3>1, PostOne
    <3>3. up => Has(toS', "complete")
      BY <1>1, <1>7, <3>1, <3>2, PostedHas
    <3> QED
      BY <3>3
  <2>2. CASE msgs # <<Plain("complete")>>
    BY <1>2, <2>2 DEF SameReceiver
  <2> QED
    BY <2>1, <2>2
<1>9. Sent(rcv', toR') => Sent(rcv, toR)
  BY <1>1, <1>3, ReceiverQueue, SentHas
<1>10. ~ Unoffered(rcv, toR) /\ Keeps(rcv, rcv')
  BY <1>3 DEF Unoffered, Keeps
<1>11. CalmOf(snd, rcv', sink', chan', up, toS', toR')
  BY <1>1, <1>3, <1>4, <1>5, <1>6, <1>7, <1>8, <1>9, <1>10, ReceiverCalm
<1>12. Calm'
  BY <1>11 DEF Calm
<1>13. Delivery(snd', rcv', chan')
  BY <1>3 DEF Delivery, Got
<1> QED
  BY <1>12, <1>13 DEF Onward

\* The messages a receiver ends with.
LEMMA Farewells ==
    ASSUME IndInv
    PROVE  /\ Farewell(<< >>)
           /\ \A type \in Fatal : Farewell(<<Plain(type)>>)
           /\ rcv.senderDone => Farewell(<<Plain("complete")>>)
           /\ \A type \in {"accept", "resume-request"} :
                 Farewell(<<Having(type)>>) /\ Came(rcv, Having(type).have)
           /\ Farewell(CancelNote(rcv))
           /\ CancelNote(rcv) # <<Plain("complete")>>
<1>1. Farewell(<< >>)
  BY DEF Farewell
<1>2. ASSUME NEW type \in Fatal PROVE Farewell(<<Plain(type)>>)
  <2>1. Plain(type) \in ToSMsg /\ Plain(type).type = type
    BY ReceiverMessages
  <2>2. type \notin {"pause", "resume"} /\ type # "complete" /\ type \notin {"accept", "resume-request"}
    BY DEF Fatal
  <2> QED
    BY <2>1, <2>2 DEF Farewell, Answer
<1>3. ASSUME rcv.senderDone PROVE Farewell(<<Plain("complete")>>)
  <2>1. Plain("complete") \in ToSMsg /\ Plain("complete").type = "complete"
    BY ReceiverMessages
  <2> QED
    BY <1>3, <2>1 DEF Farewell, Answer
<1>4. ASSUME NEW type \in {"accept", "resume-request"}
      PROVE  Farewell(<<Having(type)>>) /\ Came(rcv, Having(type).have)
  <2>1. Having(type) \in ToSMsg /\ Having(type).type = type
    BY ReceiverMessages
  <2>2. Having(type).have = {k \in Chunk : rcv.received[k] # Unread}
    BY DEF Having
  <2>3. Came(rcv, Having(type).have)
    BY <2>2 DEF Came
  <2> QED
    BY <2>1, <2>3 DEF Farewell
<1>5. Farewell(CancelNote(rcv)) /\ CancelNote(rcv) # <<Plain("complete")>>
  <2>1. "cancel" \in Fatal /\ Plain("cancel") # Plain("complete")
    BY DEF Fatal, Plain
  <2>2. CancelNote(rcv) = << >> \/ CancelNote(rcv) = <<Plain("cancel")>>
    BY DEF CancelNote
  <2>3. << >> # <<Plain("complete")>> /\ <<Plain("cancel")>> # <<Plain("complete")>>
    BY <2>1
  <2> QED
    BY <1>1, <1>2, <2>1, <2>2, <2>3
<1> QED
  BY <1>1, <1>2, <1>3, <1>4, <1>5

\* A receiver that fails or is cancelled, by itself or after it changed its chain or its
\* claim.
SameSide(r, d) == d.received = r.received /\ d.senderDone = r.senderDone /\ d.closed = r.closed

\* A receiver that gives up has ended and keeps its side.
LEMMA Failing ==
    ASSUME NEW r \in RcvType, NEW d, GivenUp(r, d)
    PROVE  d \in RcvType /\ d.state \in Terminal /\ SameSide(r, d)
           /\ (d.state = "completed" => r.state = "completed")
<1>1. r.state \in State
  BY DEF RcvType
<1>2. \A b \in {"failed", "cancelled"} :
        After(r.state, b) \in Terminal /\ (After(r.state, b) = "completed" => r.state = "completed")
  BY <1>1, AfterState DEF State, Terminal
<1>3. \E y \in Terminal : d = [r EXCEPT !.state = y] /\ (y = "completed" => r.state = "completed")
  BY <1>2 DEF GivenUp, Failed, Cancelled
<1>4. PICK y \in Terminal : d = [r EXCEPT !.state = y] /\ (y = "completed" => r.state = "completed")
  BY <1>3
<1>5. y \in State
  BY DEF State, Terminal
<1> QED
  BY <1>4, <1>5 DEF RcvType, SameSide

\* Reject, cancel() and an invalid frame.
LEMMA ReceiverGivesUpCalm ==
    ASSUME IndInv, Calm, Reject \/ ReceiverCancel \/ \E c \in Channel : FrameInvalid(c)
    PROVE  Onward
<1> DEFINE Gone(d, type) ==
         /\ GivenUp(rcv, d) /\ ReceiverBecomes(d, sink, <<Plain(type)>>)
         /\ UNCHANGED <<snd, up, toR>> /\ (rcv.state # "idle" \/ sink.given)
         /\ rcv.state \notin Terminal
<1>1. \/ Gone(Cancelled(rcv), "reject") \/ Gone(Cancelled(rcv), "cancel")
      \/ Gone(Failed(rcv), "cancel")
  <2>1. CASE Reject
    BY <2>1 DEF Reject, GivenUp, Terminal
  <2>2. CASE ReceiverCancel
    BY <2>2 DEF ReceiverCancel, GivenUp
  <2>3. CASE \E c \in Channel : FrameInvalid(c)
    BY <2>3 DEF FrameInvalid, GivenUp
  <2> QED
    BY <2>1, <2>2, <2>3
<1>2. PICK type \in Fatal : \E d : Gone(d, type)
  <2>1. "reject" \in Fatal /\ "cancel" \in Fatal
    BY DEF Fatal
  <2> HIDE DEF Gone
  <2> QED
    BY <1>1, <2>1
<1>3. rcv \in RcvType /\ sink \in SinkType /\ toR \in Seq(ToRMsg)
  BY CalmReceiver
<1>4. PICK d : Gone(d, type)
  BY <1>2
<1>5. rcv.state # "idle"
  BY <1>4, PastOffer
<1>6. d \in RcvType /\ d.state \in Terminal /\ SameSide(rcv, d) /\ d.state # "completed"
  BY <1>3, <1>4, Failing DEF Terminal
<1>7. Farewell(<<Plain(type)>>)
  BY Farewells
<1>8. Fewer(toR, toR') /\ toR' \in Seq(ToRMsg)
  BY <1>3, <1>4 DEF Fewer
<1> QED
  BY <1>3, <1>5, <1>6, <1>7, <1>8, <1>4, ReceiverEndsCalm DEF SameSide

\* open() of the sink rejects.
LEMMA SinkOpenFailsCalm ==
    ASSUME IndInv, Calm, SinkOpenFails
    PROVE  Onward
<1>1. rcv \in RcvType /\ sink \in SinkType /\ toR \in Seq(ToRMsg)
  BY CalmReceiver
<1>2. PICK k : k = [sink EXCEPT !.handle = "none"]
  OBVIOUS
<1>3. k \in SinkType
  BY <1>1, <1>2 DEF SinkType, Handles
<1>4. PICK d : d = Failed(rcv)
  OBVIOUS
<1>5. ReceiverBecomes(d, k, CancelNote(rcv)) /\ UNCHANGED <<snd, up, toR>> /\ sink.handle = "opening"
  BY <1>2, <1>4 DEF SinkOpenFails
<1>6. rcv.state # "idle"
  BY <1>5, PastOffer
<1>7. d \in RcvType /\ d.state \in Terminal /\ SameSide(rcv, d) /\ (d.state = "completed" => rcv.state = "completed")
  BY <1>1, <1>4, Failing DEF GivenUp
<1>8. Farewell(CancelNote(rcv))
  BY Farewells
<1>9. Fewer(toR, toR') /\ toR' \in Seq(ToRMsg)
  BY <1>1, <1>5 DEF Fewer
<1> QED
  BY <1>3, <1>5, <1>6, <1>7, <1>8, <1>9, ReceiverEndsCalm DEF SameSide

\* The write chain without its head is still the same receiver's.
LEMMA PoppedSide ==
    ASSUME IndInv, rcv.chain # << >>
    PROVE  /\ ChainPopped \in RcvType /\ ChainPopped.state = rcv.state /\ SameSide(rcv, ChainPopped)
           /\ ChainPopped.completing = rcv.completing
<1>1. rcv \in RcvType
  BY ReceiverFacts
<1>2. ChainPopped.closed = rcv.closed
  BY <1>1 DEF ChainPopped, RcvType
<1> QED
  BY <1>2, ChainPops DEF SameSide

\* A write fails.
LEMMA WriteFailsCalm ==
    ASSUME IndInv, Calm, WriteFails
    PROVE  Onward
<1>1. rcv \in RcvType /\ sink \in SinkType /\ toR \in Seq(ToRMsg)
  BY CalmReceiver
<1>2. rcv.chain # << >>
  BY DEF WriteFails
<1>3. PICK k : k = AbortSink(sink)
  OBVIOUS
<1>4. k \in SinkType
  BY <1>1, <1>3, SinkDiscarded
<1>5. PICK r : r = ChainPopped
  OBVIOUS
<1>6. r \in RcvType /\ r.state = rcv.state /\ SameSide(rcv, r)
  BY <1>2, <1>5, PoppedSide
<1>7. PICK d : d = Failed(r)
  OBVIOUS
<1>8. ReceiverBecomes(d, k, CancelNote(rcv)) /\ UNCHANGED <<snd, up, toR>>
  BY <1>3, <1>5, <1>7 DEF WriteFails
<1>9. rcv.state # "idle"
  BY <1>2, PastOffer
<1>10. d \in RcvType /\ d.state \in Terminal /\ SameSide(r, d) /\ (d.state = "completed" => r.state = "completed")
  BY <1>6, <1>7, Failing DEF GivenUp
<1>11. Farewell(CancelNote(rcv))
  BY Farewells
<1>12. Fewer(toR, toR') /\ toR' \in Seq(ToRMsg)
  BY <1>1, <1>8 DEF Fewer
<1>13. SameSide(rcv, d) /\ (d.state = "completed" => rcv.state = "completed")
  BY <1>6, <1>10 DEF SameSide
<1> QED
  BY <1>4, <1>8, <1>9, <1>10, <1>11, <1>12, <1>13, ReceiverEndsCalm DEF SameSide

\* close() of the sink rejects.
LEMMA SinkCloseFailsCalm ==
    ASSUME IndInv, Calm, SinkCloseFails
    PROVE  Onward
<1>1. rcv \in RcvType /\ sink \in SinkType /\ toR \in Seq(ToRMsg)
  BY CalmReceiver
<1>2. PICK r : r = Failed(rcv)
  OBVIOUS
<1>3. r \in RcvType /\ r.state \in Terminal /\ SameSide(rcv, r) /\ (r.state = "completed" => rcv.state = "completed")
  BY <1>1, <1>2, Failing DEF GivenUp
<1>4. PICK d : d = [r EXCEPT !.completing = "done"]
  OBVIOUS
<1>5. d \in RcvType /\ d.state = r.state /\ SameSide(r, d)
  BY <1>3, <1>4 DEF RcvType, SameSide, Claims
<1>6. ReceiverBecomes(d, sink, CancelNote(rcv)) /\ UNCHANGED <<snd, up, toR>> /\ rcv.completing = "closing"
  BY <1>2, <1>4 DEF SinkCloseFails
<1>7. rcv.state # "idle"
  BY <1>6, PastOffer DEF Early
<1>8. Farewell(CancelNote(rcv))
  BY Farewells
<1>9. Fewer(toR, toR') /\ toR' \in Seq(ToRMsg)
  BY <1>1, <1>6 DEF Fewer
<1> QED
  BY <1>1, <1>3, <1>5, <1>6, <1>7, <1>8, <1>9, ReceiverEndsCalm DEF SameSide

\* close() resolves, and the transfer is completed unless it had ended.
LEMMA SinkClosesCalm ==
    ASSUME IndInv, Calm, SinkCloses
    PROVE  Onward
<1>1. rcv \in RcvType /\ sink \in SinkType /\ toR \in Seq(ToRMsg) /\ ClaimInv(rcv)
  BY CalmReceiver
<1>2. rcv.completing = "closing" /\ UNCHANGED <<snd, up, toR>>
  BY DEF SinkCloses
<1>3. ~ Early(rcv) /\ rcv.senderDone
  BY <1>2, PastOffer
<1>4. rcv.state = "completing" \/ rcv.state \in Terminal
  BY <1>1, <1>2 DEF ClaimInv, Over
<1>5. PICK x : x = After(rcv.state, "completed")
  OBVIOUS
<1>6. x \in Terminal
  BY <1>4, <1>5 DEF After, LegalTransitions, Terminal
<1>7. x \in State
  BY <1>6 DEF State, Terminal
<1>8. PICK d : d = [rcv EXCEPT !.completing = "done", !.state = x]
  OBVIOUS
<1>9. d \in RcvType /\ d.state = x /\ SameSide(rcv, d)
  BY <1>1, <1>7, <1>8 DEF RcvType, SameSide, Claims
<1>10. d = [rcv EXCEPT !.completing = "done", !.state = After(@, "completed")]
  BY <1>5, <1>8
<1>11. PICK k : k = SinkClosed(sink)
  OBVIOUS
<1>12. k \in SinkType
  BY <1>1, <1>11 DEF SinkClosed, SinkType, Handles
<1>13. ReceiverBecomes(d, k, <<Plain("complete")>>)
  BY <1>10, <1>11 DEF SinkCloses
<1>14. Farewell(<<Plain("complete")>>)
  BY <1>3, Farewells
<1>15. Fewer(toR, toR') /\ toR' \in Seq(ToRMsg) /\ rcv.state # "idle"
  BY <1>1, <1>2, <1>3 DEF Fewer, Early
<1> QED
  BY <1>2, <1>6, <1>9, <1>12, <1>13, <1>14, <1>15, ReceiverEndsCalm DEF SameSide

\* A step of the receiver alone, in its state or on to Completing; no message moves.
Stays(r, r2) ==
    /\ r2.state = r.state \/ (r2.state = "completing" /\ ~ Early(r) /\ ~ Over(r))
    /\ r2.received = r.received /\ r2.senderDone = r.senderDone

\* It keeps the second invariant if the channels stay bound and opened.
LEMMA ReceiverLocalCalm ==
    ASSUME IndInv, Calm, UNCHANGED <<snd, up, toS, toR>>, Stays(rcv, rcv'),
           rcv'.closed => rcv'.state = "idle", sink'.given = sink.given,
           ClaimInv(rcv'), BindInv(rcv', chan'), Lines(snd, chan'),
           NoFrames(chan) => NoFrames(chan')
    PROVE  Calm'
<1>1. /\ snd \in SndType /\ toS \in Seq(ToSMsg) /\ toR \in Seq(ToRMsg)
      /\ Early(rcv) => /\ ~ Sent(rcv, toR) /\ NoFrames(chan) /\ OfferOnce(toR)
                       /\ rcv.state # "accepted" => ~ sink.given
                       /\ rcv.state # "idle" => ~ Has(toR, "offer")
      /\ snd.state = "idle" => rcv.state = "idle"
      /\ CalmOf(snd, rcv, sink, chan, up, toS, toR)
  BY CalmReceiver
<1>2. /\ Early(rcv') => Early(rcv) /\ rcv'.state = rcv.state
      /\ Over(rcv) <=> Over(rcv')
      /\ rcv.state = "idle" => rcv'.state = "idle"
      /\ rcv'.state = "completed" => rcv.state = "completed"
  BY DEF Stays, Early, Over, Terminal
<1>3. Fewer(toR, toR) /\ Replies(rcv', up, toR, toS, toS)
  BY DEF Fewer, Replies
<1>4. Unoffered(rcv, toR) => Unoffered(rcv', toR)
  BY <1>2 DEF Unoffered
<1>5. (Sent(rcv', toR) <=> Sent(rcv, toR)) /\ rcv'.senderDone = rcv.senderDone /\ Keeps(rcv, rcv')
  BY DEF Stays, Sent, Keeps
<1>6. Early(rcv') => /\ Early(rcv) /\ NoFrames(chan')
                     /\ rcv'.state # "accepted" => ~ sink'.given
                     /\ rcv'.state # "idle" => ~ Has(toR, "offer")
  BY <1>1, <1>2
<1>7. CalmOf(snd, rcv', sink', chan', up, toS, toR)
  BY <1>1, <1>2, <1>3, <1>4, <1>5, <1>6, ReceiverCalm
<1> QED
  BY <1>7 DEF Calm

\* The chunks received and on the wires stay so.
LEMMA LocalDelivery ==
    ASSUME UNCHANGED snd, Stays(rcv, rcv'), \A x : Arriving(chan, x) => Arriving(chan', x)
    PROVE  Delivery(snd, rcv, chan) => Delivery(snd, rcv, chan)'
<1>1. Over(rcv) => Over(rcv')
  BY DEF Stays, Over
<1>2. \A x \in Chunk : Got(rcv, chan, x) => Got(rcv', chan', x)
  BY <1>1 DEF Got, Stays
<1>3. Delivery(snd, rcv, chan) => Delivery(snd', rcv', chan')
  BY <1>2 DEF Delivery
<1> QED
  BY <1>3

\* The same when the channels stay, too.
LEMMA ReceiverAloneCalm ==
    ASSUME IndInv, Calm, UNCHANGED <<snd, chan, up, toS, toR>>, Stays(rcv, rcv'),
           rcv'.closed = rcv.closed, sink'.given = sink.given, ClaimInv(rcv')
    PROVE  Onward
<1>1. Lines(snd, chan) /\ BindInv(rcv, chan) /\ (rcv.closed => rcv.state = "idle")
  BY CalmReceiver
<1>2. rcv'.closed => rcv'.state = "idle"
  BY <1>1 DEF Stays, Early
<1>3. /\ Over(rcv) => Over(rcv')
      /\ rcv.state = "idle" => rcv'.state = "idle"
  BY DEF Stays, Early, Over, Terminal
<1>4. BindInv(rcv', chan')
  BY <1>1, <1>3 DEF BindInv, Bound
<1>5. Calm'
  BY <1>1, <1>2, <1>4, ReceiverLocalCalm
<1>6. Delivery(snd, rcv, chan) => Delivery(snd, rcv, chan)'
  BY LocalDelivery
<1> QED
  BY <1>5, <1>6 DEF Onward

\* Hashing and writing a chunk.
LEMMA WriteCalm ==
    ASSUME IndInv, Calm, WriteHashes \/ WriteDone
    PROVE  Onward
<1>1. rcv \in RcvType /\ sink \in SinkType /\ ClaimInv(rcv)
  BY CalmReceiver
<1>2. CASE WriteHashes
  <2>1. rcv' = [rcv EXCEPT !.hashing = TRUE] /\ UNCHANGED <<snd, sink, chan, up, toS, toR>>
    BY <1>2 DEF WriteHashes
  <2>2. rcv'.state = rcv.state /\ SameSide(rcv, rcv') /\ rcv'.completing = rcv.completing
    BY <1>1, <2>1 DEF RcvType, SameSide
  <2>3. Stays(rcv, rcv') /\ ClaimInv(rcv') /\ rcv'.closed = rcv.closed
    BY <1>1, <2>2 DEF Stays, ClaimInv, SameSide, Over
  <2> QED
    BY <2>1, <2>3, ReceiverAloneCalm
<1>3. CASE WriteDone
  <2>1. /\ rcv' = ChainPopped /\ sink' = Written(sink, Head(rcv.chain)) /\ rcv.chain # << >>
        /\ UNCHANGED <<snd, chan, up, toS, toR>>
    BY <1>3 DEF WriteDone
  <2>2. rcv'.state = rcv.state /\ SameSide(rcv, rcv') /\ rcv'.completing = rcv.completing
    BY <2>1, PoppedSide
  <2>3. Stays(rcv, rcv') /\ ClaimInv(rcv') /\ rcv'.closed = rcv.closed
    BY <1>1, <2>2 DEF Stays, ClaimInv, SameSide, Over
  <2>4. sink'.given = sink.given
    BY <1>1, <2>1 DEF Written, SinkType
  <2> QED
    BY <2>1, <2>3, <2>4, ReceiverAloneCalm
<1> QED
  BY <1>2, <1>3

\* Without a pause, completion reaches Completing.
LEMMA ClosingCalm ==
    ASSUME IndInv, Calm, rcv.completing # "no", NEW d, d = Closing(rcv)
    PROVE  /\ d \in RcvType /\ Stays(rcv, d) /\ d.closed = rcv.closed /\ ClaimInv(d)
           /\ rcv.state \in Terminal <=> d.state \in Terminal
           /\ SameSide(rcv, d) /\ (d.state = "completed" => rcv.state = "completed")
<1>1. rcv \in RcvType /\ ClaimInv(rcv) /\ rcv.state \in State
  BY CalmReceiver DEF RcvType
<1>2. ~ Early(rcv)
  BY PastOffer
<1>3. PICK x : x = After(rcv.state, "completing")
  OBVIOUS
<1>4. \/ x = rcv.state /\ rcv.state \in Terminal \cup {"completing"}
      \/ x = "completing" /\ rcv.state = "active"
  BY <1>1, <1>2, <1>3 DEF After, LegalTransitions, Terminal, State, Early, ClaimInv
<1>5. x \in State
  BY <1>1, <1>4 DEF State
<1>6. d = [rcv EXCEPT !.completing = "closing", !.state = x]
  BY <1>3 DEF Closing
<1>7. d \in RcvType /\ d.state = x /\ d.completing = "closing" /\ SameSide(rcv, d)
  BY <1>1, <1>5, <1>6 DEF RcvType, SameSide, Claims
<1>8. Stays(rcv, d) /\ (rcv.state \in Terminal <=> d.state \in Terminal)
  BY <1>2, <1>4, <1>7 DEF Stays, SameSide, Over, Terminal
<1>9. ClaimInv(d)
  BY <1>4, <1>7 DEF ClaimInv, Over, Terminal
<1> QED
  BY <1>4, <1>7, <1>8, <1>9 DEF SameSide

\* The writes are done: the digest or the sink is next, unless the transfer has ended.
LEMMA WritesAwaitedCalm ==
    ASSUME IndInv, Calm, WritesAwaited
    PROVE  Onward
<1>1. rcv \in RcvType /\ ClaimInv(rcv)
  BY CalmReceiver
<1>2. rcv.completing = "writes" /\ UNCHANGED <<snd, sink, chan, up, toS, toR>>
  BY DEF WritesAwaited
<1>3. ASSUME NEW x \in {"done", "digest"}, x = "done" => Over(rcv), rcv' = [rcv EXCEPT !.completing = x]
      PROVE  Onward
  <2>1. x \in Claims /\ x # "no" /\ x # "closing"
    BY DEF Claims
  <2>2. rcv'.state = rcv.state /\ SameSide(rcv, rcv') /\ rcv'.completing = x
    BY <1>1, <1>3, <2>1 DEF RcvType, SameSide
  <2>3. Stays(rcv, rcv') /\ ClaimInv(rcv') /\ rcv'.closed = rcv.closed
    BY <1>1, <1>3, <2>1, <2>2 DEF Stays, ClaimInv, SameSide, Over
  <2> QED
    BY <1>2, <2>3, ReceiverAloneCalm
<1>4. ASSUME rcv' = Closing(rcv) PROVE Onward
  <2>1. Stays(rcv, rcv') /\ ClaimInv(rcv') /\ rcv'.closed = rcv.closed
    BY <1>2, <1>4, ClosingCalm
  <2> QED
    BY <1>2, <2>1, ReceiverAloneCalm
<1>5. \/ rcv' = [rcv EXCEPT !.completing = "done"] /\ Over(rcv)
      \/ rcv' = [rcv EXCEPT !.completing = "digest"]
      \/ rcv' = Closing(rcv)
  BY DEF WritesAwaited, Over
<1> QED
  BY <1>3, <1>4, <1>5

\* The digest is compared.
LEMMA VerifyCalm ==
    ASSUME IndInv, Calm, Verify
    PROVE  Onward
<1>1. rcv \in RcvType /\ sink \in SinkType /\ toR \in Seq(ToRMsg) /\ toS \in Seq(ToSMsg)
  BY CalmReceiver
<1>2. rcv.completing = "digest" /\ UNCHANGED <<snd, up, toR>>
  BY DEF Verify
<1>3. rcv.state # "idle" /\ rcv.completing # "no"
  BY <1>2, PastOffer DEF Early
<1>4. Fewer(toR, toR') /\ toR' \in Seq(ToRMsg)
  BY <1>1, <1>2 DEF Fewer
<1>5. CASE rcv.received = rcv.expected
  <2>1. PICK d : d = Closing(rcv)
    OBVIOUS
  <2>2. /\ d \in RcvType /\ Stays(rcv, d) /\ d.closed = rcv.closed /\ ClaimInv(d)
        /\ rcv.state \in Terminal <=> d.state \in Terminal
        /\ SameSide(rcv, d) /\ (d.state = "completed" => rcv.state = "completed")
    BY <1>3, <2>1, ClosingCalm
  <2>3. ReceiverBecomes(d, sink, << >>)
    BY <1>5, <2>1 DEF Verify
  <2>4. CASE d.state \in Terminal
    <3>1. Farewell(<< >>)
      BY Farewells
    <3> QED
      BY <1>1, <1>2, <1>3, <1>4, <2>2, <2>3, <2>4, <3>1, ReceiverEndsCalm DEF SameSide
  <2>5. CASE d.state \notin Terminal
    <3>1. rcv' = d /\ sink' = sink /\ chan' = chan /\ toS' = toS
      BY <1>1, <2>2, <2>3, <2>5, Settling, PostNone
    <3> QED
      BY <1>2, <2>2, <3>1, ReceiverAloneCalm
  <2> QED
    BY <2>4, <2>5
<1>6. CASE rcv.received # rcv.expected
  <2>1. PICK r : r = Failed(rcv)
    OBVIOUS
  <2>2. r \in RcvType /\ r.state \in Terminal /\ SameSide(rcv, r) /\ (r.state = "completed" => rcv.state = "completed")
    BY <1>1, <2>1, Failing DEF GivenUp
  <2>3. PICK d : d = [r EXCEPT !.completing = "done", !.mismatch = TRUE]
    OBVIOUS
  <2>4. d \in RcvType /\ d.state = r.state /\ SameSide(r, d)
    BY <2>2, <2>3 DEF RcvType, SameSide, Claims
  <2>5. PICK k : k = AbortSink(sink)
    OBVIOUS
  <2>6. k \in SinkType
    BY <1>1, <2>5, SinkDiscarded
  <2>7. ReceiverBecomes(d, k, <<Plain("checksum-mismatch")>>)
    BY <1>6, <2>1, <2>3, <2>5 DEF Verify
  <2>8. Farewell(<<Plain("checksum-mismatch")>>)
    BY Farewells DEF Fatal
  <2> QED
    BY <1>2, <1>3, <1>4, <2>2, <2>4, <2>6, <2>7, <2>8, ReceiverEndsCalm DEF SameSide
<1> QED
  BY <1>5, <1>6

-----------------------------------------------------------------------------
(* The receiver and its channels *)

\* A data channel arrives, for the transfer or for an offer to come.
LEMMA ChannelArrivesCalm ==
    ASSUME IndInv, Calm, NEW c \in Channel, ChannelArrives(c)
    PROVE  Onward
<1>1. /\ snd \in SndType /\ rcv \in RcvType /\ chan \in [Channel -> ChanType]
      /\ Lines(snd, chan) /\ BindInv(rcv, chan) /\ ClaimInv(rcv)
      /\ rcv.closed => rcv.state = "idle"
      /\ Early(rcv) => NoFrames(chan)
  BY CalmReceiver
<1>2. PICK rx \in Binding : /\ rx = "attached" \/ (rx = "pending" /\ rcv.state \in Terminal \cup {"idle"})
                            /\ rx = IF rcv.state \notin Terminal \cup {"idle"} THEN "attached" ELSE "pending"
  BY DEF Binding
<1>3. /\ UNCHANGED <<snd, sink, up, toS, toR>>
      /\ chan' = [chan EXCEPT ![c].st = "open", ![c].rx = rx]
      /\ \E x : rcv' = [rcv EXCEPT !.ttl = x]
  BY <1>2 DEF ChannelArrives
<1>4. rcv'.state = rcv.state /\ SameSide(rcv, rcv') /\ rcv'.completing = rcv.completing
  BY <1>1, <1>3 DEF RcvType, SameSide
<1>5. Stays(rcv, rcv') /\ ClaimInv(rcv') /\ rcv'.closed = rcv.closed
  BY <1>1, <1>4 DEF Stays, ClaimInv, SameSide, Over
<1>6. PICK d : d = [chan[c] EXCEPT !.st = "open", !.rx = rx]
  OBVIOUS
<1>7. chan[c] \in ChanType
  BY <1>1
<1>8. d.st = "open" /\ d.rx = rx /\ d.wire = chan[c].wire
  BY <1>6, <1>7 DEF ChanType
<1>9. chan' = [chan EXCEPT ![c] = d]
  BY <1>3, <1>6, <1>7 DEF ChanType
<1>10. chan'[c] = d /\ \A e \in Channel : e # c => chan'[e] = chan[e]
  BY <1>1, <1>9
<1>11. chan[c].wire # << >> => rcv.state # "idle" /\ (chan[c].rx = "attached" \/ Over(rcv))
  BY <1>1 DEF Early, NoFrames, BindInv, Bound
<1>12. Bound(rcv', d)
  BY <1>2, <1>4, <1>8, <1>11 DEF Bound, Over
<1>13. BindInv(rcv', chan')
  BY <1>1, <1>4, <1>10, <1>12 DEF BindInv, Bound, Over
<1>14. Lines(snd, chan')
  <2>1. snd.batch \in Batches
    BY <1>1 DEF SndType
  <2> QED
    BY <1>1, <1>8, <1>10, <2>1, BatchChannels DEF Lines
<1>15. NoFrames(chan) => NoFrames(chan')
  BY <1>8, <1>10 DEF NoFrames
<1>16. Calm'
  BY <1>1, <1>3, <1>4, <1>5, <1>13, <1>14, <1>15, ReceiverLocalCalm
<1>17. CASE Over(rcv)
  <2>1. Over(rcv')
    BY <1>4, <1>17 DEF Over
  <2>2. Delivery(snd', rcv', chan')
    BY <2>1 DEF Delivery, Got
  <2> QED
    BY <1>16, <2>2 DEF Onward
<1>18. CASE ~ Over(rcv)
  <2>1. chan[c].wire # << >> => rx = "attached"
    BY <1>2, <1>11, <1>18 DEF Over
  <2>2. ASSUME NEW x, Arriving(chan, x) PROVE Arriving(chan', x)
    <3>1. PICK e \in Channel : chan[e].rx = "attached" /\ \E i \in 1..Len(chan[e].wire) : chan[e].wire[i][1] = x
      BY <2>2 DEF Arriving
    <3>2. CASE e # c
      BY <1>10, <3>1, <3>2 DEF Arriving
    <3>3. CASE e = c
      <4>1. Len(<< >>) = 0
        OBVIOUS
      <4>2. chan[c].wire # << >>
        BY <3>1, <3>3, <4>1
      <4> QED
        BY <1>8, <1>10, <2>1, <3>1, <3>3, <4>2 DEF Arriving
    <3> QED
      BY <3>2, <3>3
  <2> QED
    BY <1>3, <1>5, <1>16, <2>2, LocalDelivery DEF Onward
<1> QED
  BY <1>17, <1>18

\* Discarding leaves the channels that are bound, and cuts the others.
LEMMA DiscardedKeeps ==
    ASSUME NEW ch \in [Channel -> ChanType], NEW c \in Channel
    PROVE  /\ ch[c].rx # "pending" => Discarded(ch)[c] = ch[c]
           /\ ch[c].rx = "pending" => /\ Discarded(ch)[c].st = "closed" /\ Discarded(ch)[c].rx = "none"
                                      /\ Discarded(ch)[c].wire = << >>
<1>1. ch[c] \in ChanType
  OBVIOUS
<1>2. PICK d : d = [ch[c] EXCEPT !.st = "closed", !.rx = "none", !.wire = << >>]
  OBVIOUS
<1>3. d.st = "closed" /\ d.rx = "none" /\ d.wire = << >>
  BY <1>1, <1>2 DEF ChanType
<1> QED
  BY <1>2, <1>3 DEF Discarded

\* So what the second invariant says of the channels survives.
LEMMA DiscardedCalm ==
    ASSUME NEW ch \in [Channel -> ChanType], NEW ch2, ch2 = Discarded(ch)
    PROVE  /\ \A r : BindInv(r, ch) => BindInv(r, ch2)
           /\ \A s \in SndType : Lines(s, ch) => Lines(s, ch2)
           /\ NoFrames(ch) => NoFrames(ch2)
           /\ \A x : Arriving(ch, x) => Arriving(ch2, x)
<1>1. \A c \in Channel : /\ ch[c].rx # "pending" => ch2[c] = ch[c]
                         /\ ch[c].rx = "pending" => ch2[c].st = "closed" /\ ch2[c].rx = "none"
                                                    /\ ch2[c].wire = << >>
  BY DiscardedKeeps
<1>2. \A r : BindInv(r, ch) => BindInv(r, ch2)
  BY <1>1 DEF BindInv, Bound
<1>3. ASSUME NEW s \in SndType, Lines(s, ch) PROVE Lines(s, ch2)
  <2>1. s.batch \in Batches
    BY DEF SndType
  <2> QED
    BY <1>1, <1>3, <2>1, BatchChannels DEF Lines
<1>4. NoFrames(ch) => NoFrames(ch2)
  BY <1>1 DEF NoFrames
<1>5. \A x : Arriving(ch, x) => Arriving(ch2, x)
  BY <1>1 DEF Arriving
<1> QED
  BY <1>2, <1>3, <1>4, <1>5

\* The pending channels expire, or the manager closes before an offer.
LEMMA PendingCalm ==
    ASSUME IndInv, Calm, PendingExpires \/ ReceiverCloses
    PROVE  Onward
<1>1. /\ snd \in SndType /\ rcv \in RcvType /\ chan \in [Channel -> ChanType]
      /\ Lines(snd, chan) /\ BindInv(rcv, chan) /\ ClaimInv(rcv)
      /\ rcv.closed => rcv.state = "idle"
  BY CalmReceiver
<1>2. UNCHANGED <<snd, sink, up, toS, toR>> /\ chan' = Discarded(chan)
  BY DEF PendingExpires, ReceiverCloses
<1>3. /\ rcv'.state = rcv.state /\ rcv'.received = rcv.received /\ rcv'.senderDone = rcv.senderDone
      /\ rcv'.completing = rcv.completing /\ (rcv'.closed => rcv'.state = "idle")
  BY <1>1 DEF PendingExpires, ReceiverCloses, RcvType
<1>4. Stays(rcv, rcv') /\ ClaimInv(rcv')
  BY <1>1, <1>3 DEF Stays, ClaimInv, Over
<1>5. /\ BindInv(rcv, chan') /\ Lines(snd, chan') /\ (NoFrames(chan) => NoFrames(chan'))
      /\ \A x : Arriving(chan, x) => Arriving(chan', x)
  BY <1>1, <1>2, DiscardedCalm
<1>6. BindInv(rcv', chan')
  BY <1>3, <1>5 DEF BindInv, Bound, Over
<1>7. Calm'
  BY <1>2, <1>3, <1>4, <1>5, <1>6, ReceiverLocalCalm
<1> QED
  BY <1>2, <1>4, <1>5, <1>7, LocalDelivery DEF Onward

\* The transfer goes on, in its state or the next one; the channels stay.
LEMMA ReceiverMovesCalm ==
    ASSUME IndInv, Calm, UNCHANGED <<snd, chan, up>>, toS' \in Seq(ToSMsg), toR' \in Seq(ToRMsg),
           Fewer(toR, toR'), Replies(rcv', up, toR', toS, toS'),
           rcv.state \notin Terminal \cup {"idle"}, rcv'.state \notin Terminal \cup {"idle"},
           rcv'.closed = rcv.closed, rcv'.received = rcv.received,
           Early(rcv') => Early(rcv) /\ (rcv'.state # "accepted" => ~ sink'.given),
           Has(toR, "cancel") => Has(toR', "cancel"), rcv.senderDone => rcv'.senderDone,
           Sent(rcv, toR) <=> Sent(rcv', toR'), ClaimInv(rcv')
    PROVE  Onward
<1>1. /\ snd \in SndType /\ toS \in Seq(ToSMsg) /\ toR \in Seq(ToRMsg)
      /\ Lines(snd, chan) /\ BindInv(rcv, chan) /\ (rcv.closed => rcv.state = "idle")
      /\ Early(rcv) => NoFrames(chan) /\ (rcv.state # "idle" => ~ Has(toR, "offer"))
      /\ snd.state = "idle" => rcv.state = "idle"
      /\ CalmOf(snd, rcv, sink, chan, up, toS, toR)
  BY CalmReceiver
<1>2. \A t : Has(toR', t) => Has(toR, t)
  BY <1>1, ReceiverQueue
<1>3. ~ Over(rcv) /\ ~ Over(rcv') /\ ~ Unoffered(rcv, toR) /\ rcv'.state # "completed" /\ Keeps(rcv, rcv')
  BY DEF Over, Unoffered, Terminal, Keeps
<1>4. Early(rcv') => /\ Early(rcv) /\ NoFrames(chan)
                     /\ rcv'.state # "accepted" => ~ sink'.given
                     /\ rcv'.state # "idle" => ~ Has(toR', "offer")
  BY <1>1, <1>2
<1>5. BindInv(rcv', chan)
  BY <1>1, <1>3 DEF BindInv, Bound
<1>6. CalmOf(snd, rcv', sink', chan, up, toS', toR')
  BY <1>1, <1>3, <1>4, <1>5, ReceiverCalm
<1>7. Calm'
  BY <1>6 DEF Calm
<1>8. \A x \in Chunk : Got(rcv, chan, x) => Got(rcv', chan, x)
  BY <1>3 DEF Got
<1>9. Delivery(snd, rcv, chan) => Delivery(snd', rcv', chan')
  BY <1>8 DEF Delivery
<1> QED
  BY <1>7, <1>9 DEF Onward

\* accept() hands over the sink.
LEMMA AcceptCalm ==
    ASSUME IndInv, Calm, Accept
    PROVE  Onward
<1>1. rcv \in RcvType /\ sink \in SinkType /\ toR \in Seq(ToRMsg) /\ toS \in Seq(ToSMsg) /\ ClaimInv(rcv)
  BY CalmReceiver
<1>2. rcv.state = "offered" /\ UNCHANGED <<snd, up, toR>>
  BY DEF Accept
<1>3. PICK d : d = [rcv EXCEPT !.state = "accepted"]
  OBVIOUS
<1>4. d \in RcvType /\ d.state = "accepted" /\ SameSide(rcv, d) /\ d.completing = rcv.completing
  BY <1>1, <1>3 DEF RcvType, SameSide, State
<1>5. PICK k : k = [sink EXCEPT !.given = TRUE, !.handle = "opening"]
  OBVIOUS
<1>6. k \in SinkType
  BY <1>1, <1>5 DEF SinkType, Handles
<1>7. ReceiverBecomes(d, k, << >>)
  BY <1>3, <1>5 DEF Accept
<1>8. d.state \notin Terminal \cup {"idle"} /\ rcv.state \notin Terminal \cup {"idle"}
  BY <1>2, <1>4 DEF Terminal
<1>9. rcv' = d /\ chan' = chan /\ toS' = toS
  BY <1>1, <1>4, <1>6, <1>7, <1>8, Settling, PostNone
<1>10. rcv.completing = "no"
  BY <1>2, PastOffer DEF Early
<1>11. ClaimInv(d)
  BY <1>1, <1>2, <1>4, <1>8, <1>10 DEF ClaimInv, SameSide, Over
<1>12. Fewer(toR, toR') /\ Replies(rcv', up, toR', toS, toS')
  BY <1>2, <1>9 DEF Fewer, Replies
<1>13. Sent(rcv, toR) <=> Sent(d, toR)
  BY <1>4 DEF Sent, SameSide
<1>14. Early(d) => Early(rcv) /\ (d.state # "accepted" => ~ sink'.given)
  BY <1>2, <1>4 DEF Early
<1> QED
  BY <1>1, <1>2, <1>4, <1>8, <1>9, <1>11, <1>12, <1>13, <1>14, ReceiverMovesCalm DEF SameSide

\* An answer of a transfer that goes on, with the chunks it has.
LEMMA Answering ==
    ASSUME IndInv, Calm, NEW type \in {"accept", "resume-request"}, NEW r, ~ Early(r),
           r.received = rcv.received, NEW p, NEW q, p = Posted(toS, <<Having(type)>>)
    PROVE  p \in Seq(ToSMsg) /\ Replies(r, up, q, toS, p)
<1>1. toS \in Seq(ToSMsg)
  BY CalmReceiver
<1>2. PICK m : m = Having(type)
  OBVIOUS
<1>3. m \in ToSMsg /\ m.type = type /\ Came(rcv, m.have)
  BY <1>2, ReceiverMessages, Farewells
<1>4. p \in Seq(ToSMsg) /\ Post(up, toS, m, p)
  BY <1>1, <1>2, <1>3, PostOne
<1>5. Came(r, m.have)
  BY <1>3 DEF Came
<1>6. m.type \notin {"pause", "resume", "reject", "cancel", "checksum-mismatch", "complete"}
  BY <1>3
<1> QED
  BY <1>3, <1>4, <1>5, <1>6 DEF Replies

\* open() resolves and the transfer is active, unless it has ended.
LEMMA SinkOpensCalm ==
    ASSUME IndInv, Calm, SinkOpens
    PROVE  Onward
<1>1. rcv \in RcvType /\ sink \in SinkType /\ toR \in Seq(ToRMsg) /\ toS \in Seq(ToSMsg) /\ ClaimInv(rcv)
  BY CalmReceiver
<1>2. sink.handle = "opening" /\ UNCHANGED <<snd, up, toR>>
  BY DEF SinkOpens
<1>3. rcv.state \notin {"idle", "offered", "paused"} /\ rcv.state \in State
  BY <1>1, <1>2, PastOffer DEF ClaimInv, RcvType
<1>4. PICK x : x = After(rcv.state, "active")
  OBVIOUS
<1>5. \/ x = rcv.state /\ rcv.state \in Terminal \cup {"active", "completing"}
      \/ x = "active" /\ rcv.state = "accepted"
  BY <1>3, <1>4 DEF After, LegalTransitions, State, Terminal
<1>6. PICK d : d = [rcv EXCEPT !.state = x]
  OBVIOUS
<1>7. x \in State
  BY <1>3, <1>5 DEF State
<1>8. d \in RcvType /\ d.state = x /\ SameSide(rcv, d) /\ d.completing = rcv.completing
  BY <1>1, <1>6, <1>7 DEF RcvType, SameSide
<1>9. PICK k : k = SinkOpened(sink)
  OBVIOUS
<1>10. k \in SinkType
  BY <1>1, <1>9 DEF SinkType, Handles, SinkOpened
<1>11. ReceiverBecomes(d, k, <<Having("accept")>>)
  BY <1>4, <1>6, <1>9 DEF SinkOpens
<1>12. Fewer(toR, toR') /\ toR' \in Seq(ToRMsg)
  BY <1>1, <1>2 DEF Fewer
<1>13. CASE x \in Terminal
  <2>1. Farewell(<<Having("accept")>>)
    BY Farewells
  <2>2. d.state = "completed" => rcv.state = "completed"
    BY <1>5, <1>8, <1>13 DEF Terminal
  <2> QED
    BY <1>2, <1>3, <1>8, <1>10, <1>11, <1>12, <1>13, <2>1, <2>2, ReceiverEndsCalm DEF SameSide
<1>14. CASE x \notin Terminal
  <2>1. rcv' = d /\ chan' = chan /\ toS' = Posted(toS, <<Having("accept")>>)
    BY <1>8, <1>10, <1>11, <1>14, Settling
  <2>2. ~ Early(d) /\ d.state \notin Terminal \cup {"idle"} /\ rcv.state \notin Terminal \cup {"idle"}
    BY <1>3, <1>5, <1>8, <1>14 DEF Early, Terminal
  <2>3. toS' \in Seq(ToSMsg) /\ Replies(d, up, toR', toS, toS')
    BY <1>8, <2>1, <2>2, Answering DEF SameSide
  <2>4. rcv.state = "accepted" => rcv.completing = "no"
    BY PastOffer DEF Early
  <2>5. ClaimInv(d)
    BY <1>1, <1>5, <1>8, <2>2, <2>4 DEF ClaimInv, SameSide, Over
  <2>6. Sent(rcv, toR) <=> Sent(d, toR)
    BY <1>8 DEF Sent, SameSide
  <2> QED
    BY <1>2, <1>8, <1>12, <2>1, <2>2, <2>3, <2>5, <2>6, ReceiverMovesCalm DEF SameSide
<1> QED
  BY <1>13, <1>14

\* Completion is claimed as soon as it can be.
LEMMA ClaimingCalm ==
    ASSUME NEW r \in RcvType, r.completing = "no", r.state # "paused", NEW d, d = Claimed(r)
    PROVE  /\ d \in RcvType /\ ClaimInv(d) /\ d.state = r.state /\ d.received = r.received
           /\ d.senderDone = r.senderDone /\ d.closed = r.closed
<1>1. CASE r.state \notin Terminal /\ r.senderDone /\ Full(r.received)
  <2>1. d = [r EXCEPT !.completing = "writes"]
    BY <1>1 DEF Claimed, Full
  <2>2. /\ d \in RcvType /\ d.state = r.state /\ d.received = r.received /\ d.senderDone = r.senderDone
        /\ d.closed = r.closed /\ d.completing = "writes"
    BY <2>1 DEF RcvType, Claims
  <2> QED
    BY <2>2 DEF ClaimInv
<1>2. CASE ~ (r.state \notin Terminal /\ r.senderDone /\ Full(r.received))
  <2>1. d = r
    BY <1>2 DEF Claimed, Full
  <2> QED
    BY <1>2, <2>1 DEF ClaimInv, Over
<1> QED
  BY <1>1, <1>2

\* A frame leaves the wire of a channel.
Delivers(ch, c, ch2) == ch2 = [ch EXCEPT ![c].wire = Tail(@)]

\* Only its chunk is no longer on its way.
LEMMA WireShrinks ==
    ASSUME NEW ch \in [Channel -> ChanType], NEW c \in Channel, ch[c].wire # << >>,
           NEW ch2, Delivers(ch, c, ch2)
    PROVE  /\ \A e \in Channel : /\ ch2[e].st = ch[e].st /\ ch2[e].rx = ch[e].rx
                                 /\ ch2[e].wire # << >> => ch[e].wire # << >>
           /\ Head(ch[c].wire) \in Frame
           /\ \A y : Arriving(ch, y) => Arriving(ch2, y) \/ y = Head(ch[c].wire)[1]
<1>1. ch[c] \in ChanType
  OBVIOUS
<1>2. PICK q \in Seq(Frame) : q = ch[c].wire /\ q # << >>
  BY <1>1 DEF ChanType, Frames
<1>3. PICK p : p = Tail(q)
  OBVIOUS
<1>4. p \in Seq(Frame) /\ Shrunk(q, p) /\ Head(q) = q[1] /\ Head(q) \in Frame
  BY <1>2, <1>3, Shrinking
<1>5. PICK d : d = [ch[c] EXCEPT !.wire = p]
  OBVIOUS
<1>6. d.wire = p /\ d.st = ch[c].st /\ d.rx = ch[c].rx
  BY <1>1, <1>5 DEF ChanType
<1>7. ch2 = [ch EXCEPT ![c] = d]
  BY <1>2, <1>3, <1>5 DEF Delivers
<1>8. ch2[c] = d /\ \A e \in Channel : e # c => ch2[e] = ch[e]
  BY <1>7
<1>9. Len(q) \in Nat /\ Len(p) \in Nat /\ Len(q) = Len(p) + 1
  BY <1>4 DEF Shrunk
<1>10. \A j \in 1..Len(q) : j = 1 \/ (j - 1 \in 1..Len(p) /\ p[j - 1] = q[j])
  <2> TAKE j \in 1..Len(q)
  <2>1. j = 1 \/ (j - 1 \in 1..Len(p) /\ (j - 1) + 1 = j)
    BY <1>9
  <2> QED
    BY <1>4, <2>1 DEF Shrunk
<1>11. ASSUME NEW y, Arriving(ch, y) PROVE Arriving(ch2, y) \/ y = q[1][1]
  <2>1. PICK e \in Channel : ch[e].rx = "attached" /\ \E j \in 1..Len(ch[e].wire) : ch[e].wire[j][1] = y
    BY <1>11 DEF Arriving
  <2>2. PICK j \in 1..Len(ch[e].wire) : ch[e].wire[j][1] = y
    BY <2>1
  <2>3. CASE e # c
    BY <1>8, <2>1, <2>2, <2>3 DEF Arriving
  <2>4. CASE e = c
    <3>1. j = 1 \/ (j - 1 \in 1..Len(p) /\ p[j - 1][1] = y)
      BY <1>2, <1>10, <2>2, <2>4
    <3>2. CASE j = 1
      BY <1>2, <2>2, <2>4, <3>2
    <3>3. CASE j - 1 \in 1..Len(p) /\ p[j - 1][1] = y
      BY <1>6, <1>8, <2>1, <2>4, <3>3 DEF Arriving
    <3> QED
      BY <3>1, <3>2, <3>3
  <2> QED
    BY <2>3, <2>4
<1>12. \A e \in Channel : /\ ch2[e].st = ch[e].st /\ ch2[e].rx = ch[e].rx
                          /\ ch2[e].wire # << >> => ch[e].wire # << >>
  BY <1>6, <1>8
<1> QED
  BY <1>2, <1>4, <1>11, <1>12

\* A chunk arrives: it is stored, was there before, or the transfer has ended.
LEMMA FrameStored ==
    ASSUME IndInv, Calm, NEW c \in Channel, FrameArrives(c), NEW x, x = Head(chan[c].wire)[1], ~ Early(rcv)
    PROVE  /\ rcv'.state = rcv.state /\ rcv'.senderDone = rcv.senderDone /\ rcv'.closed = rcv.closed
           /\ ClaimInv(rcv') /\ Keeps(rcv, rcv')
           /\ rcv'.received[x] # Unread \/ Over(rcv)
<1>1. /\ rcv \in RcvType /\ chan \in [Channel -> ChanType] /\ ClaimInv(rcv) /\ SinkBase(opts, rcv, sink)
  BY CalmReceiver, ReceiverFacts
<1>2. chan[c].wire # << >> /\ Delivers(chan, c, chan')
  BY DEF FrameArrives, Delivers
<1>3. PICK f : f = Head(chan[c].wire)
  OBVIOUS
<1>4. f \in Frame
  BY <1>1, <1>2, <1>3, WireShrinks
<1>5. f[1] = x /\ x \in Chunk /\ f[2] \in Version /\ f[2] # Unread
  BY <1>3, <1>4, BoundsAssumption DEF Frame, Version, Unread
<1>6. CASE ~ (rcv.state \notin Terminal /\ sink.given /\ rcv.received[x] = Unread)
  <2>1. rcv' = rcv
    BY <1>3, <1>5, <1>6 DEF FrameArrives
  <2>2. rcv.received[x] # Unread \/ Over(rcv)
    BY <1>6, PastOffer DEF Over
  <2> QED
    BY <1>1, <2>1, <2>2 DEF Keeps
<1>7. CASE rcv.state \notin Terminal /\ sink.given /\ rcv.received[x] = Unread
  <2>1. rcv' = Claimed([rcv EXCEPT !.received[x] = f[2], !.chain = Append(@, f)])
    BY <1>3, <1>5, <1>7 DEF FrameArrives
  <2>2. PICK received \in Content : received = [rcv.received EXCEPT ![x] = f[2]]
    BY <1>1, <1>5 DEF RcvType, Content
  <2>3. PICK chain \in Frames : chain = Append(rcv.chain, f)
    <3>1. rcv.chain \in Seq(Frame)
      BY <1>1 DEF RcvType, Frames
    <3> QED
      BY <1>4, <3>1, Appending DEF Frames
  <2>4. PICK d : d = [rcv EXCEPT !.received = received, !.chain = chain]
    OBVIOUS
  <2>5. rcv' = Claimed(d)
    BY <1>1, <2>1, <2>2, <2>3, <2>4 DEF RcvType
  <2>6. /\ d \in RcvType /\ d.state = rcv.state /\ d.received = received /\ d.senderDone = rcv.senderDone
        /\ d.closed = rcv.closed /\ d.completing = rcv.completing
    BY <1>1, <2>4 DEF RcvType
  <2>7. rcv.completing = "no" /\ rcv.state # "paused"
    BY <1>1, <1>5, <1>7 DEF SinkBase, Full, ClaimInv
  <2>8. /\ ClaimInv(rcv') /\ rcv'.state = d.state /\ rcv'.received = received
        /\ rcv'.senderDone = d.senderDone /\ rcv'.closed = d.closed
    BY <2>5, <2>6, <2>7, ClaimingCalm
  <2>9. rcv.received \in Content
    BY <1>1 DEF RcvType
  <2>10. received[x] = f[2] /\ \A y \in Chunk : y # x => received[y] = rcv.received[y]
    BY <1>5, <2>2, <2>9 DEF Content
  <2>11. Keeps(rcv, rcv') /\ rcv'.received[x] # Unread
    BY <1>5, <2>8, <2>10 DEF Keeps
  <2> QED
    BY <2>6, <2>8, <2>11
<1> QED
  BY <1>6, <1>7

\* So the second invariant survives it.
LEMMA FrameArrivesCalm ==
    ASSUME IndInv, Calm, NEW c \in Channel, FrameArrives(c)
    PROVE  Onward
<1>1. /\ snd \in SndType /\ chan \in [Channel -> ChanType]
      /\ toS \in Seq(ToSMsg) /\ toR \in Seq(ToRMsg)
      /\ Lines(snd, chan) /\ BindInv(rcv, chan)
      /\ rcv.closed => rcv.state = "idle"
      /\ Early(rcv) => NoFrames(chan)
      /\ snd.state = "idle" => rcv.state = "idle"
      /\ CalmOf(snd, rcv, sink, chan, up, toS, toR)
  BY CalmReceiver
<1>2. chan[c].wire # << >> /\ Delivers(chan, c, chan') /\ UNCHANGED <<snd, sink, up, toS, toR>>
  BY DEF FrameArrives, Delivers
<1>3. ~ Early(rcv)
  BY <1>1, <1>2 DEF NoFrames
<1>4. PICK x : x = Head(chan[c].wire)[1]
  OBVIOUS
<1>5. /\ rcv'.state = rcv.state /\ rcv'.senderDone = rcv.senderDone /\ rcv'.closed = rcv.closed
      /\ ClaimInv(rcv') /\ Keeps(rcv, rcv')
      /\ rcv'.received[x] # Unread \/ Over(rcv)
  BY <1>3, <1>4, FrameStored
<1>6. /\ \A e \in Channel : /\ chan'[e].st = chan[e].st /\ chan'[e].rx = chan[e].rx
                            /\ chan'[e].wire # << >> => chan[e].wire # << >>
      /\ \A y : Arriving(chan, y) => Arriving(chan', y) \/ y = x
  BY <1>1, <1>2, <1>4, WireShrinks
<1>7. (Over(rcv) <=> Over(rcv')) /\ ~ Early(rcv')
  BY <1>3, <1>5 DEF Over, Early
<1>8. BindInv(rcv', chan')
  BY <1>1, <1>5, <1>6, <1>7 DEF BindInv, Bound
<1>9. Lines(snd, chan')
  <2>1. snd.batch \in Batches
    BY <1>1 DEF SndType
  <2> QED
    BY <1>1, <1>6, <2>1, BatchChannels DEF Lines
<1>10. Fewer(toR, toR) /\ Replies(rcv', up, toR, toS, toS)
  BY DEF Fewer, Replies
<1>11. (Sent(rcv', toR) <=> Sent(rcv, toR)) /\ (Unoffered(rcv, toR) => Unoffered(rcv', toR))
  BY <1>5 DEF Sent, Unoffered
<1>12. CalmOf(snd, rcv', sink, chan', up, toS, toR)
  BY <1>1, <1>5, <1>7, <1>8, <1>9, <1>10, <1>11, ReceiverCalm
<1>13. Calm'
  BY <1>2, <1>12 DEF Calm
<1>14. \A y \in Chunk : Got(rcv, chan, y) => Got(rcv', chan', y)
  BY <1>5, <1>6, <1>7 DEF Got, Keeps
<1>15. Delivery(snd, rcv, chan) => Delivery(snd', rcv', chan')
  BY <1>2, <1>14 DEF Delivery
<1> QED
  BY <1>13, <1>15 DEF Onward

-----------------------------------------------------------------------------
(* The receiver and its messages *)

\* The manager refuses the offer.
Refuses ==
    /\ chan' = Discarded(chan) /\ rcv' = [rcv EXCEPT !.ttl = FALSE]
    /\ toS' = Posted(toS, <<Plain("reject")>>)

\* No other offer is on its way then.
LEMMA OfferRefusedCalm ==
    ASSUME IndInv, Calm, UNCHANGED <<snd, sink, up>>, toR' \in Seq(ToRMsg), Shrunk(toR, toR'),
           toR[1].type = "offer", rcv.state = "idle", Refuses
    PROVE  Onward
<1>1. /\ snd \in SndType /\ rcv \in RcvType /\ chan \in [Channel -> ChanType]
      /\ toS \in Seq(ToSMsg) /\ toR \in Seq(ToRMsg)
      /\ Lines(snd, chan) /\ BindInv(rcv, chan) /\ ClaimInv(rcv)
      /\ Early(rcv) => ~ Sent(rcv, toR) /\ NoFrames(chan) /\ OfferOnce(toR)
                       /\ (rcv.state # "accepted" => ~ sink.given)
      /\ snd.state = "idle" => toR = << >>
      /\ CalmOf(snd, rcv, sink, chan, up, toS, toR)
  BY CalmReceiver
<1>2. /\ rcv'.state = "idle" /\ rcv'.received = rcv.received /\ rcv'.senderDone = rcv.senderDone
      /\ rcv'.completing = rcv.completing
  BY <1>1 DEF RcvType, Refuses
<1>3. Early(rcv) /\ Early(rcv') /\ ~ Over(rcv) /\ ~ Over(rcv')
  BY <1>2 DEF Early, Over, Terminal
<1>4. /\ \A t : Has(toR', t) => Has(toR, t)
      /\ ~ Has(toR', "offer") /\ toR # << >>
  BY <1>1, <1>3, HasTaken
<1>5. Unoffered(rcv', toR')
  BY <1>2, <1>4 DEF Unoffered
<1>6. BindInv(rcv, chan') /\ Lines(snd, chan') /\ NoFrames(chan')
      /\ \A x : Arriving(chan, x) => Arriving(chan', x)
  BY <1>1, <1>3, DiscardedCalm DEF Refuses
<1>7. BindInv(rcv', chan')
  BY <1>2, <1>3, <1>6 DEF BindInv, Bound
<1>8. ClaimInv(rcv') /\ Keeps(rcv, rcv')
  BY <1>1, <1>2 DEF ClaimInv, Keeps, Over
<1>9. PICK m \in ToSMsg : m = Plain("reject") /\ m.type = "reject"
  BY ReceiverMessages DEF Fatal
<1>10. toS' \in Seq(ToSMsg) /\ Post(up, toS, m, toS')
  BY <1>1, <1>9, PostOne DEF Refuses
<1>11. Replies(rcv', up, toR', toS, toS') /\ Fewer(toR, toR')
  BY <1>5, <1>9, <1>10 DEF Replies, Fewer, Fatal, Answer
<1>12. ~ Sent(rcv', toR') /\ ~ Sent(rcv, toR)
  BY <1>1, <1>2, <1>3, <1>4, SentHas
<1>13. Early(rcv') => /\ Early(rcv) /\ NoFrames(chan')
                      /\ rcv'.state # "accepted" => ~ sink.given
                      /\ rcv'.state # "idle" => ~ Has(toR', "offer")
  BY <1>1, <1>2, <1>3, <1>6
<1>14. snd.state # "idle" /\ rcv'.state # "completed"
  BY <1>1, <1>2, <1>4
<1>15. CalmOf(snd, rcv', sink, chan', up, toS', toR')
  <2>1. /\ snd \in SndType /\ toS \in Seq(ToSMsg) /\ toR \in Seq(ToRMsg)
        /\ CalmOf(snd, rcv, sink, chan, up, toS, toR) /\ Lines(snd, chan')
    BY <1>1, <1>6
  <2> QED
    BY <1>2, <1>3, <1>5, <1>7, <1>8, <1>10, <1>11, <1>12, <1>13, <1>14, <2>1, ReceiverCalm
<1>16. Calm'
  BY <1>15 DEF Calm
<1>17. \A y \in Chunk : Got(rcv, chan, y) => Got(rcv', chan', y)
  BY <1>2, <1>3, <1>6 DEF Got
<1>18. Delivery(snd, rcv, chan) => Delivery(snd', rcv', chan')
  BY <1>17 DEF Delivery
<1> QED
  BY <1>16, <1>18 DEF Onward

\* The manager takes the offer up, with the channels that came before it.
LEMMA OfferTakenCalm ==
    ASSUME IndInv, Calm, UNCHANGED <<snd, sink, up, toS>>, toR' \in Seq(ToRMsg), Shrunk(toR, toR'),
           toR[1].type = "offer", rcv.state = "idle", chan' = PendingAttached(chan),
           rcv' = [rcv EXCEPT !.state = "offered", !.ttl = FALSE], ~ rcv.closed
    PROVE  Onward
<1>1. /\ snd \in SndType /\ rcv \in RcvType /\ chan \in [Channel -> ChanType]
      /\ toS \in Seq(ToSMsg) /\ toR \in Seq(ToRMsg)
      /\ Lines(snd, chan) /\ BindInv(rcv, chan) /\ ClaimInv(rcv)
      /\ Early(rcv) => ~ Sent(rcv, toR) /\ NoFrames(chan) /\ OfferOnce(toR)
                       /\ (rcv.state # "accepted" => ~ sink.given)
      /\ snd.state = "idle" => toR = << >>
      /\ CalmOf(snd, rcv, sink, chan, up, toS, toR)
  BY CalmReceiver
<1>2. /\ rcv'.state = "offered" /\ rcv'.received = rcv.received /\ rcv'.senderDone = rcv.senderDone
      /\ rcv'.completing = rcv.completing /\ ~ rcv'.closed
  BY <1>1 DEF RcvType
<1>3. Early(rcv) /\ Early(rcv') /\ ~ Over(rcv) /\ ~ Over(rcv')
  BY <1>2 DEF Early, Over, Terminal
<1>4. /\ \A t : Has(toR', t) => Has(toR, t)
      /\ \A t : Has(toR, t) => Has(toR', t) \/ toR[1].type = t
      /\ ~ Has(toR', "offer") /\ toR # << >> /\ Has(toR, "offer")
  BY <1>1, <1>3, HasTaken
<1>5. ~ Unoffered(rcv, toR) /\ (Has(toR, "cancel") => Has(toR', "cancel"))
  BY <1>4 DEF Unoffered
<1>6. \A c \in Channel : /\ chan'[c].st = chan[c].st /\ chan'[c].wire = chan[c].wire
                         /\ chan'[c].rx # "pending" /\ (chan'[c].rx = "none" => chan[c].rx = "none")
  <2>1. ASSUME NEW c \in Channel
        PROVE  /\ chan'[c].st = chan[c].st /\ chan'[c].wire = chan[c].wire
               /\ chan'[c].rx # "pending" /\ (chan'[c].rx = "none" => chan[c].rx = "none")
    <3>1. chan[c] \in ChanType
      BY <1>1
    <3>2. PICK d : d = [chan[c] EXCEPT !.rx = "attached"]
      OBVIOUS
    <3>3. d.rx = "attached" /\ d.st = chan[c].st /\ d.wire = chan[c].wire
      BY <3>1, <3>2 DEF ChanType
    <3> QED
      BY <3>2, <3>3 DEF PendingAttached
  <2> QED
    BY <2>1
<1>7. NoFrames(chan) /\ NoFrames(chan')
  BY <1>1, <1>3, <1>6 DEF NoFrames
<1>8. BindInv(rcv', chan')
  BY <1>1, <1>6, <1>7 DEF BindInv, Bound, NoFrames
<1>9. Lines(snd, chan')
  <2>1. snd.batch \in Batches
    BY <1>1 DEF SndType
  <2> QED
    BY <1>1, <1>6, <2>1, BatchChannels DEF Lines
<1>10. ~ Sent(rcv', toR') /\ ~ Sent(rcv, toR)
  BY <1>1, <1>2, <1>3, <1>4, SentHas
<1>11. ClaimInv(rcv') /\ Keeps(rcv, rcv')
  <2>1. ~ rcv.senderDone /\ rcv.completing = "no"
    BY <1>3, <1>10, PastOffer DEF Sent
  <2> QED
    BY <1>2, <2>1 DEF ClaimInv, Keeps
<1>12. Fewer(toR, toR') /\ Replies(rcv', up, toR', toS, toS)
  BY DEF Replies, Fewer
<1>13. Early(rcv') => /\ Early(rcv) /\ NoFrames(chan')
                      /\ rcv'.state # "accepted" => ~ sink.given
                      /\ rcv'.state # "idle" => ~ Has(toR', "offer")
  BY <1>1, <1>3, <1>4, <1>7
<1>14. snd.state # "idle" /\ rcv'.state # "completed"
  BY <1>1, <1>2, <1>4
<1>15. CalmOf(snd, rcv', sink, chan', up, toS, toR')
  BY <1>1, <1>2, <1>3, <1>5, <1>8, <1>9, <1>10, <1>11, <1>12, <1>13, <1>14, ReceiverCalm
<1>16. Calm'
  BY <1>15 DEF Calm
<1>17. \A y : ~ Arriving(chan, y)
  <2>1. Len(<< >>) = 0
    OBVIOUS
  <2> QED
    BY <1>7, <2>1 DEF NoFrames, Arriving
<1>18. \A y \in Chunk : Got(rcv, chan, y) => Got(rcv', chan', y)
  BY <1>2, <1>3, <1>17 DEF Got
<1>19. Delivery(snd, rcv, chan) => Delivery(snd', rcv', chan')
  BY <1>18 DEF Delivery
<1> QED
  BY <1>16, <1>19 DEF Onward

\* A re-offer is answered by a transfer that goes on, and falls on deaf ears after it.
LEMMA OfferRepeatedCalm ==
    ASSUME IndInv, Calm, UNCHANGED <<snd, up>>, toR' \in Seq(ToRMsg), Shrunk(toR, toR'),
           toR[1].type = "offer", rcv.state # "idle", NEW msgs, ReceiverBecomes(rcv, sink, msgs),
           rcv.state \in Terminal => msgs = << >>,
           rcv.state \notin Terminal \cup {"offered"} => msgs = <<Having("resume-request")>>
    PROVE  Onward
<1>1. /\ rcv \in RcvType /\ sink \in SinkType /\ toS \in Seq(ToSMsg) /\ toR \in Seq(ToRMsg)
      /\ ClaimInv(rcv) /\ (Early(rcv) => (rcv.state # "idle" => ~ Has(toR, "offer")))
  BY CalmReceiver
<1>2. /\ \A t : Has(toR', t) => Has(toR, t)
      /\ \A t : Has(toR, t) => Has(toR', t) \/ t = "offer"
      /\ Has(toR, "offer")
  BY <1>1, HasTaken
<1>3. Fewer(toR, toR') /\ ~ Early(rcv)
  BY <1>1, <1>2 DEF Fewer
<1>4. CASE rcv.state \in Terminal
  <2>1. Farewell(<< >>) /\ ReceiverBecomes(rcv, sink, << >>)
    BY <1>4, Farewells
  <2> QED
    BY <1>1, <1>3, <1>4, <2>1, ReceiverEndsCalm
<1>5. CASE rcv.state \notin Terminal
  <2>1. msgs = <<Having("resume-request")>>
    BY <1>3, <1>5 DEF Early
  <2>2. rcv' = rcv /\ chan' = chan /\ toS' = Posted(toS, <<Having("resume-request")>>)
    BY <1>1, <1>5, <2>1, Settling
  <2>3. toS' \in Seq(ToSMsg) /\ Replies(rcv, up, toR', toS, toS')
    BY <1>3, <2>2, Answering
  <2>4. (Has(toR, "cancel") => Has(toR', "cancel")) /\ (Sent(rcv, toR) <=> Sent(rcv, toR'))
    BY <1>2, SentHas
  <2> QED
    BY <1>1, <1>3, <1>5, <2>2, <2>3, <2>4, ReceiverMovesCalm
<1> QED
  BY <1>4, <1>5

\* Sent may be the last thing completion waited for.
LEMMA SentTakenCalm ==
    ASSUME IndInv, Calm, UNCHANGED <<snd, up>>, toR' \in Seq(ToRMsg), Shrunk(toR, toR'),
           toR[1].type = "sent", rcv.state \notin Terminal \cup {"idle"},
           ReceiverBecomes(OnMessage(toR[1]), sink, << >>)
    PROVE  Onward
<1>1. /\ rcv \in RcvType /\ sink \in SinkType /\ toS \in Seq(ToSMsg) /\ toR \in Seq(ToRMsg)
      /\ ClaimInv(rcv) /\ (Early(rcv) => ~ Sent(rcv, toR))
  BY CalmReceiver
<1>2. /\ \A t : Has(toR', t) => Has(toR, t)
      /\ \A t : Has(toR, t) => Has(toR', t) \/ t = "sent"
      /\ Has(toR, "sent")
  BY <1>1, HasTaken
<1>3. Sent(rcv, toR) /\ ~ Early(rcv)
  BY <1>1, <1>2, SentHas
<1>4. 1 \in 1..Len(toR)
  BY <1>1 DEF Shrunk
<1>5. ~ rcv.senderDone /\ SinkBase(opts, rcv, sink)
  BY <1>4, ReceiverFacts DEF IndInv, SentInv
<1>6. PICK m \in ToRMsg : m = toR[1] /\ m.type = "sent"
  BY <1>1, <1>4
<1>7. PICK r : r = [rcv EXCEPT !.senderDone = TRUE, !.expected = m.digest]
  OBVIOUS
<1>8. m.digest \in Content
  BY <1>6 DEF ToRMsg
<1>9. /\ r \in RcvType /\ r.state = rcv.state /\ r.received = rcv.received /\ r.senderDone
      /\ r.closed = rcv.closed /\ r.completing = rcv.completing
  BY <1>1, <1>7, <1>8 DEF RcvType
<1>10. r.completing = "no" /\ r.state # "paused"
  BY <1>1, <1>5, <1>9 DEF SinkBase, ClaimInv
<1>11. PICK d : d = Claimed(r)
  OBVIOUS
<1>12. /\ d \in RcvType /\ ClaimInv(d) /\ d.state = r.state /\ d.received = r.received
       /\ d.senderDone = r.senderDone /\ d.closed = r.closed
  BY <1>9, <1>10, <1>11, ClaimingCalm
<1>13. ReceiverBecomes(d, sink, << >>)
  BY <1>6, <1>7, <1>11, OnMessageCases
<1>14. d.state \notin Terminal \cup {"idle"} /\ ~ Early(d)
  BY <1>3, <1>9, <1>12 DEF Early
<1>15. rcv' = d /\ chan' = chan /\ toS' = toS
  BY <1>1, <1>12, <1>13, <1>14, Settling, PostNone
<1>16. Fewer(toR, toR') /\ Replies(d, up, toR', toS, toS')
  BY <1>15 DEF Fewer, Replies
<1>17. Has(toR, "cancel") => Has(toR', "cancel")
  BY <1>2
<1>18. Sent(d, toR')
  BY <1>9, <1>12 DEF Sent
<1> QED
  BY <1>1, <1>3, <1>9, <1>12, <1>14, <1>15, <1>16, <1>17, <1>18, ReceiverMovesCalm

\* A message that says nothing to the receiver: before its offer, or a pause or resume.
LEMMA IgnoredCalm ==
    ASSUME IndInv, Calm, UNCHANGED <<snd, rcv, sink, chan, up, toS>>, toR' \in Seq(ToRMsg),
           Shrunk(toR, toR'), rcv.state \notin Terminal, toR[1].type \notin {"offer", "sent"},
           toR[1].type = "cancel" => rcv.state = "idle"
    PROVE  Onward
<1>1. /\ snd \in SndType /\ toS \in Seq(ToSMsg) /\ toR \in Seq(ToRMsg)
      /\ Lines(snd, chan) /\ BindInv(rcv, chan) /\ ClaimInv(rcv)
      /\ rcv.closed => rcv.state = "idle"
      /\ Early(rcv) => /\ NoFrames(chan)
                       /\ rcv.state # "accepted" => ~ sink.given
                       /\ rcv.state # "idle" => ~ Has(toR, "offer")
      /\ snd.state = "idle" => rcv.state = "idle"
      /\ CalmOf(snd, rcv, sink, chan, up, toS, toR)
  BY CalmReceiver
<1>2. OffersFirst(toR)
  BY DEF Calm, CalmOf, RefusedInv
<1>3. /\ \A t : Has(toR', t) => Has(toR, t)
      /\ \A t : Has(toR, t) => Has(toR', t) \/ toR[1].type = t
      /\ toR[1].type = "cancel" => ~ Has(toR', "offer")
  BY <1>1, <1>2, HasTaken
<1>4. Unoffered(rcv, toR) => Unoffered(rcv, toR')
  BY <1>3 DEF Unoffered
<1>5. Has(toR, "cancel") => Has(toR', "cancel") \/ Unoffered(rcv, toR')
  BY <1>3 DEF Unoffered
<1>6. Sent(rcv, toR) <=> Sent(rcv, toR')
  BY <1>3, SentHas
<1>7. Fewer(toR, toR') /\ Replies(rcv, up, toR', toS, toS) /\ Keeps(rcv, rcv)
  BY DEF Fewer, Replies, Keeps
<1>8. Early(rcv) => /\ NoFrames(chan)
                    /\ rcv.state # "accepted" => ~ sink.given
                    /\ rcv.state # "idle" => ~ Has(toR', "offer")
  BY <1>1, <1>3
<1>9. CalmOf(snd, rcv, sink, chan, up, toS, toR')
  BY <1>1, <1>4, <1>5, <1>6, <1>7, <1>8, ReceiverCalm
<1>10. Calm'
  BY <1>9 DEF Calm
<1> QED
  BY <1>10 DEF Onward, Delivery, Got, Arriving

\* A control message that the receiver takes.
LEMMA ReceiverControlCalm ==
    ASSUME IndInv, Calm, ReceiverControl
    PROVE  Onward
<1>1. /\ rcv \in RcvType /\ sink \in SinkType /\ toS \in Seq(ToSMsg) /\ toR \in Seq(ToRMsg)
      /\ Early(rcv) => ~ Sent(rcv, toR)
  BY CalmReceiver
<1>2. UNCHANGED <<snd, up>> /\ toR' = Tail(toR) /\ toR # << >> /\ ~ rcv.closed
  BY DEF ReceiverControl
<1>3. toR' \in Seq(ToRMsg) /\ Shrunk(toR, toR') /\ Head(toR) = toR[1]
  BY <1>1, <1>2, Shrinking
<1>4. CASE toR[1].type = "offer"
  <2>1. OnOffer
    BY <1>3, <1>4 DEF ReceiverControl
  <2>2. CASE rcv.state = "idle" /\ UNCHANGED sink /\ Refuses
    BY <1>2, <1>3, <1>4, <2>2, OfferRefusedCalm
  <2>3. CASE /\ rcv.state = "idle"
             /\ rcv' = [rcv EXCEPT !.state = "offered", !.ttl = FALSE]
             /\ chan' = PendingAttached(chan)
             /\ UNCHANGED <<sink, toS>>
    BY <1>2, <1>3, <1>4, <2>3, OfferTakenCalm
  <2>4. CASE /\ rcv.state # "idle"
             /\ ReceiverBecomes(rcv, sink,
                   IF rcv.state \in Terminal \cup {"offered"} THEN <<>> ELSE <<Having("resume-request")>>)
    <3>1. PICK msgs : msgs = IF rcv.state \in Terminal \cup {"offered"} THEN <<>> ELSE <<Having("resume-request")>>
      OBVIOUS
    <3>2. /\ rcv.state \in Terminal => msgs = << >>
          /\ rcv.state \notin Terminal \cup {"offered"} => msgs = <<Having("resume-request")>>
      BY <3>1
    <3>3. ReceiverBecomes(rcv, sink, msgs)
      BY <2>4, <3>1
    <3> QED
      BY <1>2, <1>3, <1>4, <2>4, <3>2, <3>3, OfferRepeatedCalm
  <2> QED
    BY <2>1, <2>2, <2>3, <2>4 DEF OnOffer, Refuses
<1>5. CASE toR[1].type # "offer"
  <2>1. PICK m : m = toR[1]
    OBVIOUS
  <2>2. ReceiverBecomes(OnMessage(m), sink, << >>)
    BY <1>3, <1>5, <2>1 DEF ReceiverControl
  <2>3. Farewell(<< >>) /\ Fewer(toR, toR')
    BY <1>3, Farewells DEF Fewer
  <2>4. CASE rcv.state \in Terminal
    <3>1. OnMessage(m) = rcv /\ rcv.state # "idle"
      BY <2>4, OnMessageCases DEF Terminal
    <3> QED
      BY <1>1, <1>2, <1>3, <2>2, <2>3, <2>4, <3>1, ReceiverEndsCalm
  <2>5. CASE rcv.state \notin Terminal \cup {"idle"} /\ m.type = "sent"
    BY <1>2, <1>3, <2>1, <2>2, <2>5, SentTakenCalm
  <2>6. CASE rcv.state \notin Terminal \cup {"idle"} /\ m.type = "cancel"
    <3>1. PICK d : d = Cancelled(rcv)
      OBVIOUS
    <3>2. OnMessage(m) = d
      BY <2>6, <3>1, OnMessageCases
    <3>3. d \in RcvType /\ d.state \in Terminal /\ SameSide(rcv, d) /\ (d.state = "completed" => rcv.state = "completed")
      BY <1>1, <3>1, Failing DEF GivenUp
    <3>4. rcv.state # "idle"
      BY <2>6
    <3> QED
      BY <1>1, <1>2, <1>3, <2>2, <2>3, <3>2, <3>3, <3>4, ReceiverEndsCalm DEF SameSide
  <2>7. CASE rcv.state \notin Terminal /\ (rcv.state = "idle" \/ m.type \notin {"sent", "cancel"})
    <3>1. OnMessage(m) = rcv
      BY <2>7, OnMessageCases
    <3>2. UNCHANGED <<rcv, sink, chan, toS>>
      BY <1>1, <2>2, <2>7, <3>1, Settling, PostNone
    <3>3. m.type # "sent"
      <4>1. Has(toR, m.type)
        BY <1>1, <1>3, <2>1, HasTaken
      <4>2. rcv.state = "idle" => ~ Has(toR, "sent")
        BY <1>1, SentHas DEF Early
      <4> QED
        BY <2>7, <4>1, <4>2
    <3> QED
      BY <1>2, <1>3, <1>5, <2>1, <2>7, <3>2, <3>3, IgnoredCalm
  <2> QED
    BY <2>4, <2>5, <2>6, <2>7
<1> QED
  BY <1>4, <1>5

-----------------------------------------------------------------------------
(* The environment *)

\* Channels are lost with their frames.
LEMMA DroppedLinks ==
    ASSUME NEW ch \in [Channel -> ChanType], NEW lost, NEW ch2, ch2 = Dropped(ch, lost)
    PROVE  /\ \A s \in SndType : Lines(s, ch) => Lines(s, ch2)
           /\ \A r : BindInv(r, ch) => BindInv(r, ch2)
           /\ NoFrames(ch) => NoFrames(ch2)
<1>1. \A c \in Channel : \/ ch2[c] = ch[c]
                         \/ /\ ch2[c].st = "closed" /\ ch2[c].rx = ch[c].rx /\ ch2[c].wire = << >>
  <2>1. ASSUME NEW c \in Channel, ch2[c] # ch[c]
        PROVE  ch2[c].st = "closed" /\ ch2[c].rx = ch[c].rx /\ ch2[c].wire = << >>
    <3>1. ch[c] \in ChanType
      OBVIOUS
    <3>2. PICK d : d = [ch[c] EXCEPT !.st = "closed", !.wire = << >>]
      OBVIOUS
    <3>3. d.st = "closed" /\ d.rx = ch[c].rx /\ d.wire = << >>
      BY <3>1, <3>2 DEF ChanType
    <3>4. ch2[c] = d \/ ch2[c] = ch[c]
      BY <3>2 DEF Dropped
    <3> QED
      BY <2>1, <3>3, <3>4
  <2> QED
    BY <2>1
<1>2. ASSUME NEW s \in SndType, Lines(s, ch) PROVE Lines(s, ch2)
  <2>1. s.batch \in Batches
    BY DEF SndType
  <2> QED
    BY <1>1, <1>2, <2>1, BatchChannels DEF Lines
<1>3. ASSUME NEW r, BindInv(r, ch) PROVE BindInv(r, ch2)
  <2>1. ASSUME NEW c \in Channel PROVE Bound(r, ch2[c])
    <3>1. Bound(r, ch[c])
      BY <1>3 DEF BindInv
    <3>2. CASE ch2[c] = ch[c]
      BY <3>1, <3>2
    <3>3. CASE ch2[c].st = "closed" /\ ch2[c].rx = ch[c].rx /\ ch2[c].wire = << >>
      BY <3>1, <3>3 DEF Bound
    <3> QED
      BY <1>1, <3>2, <3>3
  <2> QED
    BY <2>1 DEF BindInv
<1>4. NoFrames(ch) => NoFrames(ch2)
  BY <1>1 DEF NoFrames
<1> QED
  BY <1>2, <1>3, <1>4

\* A channel fails.
LEMMA ChannelDropsCalm ==
    ASSUME IndInv, Calm, NEW c \in Channel, ChannelDrops(c)
    PROVE  Calm'
<1>1. snd \in SndType /\ chan \in [Channel -> ChanType] /\ CalmOf(snd, rcv, sink, chan, up, toS, toR)
  BY CalmReceiver
<1>2. UNCHANGED <<snd, rcv, sink, up, toS, toR>> /\ chan' = Dropped(chan, {c})
  BY DEF ChannelDrops
<1>3. /\ Lines(snd, chan) => Lines(snd, chan')
      /\ BindInv(rcv, chan) => BindInv(rcv, chan')
      /\ NoFrames(chan) => NoFrames(chan')
  BY <1>1, <1>2, DroppedLinks
<1>4. CalmOf(snd, rcv, sink, chan', up, toS, toR)
  BY <1>1, <1>3 DEF CalmOf, EarlyInv
<1> QED
  BY <1>2, <1>4 DEF Calm

\* The connection is replaced: no message is on its way any more.
LEMMA ConnectionDropsCalm ==
    ASSUME IndInv, Calm, ConnectionDrops
    PROVE  Calm'
<1>1. snd \in SndType /\ chan \in [Channel -> ChanType]
  BY CalmReceiver
<1>2. /\ Waits(snd) /\ Lines(snd, chan) /\ EarlyInv(snd, rcv, sink, chan, toS, toR)
      /\ RefusedInv(rcv, toS, toR) /\ SentAll(snd, rcv, up, toR)
      /\ ClaimInv(rcv) /\ BindInv(rcv, chan) /\ Haves(snd, rcv, toS)
  BY DEF Calm, CalmOf
<1>3. /\ UNCHANGED <<snd, rcv, sink>> /\ chan' = Dropped(chan, Channel) /\ snd.state # "idle"
      /\ up' = FALSE /\ toS' = << >> /\ toR' = << >>
  BY DEF ConnectionDrops
<1>4. Lines(snd, chan') /\ BindInv(rcv, chan') /\ (NoFrames(chan) => NoFrames(chan'))
  BY <1>1, <1>2, <1>3, DroppedLinks
<1>5. PICK e : e = << >> /\ Len(e) = 0
  OBVIOUS
<1>6. /\ \A t : ~ Has(e, t)
      /\ OfferOnce(e) /\ OffersFirst(e) /\ Refusals(e)
  BY <1>5, HasNone
<1>7. Sent(rcv, e) <=> rcv.senderDone
  BY <1>6, SentHas
<1>8. Sent(rcv, e) => Sent(rcv, toR)
  BY <1>7 DEF Sent
<1>9. EarlyInv(snd, rcv, sink, chan', e, e)
  BY <1>2, <1>4, <1>6, <1>8 DEF EarlyInv
<1>10. IdleInv(snd, rcv, e, e)
  BY <1>3 DEF IdleInv
<1>11. RefusedInv(rcv, e, e)
  BY <1>2, <1>6 DEF RefusedInv
<1>12. ToldInv(snd, rcv, FALSE, e, e)
  BY <1>5 DEF ToldInv
<1>13. SentAll(snd, rcv, FALSE, e)
  BY <1>2, <1>8 DEF SentAll
<1>14. Haves(snd, rcv, e)
  BY <1>2, <1>5 DEF Haves
<1>15. CalmOf(snd, rcv, sink, chan', FALSE, e, e)
  BY <1>2, <1>4, <1>9, <1>10, <1>11, <1>12, <1>13, <1>14 DEF CalmOf
<1> QED
  BY <1>3, <1>5, <1>15 DEF Calm

\* Calls and losses are counted.
LEMMA Counting ==
    ASSUME Counters
    PROVE  /\ env' = [env EXCEPT !.calls = @ + 1] => Counters' /\ env'.calls # 0
           /\ env' = [env EXCEPT !.drops = @ + 1] => Counters' /\ env'.drops # 0 /\ env'.calls = env.calls
BY DEF Counters

-----------------------------------------------------------------------------
(* The answer the sender waits for *)

\* The sender moves: it does not ask, or still does and the queues are as they were.
StillAsks ==
    Asks(snd') => /\ snd'.state = snd.state /\ snd'.run = snd.run /\ snd'.timer = snd.timer
                  /\ toS' = toS /\ toR' = toR

\* Such a step keeps the pledge.
LEMMA QuestionKept ==
    ASSUME Pledged, UNCHANGED <<opts, rcv, sink, up>>, StillAsks
    PROVE  Pledged'
BY DEF Pledged, Timely, Asks, StillAsks

\* A sender that ends asks no more.
LEMMA EndedAsks ==
    ASSUME IndInv, NEW s \in SndType, NEW msgs, SenderBecomes(s, msgs), s.state \in Terminal
    PROVE  ~ Asks(snd')
<1>1. chan \in [Channel -> ChanType]
  BY DEF IndInv, Typing
<1>2. Ended(s, snd')
  BY <1>1, Becoming
<1> QED
  BY <1>2 DEF Ended, Asks, Terminal

\* The timer fires, or the application cancels.
LEMMA GivingUpPledged ==
    ASSUME IndInv, Calm, OfferTimeout \/ SenderCancel
    PROVE  ~ Asks(snd')
<1>1. snd \in SndType /\ snd.timer \in Timers /\ Waits(snd)
  BY CalmSender DEF SndType
<1>2. CASE OfferTimeout
  <2>1. snd.timer = "offer" => snd.state = "offered"
    BY <1>1 DEF Waits
  <2>2. snd.timer # "offer" => snd.interrupted
    BY <1>1, <1>2 DEF Waits, Timers, OfferTimeout
  <2>3. PICK t : t = [snd EXCEPT !.timer = "off"]
    OBVIOUS
  <2>4. PICK d : d = Failed(t)
    OBVIOUS
  <2>5. SenderBecomes(d, <<Plain("cancel")>>)
    BY <1>2, <2>1, <2>2, <2>3, <2>4 DEF OfferTimeout
  <2>6. d \in SndType /\ d.state \in Terminal
    BY <1>1, <2>3, <2>4, GivingUp DEF GivenUp
  <2> QED
    BY <2>5, <2>6, EndedAsks
<1>3. CASE SenderCancel
  <2>1. snd = [snd EXCEPT !.timer = snd.timer]
    BY <1>1 DEF SndType
  <2>2. PICK d : d = Cancelled(snd)
    OBVIOUS
  <2>3. d \in SndType /\ d.state \in Terminal
    BY <1>1, <2>1, <2>2, GivingUp DEF GivenUp
  <2>4. SenderBecomes(d, <<Plain("cancel")>>)
    BY <1>3, <2>2 DEF SenderCancel
  <2> QED
    BY <2>3, <2>4, EndedAsks
<1> QED
  BY <1>2, <1>3

\* A message is an end or an answer that starts the run; any other comes too late.
LEMMA SenderControlPledged ==
    ASSUME IndInv, Calm, SenderControl
    PROVE  ~ Asks(snd')
<1>1. snd \in SndType /\ chan \in [Channel -> ChanType] /\ toS \in Seq(ToSMsg) /\ Waits(snd)
  BY CalmSender
<1>2. PICK m : m = toS[1] /\ m = Head(toS) /\ toS # << >>
  BY <1>1, Shrinking DEF SenderControl
<1>3. /\ m \in ToSMsg /\ m.type \notin {"pause", "resume"} /\ (m.type = "complete" => AllSent(snd))
      /\ Answer(m) => m.have \in Chunks
  BY <1>2, TakenMessage
<1>4. CASE Over(snd)
  <2>1. SenderBecomes(snd, << >>) /\ snd.state \in Terminal
    BY <1>4 DEF SenderControl, Over
  <2> QED
    BY <1>1, <2>1, EndedAsks
<1>5. CASE ~ Over(snd)
  <2>1. PICK t : t = [snd EXCEPT !.timer = "off"]
    OBVIOUS
  <2>2. /\ t \in SndType /\ t.state = snd.state /\ t.interrupted = snd.interrupted
        /\ t.run = snd.run
    BY <1>1, <2>1 DEF SndType, Timers
  <2>3. PICK d : d = Handled(t, m)
    OBVIOUS
  <2>4. SenderBecomes(d, << >>)
    BY <1>2, <1>5, <2>1, <2>3 DEF SenderControl, Over
  <2>5. /\ Answer(m) => d = IF MayBegin(t) THEN Running(t, m.have) ELSE t
        /\ m.type \in {"reject", "checksum-mismatch"} => d = Failed(t)
        /\ m.type = "complete" => d = [t EXCEPT !.state = After(@, "completed")]
        /\ m.type = "cancel" => d = Cancelled(t)
    BY <2>3, HandledCases DEF Answer
  <2>6. CASE m.type \in {"reject", "checksum-mismatch", "cancel"}
    <3>1. d \in SndType /\ d.state \in Terminal
      BY <1>1, <2>1, <2>5, <2>6, GivingUp DEF GivenUp
    <3> QED
      BY <2>4, <3>1, EndedAsks
  <2>7. CASE m.type = "complete"
    <3>1. snd.state = "completing"
      BY <1>3, <1>5, <2>7 DEF AllSent, Over
    <3>2. After("completing", "completed") = "completed"
      BY DEF After, LegalTransitions, Terminal
    <3>3. d = [t EXCEPT !.state = "completed"]
      BY <2>2, <2>5, <2>7, <3>1, <3>2
    <3>4. d \in SndType /\ d.state \in Terminal
      BY <2>2, <3>3 DEF SndType, State, Terminal
    <3> QED
      BY <2>4, <3>4, EndedAsks
  <2>8. CASE Answer(m) /\ MayBegin(t)
    <3>1. d = Running(t, m.have)
      BY <2>5, <2>8
    <3>2. d.state = "active" /\ d.run = "live"
      BY <2>2, <3>1 DEF Running, SndType
    <3>3. d \in SndType
      BY <1>3, <2>2, <2>8, <3>1, RunStarts
    <3>4. snd' = d
      BY <1>1, <2>4, <3>2, <3>3, Becoming DEF Terminal
    <3> QED
      BY <3>2, <3>4 DEF Asks
  <2>9. CASE Answer(m) /\ ~ MayBegin(t)
    <3>1. d = t
      BY <2>5, <2>9
    <3>2. snd.state # "offered" /\ snd.run # "reoffered"
      BY <1>1, <2>2, <2>9 DEF MayBegin, Waits
    <3>3. snd' = t
      BY <1>1, <1>5, <2>2, <2>4, <3>1, Becoming DEF Over
    <3> QED
      BY <2>2, <3>2, <3>3 DEF Asks
  <2> QED
    BY <1>3, <2>6, <2>7, <2>8, <2>9 DEF ToSMsg, Answer, Fatal
<1> QED
  BY <1>4, <1>5

\* A worker that throws ends or interrupts the run, or is one of an earlier run.
LEMMA WorkerThrowsPledged ==
    ASSUME IndInv, Calm, NEW i \in Worker, NEW lost, snd.pc[i] # "end", WorkerThrows(i, lost), toS' = toS
    PROVE  StillAsks
<1>1. snd \in SndType /\ chan \in [Channel -> ChanType] /\ toR \in Seq(ToRMsg) /\ Waits(snd)
  BY CalmSender
<1>2. ~ Over(snd)
  BY Busy
<1>3. PICK pc \in Pcs : pc = [snd.pc EXCEPT ![i] = "end"]
  BY <1>1 DEF SndType, Pcs, PcState
<1>4. CASE snd.run # "live"
  <2>1. PICK d : d = [snd EXCEPT !.pc[i] = "end"]
    OBVIOUS
  <2>2. d = [snd EXCEPT !.pc = pc]
    BY <1>1, <1>3, <2>1 DEF SndType
  <2>3. d \in SndType /\ d.state = snd.state /\ d.run = snd.run /\ d.timer = snd.timer
    BY <1>1, <2>2 DEF SndType
  <2>4. SenderBecomes(d, << >>)
    BY <1>4, <2>1 DEF WorkerThrows
  <2>5. snd' = d /\ toR' = toR
    BY <1>1, <1>2, <2>3, <2>4, Becoming, PostNone DEF Over
  <2> QED
    BY <2>3, <2>5 DEF StillAsks
<1>5. CASE snd.run = "live"
  <2>1. snd.state = "active"
    BY <1>1, <1>5 DEF Waits
  <2>2. PICK s : s = [snd EXCEPT !.pc[i] = "end", !.run = "dead"]
    OBVIOUS
  <2>3. s = [snd EXCEPT !.pc = pc, !.run = "dead"]
    BY <1>1, <1>3, <2>2 DEF SndType
  <2>4. s \in SndType /\ s.state = "active" /\ s.run = "dead"
    BY <1>1, <2>1, <2>3 DEF SndType, RunState
  <2>5. CASE lost /\ opts.resumable
    <3>1. PICK d : d = [s EXCEPT !.interrupted = (s.state = "active"),
                                 !.state = IF @ = "active" THEN "paused" ELSE @]
      OBVIOUS
    <3>2. d = [s EXCEPT !.interrupted = TRUE, !.state = "paused"]
      BY <2>4, <3>1 DEF SndType
    <3>3. d \in SndType /\ d.state = "paused" /\ d.run = "dead"
      BY <2>4, <3>2 DEF SndType, State, Terminal
    <3>4. SenderBecomes(d, << >>)
      BY <1>5, <2>2, <2>5, <3>1 DEF WorkerThrows
    <3>5. snd' = d
      BY <1>1, <3>3, <3>4, Becoming DEF Terminal
    <3> QED
      BY <3>3, <3>5 DEF StillAsks, Asks
  <2>6. CASE ~ (lost /\ opts.resumable)
    <3>1. PICK d : d = Failed(s)
      OBVIOUS
    <3>2. s = [s EXCEPT !.timer = s.timer]
      BY <2>4 DEF SndType
    <3>3. d \in SndType /\ d.state \in Terminal
      BY <2>4, <3>1, <3>2, GivingUp DEF GivenUp
    <3>4. SenderBecomes(d, <<Plain("cancel")>>)
      BY <1>5, <2>2, <2>6, <3>1 DEF WorkerThrows
    <3> QED
      BY <3>3, <3>4, EndedAsks DEF StillAsks
  <2> QED
    BY <2>5, <2>6
<1> QED
  BY <1>4, <1>5

\* A worker at work, or the end of its run.
LEMMA RunPledged ==
    ASSUME IndInv, Calm,
           RunEnds \/ \E i \in Worker : WorkerOpens(i) \/ WorkerReads(i) \/ WorkerSends(i) \/ SourceFails(i)
    PROVE  StillAsks
<1>1. snd \in SndType /\ chan \in [Channel -> ChanType] /\ toR \in Seq(ToRMsg) /\ Waits(snd)
  BY CalmSender
<1>2. toS' = toS
  BY DEF RunEnds, WorkerOpens, WorkerReads, WorkerSends, SourceFails
<1>3. CASE RunEnds
  <2>1. snd.state = "active" /\ After("active", "completing") = "completing"
    BY <1>1, <1>3 DEF Waits, RunEnds, After, LegalTransitions, Terminal
  <2>2. PICK d : d = [snd EXCEPT !.run = "none", !.state = After(@, "completing")]
    OBVIOUS
  <2>3. d = [snd EXCEPT !.run = "none", !.state = "completing"]
    BY <1>1, <2>1, <2>2 DEF SndType
  <2>4. d \in SndType /\ d.state = "completing" /\ d.run = "none"
    BY <1>1, <2>3 DEF SndType, State, RunState, Terminal
  <2>5. SenderBecomes(d, <<[type |-> "sent", digest |-> snd.read]>>)
    BY <1>3, <2>2 DEF RunEnds
  <2>6. snd' = d
    BY <1>1, <2>4, <2>5, Becoming DEF Terminal
  <2> QED
    BY <2>4, <2>6 DEF StillAsks, Asks
<1>4. ASSUME NEW i \in Worker, WorkerOpens(i) \/ WorkerReads(i) \/ WorkerSends(i) \/ SourceFails(i)
      PROVE  StillAsks
  <2>1. snd.pc[i] # "end"
    BY <1>4 DEF WorkerOpens, WorkerReads, WorkerSends, SourceFails
  <2>2. ~ Over(snd)
    BY <2>1, Busy
  <2>3. ASSUME NEW pc, NEW seq, NEW read,
               SenderBecomes([snd EXCEPT !.pc = pc, !.seq = seq, !.read = read], << >>)
        PROVE  StillAsks
    <3>1. PICK d : d = [snd EXCEPT !.pc = pc, !.seq = seq, !.read = read]
      OBVIOUS
    <3>2. d.state = snd.state /\ d.run = snd.run /\ d.timer = snd.timer
      BY <1>1, <3>1 DEF SndType
    <3>3. snd' = d /\ toR' = toR
      BY <1>1, <2>2, <2>3, <3>1, <3>2, PostNone DEF SenderBecomes, Over
    <3> QED
      BY <1>2, <3>2, <3>3 DEF StillAsks
  <2>4. CASE \E lost : WorkerThrows(i, lost)
    BY <1>2, <2>1, <2>4, WorkerThrowsPledged
  <2>5. CASE WorkerOpens(i) /\ ~ \E lost : WorkerThrows(i, lost)
    <3>1. SenderBecomes([snd EXCEPT !.pc[i] = Turn(i)], << >>)
      BY <2>5 DEF WorkerOpens
    <3>2. [snd EXCEPT !.pc[i] = Turn(i)] = [snd EXCEPT !.pc = [snd.pc EXCEPT ![i] = Turn(i)],
                                                       !.seq = snd.seq, !.read = snd.read]
      BY <1>1 DEF SndType
    <3> QED
      BY <2>3, <3>1, <3>2
  <2>6. CASE WorkerReads(i)
    <3>1. PICK k, need, p, q, v :
             SenderBecomes([snd EXCEPT !.read[k] = v, !.pc[i] = p, !.seq[i] = q], << >>)
      BY <2>6 DEF WorkerReads
    <3>2. [snd EXCEPT !.read[k] = v, !.pc[i] = p, !.seq[i] = q] =
             [snd EXCEPT !.pc = [snd.pc EXCEPT ![i] = p], !.seq = [snd.seq EXCEPT ![i] = q],
                         !.read = [snd.read EXCEPT ![k] = v]]
      BY <1>1 DEF SndType
    <3> QED
      BY <2>3, <3>1, <3>2
  <2>7. CASE WorkerSends(i) /\ ~ \E lost : WorkerThrows(i, lost)
    <3>1. toR' = toR /\ \E p, q : snd' = [snd EXCEPT !.seq[i] = q, !.pc[i] = p]
      BY <2>7 DEF WorkerSends
    <3>2. snd'.state = snd.state /\ snd'.run = snd.run /\ snd'.timer = snd.timer
      BY <1>1, <3>1 DEF SndType
    <3> QED
      BY <1>2, <3>1, <3>2 DEF StillAsks
  <2> QED
    BY <1>4, <2>4, <2>5, <2>6, <2>7 DEF SourceFails
<1> QED
  BY <1>3, <1>4

\* The sender asks: an offer is on its way, with its timer.
LEMMA AskingPledged ==
    ASSUME IndInv, Calm, Pledged, SendFile \/ ResumeSend
    PROVE  Pledged'
<1>1. snd \in SndType /\ toR \in Seq(ToRMsg) /\ Waits(snd)
  BY CalmSender
<1>2. UNCHANGED <<opts, rcv, sink, up, toS>> /\ toR' = Posted(toR, <<Offer>>)
  BY DEF SendFile, ResumeSend
<1>3. Offer \in ToRMsg /\ Offer.type = "offer"
  BY SenderMessages
<1>4. toR' \in Seq(ToRMsg) /\ Post(up, toR, Offer, toR')
  BY <1>1, <1>2, <1>3, PostOne
<1>5. up => Has(toR', "offer")
  BY <1>1, <1>3, <1>4, PostedHas
<1>6. Timely(opts, snd')
  <2>1. CASE SendFile
    <3>1. snd' = Offered(snd) /\ snd.state = "idle"
      BY <2>1 DEF SendFile
    <3>2. snd'.state = "offered" /\ snd'.timer = Armed("offer") /\ snd'.run = snd.run
      BY <1>1, <3>1 DEF Offered, SndType
    <3> QED
      BY <1>1, <3>1, <3>2 DEF Timely, Armed, Waits
  <2>2. CASE ResumeSend
    <3>1. snd' = Reoffered(snd) /\ snd.interrupted
      BY <2>2 DEF ResumeSend
    <3>2. snd'.state = snd.state /\ snd'.timer = Armed("reoffer")
      BY <1>1, <3>1 DEF Reoffered, SndType
    <3> QED
      BY <1>1, <3>1, <3>2 DEF Timely, Armed, Waits
  <2> QED
    BY <2>1, <2>2
<1> QED
  BY <1>2, <1>5, <1>6 DEF Pledged, Due

\* The sender's steps keep the pledge.
LEMMA SenderPledged ==
    ASSUME IndInv, Calm, Pledged,
           \/ OfferTimeout \/ SenderControl \/ RunEnds \/ SendFile \/ ResumeSend \/ SenderCancel
           \/ \E i \in Worker : WorkerOpens(i) \/ WorkerReads(i) \/ WorkerSends(i) \/ SourceFails(i)
    PROVE  Pledged'
<1>1. CASE SendFile \/ ResumeSend
  BY <1>1, AskingPledged
<1>2. CASE OfferTimeout \/ SenderCancel \/ SenderControl
  <2>1. UNCHANGED <<opts, rcv, sink, up>>
    BY <1>2 DEF OfferTimeout, SenderCancel, SenderControl
  <2>2. StillAsks
    BY <1>2, GivingUpPledged, SenderControlPledged DEF StillAsks
  <2> QED
    BY <2>1, <2>2, QuestionKept
<1>3. CASE RunEnds \/ \E i \in Worker : WorkerOpens(i) \/ WorkerReads(i) \/ WorkerSends(i) \/ SourceFails(i)
  <2>1. UNCHANGED <<opts, rcv, sink, up>>
    BY <1>3 DEF RunEnds, WorkerOpens, WorkerReads, WorkerSends, SourceFails
  <2>2. StillAsks
    BY <1>3, RunPledged
  <2> QED
    BY <2>1, <2>2, QuestionKept
<1> QED
  BY <1>1, <1>2, <1>3

\* The receiver moves: the answer stays due, and a sink that opens stays so.
LEMMA AnswerKept ==
    ASSUME Pledged, UNCHANGED <<opts, snd, up>>, Accepting(rcv', sink'),
           up /\ Due(rcv, toS, toR) => Due(rcv', toS', toR')
    PROVE  Pledged'
BY DEF Pledged

\* A receiver that has ended owes nothing.
LEMMA OverPledged ==
    ASSUME Pledged, UNCHANGED <<opts, snd, up>>, Over(rcv')
    PROVE  Pledged'
<1>1. Accepting(rcv', sink') /\ Due(rcv', toS', toR')
  BY DEF Accepting, Due, Over, Terminal
<1> QED
  BY <1>1, AnswerKept

\* The receiver or its application gives up.
LEMMA ReceiverOver ==
    ASSUME IndInv,
           \/ SinkOpenFails \/ Reject \/ ReceiverCancel \/ WriteFails \/ SinkCloseFails
           \/ \E c \in Channel : FrameInvalid(c)
    PROVE  Over(rcv')
<1>1. rcv \in RcvType
  BY ReceiverFacts
<1>2. ASSUME NEW r \in RcvType, NEW d, GivenUp(r, d), NEW k, NEW msgs,
             ReceiverBecomes(d, k, msgs) \/ ReceiverBecomes([d EXCEPT !.completing = "done"], k, msgs)
      PROVE  Over(rcv')
  <2>1. d \in RcvType /\ d.state \in Terminal
    BY <1>2, Failing
  <2>2. PICK e : /\ e = d \/ e = [d EXCEPT !.completing = "done"]
                 /\ ReceiverBecomes(e, k, msgs)
    BY <1>2
  <2>3. e \in RcvType /\ e.state \in Terminal
    BY <2>1, <2>2 DEF RcvType, Claims
  <2>4. PICK x : rcv' = [e EXCEPT !.chain = x]
    BY <2>2, <2>3 DEF ReceiverBecomes
  <2> QED
    BY <2>3, <2>4 DEF RcvType, Over
<1>3. CASE SinkOpenFails \/ Reject \/ ReceiverCancel \/ \E c \in Channel : FrameInvalid(c)
  BY <1>1, <1>2, <1>3 DEF SinkOpenFails, Reject, ReceiverCancel, FrameInvalid, GivenUp
<1>4. CASE SinkCloseFails
  <2>1. PICK k, msgs : ReceiverBecomes([Failed(rcv) EXCEPT !.completing = "done"], k, msgs)
    BY <1>4 DEF SinkCloseFails
  <2>2. PICK d : d = Failed(rcv)
    OBVIOUS
  <2>3. GivenUp(rcv, d) /\ ReceiverBecomes([d EXCEPT !.completing = "done"], k, msgs)
    BY <2>1, <2>2 DEF GivenUp
  <2> QED
    BY <1>1, <1>2, <2>3
<1>5. CASE WriteFails
  <2>1. rcv.chain # << >> /\ \E k, msgs : ReceiverBecomes(Failed(ChainPopped), k, msgs)
    BY <1>5 DEF WriteFails
  <2>2. PICK r : r = ChainPopped
    OBVIOUS
  <2>3. Tail(rcv.chain) \in Frames
    BY <1>1, <2>1, Shrinking DEF RcvType, Frames
  <2>4. r \in RcvType
    BY <1>1, <2>2, <2>3 DEF ChainPopped, RcvType
  <2>5. PICK d : d = Failed(r)
    OBVIOUS
  <2>6. GivenUp(r, d) /\ \E k, msgs : ReceiverBecomes(d, k, msgs)
    BY <2>1, <2>2, <2>5 DEF GivenUp
  <2> QED
    BY <1>2, <2>4, <2>6
<1> QED
  BY <1>3, <1>4, <1>5

\* Once the receiver is past its answer, what is due is in the queues.
LEMMA LatePledged ==
    ASSUME IndInv, Calm, Pledged, UNCHANGED <<opts, snd, up, toR>>, ~ Early(rcv), ~ Early(rcv'),
           Over(rcv) => Over(rcv'), Over(rcv') \/ toS' = toS
    PROVE  Pledged'
<1>1. ~ rcv.closed
  BY CalmReceiver DEF Early
<1>2. Accepting(rcv', sink')
  BY DEF Accepting, Early
<1>3. Due(rcv, toS, toR) => Due(rcv', toS', toR')
  BY <1>1 DEF Due, Early
<1> QED
  BY <1>2, <1>3, AnswerKept

\* Frames, writes and the completion come after the answer.
LEMMA CompletionPledged ==
    ASSUME IndInv, Calm, Pledged, Calm',
           \/ WriteHashes \/ WriteDone \/ WritesAwaited \/ Verify \/ SinkCloses
           \/ \E c \in Channel : FrameArrives(c)
    PROVE  Pledged'
<1>1. rcv \in RcvType /\ rcv.state \in State /\ ClaimInv(rcv)
  BY CalmReceiver DEF RcvType
<1>2. UNCHANGED <<opts, snd, up, toR>>
  BY DEF WriteHashes, WriteDone, WritesAwaited, Verify, SinkCloses, FrameArrives
<1>3. ~ Early(rcv)
  <2>1. rcv.chain # << >> => ~ Early(rcv)
    BY PastOffer DEF Pledged, Accepting, Early
  <2>2. rcv.completing # "no" => ~ Early(rcv)
    BY PastOffer
  <2>3. (\E c \in Channel : chan[c].wire # << >>) => ~ Early(rcv)
    BY CalmReceiver DEF NoFrames
  <2> QED
    BY <2>1, <2>2, <2>3 DEF WriteHashes, WriteDone, WritesAwaited, Verify, SinkCloses, FrameArrives
<1>4. CASE SinkCloses \/ (Verify /\ rcv.received # rcv.expected)
  <2>1. PICK r, k, msgs : r \in RcvType /\ r.completing = "done" /\ ReceiverBecomes(r, k, msgs)
    <3>1. ASSUME NEW x \in State, NEW y \in BOOLEAN
          PROVE  [rcv EXCEPT !.completing = "done", !.state = x, !.mismatch = y] \in RcvType
                 /\ [rcv EXCEPT !.completing = "done", !.state = x, !.mismatch = y].completing = "done"
      BY <1>1 DEF RcvType, Claims
    <3>2. After(rcv.state, "completed") \in State /\ After(rcv.state, "failed") \in State
      BY <1>1 DEF After, State, Terminal
    <3>3. CASE SinkCloses
      <4>1. [rcv EXCEPT !.completing = "done", !.state = After(@, "completed")] =
              [rcv EXCEPT !.completing = "done", !.state = After(rcv.state, "completed"), !.mismatch = rcv.mismatch]
        BY <1>1 DEF RcvType
      <4> QED
        BY <1>1, <3>1, <3>2, <3>3, <4>1 DEF SinkCloses, RcvType
    <3>4. CASE Verify /\ rcv.received # rcv.expected
      <4>1. [Failed(rcv) EXCEPT !.completing = "done", !.mismatch = TRUE] =
              [rcv EXCEPT !.completing = "done", !.state = After(rcv.state, "failed"), !.mismatch = TRUE]
        BY <1>1 DEF RcvType, Failed
      <4> QED
        BY <3>1, <3>2, <3>4, <4>1 DEF Verify
    <3> QED
      BY <1>4, <3>3, <3>4
  <2>2. rcv'.completing = "done"
    BY <2>1 DEF ReceiverBecomes, RcvType
  <2>3. Over(rcv')
    BY <2>2 DEF Calm, CalmOf, ClaimInv
  <2> QED
    BY <1>2, <2>3, OverPledged
<1>5. CASE ~ (SinkCloses \/ (Verify /\ rcv.received # rcv.expected))
  <2>1. toS' = toS
    BY <1>5, CalmReceiver, PostNone
       DEF WriteHashes, WriteDone, WritesAwaited, Verify, FrameArrives, ReceiverBecomes
  <2>2. ASSUME NEW x, x = After(rcv.state, "completing")
        PROVE  x \notin {"idle", "offered", "accepted"} /\ (rcv.state \in Terminal => x = rcv.state)
    BY <1>1, <1>3, <2>2 DEF After, Early
  <2>3. rcv'.state = rcv.state \/ rcv'.state = After(rcv.state, "completing")
    <3>1. CASE WriteHashes \/ WriteDone
      BY <1>1, <3>1 DEF WriteHashes, WriteDone, ChainPopped, RcvType
    <3>2. CASE WritesAwaited
      BY <1>1, <3>2 DEF WritesAwaited, Closing, RcvType
    <3>3. CASE Verify
      <4>1. PICK k, msgs : ReceiverBecomes(Closing(rcv), k, msgs)
        BY <1>5, <3>3 DEF Verify
      <4>2. PICK d : d = Closing(rcv)
        OBVIOUS
      <4>3. d.state = After(rcv.state, "completing") /\ \A x : [d EXCEPT !.chain = x].state = d.state
        BY <1>1, <4>2 DEF Closing, RcvType
      <4> QED
        BY <4>1, <4>2, <4>3 DEF ReceiverBecomes
    <3>4. CASE \E c \in Channel : FrameArrives(c)
      BY <1>1, <3>4 DEF FrameArrives, Claimed, RcvType
    <3> QED
      BY <1>5, <3>1, <3>2, <3>3, <3>4
  <2>4. ~ Early(rcv') /\ (Over(rcv) => Over(rcv'))
    BY <1>3, <2>2, <2>3 DEF Early, Over
  <2> QED
    BY <1>2, <1>3, <2>1, <2>4, LatePledged
<1> QED
  BY <1>4, <1>5

\* The manager's channels, before the offer and after it.
LEMMA ManagerPledged ==
    ASSUME IndInv, Calm, Pledged,
           PendingExpires \/ ReceiverCloses \/ \E c \in Channel : ChannelArrives(c)
    PROVE  Pledged'
<1>1. rcv \in RcvType
  BY CalmReceiver
<1>2. UNCHANGED <<opts, snd, sink, up, toS, toR>>
  BY DEF PendingExpires, ReceiverCloses, ChannelArrives
<1>3. rcv'.state = rcv.state /\ rcv'.chain = rcv.chain /\ (rcv.closed => rcv'.closed)
  BY <1>1 DEF PendingExpires, ReceiverCloses, ChannelArrives, RcvType
<1>4. Accepting(rcv', sink')
  BY <1>2, <1>3 DEF Pledged, Accepting
<1>5. Due(rcv, toS, toR) => Due(rcv', toS', toR')
  BY <1>2, <1>3 DEF Due, Over
<1> QED
  BY <1>2, <1>4, <1>5, AnswerKept

\* accept(), and the Accept that follows when the sink is open.
LEMMA AcceptPledged ==
    ASSUME IndInv, Calm, Pledged, Accept \/ SinkOpens
    PROVE  Pledged'
<1>1. /\ rcv \in RcvType /\ sink \in SinkType /\ rcv.state \in State /\ toS \in Seq(ToSMsg)
      /\ SinkBase(opts, rcv, sink)
  BY ReceiverFacts DEF RcvType
<1>2. UNCHANGED <<opts, snd, up, toR>>
  BY DEF Accept, SinkOpens
<1>3. CASE Accept
  <2>1. rcv.state = "offered" /\ ~ sink.given
    BY <1>3, CalmReceiver DEF Accept, Early
  <2>2. rcv.chain = << >>
    BY <1>1, <2>1 DEF SinkBase
  <2>3. PICK r, k : /\ r = [rcv EXCEPT !.state = "accepted"]
                    /\ k = [sink EXCEPT !.given = TRUE, !.handle = "opening"]
                    /\ ReceiverBecomes(r, k, << >>)
    BY <1>3 DEF Accept
  <2>4. /\ r \in RcvType /\ r.state = "accepted" /\ r.chain = << >>
        /\ k \in SinkType /\ k.handle = "opening"
    BY <1>1, <2>2, <2>3 DEF RcvType, SinkType, Handles, State
  <2>5. rcv' = r /\ sink' = k
    BY <2>3, <2>4, Settling DEF Terminal
  <2>6. Accepting(rcv', sink') /\ Due(rcv', toS', toR')
    BY <2>4, <2>5 DEF Accepting, Due
  <2> QED
    BY <1>2, <2>6, AnswerKept
<1>4. CASE SinkOpens
  <2>1. sink.given
    BY <1>4, PastOffer DEF SinkOpens
  <2>2. rcv.state \notin {"idle", "offered"} /\ ~ rcv.closed
    BY <2>1, PastOffer, CalmReceiver
  <2>3. PICK x : x = After(rcv.state, "active")
    OBVIOUS
  <2>4. x \in State /\ (Over(rcv) => x = rcv.state) /\ x \notin {"offered", "accepted"}
    BY <1>1, <2>2, <2>3 DEF After, LegalTransitions, Over, State, Terminal
  <2>5. PICK r : r = [rcv EXCEPT !.state = x]
    OBVIOUS
  <2>6. r \in RcvType /\ r.state = x
    BY <1>1, <2>4, <2>5 DEF RcvType
  <2>7. ReceiverBecomes(r, SinkOpened(sink), <<Having("accept")>>)
    BY <1>1, <1>4, <2>3, <2>5 DEF SinkOpens
  <2>8. PICK k : k = SinkOpened(sink) /\ k \in SinkType
    <3>1. SinkOpened(sink) \in SinkType
      BY <1>1 DEF SinkOpened, SinkType, Handles
    <3> QED
      BY <3>1
  <2>9. rcv'.state = x /\ toS' = Posted(toS, <<Having("accept")>>)
    BY <2>6, <2>7, <2>8, Settling DEF SameReceiver
  <2>10. PICK m \in ToSMsg : m = Having("accept") /\ m.type = "accept"
    BY ReceiverMessages
  <2>11. toS' \in Seq(ToSMsg) /\ Post(up, toS, m, toS')
    BY <1>1, <2>9, <2>10, PostOne
  <2>12. up => Has(toS', "accept")
    BY <1>1, <2>10, <2>11, PostedHas
  <2>13. Accepting(rcv', sink') /\ (up => Due(rcv', toS', toR'))
    BY <2>4, <2>9, <2>12 DEF Accepting, Due
  <2> QED
    BY <1>2, <2>13, AnswerKept
<1> QED
  BY <1>3, <1>4

\* An offer is refused, taken up or answered; another message ends the receiver or
\* leaves what is due as it was.
LEMMA ReceiverControlPledged ==
    ASSUME IndInv, Calm, Pledged, ReceiverControl
    PROVE  Pledged'
<1>1. /\ rcv \in RcvType /\ sink \in SinkType /\ rcv.state \in State
      /\ toS \in Seq(ToSMsg) /\ toR \in Seq(ToRMsg)
  BY ReceiverFacts DEF RcvType
<1>2. UNCHANGED <<opts, snd, up>> /\ toR # << >> /\ toR' = Tail(toR) /\ ~ rcv.closed
  BY DEF ReceiverControl
<1>3. toR' \in Seq(ToRMsg) /\ Shrunk(toR, toR') /\ Head(toR) = toR[1]
  BY <1>1, <1>2, Shrinking
<1>4. PICK t : t = Head(toR).type
  OBVIOUS
<1>5. CASE t = "offer"
  <2>1. OnOffer
    BY <1>4, <1>5 DEF ReceiverControl
  <2>2. CASE rcv.state = "idle" /\ toS' = Posted(toS, <<Plain("reject")>>)
             /\ rcv' = [rcv EXCEPT !.ttl = FALSE]
    <3>1. PICK m \in ToSMsg : m = Plain("reject") /\ m.type = "reject"
      BY ReceiverMessages DEF Fatal
    <3>2. toS' \in Seq(ToSMsg) /\ Post(up, toS, m, toS')
      BY <1>1, <2>2, <3>1, PostOne
    <3>3. up => Has(toS', "reject")
      BY <1>1, <3>1, <3>2, PostedHas
    <3>4. rcv'.state = "idle"
      BY <1>1, <2>2 DEF RcvType
    <3>5. Accepting(rcv', sink') /\ (up => Due(rcv', toS', toR'))
      BY <3>3, <3>4 DEF Accepting, Due
    <3> QED
      BY <1>2, <3>5, AnswerKept
  <2>3. CASE rcv' = [rcv EXCEPT !.state = "offered", !.ttl = FALSE]
    <3>1. rcv'.state = "offered"
      BY <1>1, <2>3 DEF RcvType
    <3>2. Accepting(rcv', sink') /\ Due(rcv', toS', toR')
      BY <3>1 DEF Accepting, Due
    <3> QED
      BY <1>2, <3>2, AnswerKept
  <2>4. CASE rcv.state \in Terminal /\ ReceiverBecomes(rcv, sink, << >>)
    <3>1. Over(rcv')
      BY <1>1, <2>4, Settling DEF SameReceiver, Over
    <3> QED
      BY <1>2, <3>1, OverPledged
  <2>5. CASE rcv.state = "offered" /\ ReceiverBecomes(rcv, sink, << >>)
    <3>1. rcv'.state = "offered"
      BY <1>1, <2>5, Settling DEF SameReceiver
    <3>2. Accepting(rcv', sink') /\ Due(rcv', toS', toR')
      BY <3>1 DEF Accepting, Due
    <3> QED
      BY <1>2, <3>2, AnswerKept
  <2>6. CASE rcv.state \notin Terminal /\ ReceiverBecomes(rcv, sink, <<Having("resume-request")>>)
    <3>1. PICK m \in ToSMsg : m = Having("resume-request") /\ m.type = "resume-request"
      BY ReceiverMessages
    <3>2. rcv' = rcv /\ sink' = sink /\ toS' = Posted(toS, <<m>>)
      BY <1>1, <2>6, <3>1, Settling
    <3>3. toS' \in Seq(ToSMsg) /\ Post(up, toS, m, toS')
      BY <1>1, <3>1, <3>2, PostOne
    <3>4. up => Has(toS', "resume-request")
      BY <1>1, <3>1, <3>3, PostedHas
    <3>5. Accepting(rcv', sink') /\ (up => Due(rcv', toS', toR'))
      BY <3>2, <3>4 DEF Accepting, Due, Pledged
    <3> QED
      BY <1>2, <3>5, AnswerKept
  <2> QED
    BY <2>1, <2>2, <2>3, <2>4, <2>5, <2>6 DEF OnOffer
<1>6. CASE t # "offer"
  <2>1. Has(toR, "offer") => Has(toR', "offer")
    BY <1>1, <1>3, <1>4, <1>6, HasTaken
  <2>2. PICK d : d = OnMessage(Head(toR)) /\ ReceiverBecomes(d, sink, << >>)
    BY <1>4, <1>6 DEF ReceiverControl
  <2>3. CASE d.state \in Terminal
    <3>1. d.state = rcv.state \/ d = Cancelled(rcv)
      BY <1>1, <2>2 DEF OnMessage, Claimed, RcvType
    <3>2. Over(rcv')
      <4>1. \A x : d = [d EXCEPT !.chain = x] \/ [d EXCEPT !.chain = x].state = d.state
        BY <1>1, <2>2 DEF OnMessage, Claimed, Cancelled, RcvType
      <4> QED
        BY <2>2, <2>3, <4>1 DEF ReceiverBecomes, Over
    <3> QED
      BY <1>2, <3>2, OverPledged
  <2>4. CASE d.state \notin Terminal
    <3>1. rcv' = d /\ sink' = sink /\ toS' = toS
      BY <1>1, <2>2, <2>4, PostNone DEF ReceiverBecomes, Terminal
    <3>2. d # Cancelled(rcv)
      BY <1>1, <2>4, Failing DEF GivenUp
    <3>3. d.state = rcv.state /\ d.chain = rcv.chain /\ d.closed = rcv.closed
      BY <1>1, <2>2, <3>2 DEF OnMessage, Claimed, RcvType
    <3>4. Accepting(rcv', sink')
      BY <3>1, <3>3 DEF Pledged, Accepting
    <3>5. Due(rcv, toS, toR) => Due(rcv', toS', toR')
      BY <2>1, <3>1, <3>3 DEF Due, Over
    <3> QED
      BY <1>2, <3>4, <3>5, AnswerKept
  <2> QED
    BY <2>3, <2>4
<1> QED
  BY <1>5, <1>6

\* The receiver's steps keep the pledge.
LEMMA ReceiverPledged ==
    ASSUME IndInv, Calm, Pledged, Calm',
           \/ ReceiverControl \/ SinkOpens \/ WriteHashes \/ WriteDone \/ WritesAwaited \/ Verify
           \/ SinkCloses \/ PendingExpires \/ Accept \/ SinkOpenFails \/ Reject \/ ReceiverCancel
           \/ ReceiverCloses \/ WriteFails \/ SinkCloseFails
           \/ \E c \in Channel : ChannelArrives(c) \/ FrameArrives(c) \/ FrameInvalid(c)
    PROVE  Pledged'
<1>1. CASE \/ SinkOpenFails \/ Reject \/ ReceiverCancel \/ WriteFails \/ SinkCloseFails
           \/ \E c \in Channel : FrameInvalid(c)
  <2>1. UNCHANGED <<opts, snd, up>>
    BY <1>1 DEF SinkOpenFails, Reject, ReceiverCancel, WriteFails, SinkCloseFails, FrameInvalid
  <2>2. Over(rcv')
    BY <1>1, ReceiverOver
  <2> QED
    BY <2>1, <2>2, OverPledged
<1> QED
  BY <1>1, CompletionPledged, ManagerPledged, AcceptPledged, ReceiverControlPledged

-----------------------------------------------------------------------------
(* Without a pause nobody is left waiting *)

\* A step of the code that is neither a call nor a loss.
LEMMA Steady ==
    ASSUME IndInv, EndInv, UNCHANGED <<up, env>>, Calm => Onward, Calm /\ Pledged => Pledged'
    PROVE  EndInv'
BY DEF EndInv, Counters, Lossless, Onward

\* The sender's steps.
LEMMA SenderSteady ==
    ASSUME IndInv, EndInv,
           \/ OfferTimeout \/ SenderControl \/ RunEnds \/ SendFile \/ ResumeSend \/ SenderCancel
           \/ \E i \in Worker : WorkerOpens(i) \/ WorkerReads(i) \/ WorkerSends(i) \/ SourceFails(i)
    PROVE  EndInv'
<1>1. UNCHANGED <<up, env>>
  BY DEF OfferTimeout, SenderControl, RunEnds, SendFile, ResumeSend, SenderCancel,
         WorkerOpens, WorkerReads, WorkerSends, SourceFails
<1>2. Calm => Onward
  BY OfferTimeoutCalm, SenderControlCalm, RunEndsCalm, SendFileCalm, ResumeSendCalm, SenderCancelCalm,
     WorkerOpensCalm, WorkerReadsCalm, WorkerSendsCalm, SourceFailsCalm
<1>3. Calm /\ Pledged => Pledged'
  BY SenderPledged
<1> QED
  BY <1>1, <1>2, <1>3, Steady

\* The receiver's steps.
LEMMA ReceiverSteady ==
    ASSUME IndInv, EndInv,
           \/ ReceiverControl \/ SinkOpens \/ WriteHashes \/ WriteDone \/ WritesAwaited \/ Verify
           \/ SinkCloses \/ PendingExpires \/ Accept \/ SinkOpenFails \/ Reject \/ ReceiverCancel
           \/ ReceiverCloses \/ WriteFails \/ SinkCloseFails
           \/ \E c \in Channel : ChannelArrives(c) \/ FrameArrives(c) \/ FrameInvalid(c)
    PROVE  EndInv'
<1>1. UNCHANGED <<up, env>>
  BY DEF ReceiverControl, SinkOpens, WriteHashes, WriteDone, WritesAwaited, Verify, SinkCloses,
         PendingExpires, Accept, SinkOpenFails, Reject, ReceiverCancel, ReceiverCloses, WriteFails,
         SinkCloseFails, ChannelArrives, FrameArrives, FrameInvalid
<1>2. Calm => Onward
  BY ReceiverControlCalm, SinkOpensCalm, WriteCalm, WritesAwaitedCalm, VerifyCalm, SinkClosesCalm,
     PendingCalm, AcceptCalm, SinkOpenFailsCalm, ReceiverGivesUpCalm, WriteFailsCalm,
     SinkCloseFailsCalm, ChannelArrivesCalm, FrameArrivesCalm
<1>3. Calm /\ Pledged => Pledged'
  BY <1>2, ReceiverPledged DEF Onward
<1> QED
  BY <1>1, <1>2, <1>3, Steady

\* Calls and losses.
LEMMA Disturbed ==
    ASSUME IndInv, EndInv,
           \/ AcceptThenPause \/ SenderPause \/ SenderResume \/ ReceiverPause \/ ReceiverResume
           \/ ConnectionDrops \/ SourceEdited \/ \E c \in Channel : ChannelDrops(c)
    PROVE  EndInv'
<1>1. Counters /\ (env.calls = 0 => Calm /\ Lossless /\ Pledged)
  BY DEF EndInv
<1>2. CASE AcceptThenPause \/ SenderPause \/ SenderResume \/ ReceiverPause \/ ReceiverResume
  <2>1. env' = [env EXCEPT !.calls = @ + 1]
    BY <1>2 DEF AcceptThenPause, SenderPause, SenderResume, ReceiverPause, ReceiverResume
  <2>2. Counters' /\ env'.calls # 0
    BY <1>1, <2>1, Counting
  <2> QED
    BY <2>2 DEF EndInv
<1>3. CASE ConnectionDrops \/ \E c \in Channel : ChannelDrops(c)
  <2>1. env' = [env EXCEPT !.drops = @ + 1]
    BY <1>3 DEF ConnectionDrops, ChannelDrops
  <2>2. Counters' /\ env'.drops # 0 /\ env'.calls = env.calls
    BY <1>1, <2>1, Counting
  <2>3. Calm => Calm'
    BY <1>3, ConnectionDropsCalm, ChannelDropsCalm
  <2>4. Lossless'
    BY <2>2 DEF Lossless
  <2>5. UNCHANGED <<opts, snd, rcv, sink>> /\ (UNCHANGED <<up, toS, toR>> \/ ~ up')
    BY <1>3 DEF ConnectionDrops, ChannelDrops
  <2>6. Pledged => Pledged'
    BY <2>5 DEF Pledged
  <2> QED
    BY <1>1, <2>2, <2>3, <2>4, <2>6 DEF EndInv
<1>4. CASE SourceEdited
  <2>1. UNCHANGED <<opts, snd, rcv, sink, chan, up, toS, toR, env>>
    BY <1>4 DEF SourceEdited
  <2>2. (Calm => Calm') /\ (Lossless => Lossless') /\ (Pledged => Pledged') /\ Counters'
    BY <1>1, <2>1 DEF Calm, Lossless, Counters, Pledged
  <2> QED
    BY <1>1, <2>1, <2>2 DEF EndInv
<1> QED
  BY <1>2, <1>3, <1>4

\* Every step keeps the second invariant.
LEMMA EndPreserved ==
    ASSUME IndInv, EndInv, [Next]_vars PROVE EndInv'
<1>1. CASE UNCHANGED vars
  <2>1. UNCHANGED <<opts, snd, rcv, sink, chan, up, toS, toR, env>>
    BY <1>1 DEF vars
  <2> QED
    BY <2>1 DEF EndInv, Calm, Lossless, Counters, Pledged
<1>2. CASE Progress
  BY <1>2, SenderSteady, ReceiverSteady DEF Progress
<1>3. CASE Next /\ ~ Progress
  BY <1>3, SenderSteady, ReceiverSteady, Disturbed DEF Next
<1> QED
  BY <1>1, <1>2, <1>3

\* It holds when the transfer objects are created.
LEMMA EndInitially ==
    ASSUME Init PROVE EndInv
<1>1. IndInv
  BY Initially
<1>2. env = [drops |-> 0, calls |-> 0] /\ up
  BY DEF Init
<1>3. Counters
  BY <1>2 DEF Counters
<1>4. PICK e : e = << >> /\ Len(e) = 0
  OBVIOUS
<1>5. /\ snd.state = "idle" /\ ~ snd.interrupted /\ snd.timer = "off" /\ snd.batch = 1 /\ snd.have = {}
      /\ snd.run = "none" /\ snd.pc = [i \in Worker |-> "end"] /\ snd.seq = [i \in Worker |-> i]
  BY DEF Init, NewSender
<1>6. /\ rcv.state = "idle" /\ ~ rcv.closed /\ ~ rcv.senderDone /\ rcv.completing = "no"
      /\ ~ sink.given /\ toS = e /\ toR = e
  BY <1>4 DEF Init, NewReceiver, NewSink
<1>7. \A c \in Channel : chan[c].st = "none" /\ chan[c].rx = "none" /\ chan[c].wire = << >>
  BY DEF Init
<1>8. /\ \A t : ~ Has(e, t)
      /\ OfferOnce(e) /\ OffersFirst(e) /\ Refusals(e)
  BY <1>4, HasNone
<1>9. ~ Sent(rcv, e)
  BY <1>6, <1>8, SentHas
<1>10. Waits(snd) /\ Lines(snd, chan)
  BY <1>5 DEF Waits, Lines, Over, Terminal
<1>11. EarlyInv(snd, rcv, sink, chan, e, e)
  BY <1>5, <1>6, <1>7, <1>8, <1>9 DEF EarlyInv, Unstarted, NoFrames
<1>12. IdleInv(snd, rcv, e, e) /\ RefusedInv(rcv, e, e)
  BY <1>4, <1>6, <1>8 DEF IdleInv, RefusedInv
<1>13. ToldInv(snd, rcv, up, e, e) /\ SentAll(snd, rcv, up, e)
  BY <1>2, <1>5, <1>6, <1>9 DEF ToldInv, SentAll, Over, Terminal
<1>14. ClaimInv(rcv) /\ BindInv(rcv, chan) /\ Haves(snd, rcv, e)
  BY <1>4, <1>5, <1>6, <1>7 DEF ClaimInv, BindInv, Bound, Haves, Came
<1>15. Calm
  BY <1>6, <1>10, <1>11, <1>12, <1>13, <1>14 DEF Calm, CalmOf
<1>16. \A i \in Worker : \A k \in Chunk : ~ (k \in Lane(i) /\ k < snd.seq[i])
  <2> TAKE i \in Worker
  <2> TAKE k \in Chunk
  <2>1. i \in Nat /\ (k \in Lane(i) => k \in Nat /\ i <= k)
    BY LaneFrom, SizesAssumption DEF Worker
  <2> QED
    BY <1>5, <2>1
<1>17. Lossless
  BY <1>2, <1>16 DEF Lossless, Delivery
<1>18. Pledged
  BY <1>5, <1>6 DEF Pledged, Timely, Asks, Accepting
<1> QED
  BY <1>3, <1>15, <1>17, <1>18 DEF EndInv

\* When nothing is left to do, the chunks the sender is past were all received.
LEMMA QuietDelivery ==
    ASSUME IndInv, Calm, Quiet, Delivery(snd, rcv, chan), ~ Over(rcv), AllSent(snd)
    PROVE  Full(rcv.received)
<1>1. SUFFICES ASSUME NEW k \in Chunk PROVE rcv.received[k] # Unread
  BY DEF Full
<1>2. k \in Nat /\ k < Total /\ Total \in Nat
  BY SizesAssumption DEF Chunk
<1>3. PICK i \in Worker : k \in Lane(i)
  BY <1>2, LanesCover
<1>4. snd.seq[i] \in Nat /\ snd.seq[i] >= Total
  BY CalmSender DEF SndType, Seqs, AllSent
<1>5. k < snd.seq[i]
  BY <1>2, <1>4
<1>6. rcv.received[k] # Unread \/ Arriving(chan, k)
  BY <1>3, <1>5 DEF Delivery, Got
<1>7. ~ Arriving(chan, k)
  <2>1. Len(<< >>) = 0
    OBVIOUS
  <2>2. \A c \in Channel : chan[c].rx = "attached" => chan[c].wire = << >>
    BY DEF Quiet
  <2> QED
    BY <2>1, <2>2 DEF Arriving
<1> QED
  BY <1>6, <1>7

\* A receiver that still has messages to take has closed before its offer.
LEMMA QuietReceiver ==
    ASSUME IndInv, Calm, Quiet, NEW type, Has(toR, type)
    PROVE  rcv.state = "idle"
<1>1. toR # << >>
  BY HasNone
<1>2. rcv.closed
  BY <1>1 DEF Quiet
<1> QED
  BY <1>2, CalmReceiver

\* The other side knows.
LEMMA QuietEnds ==
    ASSUME IndInv, Calm, Quiet, up
    PROVE  /\ Over(rcv) => Over(snd)
           /\ Over(snd) => Over(rcv) \/ rcv.state = "idle"
<1>1. ToldInv(snd, rcv, up, toS, toR) /\ CompleteInv(snd, rcv, sink, up, toS)
  BY DEF IndInv, Calm, CalmOf
<1>2. toS = << >> /\ Len(toS) = 0 /\ \A t : ~ Has(toS, t)
  BY HasNone DEF Quiet
<1>3. rcv.state \in {"failed", "cancelled"} => Over(snd)
  BY <1>1, <1>2 DEF CompleteInv, Over
<1>4. rcv.state = "completed" => Over(snd)
  BY <1>1, <1>2 DEF ToldInv
<1>5. Over(snd) => Over(rcv) \/ rcv.state = "idle"
  BY <1>1, QuietReceiver DEF ToldInv, Unoffered
<1> QED
  BY <1>3, <1>4, <1>5 DEF Over, Terminal

\* No worker of an Active transfer waits for a channel for ever.
LEMMA QuietRun ==
    ASSUME IndInv, Calm, Quiet
    PROVE  snd.state # "active"
<1>1. SUFFICES ASSUME snd.state = "active" PROVE FALSE
  OBVIOUS
<1>2. /\ snd \in SndType /\ Waits(snd) /\ Lines(snd, chan) /\ (Early(rcv) => Unstarted(snd))
      /\ chan \in [Channel -> ChanType]
  BY CalmSender
<1>3. snd.run = "live"
  BY <1>1, <1>2 DEF Waits
<1>4. PICK i \in Worker : snd.pc[i] # "end"
  BY <1>3 DEF Quiet
<1>5. snd.pc[i] = "open"
  BY <1>1, <1>2, <1>4 DEF Quiet, SndType, Pcs, PcState
<1>6. PICK c : c = <<snd.batch, i>>
  OBVIOUS
<1>7. snd.batch \in Batches
  BY <1>2 DEF SndType
<1>8. c \in Channel
  BY <1>6, <1>7, BatchChannels
<1>9. chan[c].st \notin {"open", "closed", "none"}
  BY <1>1, <1>2, <1>5, <1>6 DEF Quiet, Lines
<1>10. chan[c].st = "opening"
  BY <1>2, <1>8, <1>9 DEF ChanType, Links
<1>11. rcv.closed
  BY <1>8, <1>10 DEF Quiet
<1>12. Early(rcv)
  BY <1>11, CalmReceiver DEF Early
<1> QED
  BY <1>1, <1>2, <1>12 DEF Unstarted, Terminal

\* A sender that is completing hears of the end, when nothing was lost.
LEMMA QuietCompletion ==
    ASSUME IndInv, Calm, Quiet, up, Delivery(snd, rcv, chan)
    PROVE  snd.state # "completing"
<1>1. SUFFICES ASSUME snd.state = "completing" PROVE FALSE
  OBVIOUS
<1>2. ~ Over(snd)
  BY <1>1 DEF Over, Terminal
<1>3. ~ Over(rcv)
  BY <1>2, QuietEnds
<1>4. SentAll(snd, rcv, up, toR)
  BY DEF Calm, CalmOf
<1>5. Sent(rcv, toR)
  BY <1>1, <1>3, <1>4 DEF SentAll
<1>6. rcv.senderDone
  <2>1. Has(toR, "sent") => Early(rcv)
    BY QuietReceiver DEF Early
  <2>2. ~ Early(rcv)
    BY <1>5, CalmReceiver
  <2> QED
    BY <1>5, <2>1, <2>2, SentHas
<1>7. Full(rcv.received)
  BY <1>3, <1>4, <1>5, QuietDelivery DEF SentAll
<1>8. ClaimInv(rcv)
  BY CalmReceiver
<1>9. rcv.completing \in {"no", "done"}
  BY DEF Quiet
<1> QED
  BY <1>3, <1>6, <1>7, <1>8, <1>9 DEF ClaimInv

\* A sender that waits for an answer when nothing is left to do has no timer, and waits
\* for the receiving application.
LEMMA QuietAnswer ==
    ASSUME IndInv, Calm, Pledged, Quiet, Asks(snd)
    PROVE  /\ ~ opts.timed
           /\ up => snd.state = "offered" /\ (rcv.state = "offered" \/ rcv.closed)
<1>1. ~ opts.timed
  BY DEF Pledged, Timely, Asks, Quiet
<1>2. SUFFICES ASSUME up PROVE snd.state = "offered" /\ (rcv.state = "offered" \/ rcv.closed)
  BY <1>1
<1>3. Waits(snd) /\ (Early(rcv) => Unstarted(snd)) /\ snd \in SndType
  BY CalmSender
<1>4. ~ Over(snd)
  BY <1>3 DEF Asks, Waits, Over, Terminal
<1>5. ~ Over(rcv)
  BY <1>2, <1>4, QuietEnds
<1>6. \A t : ~ Has(toS, t)
  BY HasNone DEF Quiet
<1>7. rcv.state # "accepted"
  BY DEF Pledged, Accepting, Quiet
<1>8. Has(toR, "offer") => rcv.closed
  BY HasNone DEF Quiet
<1>9. rcv.state = "offered" \/ rcv.closed
  BY <1>2, <1>5, <1>6, <1>7, <1>8 DEF Pledged, Due
<1>10. Early(rcv)
  BY <1>9, CalmReceiver DEF Early
<1> QED
  BY <1>3, <1>9, <1>10 DEF Asks, Unstarted

\* So a transfer that rests has ended, or waits for the application.
LEMMA QuietTransfer ==
    ASSUME IndInv, EndInv PROVE TransferEnds
<1>1. SUFFICES ASSUME Quiet, env.calls = 0
               PROVE  /\ \/ snd.state \in Terminal \cup {"idle"} \/ snd.interrupted \/ env.drops > 0
                         \/ ~ opts.timed /\ snd.state = "offered" /\ (rcv.state = "offered" \/ rcv.closed)
                      /\ up /\ rcv.state \in Terminal => snd.state \in Terminal
                      /\ up /\ snd.state \in Terminal => rcv.state \in Terminal \cup {"idle"}
                      /\ snd.run = "reoffered" => ~ opts.timed /\ ~ up
  BY DEF TransferEnds
<1>2. Calm /\ Lossless /\ Counters /\ Pledged
  BY <1>1 DEF EndInv
<1>3. snd \in SndType /\ Waits(snd)
  BY <1>1, <1>2, CalmSender
<1>4. snd.run = "reoffered" => ~ opts.timed /\ ~ up
  BY <1>1, <1>2, <1>3, QuietAnswer DEF Asks, Waits
<1>5. /\ up /\ rcv.state \in Terminal => snd.state \in Terminal
      /\ up /\ snd.state \in Terminal => rcv.state \in Terminal \cup {"idle"}
  BY <1>1, <1>2, QuietEnds DEF Over
<1>6. ASSUME ~ (env.drops > 0), ~ snd.interrupted
      PROVE  \/ snd.state \in Terminal \cup {"idle"}
             \/ ~ opts.timed /\ snd.state = "offered" /\ (rcv.state = "offered" \/ rcv.closed)
  <2>1. env.drops = 0
    BY <1>2, <1>6 DEF Counters
  <2>2. up /\ Delivery(snd, rcv, chan)
    BY <1>2, <2>1 DEF Lossless
  <2>3. /\ snd.state # "paused"
        /\ snd.state = "offered" => ~ opts.timed /\ (rcv.state = "offered" \/ rcv.closed)
    BY <1>1, <1>2, <1>3, <1>6, <2>2, QuietAnswer DEF Waits, Asks
  <2>4. snd.state \notin {"active", "completing"}
    BY <1>1, <1>2, <2>2, QuietRun, QuietCompletion
  <2> QED
    BY <1>3, <2>3, <2>4 DEF SndType, State
<1> QED
  BY <1>4, <1>5, <1>6

\* The second invariant holds of every transfer.
THEOREM EndInvariance == Spec => []EndInv
<1>1. Init => EndInv
  BY EndInitially
<1>2. IndInv /\ EndInv /\ [Next]_vars => EndInv'
  BY EndPreserved
<1> QED
  BY <1>1, <1>2, Invariance, PTL DEF Spec

\* Without a pause nobody is left waiting for ever (the offer and re-offer timers, the
\* control messages of both sides, _runWorkers and _tryComplete): when nothing is left to
\* do, an offered transfer has ended or is interrupted unless the network failed, a side
\* that ended is followed by the other one, and no re-offer is pending.  Only without the
\* timers (offerTimeoutMs 0) an offer waits for the receiving application, and a re-offer
\* for an answer that was lost with the control channel.
THEOREM TransfersEnd == Spec => []TransferEnds
<1>1. IndInv /\ EndInv => TransferEnds
  BY QuietTransfer
<1> QED
  BY <1>1, Invariance, EndInvariance, PTL

=============================================================================
