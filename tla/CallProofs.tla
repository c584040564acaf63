----------------------------- MODULE CallProofs -----------------------------
(***************************************************************************)
(* Proofs about the mesh call: what each side keeps of its connection, its *)
(* timer, its buffered candidates and its tracks, and that the two sides'  *)
(* offers and answers never cross.                                         *)
(*                                                                         *)
(* The first inductive invariant, IndInv, is about each side by itself.    *)
(* The second, Glare, follows the one negotiation of either side through   *)
(* the places it can be in: an offer on its way, the other side's handler, *)
(* an answer on its way, the handler of the answer.                        *)
(***************************************************************************)
EXTENDS Call, TLAPS

-----------------------------------------------------------------------------
(* Types.                                                                  *)

Kinds == {"offer", "rollback", "remote", "answer", "drain", "drain answer", "apply"}
Types == {"offer", "answer", "ice", "eoc", "left", "joined"}
Sigs == {"stable", "local", "remote"}
Ices == {"new", "connected", "failed"}
Of == Nat \X Nat
Op == [kind : Kinds, of : Of]
Msg == [type : Types, of : Of]
Ops == Seq(Op)
Ids == 0 .. MaxConns
Pends == 0 .. MaxPending
Restarts == 0 .. MaxIceRestarts
TrackSets == SUBSET Tracks
Swaps == SUBSET (Tracks \X Tracks)
ConnType ==
    [id : Ids, live : BOOLEAN, sig : Sigs, remote : BOOLEAN, making : BOOLEAN,
     gen : Nat, mine : Nat, need : BOOLEAN, ops : Ops, pend : Pends, eoc : BOOLEAN,
     senders : TrackSets, swap : Swaps, refused : Swaps, ice : Ices, restarts : Restarts]
CallType ==
    [started : BOOLEAN, closed : BOOLEAN, has : BOOLEAN, pub : TrackSets, stale : BOOLEAN]
EnvType == [events : Nat, lost : BOOLEAN, overlap : BOOLEAN]

Typing ==
    /\ call \in [Peer -> CallType] /\ conn \in [Peer -> ConnType]
    /\ timer \in [Peer -> Ids] /\ net \in [Peer -> Seq(Msg)] /\ env \in EnvType

\* The operations of a handler other than the offer's, and those that drain.
WorkOp(kinds) == {o \in Op : o.kind \in kinds}
Drains == {"drain", "drain answer"}

\* Some element of the sequence q is in X; there is one at most; it can only be the
\* first; those in X are before those in Y.
In(q, X) == \E k \in 1 .. Len(q) : q[k] \in X
Single(q, X) == \A k, l \in 1 .. Len(q) : q[k] \in X /\ q[l] \in X => k = l
OnlyFirst(q, X) == \A k \in 1 .. Len(q) : q[k] \in X => k = 1
Ordered(q, X, Y) == \A k, l \in 1 .. Len(q) : q[k] \in X /\ q[l] \in Y => k < l

OfferOp == WorkOp({"offer"})
Handler == WorkOp(Kinds \ {"offer"})
DrainOp == WorkOp(Drains)
CurrentOffer(gen) == {o \in OfferOp : o.of[2] = gen}
ForeignOffer(id) == {o \in OfferOp : o.of[1] # id}

-----------------------------------------------------------------------------
(* The invariant of one side.                                              *)

\* The connection: what a dropped one is, where its own offer is in the chain, and
\* that buffered candidates have a drain coming once they can be applied.
ConnInv(c) ==
    /\ IF c.live THEN c.id > 0 ELSE c = NoConnection(c.id)
    /\ c.making => In(c.ops, CurrentOffer(c.gen))
    /\ OnlyFirst(c.ops, OfferOp) /\ ~ In(c.ops, ForeignOffer(c.id))
    /\ In(c.ops, OfferOp) => c.sig = "stable"
    /\ c.remote /\ (c.pend > 0 \/ c.eoc) => In(c.ops, DrainOp)

\* The timer belongs to the connection, which waits or has a handler at work.
TimerInv(c, t) == t # 0 => c.live /\ c.id = t /\ (c.sig = "local" \/ In(c.ops, Handler))

\* The one replacement the connection has not made is t by u: it is under way, or
\* the browser refused it.
Pending(c, t, u) ==
    \/ c.swap = {<<t, u>>} /\ c.refused = {}
    \/ c.swap = {} /\ c.refused = {<<t, u>>}

\* The senders are the registered tracks, but for one replacement not made.
TrackInv(k, c, overlap) ==
    c.live /\ ~ overlap =>
        \/ c.swap = {} /\ c.refused = {} /\ c.senders = k.pub
        \/ \E t, u \in Tracks : /\ Pending(c, t, u) /\ t \notin k.pub /\ u \in k.pub
                                /\ c.senders = (k.pub \ {u}) \cup {t}

\* A call that was not started has no connection.  A signal that found no listener
\* is the only way to start without knowing of the other side.
StartInv(k, c, lost) ==
    /\ ~ k.started => c.id = 0
    /\ ~ lost /\ (k.started \/ ~ k.has) => c.id > 0

SideInv(k, c, t, e) ==
    ConnInv(c) /\ TimerInv(c, t) /\ TrackInv(k, c, e.overlap) /\ StartInv(k, c, e.lost)

IndInv == Typing /\ \A p \in Peer : SideInv(call[p], conn[p], timer[p], env)

-----------------------------------------------------------------------------
(* The invariant of the two sides.                                         *)

OfferMsg == {m \in Msg : m.type = "offer"}
AnswerMsg == {m \in Msg : m.type = "answer"}
RoomMsg == {m \in Msg : m.type \in {"left", "joined"}}
\* A handler of the other side's offer, its part after the offer was applied, and the
\* handler of an answer.
OfferHandler == WorkOp({"rollback", "remote", "answer", "drain answer"})
AnswerPart == WorkOp({"answer", "drain answer"})
AppliedPart == WorkOp({"remote", "answer", "drain answer"})
RollbackOp == WorkOp({"rollback"})
ApplyOp == WorkOp({"apply"})

\* Nothing was lost and nobody has replaced or dropped a connection so far.
FirstConnections ==
    ~ env.lost /\ \A p \in Peer : \/ conn[p].id = 0 /\ ~ conn[p].live /\ ~ call[p].started
                                  \/ conn[p].id = 1 /\ conn[p].live

\* The elements of X in q are about the offer of.
About(q, X, of) == \A k \in 1 .. Len(q) : q[k] \in X => q[k].of = of

\* The negotiation of the impolite side, i, with its queue ni: while it waits for an
\* answer there is just one trace of its offer, otherwise there is none.
ImpoliteOffer(i, p, ni, np) ==
    /\ i.sig = "local" <=> \/ In(np, OfferMsg) \/ In(p.ops, OfferHandler)
                           \/ In(ni, AnswerMsg) \/ In(i.ops, ApplyOp)
    /\ ~ (In(np, OfferMsg) /\ In(p.ops, OfferHandler))
    /\ ~ (In(np, OfferMsg) /\ In(ni, AnswerMsg))
    /\ ~ (In(np, OfferMsg) /\ In(i.ops, ApplyOp))
    /\ ~ (In(p.ops, OfferHandler) /\ In(ni, AnswerMsg))
    /\ ~ (In(p.ops, OfferHandler) /\ In(i.ops, ApplyOp))
    /\ ~ (In(ni, AnswerMsg) /\ In(i.ops, ApplyOp))
    /\ Single(np, OfferMsg) /\ Single(p.ops, OfferHandler)
    /\ Single(ni, AnswerMsg) /\ Single(i.ops, ApplyOp)
    /\ About(np, OfferMsg, <<1, i.mine>>) /\ About(p.ops, OfferHandler, <<1, i.mine>>)
    /\ About(ni, AnswerMsg, <<1, i.mine>>) /\ About(i.ops, ApplyOp, <<1, i.mine>>)

\* The impolite side accepted an offer of the polite one, which still waits.
Accepted(i, p, np) == In(i.ops, OfferHandler) \/ In(np, AnswerMsg) \/ In(p.ops, ApplyOp)

\* An offer to the impolite side, at k of its queue, will be ignored: it makes an offer
\* or waits for an answer that comes later.
Ignored(i, ni, k) ==
    \/ i.making
    \/ i.sig = "local" /\ ~ In(i.ops, ApplyOp) /\ \A l \in 1 .. Len(ni) : ni[l] \in AnswerMsg => k < l

\* The negotiation of the polite side, once its offer was accepted: there is one trace
\* of it, which whatever the impolite side has sent since comes after.
PoliteOffer(i, p, ni, np) ==
    /\ Accepted(i, p, np) => p.sig = "local"
    /\ ~ (In(i.ops, OfferHandler) /\ In(np, AnswerMsg))
    /\ ~ (In(i.ops, OfferHandler) /\ In(p.ops, ApplyOp))
    /\ ~ (In(np, AnswerMsg) /\ In(p.ops, ApplyOp))
    /\ Single(i.ops, OfferHandler) /\ Single(np, AnswerMsg) /\ Single(p.ops, ApplyOp)
    /\ About(i.ops, OfferHandler, <<1, p.mine>>) /\ About(np, AnswerMsg, <<1, p.mine>>)
    /\ About(p.ops, ApplyOp, <<1, p.mine>>)
    /\ In(i.ops, OfferHandler) => i.sig # "local" /\ ~ In(i.ops, OfferOp)
    /\ In(np, AnswerMsg) => ~ In(p.ops, OfferHandler) /\ ~ In(ni, AnswerMsg) /\ ~ In(i.ops, ApplyOp)
    /\ In(p.ops, ApplyOp) => /\ ~ In(ni, AnswerMsg) /\ ~ In(i.ops, ApplyOp)
                             /\ ~ In(p.ops, AppliedPart)
    /\ Ordered(np, AnswerMsg, OfferMsg) /\ Ordered(p.ops, ApplyOp, OfferHandler)

\* The offers on their way to the impolite side: each will be ignored, or it is the
\* last one and the polite side waits for its answer.
PoliteOffers(i, p, ni, np) ==
    \A k \in 1 .. Len(ni) : ni[k] \in OfferMsg =>
        \/ Ignored(i, ni, k)
        \/ /\ ~ Accepted(i, p, np)
           /\ p.sig = "local" /\ ni[k].of = <<1, p.mine>>
           /\ \A l \in 1 .. Len(ni) : ni[l] \in OfferMsg => l <= k

\* The chains: an answer is next only while the remote offer is applied, and an offer
\* of its own is in front of a handler only until the rollback.
Chains(i, p) ==
    /\ In(i.ops, AnswerPart) <=> i.sig = "remote"
    /\ ~ In(i.ops, RollbackOp)
    /\ In(i.ops, OfferOp) => i.making
    /\ In(p.ops, AnswerPart) => p.sig = "remote"
    /\ In(p.ops, AppliedPart) => ~ In(p.ops, OfferOp)
    /\ In(p.ops, OfferOp) => p.making \/ In(p.ops, RollbackOp)

GlareInv(i, p, ni, np) ==
    /\ ImpoliteOffer(i, p, ni, np) /\ PoliteOffer(i, p, ni, np)
    /\ PoliteOffers(i, p, ni, np) /\ Chains(i, p)
    /\ ~ In(ni, RoomMsg) /\ ~ In(np, RoomMsg)

Glare ==
    FirstConnections => /\ \A p \in Peer : call[p].has
                        /\ GlareInv(conn["impolite"], conn["polite"], net["impolite"], net["polite"])

-----------------------------------------------------------------------------
(* Queues.                                                                 *)

\* p is q with m at its end; p is q without its first element.
Grown(q, m, p) ==
    Len(p) = Len(q) + 1 /\ p[Len(q) + 1] = m /\ \A k \in 1 .. Len(q) : p[k] = q[k]
Shrunk(q, p) == Len(q) = Len(p) + 1 /\ \A k \in 1 .. Len(p) : p[k] = q[k + 1]

\* Appending.
LEMMA Appending ==
    ASSUME NEW S, NEW q \in Seq(S), NEW m \in S, NEW p, p = Append(q, m)
    PROVE  p \in Seq(S) /\ Grown(q, m, p)
  BY DEF Grown

\* Taking the first element.
LEMMA Taking ==
    ASSUME NEW S, NEW q \in Seq(S), q # << >>, NEW p, p = Tail(q)
    PROVE  p \in Seq(S) /\ Shrunk(q, p) /\ Head(q) = q[1] /\ q[1] \in S /\ 1 \in 1 .. Len(q)
  BY DEF Shrunk

\* An empty queue.
LEMMA EmptyQueue ==
    ASSUME NEW q, q = << >>, NEW X, NEW Y
    PROVE  ~ In(q, X) /\ Single(q, X) /\ OnlyFirst(q, X) /\ Ordered(q, X, Y)
<1>1. Len(q) = 0
  OBVIOUS
<1>2. \A k \in 1 .. Len(q) : FALSE
  BY <1>1
<1> QED
  BY <1>2 DEF In, Single, OnlyFirst, Ordered

\* What an element appended to a queue changes.
LEMMA InGrown ==
    ASSUME NEW S, NEW q \in Seq(S), NEW m, NEW p \in Seq(S), Grown(q, m, p), NEW X
    PROVE  /\ In(p, X) <=> In(q, X) \/ m \in X
           /\ Single(q, X) /\ ~ (In(q, X) /\ m \in X) => Single(p, X)
           /\ OnlyFirst(q, X) /\ (m \in X => q = << >>) => OnlyFirst(p, X)
           /\ \A of : About(q, X, of) /\ (m \in X => m.of = of) => About(p, X, of)
<1>1. Len(q) \in Nat /\ Len(p) = Len(q) + 1 /\ p[Len(q) + 1] = m
  BY DEF Grown
<1>2. \A k \in 1 .. Len(q) : k \in 1 .. Len(p) /\ p[k] = q[k] /\ k # Len(q) + 1
  BY <1>1 DEF Grown
<1>3. \A k \in 1 .. Len(p) : k \in 1 .. Len(q) \/ k = Len(q) + 1
  BY <1>1
<1>4. Len(q) + 1 \in 1 .. Len(p)
  BY <1>1
<1>5. In(p, X) <=> In(q, X) \/ m \in X
  BY <1>1, <1>2, <1>3, <1>4 DEF In
<1>6. Single(q, X) /\ ~ (In(q, X) /\ m \in X) => Single(p, X)
  BY <1>1, <1>2, <1>3 DEF In, Single
<1>7. OnlyFirst(q, X) /\ (m \in X => q = << >>) => OnlyFirst(p, X)
  <2>1. q = << >> => Len(q) + 1 = 1
    OBVIOUS
  <2> QED
    BY <1>1, <1>2, <1>3, <2>1 DEF OnlyFirst
<1>8. \A of : About(q, X, of) /\ (m \in X => m.of = of) => About(p, X, of)
  BY <1>1, <1>2, <1>3 DEF About
<1> QED
  BY <1>5, <1>6, <1>7, <1>8

\* An element appended is after all the others.
LEMMA OrderedGrown ==
    ASSUME NEW S, NEW q \in Seq(S), NEW m, NEW p \in Seq(S), Grown(q, m, p), NEW X, NEW Y,
           Ordered(q, X, Y), m \in X => m \notin Y /\ ~ In(q, Y)
    PROVE  Ordered(p, X, Y)
<1>1. Len(q) \in Nat /\ Len(p) = Len(q) + 1 /\ p[Len(q) + 1] = m
  BY DEF Grown
<1>2. \A k \in 1 .. Len(q) : p[k] = q[k] /\ k < Len(q) + 1
  BY <1>1 DEF Grown
<1>3. \A k \in 1 .. Len(p) : k \in 1 .. Len(q) \/ k = Len(q) + 1
  BY <1>1
<1> QED
  BY <1>1, <1>2, <1>3 DEF Ordered, In

\* What taking the first element changes.
LEMMA InShrunk ==
    ASSUME NEW S, NEW q \in Seq(S), NEW p \in Seq(S), Shrunk(q, p), NEW X
    PROVE  /\ In(q, X) <=> In(p, X) \/ q[1] \in X
           /\ Single(q, X) => Single(p, X) /\ (q[1] \in X => ~ In(p, X))
           /\ OnlyFirst(q, X) => ~ In(p, X) /\ OnlyFirst(p, X)
           /\ \A of : About(q, X, of) => About(p, X, of) /\ (q[1] \in X => q[1].of = of)
           /\ \A Y : Ordered(q, X, Y) => Ordered(p, X, Y) /\ (q[1] \in Y => ~ In(p, X) /\ q[1] \notin X)
<1>1. Len(q) \in Nat /\ Len(p) \in Nat /\ Len(q) = Len(p) + 1
  BY DEF Shrunk
<1>2. \A k \in 1 .. Len(p) : k + 1 \in 1 .. Len(q) /\ p[k] = q[k + 1] /\ k + 1 # 1 /\ ~ (k + 1 < 1) /\ k \in Nat
  BY <1>1 DEF Shrunk
<1>3. 1 \in 1 .. Len(q)
  BY <1>1
<1>4. In(q, X) <=> In(p, X) \/ q[1] \in X
  <2>1. ASSUME NEW k \in 1 .. Len(q), q[k] \in X PROVE In(p, X) \/ q[1] \in X
    <3>1. CASE k = 1
      BY <2>1, <3>1
    <3>2. CASE k # 1
      <4>1. k - 1 \in 1 .. Len(p) /\ k = (k - 1) + 1
        BY <1>1, <3>2
      <4>2. p[k - 1] = q[k]
        BY <4>1 DEF Shrunk
      <4> QED
        BY <2>1, <4>1, <4>2 DEF In
    <3> QED
      BY <3>1, <3>2
  <2> QED
    BY <1>2, <1>3, <2>1 DEF In
<1>5. Single(q, X) => Single(p, X) /\ (q[1] \in X => ~ In(p, X))
  <2>1. SUFFICES ASSUME Single(q, X) PROVE Single(p, X) /\ (q[1] \in X => ~ In(p, X))
    OBVIOUS
  <2>2. \A k, l \in 1 .. Len(p) : p[k] \in X /\ p[l] \in X => k + 1 = l + 1
    BY <1>2, <2>1 DEF Single
  <2>3. \A k \in 1 .. Len(p) : p[k] \in X /\ q[1] \in X => k + 1 = 1
    BY <1>2, <1>3, <2>1 DEF Single
  <2> QED
    BY <1>2, <2>2, <2>3 DEF Single, In
<1>6. OnlyFirst(q, X) => ~ In(p, X) /\ OnlyFirst(p, X)
  BY <1>2 DEF OnlyFirst, In
<1>7. \A of : About(q, X, of) => About(p, X, of) /\ (q[1] \in X => q[1].of = of)
  BY <1>2, <1>3 DEF About
<1>8. \A Y : Ordered(q, X, Y) => Ordered(p, X, Y) /\ (q[1] \in Y => ~ In(p, X) /\ q[1] \notin X)
  <2>1. SUFFICES ASSUME NEW Y, Ordered(q, X, Y)
                 PROVE  Ordered(p, X, Y) /\ (q[1] \in Y => ~ In(p, X) /\ q[1] \notin X)
    OBVIOUS
  <2>2. \A k, l \in 1 .. Len(p) : p[k] \in X /\ p[l] \in Y => k + 1 < l + 1
    BY <1>2, <2>1 DEF Ordered
  <2>3. \A k \in 1 .. Len(p) : p[k] \in X /\ q[1] \in Y => k + 1 < 1
    BY <1>2, <1>3, <2>1 DEF Ordered
  <2>4. q[1] \in X /\ q[1] \in Y => 1 < 1
    BY <1>3, <2>1 DEF Ordered
  <2> QED
    BY <1>2, <2>2, <2>3, <2>4 DEF Ordered, In
<1> QED
  BY <1>4, <1>5, <1>6, <1>7, <1>8

-----------------------------------------------------------------------------
(* One side: its connection.                                               *)

\* The constants a connection is made of.
LEMMA Constants ==
    /\ "stable" \in Sigs /\ "local" \in Sigs /\ "remote" \in Sigs
    /\ "new" \in Ices /\ "connected" \in Ices /\ "failed" \in Ices
    /\ 0 \in Ids /\ 0 \in Pends /\ 0 \in Restarts /\ {} \in TrackSets /\ {} \in Swaps
    /\ << >> \in Ops /\ TRUE \in BOOLEAN /\ FALSE \in BOOLEAN /\ 0 \in Nat
    /\ MaxConns \in Nat /\ MaxConns > 0 /\ MaxPending \in Nat /\ MaxIceRestarts \in Nat
    /\ MaxEvents \in Nat
<1>1. MaxConns \in Nat /\ MaxConns > 0 /\ MaxPending \in Nat /\ MaxIceRestarts \in Nat /\ MaxEvents \in Nat
  BY CallConstants
<1>2. 0 \in Ids /\ 0 \in Pends /\ 0 \in Restarts
  BY <1>1 DEF Ids, Pends, Restarts
<1>3. {} \in TrackSets /\ {} \in Swaps
  BY DEF TrackSets, Swaps
<1>4. << >> \in Ops
  BY DEF Ops
<1> QED
  BY <1>1, <1>2, <1>3, <1>4 DEF Sigs, Ices

\* Operations and messages are well formed.
LEMMA Made ==
    /\ NoOffer \in Of
    /\ \A kind \in Kinds, of \in Of :
          Operation(kind, of) \in Op /\ Operation(kind, of).kind = kind /\ Operation(kind, of).of = of
    /\ \A type \in Types, of \in Of :
          Message(type, of) \in Msg /\ Message(type, of).type = type /\ Message(type, of).of = of
  BY DEF NoOffer, Of, Operation, Op, Message, Msg

\* The same, for one of them.
LEMMA MadeOp ==
    ASSUME NEW kind \in Kinds, NEW of \in Of
    PROVE  \E r \in Op : r = Operation(kind, of) /\ r.kind = kind /\ r.of = of
  BY Made

\* A chain with an operation more.
LEMMA ChainGrown ==
    ASSUME NEW q, q \in Seq(Op), NEW m, NEW p, p \in Seq(Op), Grown(q, m, p)
    PROVE  \A X : In(p, X) <=> In(q, X) \/ m \in X
  BY InGrown

\* A connection with no offer in its chain.
LEMMA OfferlessConn ==
    ASSUME NEW d \in ConnType, d.live, d.id > 0, ~ d.making, ~ In(d.ops, OfferOp),
           d.remote /\ (d.pend > 0 \/ d.eoc) => In(d.ops, DrainOp)
    PROVE  ConnInv(d)
<1>1. OnlyFirst(d.ops, OfferOp) /\ ~ In(d.ops, ForeignOffer(d.id))
  BY DEF In, OnlyFirst, ForeignOffer
<1> QED
  BY <1>1 DEF ConnInv

\* A connection not yet made.
LEMMA NotYetMade ==
    ASSUME NEW id \in Ids, NEW d, d = NoConnection(id)
    PROVE  /\ d \in ConnType /\ ConnInv(d) /\ ~ d.live /\ d.id = id
           /\ d.sig = "stable" /\ d.ops = << >> /\ ~ d.making /\ d.mine = 0 /\ d.gen = 0
           /\ d.swap = {} /\ d.refused = {} /\ d.senders = {} /\ ~ d.remote /\ d.pend = 0 /\ ~ d.eoc /\ ~ d.need
<1>1. d \in ConnType
  BY Constants DEF NoConnection, ConnType
<1>2. /\ ~ d.live /\ d.id = id /\ d.sig = "stable" /\ d.ops = << >> /\ ~ d.making
      /\ d.mine = 0 /\ d.gen = 0
      /\ d.swap = {} /\ d.refused = {} /\ d.senders = {} /\ ~ d.remote /\ d.pend = 0 /\ ~ d.eoc /\ ~ d.need
  BY DEF NoConnection
<1>3. ~ In(d.ops, OfferOp) /\ ~ In(d.ops, ForeignOffer(d.id)) /\ OnlyFirst(d.ops, OfferOp)
  BY <1>2, EmptyQueue
<1> QED
  BY <1>1, <1>2, <1>3 DEF ConnInv

\* A connection that is not live is one not yet made.
LEMMA Idle ==
    ASSUME NEW c \in ConnType, ConnInv(c), ~ c.live
    PROVE  /\ c.swap = {} /\ c.refused = {}
           /\ c.senders = {} /\ c.ops = << >> /\ c.sig = "stable" /\ ~ c.making /\ ~ c.remote
<1>1. PICK id \in Ids : c = NoConnection(id)
  BY DEF ConnInv, ConnType
<1> QED
  BY <1>1, NotYetMade

\* A new connection is given the registered tracks.
LEMMA Created ==
    ASSUME NEW p \in Peer, call[p] \in CallType, NEW c \in ConnType, ConnInv(c),
           c.live \/ c.id < MaxConns, NEW d, d = GetOrCreate(p, c)
    PROVE  /\ d \in ConnType /\ ConnInv(d) /\ d.live /\ d.id > 0
           /\ c.live => d = c
           /\ ~ c.live => /\ d.id = c.id + 1 /\ d.sig = "stable" /\ d.ops = << >> /\ ~ d.making
                          /\ d.mine = c.mine /\ d.gen = c.gen
                          /\ c.sig = "stable" /\ c.ops = << >> /\ ~ c.making
                          /\ d.swap = {} /\ d.refused = {} /\ d.senders = call[p].pub
                          /\ ~ d.remote /\ d.pend = 0 /\ ~ d.eoc
<1>1. CASE c.live
  BY <1>1 DEF GetOrCreate, ConnInv
<1>2. CASE ~ c.live
  <2>1. c.id \in Nat /\ c.id < MaxConns /\ c.id + 1 \in Ids /\ c.id \in Ids
    BY <1>2, Constants DEF ConnType, Ids
  <2>2. c = NoConnection(c.id)
    BY <1>2 DEF ConnInv
  <2>3. PICK n \in ConnType : n = NoConnection(c.id + 1)
    BY <2>1, NotYetMade
  <2>4. /\ n.id = c.id + 1 /\ n.sig = "stable" /\ n.ops = << >> /\ ~ n.making /\ n.mine = 0 /\ n.gen = 0
        /\ n.swap = {} /\ n.refused = {} /\ ~ n.remote /\ n.pend = 0 /\ ~ n.eoc
    BY <2>1, <2>3, NotYetMade
  <2>5. c.sig = "stable" /\ c.ops = << >> /\ ~ c.making /\ c.mine = 0 /\ c.gen = 0
    BY <2>1, <2>2, NotYetMade
  <2>6. PICK b \in BOOLEAN : b <=> call[p].pub # {}
    OBVIOUS
  <2>7. d = [n EXCEPT !.live = TRUE, !.senders = call[p].pub, !.need = b]
    BY <1>2, <2>3, <2>6 DEF GetOrCreate
  <2>8. call[p].pub \in TrackSets
    BY DEF CallType
  <2>9. /\ d \in ConnType /\ d.live /\ d.senders = call[p].pub
        /\ d.id = n.id /\ d.sig = n.sig /\ d.ops = n.ops /\ d.making = n.making /\ d.mine = n.mine
        /\ d.gen = n.gen /\ d.swap = n.swap /\ d.refused = n.refused /\ d.remote = n.remote /\ d.pend = n.pend /\ d.eoc = n.eoc
    BY <2>7, <2>8 DEF ConnType
  <2>10. ~ In(d.ops, OfferOp)
    BY <2>4, <2>9, EmptyQueue
  <2>11. ConnInv(d)
    BY <2>1, <2>4, <2>9, <2>10, OfferlessConn
  <2> QED
    BY <1>2, <2>1, <2>4, <2>5, <2>9, <2>11
<1> QED
  BY <1>1, <1>2

\* Fields the chain does not depend on.
SameChain(c, d) ==
    /\ d.id = c.id /\ d.live = c.live /\ d.sig = c.sig /\ d.ops = c.ops /\ d.making = c.making
    /\ d.mine = c.mine
SameBuffer(c, d) == d.remote = c.remote /\ d.pend = c.pend /\ d.eoc = c.eoc
SameTracks(c, d) == d.senders = c.senders /\ d.swap = c.swap /\ d.refused = c.refused

\* A live connection whose chain and buffer are left alone.
LEMMA ChainKept ==
    ASSUME NEW c, NEW d, ConnInv(c), c.live, SameChain(c, d), d.gen = c.gen, SameBuffer(c, d)
    PROVE  ConnInv(d) /\ \A t : TimerInv(c, t) => TimerInv(d, t)
  BY DEF ConnInv, TimerInv, SameChain, SameBuffer

\* The same senders and replacements follow the registry as before.
LEMMA TracksKept ==
    ASSUME NEW k, NEW k2, NEW c, NEW d, NEW o, SameTracks(c, d), d.live => c.live,
           k2.pub = k.pub, TrackInv(k, c, o)
    PROVE  TrackInv(k2, d, o)
  BY DEF TrackInv, Pending, SameTracks

\* A handler's operation is added to the chain.
Enqueued(c, o, d) == d = [c EXCEPT !.ops = Append(c.ops, o)]
\* The connection is otherwise the same.
LEMMA OpAdded ==
    ASSUME NEW c \in ConnType, NEW o \in Op, NEW d, Enqueued(c, o, d)
    PROVE  /\ d \in ConnType /\ Grown(c.ops, o, d.ops) /\ c.ops \in Seq(Op) /\ d.ops \in Seq(Op)
           /\ d.id = c.id /\ d.live = c.live /\ d.sig = c.sig /\ d.making = c.making
           /\ d.mine = c.mine /\ d.gen = c.gen /\ SameBuffer(c, d) /\ SameTracks(c, d)
<1>1. c.ops \in Seq(Op)
  BY DEF ConnType, Ops
<1>2. PICK q \in Ops : q = Append(c.ops, o)
  BY <1>1, Appending DEF Ops
<1>3. Grown(c.ops, o, q) /\ q \in Seq(Op)
  BY <1>1, <1>2, Appending
<1>4. d = [c EXCEPT !.ops = q]
  BY <1>2 DEF Enqueued
<1> QED
  BY <1>1, <1>3, <1>4 DEF ConnType, SameBuffer, SameTracks

\* It keeps what is known of the connection.
LEMMA HandlerAdded ==
    ASSUME NEW c \in ConnType, ConnInv(c), c.live, NEW o \in Handler, NEW d \in ConnType,
           Grown(c.ops, o, d.ops), d.id = c.id, d.live = c.live, d.sig = c.sig,
           d.making => c.making /\ d.gen = c.gen, SameBuffer(c, d)
    PROVE  /\ ConnInv(d)
           /\ In(d.ops, Handler) /\ \A t : TimerInv(c, t) => TimerInv(d, t)
<1>1. c.ops \in Seq(Op) /\ d.ops \in Seq(Op)
  BY DEF ConnType, Ops
<1>2. o \notin OfferOp /\ o \notin ForeignOffer(c.id) /\ o \notin CurrentOffer(c.gen)
  BY DEF Handler, OfferOp, WorkOp, ForeignOffer, CurrentOffer
<1>3. /\ \A X : In(d.ops, X) <=> In(c.ops, X) \/ o \in X
      /\ OnlyFirst(c.ops, OfferOp) => OnlyFirst(d.ops, OfferOp)
  BY <1>1, <1>2, InGrown
<1>4. ConnInv(d)
  BY <1>2, <1>3 DEF ConnInv, SameBuffer
<1>5. In(d.ops, Handler)
  BY <1>3
<1> QED
  BY <1>4, <1>5 DEF TimerInv

\* What is left of the chain when its first operation settles.
Rest(c) == [c EXCEPT !.ops = Tail(c.ops)]
Taken(c, o, e) == c.ops # << >> /\ o = Head(c.ops) /\ e = Rest(c)
\* The first operation is taken from the chain; the offer of its own can only be that one.
LEMMA OpTaken ==
    ASSUME NEW c \in ConnType, ConnInv(c), NEW o, NEW e, Taken(c, o, e)
    PROVE  /\ o \in Op /\ o = c.ops[1] /\ Shrunk(c.ops, e.ops) /\ c.ops \in Seq(Op) /\ e.ops \in Seq(Op)
           /\ e \in ConnType /\ c.live /\ e.live /\ e.id = c.id /\ e.id > 0
           /\ e.sig = c.sig /\ e.making = c.making /\ e.gen = c.gen /\ e.mine = c.mine
           /\ SameBuffer(c, e) /\ SameTracks(c, e)
           /\ ~ In(e.ops, OfferOp)
           /\ o \notin OfferOp => ~ e.making
           /\ e.making => o.of[2] = e.gen
           /\ o \in OfferOp => e.sig = "stable" /\ o.of[1] = e.id
           /\ e.remote /\ (e.pend > 0 \/ e.eoc) /\ o \notin DrainOp => In(e.ops, DrainOp)
           /\ \A t : TimerInv(c, t) /\ t # 0 =>
                 e.id = t /\ (e.sig = "local" \/ o \in Handler \/ In(e.ops, Handler))
<1>1. c.ops \in Seq(Op)
  BY DEF ConnType, Ops
<1>2. PICK q \in Ops : q = Tail(c.ops)
  BY <1>1, Taking DEF Ops, Taken
<1>3. q \in Seq(Op) /\ Shrunk(c.ops, q) /\ o = c.ops[1] /\ o \in Op
  BY <1>1, <1>2, Taking DEF Taken
<1>4. e = [c EXCEPT !.ops = q]
  BY <1>2 DEF Taken, Rest
<1>5. /\ e \in ConnType /\ e.ops = q /\ e.live = c.live /\ e.id = c.id
      /\ e.sig = c.sig /\ e.making = c.making /\ e.gen = c.gen /\ e.mine = c.mine
      /\ SameBuffer(c, e) /\ SameTracks(c, e)
  BY <1>4 DEF ConnType, SameBuffer, SameTracks
<1>6. c.live
  BY Idle DEF Taken
<1>7. /\ \A X : In(c.ops, X) <=> In(q, X) \/ o \in X
      /\ ~ In(q, OfferOp)
  BY <1>1, <1>3, InShrunk DEF ConnInv
<1>8. \A g : ~ In(q, CurrentOffer(g))
  BY <1>7 DEF In, CurrentOffer
<1>9. c.making => o \in CurrentOffer(c.gen)
  BY <1>7, <1>8 DEF ConnInv
<1>10. (o \notin OfferOp => ~ c.making) /\ (c.making => o.of[2] = c.gen)
  BY <1>9 DEF CurrentOffer
<1>11. o \in OfferOp => c.sig = "stable" /\ o.of[1] = c.id
  BY <1>7 DEF ConnInv, ForeignOffer
<1>12. c.remote /\ (c.pend > 0 \/ c.eoc) /\ o \notin DrainOp => In(q, DrainOp)
  BY <1>7 DEF ConnInv
<1>13. \A t : TimerInv(c, t) /\ t # 0 =>
                 c.id = t /\ (c.sig = "local" \/ o \in Handler \/ In(q, Handler))
  BY <1>7 DEF TimerInv
<1>14. c.id > 0
  BY <1>6 DEF ConnInv
<1> QED
  BY <1>1, <1>3, <1>5, <1>6, <1>7, <1>10, <1>11, <1>12, <1>13, <1>14 DEF SameBuffer

-----------------------------------------------------------------------------
(* One side: its steps.                                                    *)

\* g is f with the value x for the side p.
Sets(f, g, p, x) == g = [f EXCEPT ![p] = x]

\* A function left alone.
LEMMA Alone ==
    ASSUME NEW S, NEW f \in [Peer -> S], NEW p \in Peer
    PROVE  Sets(f, f, p, f[p]) /\ f[p] \in S
  BY DEF Sets

\* The environment's flags are only ever raised.
Onward(e, f) == f \in EnvType /\ (e.lost => f.lost) /\ (e.overlap => f.overlap)

\* A step of the side p that keeps its invariant.
LEMMA SideStep ==
    ASSUME IndInv, NEW p \in Peer, NEW k \in CallType, NEW c \in ConnType, NEW t \in Ids,
           Sets(call, call', p, k), Sets(conn, conn', p, c), Sets(timer, timer', p, t),
           net' \in [Peer -> Seq(Msg)], Onward(env, env'), SideInv(k, c, t, env')
    PROVE  IndInv'
<1>1. Typing'
  BY DEF IndInv, Typing, Sets, Onward
<1>2. ASSUME NEW q \in Peer PROVE SideInv(call'[q], conn'[q], timer'[q], env')
  <2>1. CASE q = p
    BY <2>1 DEF IndInv, Typing, Sets
  <2>2. CASE q # p
    <3>1. call'[q] = call[q] /\ conn'[q] = conn[q] /\ timer'[q] = timer[q]
      BY <2>2 DEF IndInv, Typing, Sets
    <3>2. SideInv(call[q], conn[q], timer[q], env)
      BY DEF IndInv
    <3>3. TrackInv(call[q], conn[q], env'.overlap) /\ StartInv(call[q], conn[q], env'.lost)
      <4>1. TrackInv(call[q], conn[q], env.overlap) /\ StartInv(call[q], conn[q], env.lost)
        BY <3>2 DEF SideInv
      <4>2. (env.overlap => env'.overlap) /\ (env.lost => env'.lost)
        BY DEF Onward
      <4> QED
        BY <4>1, <4>2 DEF TrackInv, StartInv
    <3> QED
      BY <3>1, <3>2, <3>3 DEF SideInv
  <2> QED
    BY <2>1, <2>2
<1> QED
  BY <1>1, <1>2 DEF IndInv

\* What a side's step uses of the invariant.
LEMMA SideFacts ==
    ASSUME IndInv, NEW p \in Peer
    PROVE  /\ call[p] \in CallType /\ conn[p] \in ConnType /\ timer[p] \in Ids /\ net[p] \in Seq(Msg)
           /\ net \in [Peer -> Seq(Msg)] /\ env \in EnvType /\ Onward(env, env)
           /\ Sets(call, call, p, call[p]) /\ Sets(conn, conn, p, conn[p]) /\ Sets(timer, timer, p, timer[p])
           /\ ConnInv(conn[p]) /\ TimerInv(conn[p], timer[p])
           /\ TrackInv(call[p], conn[p], env.overlap) /\ StartInv(call[p], conn[p], env.lost)
           /\ Other(p) \in Peer /\ Other(p) # p
  BY Alone DEF IndInv, Typing, SideInv, Onward, Other, Peer

\* The counters of the environment.
LEMMA EventStep ==
    ASSUME env \in EnvType, Event
    PROVE  Onward(env, env') /\ env'.overlap = env.overlap /\ env'.lost = env.lost
<1>1. env.events \in Nat /\ env' = [env EXCEPT !.events = env.events + 1]
  BY DEF EnvType, Event
<1> QED
  BY <1>1 DEF EnvType, Onward

\* A registry call that overlaps a replacement says so.
LEMMA TrackCallStep ==
    ASSUME env \in EnvType, NEW p, TrackCall(p)
    PROVE  /\ Onward(env, env') /\ env'.lost = env.lost
           /\ ~ env'.overlap => ~ env.overlap /\ conn[p].swap = {} /\ conn[p].refused = {}
<1>1. PICK b \in BOOLEAN : b <=> env.overlap \/ Unmade(conn[p]) # {}
  OBVIOUS
<1>2. env.events + 1 \in Nat
  BY DEF EnvType
<1>3. env' = [env EXCEPT !.events = env.events + 1, !.overlap = b]
  BY <1>1 DEF TrackCall
<1>4. Unmade(conn[p]) = {} => conn[p].swap = {} /\ conn[p].refused = {}
  BY DEF Unmade
<1> QED
  BY <1>1, <1>2, <1>3, <1>4 DEF EnvType, Onward

\* Sending keeps the queues well formed and appends to that of the other side.
LEMMA Sending ==
    ASSUME net \in [Peer -> Seq(Msg)], NEW p \in Peer, NEW m \in Msg, Send(p, m)
    PROVE  /\ net' \in [Peer -> Seq(Msg)] /\ Grown(net[Other(p)], m, net'[Other(p)])
           /\ net'[p] = net[p]
<1>1. Other(p) \in Peer /\ Other(p) # p
  BY DEF Other, Peer
<1>2. PICK q \in Seq(Msg) : q = Append(net[Other(p)], m) /\ Grown(net[Other(p)], m, q)
  BY ZenonT(60), <1>1, Appending
<1>3. net' = [net EXCEPT ![Other(p)] = q]
  BY <1>2 DEF Send
<1> QED
  BY <1>1, <1>2, <1>3

\* The call object with its stale flag raised, and perhaps other knowledge of the peer.
LEMMA CallMarked ==
    ASSUME NEW p \in Peer, call \in [Peer -> CallType], NEW b,
           \/ call' = [call EXCEPT ![p].stale = @ \/ b]
           \/ call' = [call EXCEPT ![p].has = FALSE, ![p].stale = @ \/ b]
           \/ call' = [call EXCEPT ![p].stale = @ \/ b, ![p].has = TRUE]
    PROVE  \E k \in CallType :
              /\ Sets(call, call', p, k)
              /\ k.started = call[p].started /\ k.closed = call[p].closed /\ k.pub = call[p].pub
              /\ call' = [call EXCEPT ![p].stale = @ \/ b] => k.has = call[p].has
<1>1. PICK s \in BOOLEAN : s <=> call[p].stale \/ b
  OBVIOUS
<1>2. PICK k0 \in CallType : k0 = call[p]
  OBVIOUS
<1>3. CASE call' = [call EXCEPT ![p].stale = @ \/ b]
  <2>1. PICK k : k = [k0 EXCEPT !.stale = s]
    OBVIOUS
  <2>2. call' = [call EXCEPT ![p] = k]
    BY <1>1, <1>2, <1>3, <2>1
  <2>3. k \in CallType /\ k.started = k0.started /\ k.closed = k0.closed /\ k.pub = k0.pub /\ k.has = k0.has
    BY <2>1 DEF CallType
  <2> QED
    BY <1>2, <2>2, <2>3 DEF Sets
<1>4. CASE call' = [call EXCEPT ![p].has = FALSE, ![p].stale = @ \/ b] /\ ~ (call' = [call EXCEPT ![p].stale = @ \/ b])
  <2>1. PICK k : k = [k0 EXCEPT !.has = FALSE, !.stale = s]
    OBVIOUS
  <2>2. call' = [call EXCEPT ![p] = k]
    BY <1>1, <1>2, <1>4, <2>1 DEF CallType
  <2>3. k \in CallType /\ k.started = k0.started /\ k.closed = k0.closed /\ k.pub = k0.pub
    BY <2>1 DEF CallType
  <2> QED
    BY <1>2, <1>4, <2>2, <2>3 DEF Sets
<1>5. CASE call' = [call EXCEPT ![p].stale = @ \/ b, ![p].has = TRUE] /\ ~ (call' = [call EXCEPT ![p].stale = @ \/ b])
  <2>1. PICK k : k = [k0 EXCEPT !.stale = s, !.has = TRUE]
    OBVIOUS
  <2>2. call' = [call EXCEPT ![p] = k]
    BY <1>1, <1>2, <1>5, <2>1 DEF CallType
  <2>3. k \in CallType /\ k.started = k0.started /\ k.closed = k0.closed /\ k.pub = k0.pub
    BY <2>1 DEF CallType
  <2> QED
    BY <1>2, <1>5, <2>2, <2>3 DEF Sets
<1> QED
  BY <1>3, <1>4, <1>5

\* Drops, of a connection that is live.
LEMMA DropsStep ==
    ASSUME IndInv, NEW p \in Peer, NEW c \in ConnType, c.id = conn[p].id, c.id > 0, Drops(p, c),
           net' \in [Peer -> Seq(Msg)], Onward(env, env')
    PROVE  IndInv' /\ conn'[p].id = c.id /\ ~ conn'[p].live
<1> USE SideFacts
<1>1. call \in [Peer -> CallType] /\ conn \in [Peer -> ConnType]
  BY DEF IndInv, Typing
<1>2. PICK k \in CallType : Sets(call, call', p, k) /\ k.started = call[p].started
  BY <1>1, CallMarked DEF Drops
<1>3. PICK d \in ConnType : /\ d = Dropped(c) /\ d.id = c.id /\ ~ d.live
                            /\ ConnInv(d)
  <2>1. c.id \in Ids
    BY DEF ConnType
  <2> QED
    BY <2>1, NotYetMade DEF Dropped
<1>4. SideInv(k, d, 0, env')
  BY <1>2, <1>3 DEF SideInv, TimerInv, TrackInv, StartInv
<1>5. Sets(conn, conn', p, d) /\ Sets(timer, timer', p, 0)
  BY <1>3 DEF Drops, Becomes, Untimed, Sets
<1>6. IndInv'
  BY <1>2, <1>4, <1>5, Constants, SideStep
<1>7. conn'[p] = d
  BY <1>1, <1>5 DEF Sets
<1> QED
  BY <1>3, <1>6, <1>7

\* A connection that is fetched or made keeps the side's invariant.
LEMMA CreatedSide ==
    ASSUME NEW p \in Peer, call[p] \in CallType, NEW c \in ConnType, ConnInv(c),
           c.live \/ c.id < MaxConns, NEW d, d = GetOrCreate(p, c), NEW k, k.pub = call[p].pub,
           NEW t, TimerInv(c, t), NEW o, TrackInv(call[p], c, o)
    PROVE  TimerInv(d, t) /\ TrackInv(k, d, o)
<1>1. CASE c.live
  <2>1. d = c
    BY <1>1, Created
  <2> QED
    BY <2>1 DEF TrackInv
<1>2. CASE ~ c.live
  <2>1. d.swap = {} /\ d.refused = {} /\ d.senders = call[p].pub
    BY <1>2, Created
  <2> QED
    BY <1>2, <2>1 DEF TimerInv, TrackInv
<1> QED
  BY <1>1, <1>2

\* The same with the registry as it is.
LEMMA FetchedSide ==
    ASSUME NEW p \in Peer, call[p] \in CallType, conn[p] \in ConnType, ConnInv(conn[p]),
           conn[p].live \/ conn[p].id < MaxConns, NEW d, d = GetOrCreate(p, conn[p]),
           TimerInv(conn[p], timer[p]), TrackInv(call[p], conn[p], env.overlap)
    PROVE  TimerInv(d, timer[p]) /\ TrackInv(call[p], d, env.overlap)
  BY CreatedSide

\* start().
LEMMA StartStep ==
    ASSUME IndInv, NEW p \in Peer, Start(p) PROVE IndInv'
<1> USE SideFacts
<1>1. PICK k0 \in CallType : k0 = call[p]
  OBVIOUS
<1>2. PICK k : k = [k0 EXCEPT !.started = TRUE]
  OBVIOUS
<1>3. k \in CallType /\ k.started /\ k.pub = k0.pub /\ k.has = k0.has
  BY <1>2 DEF CallType
<1>4. Sets(call, call', p, k)
  BY <1>1, <1>2 DEF Start, Sets
<1>5. env' = env /\ net' = net /\ timer' = timer /\ conn[p].id = 0 /\ conn[p].id < MaxConns
  BY Constants DEF Start, StartInv
<1>6. PICK c : /\ c = IF call[p].has THEN GetOrCreate(p, conn[p]) ELSE conn[p]
               /\ c \in ConnType /\ ConnInv(c) /\ (call[p].has => c.id > 0)
  BY <1>5, Created
<1>7. TimerInv(c, timer[p]) /\ TrackInv(k, c, env.overlap)
  <2>1. CASE call[p].has
    BY <1>1, <1>3, <1>5, <1>6, <2>1, CreatedSide
  <2>2. CASE ~ call[p].has
    BY <1>1, <1>3, <1>6, <2>2 DEF TrackInv
  <2> QED
    BY <2>1, <2>2
<1>8. StartInv(k, c, env.lost)
  BY <1>1, <1>3, <1>6 DEF StartInv
<1>9. Sets(conn, conn', p, c)
  BY <1>6 DEF Start, Becomes, Sets
<1> QED
  BY <1>3, <1>4, <1>5, <1>6, <1>7, <1>8, <1>9, SideStep DEF SideInv

\* restart() of the call after the room was refreshed.
LEMMA RefreshStep ==
    ASSUME IndInv, NEW p \in Peer, Refresh(p) PROVE IndInv'
<1> USE SideFacts
<1>1. call \in [Peer -> CallType] /\ net \in [Peer -> Seq(Msg)]
  BY DEF IndInv, Typing
<1>2. PICK k \in CallType : Sets(call, call', p, k) /\ k.started = call[p].started /\ k.pub = call[p].pub
  BY <1>1, CallMarked DEF Refresh
<1>3. conn[p].id \in Ids /\ conn[p].id < MaxConns /\ call[p].started
  BY DEF Refresh, ConnType
<1>4. PICK c \in ConnType : c = Dropped(conn[p]) /\ ConnInv(c) /\ ~ c.live /\ c.id = conn[p].id
  BY <1>3, NotYetMade DEF Dropped
<1>5. PICK d : d = GetOrCreate(p, c) /\ d \in ConnType /\ ConnInv(d) /\ d.id > 0
  BY <1>3, <1>4, Created
<1>6. TimerInv(c, 0) /\ TrackInv(call[p], c, env.overlap)
  BY <1>4 DEF TimerInv, TrackInv
<1>7. TimerInv(d, 0) /\ TrackInv(k, d, env.overlap)
  BY <1>2, <1>3, <1>4, <1>5, <1>6, CreatedSide
<1>8. Sets(conn, conn', p, d) /\ Sets(timer, timer', p, 0)
  BY <1>4, <1>5 DEF Refresh, Becomes, Untimed, Sets
<1>9. Onward(env, env') /\ env'.overlap = env.overlap
  BY EventStep DEF Refresh
<1>10. net' \in [Peer -> Seq(Msg)]
  <2>1. Note("left") \in Msg /\ Note("joined") \in Msg
    BY Made DEF Note, Types
  <2>2. <<Note("left"), Note("joined")>> \in Seq(Msg) /\ << >> \in Seq(Msg)
    BY <2>1
  <2>3. net[Other(p)] \o <<Note("left"), Note("joined")>> \in Seq(Msg)
    BY <1>1, <2>2
  <2> QED
    BY <1>1, <2>2, <2>3 DEF Refresh
<1>11. SideInv(k, d, 0, env')
  BY <1>2, <1>3, <1>5, <1>7, <1>9 DEF SideInv, StartInv
<1> QED
  BY <1>2, <1>5, <1>8, <1>9, <1>10, <1>11, Constants, SideStep

\* close().
LEMMA CloseStep ==
    ASSUME IndInv, NEW p \in Peer, Close(p) PROVE IndInv'
<1> USE SideFacts
<1>1. PICK k0 \in CallType : k0 = call[p]
  OBVIOUS
<1>2. PICK s \in BOOLEAN : s <=> k0.stale \/ Handling(conn[p]) # {}
  OBVIOUS
<1>3. PICK k : k = [k0 EXCEPT !.closed = TRUE, !.pub = {}, !.stale = s]
  OBVIOUS
<1>4. k \in CallType /\ k.started = k0.started /\ k.has = k0.has
  BY <1>3, Constants DEF CallType
<1>5. Sets(call, call', p, k)
  BY <1>1, <1>2, <1>3 DEF Close, Sets
<1>6. conn[p].id \in Ids
  BY DEF ConnType
<1>7. PICK c \in ConnType : c = Dropped(conn[p]) /\ ConnInv(c) /\ ~ c.live /\ c.id = conn[p].id
  BY <1>6, NotYetMade DEF Dropped
<1>8. Sets(conn, conn', p, c) /\ Sets(timer, timer', p, 0) /\ net' = net
  BY <1>7 DEF Close, Becomes, Untimed, Sets
<1>9. Onward(env, env') /\ env'.lost = env.lost
  BY EventStep DEF Close
<1>10. SideInv(k, c, 0, env')
  BY <1>1, <1>4, <1>7, <1>9 DEF SideInv, TimerInv, TrackInv, StartInv
<1> QED
  BY <1>4, <1>5, <1>7, <1>8, <1>9, <1>10, Constants, SideStep

\* A step of the connection alone that keeps its chain, with another registry.
LEMMA ChainKeptStep ==
    ASSUME IndInv, NEW p \in Peer, NEW k \in CallType, NEW d \in ConnType, NEW t \in {0, timer[p]},
           Sets(call, call', p, k), Sets(conn, conn', p, d), Sets(timer, timer', p, t),
           net' \in [Peer -> Seq(Msg)], Onward(env, env'), env'.lost = env.lost,
           k.started = call[p].started, k.has = call[p].has,
           SameChain(conn[p], d), d.gen = conn[p].gen, SameBuffer(conn[p], d),
           ~ conn[p].live => d = conn[p], TrackInv(k, d, env'.overlap)
    PROVE  IndInv'
<1> USE SideFacts
<1>1. ConnInv(d) /\ TimerInv(d, timer[p])
  <2>1. CASE conn[p].live
    BY <2>1, ChainKept
  <2>2. CASE ~ conn[p].live
    BY <2>2
  <2> QED
    BY <2>1, <2>2
<1>2. SideInv(k, d, t, env')
  BY <1>1 DEF SideInv, TimerInv, StartInv, SameChain
<1> QED
  BY <1>2, Constants, SideStep

\* addTrack.
LEMMA AddTrackStep ==
    ASSUME IndInv, NEW p \in Peer, NEW x \in Tracks, AddTrack(p, x) PROVE IndInv'
<1> USE SideFacts
<1>1. PICK k0 \in CallType, c0 \in ConnType : k0 = call[p] /\ c0 = conn[p]
  OBVIOUS
<1>2. PICK P \in TrackSets, S \in TrackSets : P = k0.pub \cup {x} /\ S = c0.senders \cup {x}
  BY DEF TrackSets, CallType, ConnType
<1>3. PICK k : k = [k0 EXCEPT !.pub = P]
  OBVIOUS
<1>4. k \in CallType /\ k.started = k0.started /\ k.has = k0.has /\ k.pub = P
  BY <1>3 DEF CallType
<1>5. PICK d : d = IF c0.live THEN [c0 EXCEPT !.senders = S, !.need = TRUE] ELSE c0
  OBVIOUS
<1>6. /\ d \in ConnType /\ SameChain(c0, d) /\ d.gen = c0.gen /\ SameBuffer(c0, d)
      /\ ~ c0.live => d = c0
      /\ c0.live => d.senders = S /\ d.swap = c0.swap /\ d.refused = c0.refused
  BY <1>5 DEF ConnType, SameChain, SameBuffer
<1>7. Sets(call, call', p, k) /\ Sets(conn, conn', p, d) /\ timer' = timer /\ net' = net
  BY <1>1, <1>2, <1>3, <1>5 DEF AddTrack, WithTrack, Becomes, Sets
<1>8. Onward(env, env') /\ env'.lost = env.lost /\ (~ env'.overlap => ~ env.overlap /\ c0.swap = {} /\ c0.refused = {})
  BY <1>1, TrackCallStep DEF AddTrack
<1>9. c0.live /\ ~ env.overlap /\ c0.swap = {} /\ c0.refused = {} => c0.senders = k0.pub
  BY <1>1 DEF TrackInv, Pending
<1>10. TrackInv(k, d, env'.overlap)
  BY <1>2, <1>4, <1>6, <1>8, <1>9 DEF TrackInv
<1> QED
  BY <1>1, <1>4, <1>6, <1>7, <1>8, <1>10, ChainKeptStep

\* removeTrack.
LEMMA UnpublishStep ==
    ASSUME IndInv, NEW p \in Peer, NEW x \in Tracks, Unpublish(p, x) PROVE IndInv'
<1> USE SideFacts
<1>1. PICK k0 \in CallType, c0 \in ConnType : k0 = call[p] /\ c0 = conn[p]
  OBVIOUS
<1>2. PICK P \in TrackSets, S \in TrackSets : P = k0.pub \ {x} /\ S = c0.senders \ {x}
  BY DEF TrackSets, CallType, ConnType
<1>3. PICK k : k = [k0 EXCEPT !.pub = P]
  OBVIOUS
<1>4. k \in CallType /\ k.started = k0.started /\ k.has = k0.has /\ k.pub = P
  BY <1>3 DEF CallType
<1>5. PICK d : d = IF x \in c0.senders THEN [c0 EXCEPT !.senders = S, !.need = TRUE] ELSE c0
  OBVIOUS
<1>6. ~ c0.live => c0.senders = {}
  BY <1>1, Idle
<1>7. /\ d \in ConnType /\ SameChain(c0, d) /\ d.gen = c0.gen /\ SameBuffer(c0, d)
      /\ ~ c0.live => d = c0
      /\ d.senders = S /\ d.swap = c0.swap /\ d.refused = c0.refused /\ d.live = c0.live
  BY <1>2, <1>5, <1>6 DEF ConnType, SameChain, SameBuffer
<1>8. Sets(call, call', p, k) /\ Sets(conn, conn', p, d) /\ timer' = timer /\ net' = net
  BY <1>1, <1>2, <1>3, <1>5 DEF Unpublish, WithoutTrack, Becomes, Sets
<1>9. Onward(env, env') /\ env'.lost = env.lost /\ (~ env'.overlap => ~ env.overlap /\ c0.swap = {} /\ c0.refused = {})
  BY <1>1, TrackCallStep DEF Unpublish
<1>10. c0.live /\ ~ env.overlap /\ c0.swap = {} /\ c0.refused = {} => c0.senders = k0.pub
  BY <1>1 DEF TrackInv, Pending
<1>11. TrackInv(k, d, env'.overlap)
  BY <1>2, <1>4, <1>7, <1>9, <1>10 DEF TrackInv
<1> QED
  BY <1>1, <1>4, <1>7, <1>8, <1>9, <1>11, ChainKeptStep

\* replaceTrack.
LEMMA ReplaceTrackStep ==
    ASSUME IndInv, NEW p \in Peer, NEW x \in Tracks, NEW u \in Tracks, ReplaceTrack(p, x, u) PROVE IndInv'
<1> USE SideFacts
<1>1. PICK k0 \in CallType, c0 \in ConnType : k0 = call[p] /\ c0 = conn[p]
  OBVIOUS
<1>2. PICK P \in TrackSets : P = (k0.pub \ {x}) \cup {u}
  BY DEF TrackSets, CallType
<1>3. PICK W \in Swaps : W = IF x \in c0.senders THEN c0.swap \cup {<<x, u>>} ELSE c0.swap
  <2>1. c0.swap \in Swaps
    BY DEF ConnType
  <2>2. c0.swap \cup {<<x, u>>} \in Swaps
    BY <2>1 DEF Swaps
  <2> QED
    BY <2>1, <2>2
<1>4. PICK k : k = [k0 EXCEPT !.pub = P]
  OBVIOUS
<1>5. k \in CallType /\ k.started = k0.started /\ k.has = k0.has /\ k.pub = P
  BY <1>4 DEF CallType
<1>6. PICK d : d = [c0 EXCEPT !.swap = W]
  OBVIOUS
<1>7. ~ c0.live => c0.senders = {}
  BY <1>1, Idle
<1>8. /\ d \in ConnType /\ SameChain(c0, d) /\ d.gen = c0.gen /\ SameBuffer(c0, d)
      /\ ~ c0.live => d = c0
      /\ d.senders = c0.senders /\ d.swap = W /\ d.refused = c0.refused /\ d.live = c0.live
  BY <1>3, <1>6, <1>7 DEF ConnType, SameChain, SameBuffer
<1>9. Sets(call, call', p, k) /\ Sets(conn, conn', p, d) /\ timer' = timer /\ net' = net
  BY <1>1, <1>2, <1>3, <1>4, <1>6 DEF ReplaceTrack, Sets
<1>10. Onward(env, env') /\ env'.lost = env.lost /\ (~ env'.overlap => ~ env.overlap /\ c0.swap = {} /\ c0.refused = {})
  BY <1>1, TrackCallStep DEF ReplaceTrack
<1>11. c0.live /\ ~ env.overlap /\ c0.swap = {} /\ c0.refused = {} => c0.senders = k0.pub
  BY <1>1 DEF TrackInv, Pending
<1>12. x \in k0.pub /\ u \notin k0.pub
  BY <1>1 DEF ReplaceTrack
<1>13. TrackInv(k, d, env'.overlap)
  <2>1. SUFFICES ASSUME d.live, ~ env'.overlap
                 PROVE  /\ d.swap = {<<x, u>>} /\ d.refused = {} /\ x \notin k.pub /\ u \in k.pub
                        /\ d.senders = (k.pub \ {u}) \cup {x}
    BY DEF TrackInv, Pending
  <2>2. c0.senders = k0.pub /\ c0.swap = {} /\ c0.refused = {}
    BY <1>8, <1>10, <1>11, <2>1
  <2>3. d.swap = {<<x, u>>}
    BY <1>3, <1>8, <1>12, <2>2
  <2>4. k.pub = (k0.pub \ {x}) \cup {u} /\ d.senders = k0.pub /\ x # u
    BY <1>2, <1>5, <1>8, <1>12, <2>2
  <2> QED
    BY <1>8, <1>12, <2>2, <2>3, <2>4
<1> QED
  BY <1>1, <1>5, <1>8, <1>9, <1>10, <1>13, ChainKeptStep

\* The browser has swapped the track of a sender.
LEMMA SwapSettlesStep ==
    ASSUME IndInv, NEW p \in Peer, SwapSettles(p) PROVE IndInv'
<1> USE SideFacts
<1>1. PICK c0 \in ConnType : c0 = conn[p]
  OBVIOUS
<1>2. PICK s \in c0.swap :
         Becomes(p, [c0 EXCEPT !.swap = c0.swap \ {s}, !.senders = (c0.senders \ {s[1]}) \cup {s[2]}])
  BY <1>1 DEF SwapSettles
<1>3. c0.swap \in Swaps /\ s[1] \in Tracks /\ s[2] \in Tracks
  BY DEF ConnType, Swaps
<1>4. PICK W \in Swaps, S \in TrackSets : W = c0.swap \ {s} /\ S = (c0.senders \ {s[1]}) \cup {s[2]}
  BY <1>3 DEF Swaps, ConnType, TrackSets
<1>5. PICK d : d = [c0 EXCEPT !.swap = W, !.senders = S]
  OBVIOUS
<1>6. ~ c0.live => c0.swap = {}
  BY <1>1, Idle
<1>7. /\ d \in ConnType /\ SameChain(c0, d) /\ d.gen = c0.gen /\ SameBuffer(c0, d) /\ c0.live
      /\ d.senders = S /\ d.swap = W /\ d.refused = c0.refused /\ d.live = c0.live
  BY <1>5, <1>6 DEF ConnType, SameChain, SameBuffer
<1>8. Sets(conn, conn', p, d) /\ call' = call /\ timer' = timer /\ net' = net /\ env' = env
  BY <1>1, <1>2, <1>4, <1>5 DEF SwapSettles, Becomes, Sets
<1>9. TrackInv(call[p], d, env.overlap)
  <2>1. SUFFICES ASSUME ~ env.overlap PROVE d.swap = {} /\ d.refused = {} /\ d.senders = call[p].pub
    BY DEF TrackInv
  <2>2. PICK x, u \in Tracks : /\ c0.swap = {<<x, u>>} /\ c0.refused = {}
                               /\ x \notin call[p].pub /\ u \in call[p].pub
                               /\ c0.senders = (call[p].pub \ {u}) \cup {x}
    BY <1>1, <1>2, <1>7, <2>1 DEF TrackInv, Pending
  <2>3. s = <<x, u>> /\ s[1] = x /\ s[2] = u
    BY <2>2
  <2> QED
    BY <1>4, <1>7, <2>2, <2>3
<1> QED
  BY <1>1, <1>7, <1>8, <1>9, ChainKeptStep

\* The browser has refused to swap it.
LEMMA SwapRejectsStep ==
    ASSUME IndInv, NEW p \in Peer, SwapRejects(p) PROVE IndInv'
<1> USE SideFacts
<1>1. PICK c0 \in ConnType : c0 = conn[p]
  OBVIOUS
<1>2. PICK s \in c0.swap : Becomes(p, [c0 EXCEPT !.swap = c0.swap \ {s}, !.refused = c0.refused \cup {s}])
  BY <1>1 DEF SwapRejects
<1>3. PICK W \in Swaps, R \in Swaps : W = c0.swap \ {s} /\ R = c0.refused \cup {s}
  <2>1. c0.swap \in Swaps /\ c0.refused \in Swaps
    BY DEF ConnType
  <2> QED
    BY <2>1 DEF Swaps
<1>4. PICK d : d = [c0 EXCEPT !.swap = W, !.refused = R]
  OBVIOUS
<1>5. ~ c0.live => c0.swap = {}
  BY <1>1, Idle
<1>6. /\ d \in ConnType /\ SameChain(c0, d) /\ d.gen = c0.gen /\ SameBuffer(c0, d) /\ c0.live
      /\ d.senders = c0.senders /\ d.swap = W /\ d.refused = R /\ d.live = c0.live
  BY <1>4, <1>5 DEF ConnType, SameChain, SameBuffer
<1>7. Sets(conn, conn', p, d) /\ call' = call /\ timer' = timer /\ net' = net /\ env' = env
  BY <1>1, <1>2, <1>3, <1>4 DEF SwapRejects, Becomes, Sets
<1>8. TrackInv(call[p], d, env.overlap)
  <2>1. SUFFICES ASSUME ~ env.overlap
                 PROVE  \E x, u \in Tracks : /\ d.swap = {} /\ d.refused = {<<x, u>>}
                                              /\ x \notin call[p].pub /\ u \in call[p].pub
                                              /\ d.senders = (call[p].pub \ {u}) \cup {x}
    BY DEF TrackInv, Pending
  <2>2. PICK x, u \in Tracks : /\ c0.swap = {<<x, u>>} /\ c0.refused = {}
                               /\ x \notin call[p].pub /\ u \in call[p].pub
                               /\ c0.senders = (call[p].pub \ {u}) \cup {x}
    BY <1>1, <1>2, <1>6, <2>1 DEF TrackInv, Pending
  <2>3. d.swap = {} /\ d.refused = {<<x, u>>}
    BY <1>3, <1>6, <2>2
  <2> QED
    BY <1>6, <2>2, <2>3
<1> QED
  BY <1>1, <1>6, <1>7, <1>8, ChainKeptStep

\* negotiationneeded.
LEMMA NegotiationNeededStep ==
    ASSUME IndInv, NEW p \in Peer, NegotiationNeeded(p) PROVE IndInv'
<1> USE SideFacts
<1>1. PICK c \in ConnType : c = conn[p]
  OBVIOUS
<1>2. c.live /\ c.sig = "stable" /\ c.ops = << >> /\ c.gen \in Nat /\ c.id \in Nat /\ c.id > 0
  BY <1>1, Constants DEF NegotiationNeeded, ConnType, ConnInv, Ids
<1>3. PICK o \in Op : o = Operation("offer", <<c.id, c.gen + 1>>) /\ o.kind = "offer" /\ o.of = <<c.id, c.gen + 1>>
  <2>1. <<c.id, c.gen + 1>> \in Of /\ "offer" \in Kinds
    BY <1>2 DEF Of, Kinds
  <2> QED
    BY <2>1, Made
<1>4. PICK q \in Ops : q = <<o>>
  <2>1. <<o>> \in Seq(Op)
    OBVIOUS
  <2> QED
    BY <2>1 DEF Ops
<1>5. Len(q) = 1 /\ q[1] = o
  BY <1>4
<1>6. PICK d : d = [c EXCEPT !.making = TRUE, !.gen = c.gen + 1, !.ops = q]
  OBVIOUS
<1>7. /\ d \in ConnType /\ d.live /\ d.id = c.id /\ d.sig = "stable" /\ d.gen = c.gen + 1 /\ d.ops = q
      /\ SameBuffer(c, d) /\ SameTracks(c, d)
  <2>1. c.gen + 1 \in Nat
    BY <1>2
  <2> QED
    BY <1>2, <1>6, <2>1 DEF ConnType, SameBuffer, SameTracks
<1>8. Sets(conn, conn', p, d) /\ UNCHANGED <<call, timer, net, env>>
  BY <1>1, <1>3, <1>4, <1>6 DEF NegotiationNeeded, Becomes, Sets
<1>9. ~ In(c.ops, DrainOp) /\ ~ In(c.ops, Handler)
  BY <1>2, EmptyQueue
<1>10. \A k \in 1 .. Len(q) : k = 1 /\ q[k] = o
  BY <1>5
<1>11. 1 \in 1 .. Len(q) /\ o \in CurrentOffer(d.gen) /\ o \notin ForeignOffer(d.id)
  BY <1>3, <1>5, <1>7 DEF CurrentOffer, ForeignOffer, OfferOp, WorkOp
<1>12. ConnInv(d)
  BY <1>1, <1>2, <1>5, <1>7, <1>9, <1>10, <1>11 DEF ConnInv, In, OnlyFirst, SameBuffer
<1>13. TimerInv(d, timer[p])
  BY <1>1, <1>2, <1>9 DEF TimerInv
<1>14. TrackInv(call[p], d, env.overlap) /\ StartInv(call[p], d, env.lost)
  BY <1>1, <1>2, <1>7, TracksKept DEF StartInv
<1> QED
  BY <1>7, <1>8, <1>12, <1>13, <1>14, SideStep DEF SideInv

\* An operation has settled: no offer is in the chain any more.
LEMMA SettledStep ==
    ASSUME IndInv, NEW p \in Peer, NEW d \in ConnType, NEW t \in Ids,
           conn[p].live, d.live, d.id = conn[p].id, d.id > 0, ~ d.making, ~ In(d.ops, OfferOp),
           d.remote /\ (d.pend > 0 \/ d.eoc) => In(d.ops, DrainOp),
           SameTracks(conn[p], d), TimerInv(d, t),
           Sets(conn, conn', p, d), Sets(timer, timer', p, t), call' = call,
           net' \in [Peer -> Seq(Msg)], Onward(env, env'), env'.overlap = env.overlap, env'.lost = env.lost
    PROVE  IndInv'
<1>1. ConnInv(d)
  BY OfferlessConn
<1>2. TrackInv(call[p], d, env'.overlap) /\ StartInv(call[p], d, env'.lost)
  BY TracksKept, SideFacts DEF StartInv
<1> QED
  BY <1>1, <1>2, SideStep, SideFacts DEF SideInv

\* setLocalDescription() made an offer.
LEMMA OfferMadeStep ==
    ASSUME IndInv, NEW p \in Peer, conn[p].ops # << >>, NEW o, o = Head(conn[p].ops), o.kind = "offer",
           OfferMade(p, Rest(conn[p]), o), env' = env
    PROVE  IndInv'
<1>1. PICK e : e = Rest(conn[p]) /\ Taken(conn[p], o, e)
  BY DEF Taken
<1>2. /\ e \in ConnType /\ o \in Op /\ conn[p].live /\ e.live /\ e.id = conn[p].id /\ e.id > 0
      /\ SameBuffer(conn[p], e) /\ SameTracks(conn[p], e) /\ ~ In(e.ops, OfferOp)
      /\ e.making => o.of[2] = e.gen
      /\ e.remote /\ (e.pend > 0 \/ e.eoc) /\ o \notin DrainOp => In(e.ops, DrainOp)
      /\ \A t : TimerInv(conn[p], t) /\ t # 0 => e.id = t
  BY SMTT(60), <1>1, OpTaken, SideFacts
<1>3. o \notin DrainOp /\ o.of \in Of /\ o.of[2] \in Nat
  BY <1>2 DEF DrainOp, WorkOp, Drains, Op, Of
<1>4. PICK f : f = [e EXCEPT !.sig = "local", !.mine = o.of[2], !.need = FALSE]
  OBVIOUS
<1>5. PICK d : d = IF o.of[2] = e.gen THEN [f EXCEPT !.making = FALSE] ELSE f
  OBVIOUS
<1>6. f \in ConnType /\ f.making = e.making /\ f.live /\ f.id = e.id /\ f.sig = "local" /\ f.ops = e.ops
      /\ SameBuffer(e, f) /\ SameTracks(e, f)
  BY <1>2, <1>3, <1>4, Constants DEF ConnType, SameBuffer, SameTracks
<1>7. /\ d \in ConnType /\ d.live /\ d.id = e.id /\ ~ d.making /\ d.ops = e.ops /\ d.sig = "local"
      /\ SameBuffer(e, d) /\ SameTracks(e, d)
  BY <1>2, <1>5, <1>6 DEF ConnType, SameBuffer, SameTracks
<1>8. Sets(conn, conn', p, d) /\ call' = call
  BY <1>1, <1>4, <1>5 DEF OfferMade, Becomes, Sets
<1>9. net' \in [Peer -> Seq(Msg)]
  <2>1. Message("offer", o.of) \in Msg
    BY <1>3, Made DEF Types
  <2> QED
    BY <1>1, <2>1, Sending, SideFacts DEF OfferMade
<1>10. PICK t \in {timer[p], e.id} : Sets(timer, timer', p, t)
  BY <1>1, SideFacts DEF OfferMade, Sets
<1>11. t \in Ids
  BY <1>2, <1>10, SideFacts DEF ConnType
<1>12. TimerInv(d, t)
  BY <1>2, <1>7, <1>10, SideFacts DEF TimerInv
<1>13. SameTracks(conn[p], d) /\ (d.remote /\ (d.pend > 0 \/ d.eoc) => In(d.ops, DrainOp))
  BY <1>2, <1>3, <1>7 DEF SameTracks, SameBuffer
<1> QED
  BY <1>2, <1>7, <1>8, <1>9, <1>10, <1>11, <1>12, <1>13, SettledStep, SideFacts

\* The rollback of handleOffer.
LEMMA RolledBackStep ==
    ASSUME IndInv, NEW p \in Peer, conn[p].ops # << >>, NEW o, o = Head(conn[p].ops), o.kind = "rollback",
           RolledBack(p, Rest(conn[p]), o), env' = env
    PROVE  IndInv'
<1>1. PICK e : e = Rest(conn[p]) /\ Taken(conn[p], o, e)
  BY DEF Taken
<1>2. /\ e \in ConnType /\ o \in Op /\ conn[p].live /\ e.live /\ e.id = conn[p].id /\ e.id > 0
      /\ e.ops \in Seq(Op)
      /\ SameBuffer(conn[p], e) /\ SameTracks(conn[p], e) /\ ~ In(e.ops, OfferOp)
      /\ o \notin OfferOp => ~ e.making
      /\ e.remote /\ (e.pend > 0 \/ e.eoc) /\ o \notin DrainOp => In(e.ops, DrainOp)
      /\ \A t : TimerInv(conn[p], t) /\ t # 0 => e.id = t
  BY SMTT(60), <1>1, OpTaken, SideFacts
<1>3. o \notin DrainOp /\ o \notin OfferOp /\ o.of \in Of
  BY <1>2 DEF DrainOp, OfferOp, WorkOp, Drains, Op
<1>4. CASE e.sig = "stable"
  <2>1. Drops(p, e) /\ net' = net
    BY <1>1, <1>4 DEF RolledBack
  <2> QED
    BY <1>2, <2>1, DropsStep, SideFacts
<1>5. CASE e.sig # "stable"
  <2>1. PICK r \in Op : r = Operation("remote", o.of) /\ r.kind = "remote" /\ r.of = o.of
    BY <1>3, MadeOp DEF Kinds
  <2>2. PICK q \in Ops : q = Append(e.ops, r) /\ Grown(e.ops, r, q)
    BY <1>2, Appending DEF Ops
  <2>3. PICK b \in BOOLEAN : b <=> e.need \/ e.sig = "local"
    OBVIOUS
  <2>4. PICK d : d = [e EXCEPT !.sig = "stable", !.need = b, !.ops = q]
    OBVIOUS
  <2>5. /\ d \in ConnType /\ d.live /\ d.id = e.id /\ d.making = e.making /\ d.ops = q
        /\ SameBuffer(e, d) /\ SameTracks(e, d)
    BY <1>2, <2>4, Constants DEF ConnType, SameBuffer, SameTracks
  <2>6. Sets(conn, conn', p, d) /\ UNCHANGED <<call, timer, net>>
    BY <1>1, <1>5, <2>1, <2>2, <2>3, <2>4 DEF RolledBack, Becomes, Sets
  <2>7. r \in Handler /\ r \notin OfferOp
    BY <2>1 DEF Handler, OfferOp, WorkOp, Kinds
  <2>8. \A X : In(q, X) <=> In(e.ops, X) \/ r \in X
    <3>1. q \in Seq(Op) /\ e.ops \in Seq(Op) /\ Grown(e.ops, r, q)
      BY <1>2, <2>2 DEF Ops
    <3> QED
      BY <3>1, ChainGrown
  <2>9. TimerInv(d, timer[p])
    BY <1>2, <2>5, <2>7, <2>8, SideFacts DEF TimerInv
  <2>10. SameTracks(conn[p], d) /\ (d.remote /\ (d.pend > 0 \/ d.eoc) => In(d.ops, DrainOp))
    BY <1>2, <1>3, <2>5, <2>8 DEF SameTracks, SameBuffer
  <2> QED
    BY <1>2, <1>3, <2>5, <2>6, <2>7, <2>8, <2>9, <2>10, SettledStep, SideFacts
<1> QED
  BY <1>4, <1>5

\* The remote offer is applied.
LEMMA RemoteAppliedStep ==
    ASSUME IndInv, NEW p \in Peer, conn[p].ops # << >>, NEW o, o = Head(conn[p].ops), o.kind = "remote",
           RemoteApplied(p, Rest(conn[p]), o), env' = env
    PROVE  IndInv'
<1>1. PICK e : e = Rest(conn[p]) /\ Taken(conn[p], o, e)
  BY DEF Taken
<1>2. /\ e \in ConnType /\ o \in Op /\ conn[p].live /\ e.live /\ e.id = conn[p].id /\ e.id > 0
      /\ e.ops \in Seq(Op)
      /\ SameBuffer(conn[p], e) /\ SameTracks(conn[p], e) /\ ~ In(e.ops, OfferOp)
      /\ o \notin OfferOp => ~ e.making
      /\ \A t : TimerInv(conn[p], t) /\ t # 0 => e.id = t
  BY <1>1, OpTaken, SideFacts
<1>3. o \notin OfferOp /\ o.of \in Of
  BY <1>2 DEF OfferOp, WorkOp, Op
<1>4. PICK r \in Op : /\ r = DrainThenAnswer(e, o.of)
                      /\ r.kind = IF e.pend > 0 \/ e.eoc THEN "drain answer" ELSE "answer"
  <2>1. PICK x \in Kinds : x = IF e.pend > 0 \/ e.eoc THEN "drain answer" ELSE "answer"
    BY DEF Kinds
  <2> QED
    BY ZenonT(60), <1>3, <2>1, MadeOp DEF DrainThenAnswer
<1>5. PICK q \in Ops : q = Append(e.ops, r) /\ Grown(e.ops, r, q)
  BY <1>2, Appending DEF Ops
<1>6. PICK b \in BOOLEAN : b <=> e.need \/ e.sig = "local"
  OBVIOUS
<1>7. PICK d : d = [e EXCEPT !.sig = "remote", !.remote = TRUE, !.need = b, !.ops = q]
  OBVIOUS
<1>8. /\ d \in ConnType /\ d.live /\ d.id = e.id /\ d.making = e.making /\ d.ops = q
      /\ d.pend = e.pend /\ d.eoc = e.eoc /\ SameTracks(e, d)
  BY <1>2, <1>7, Constants DEF ConnType, SameTracks
<1>9. Sets(conn, conn', p, d) /\ UNCHANGED <<call, timer, net>>
  BY <1>1, <1>4, <1>5, <1>6, <1>7 DEF RemoteApplied, Becomes, Sets
<1>10. r \in Handler /\ r \notin OfferOp /\ (e.pend > 0 \/ e.eoc => r \in DrainOp)
  BY <1>4 DEF Handler, OfferOp, DrainOp, Drains, WorkOp, Kinds
<1>11. \A X : In(q, X) <=> In(e.ops, X) \/ r \in X
  <2>1. q \in Seq(Op) /\ e.ops \in Seq(Op) /\ Grown(e.ops, r, q)
    BY <1>2, <1>5 DEF Ops
  <2> QED
    BY <2>1, ChainGrown
<1>12. TimerInv(d, timer[p])
  BY <1>2, <1>8, <1>10, <1>11, SideFacts DEF TimerInv
<1>13. SameTracks(conn[p], d) /\ (d.remote /\ (d.pend > 0 \/ d.eoc) => In(d.ops, DrainOp))
  BY <1>2, <1>8, <1>10, <1>11 DEF SameTracks
<1> QED
  BY <1>2, <1>3, <1>8, <1>9, <1>10, <1>11, <1>12, <1>13, SettledStep, SideFacts

\* The answer is made and sent.
LEMMA AnsweredStep ==
    ASSUME IndInv, NEW p \in Peer, conn[p].ops # << >>, NEW o, o = Head(conn[p].ops), o.kind = "answer",
           Answered(p, Rest(conn[p]), o), env' = env
    PROVE  IndInv'
<1>1. PICK e : e = Rest(conn[p]) /\ Taken(conn[p], o, e)
  BY DEF Taken
<1>2. /\ e \in ConnType /\ o \in Op /\ conn[p].live /\ e.live /\ e.id = conn[p].id /\ e.id > 0
      /\ SameBuffer(conn[p], e) /\ SameTracks(conn[p], e) /\ ~ In(e.ops, OfferOp)
      /\ o \notin OfferOp => ~ e.making
      /\ e.remote /\ (e.pend > 0 \/ e.eoc) /\ o \notin DrainOp => In(e.ops, DrainOp)
  BY SMTT(60), <1>1, OpTaken, SideFacts
<1>3. o \notin DrainOp /\ o \notin OfferOp /\ o.of \in Of
  BY <1>2 DEF DrainOp, OfferOp, WorkOp, Drains, Op
<1>4. PICK b \in BOOLEAN :
         IF e.sig = "remote"
         THEN /\ Becomes(p, [e EXCEPT !.sig = "stable", !.need = b])
              /\ Send(p, Message("answer", o.of))
         ELSE /\ Becomes(p, [e EXCEPT !.sig = "local", !.mine = 0, !.need = FALSE])
              /\ Send(p, Note("answer"))
  <2>1. e.need \in BOOLEAN
    BY <1>2 DEF ConnType
  <2> QED
    BY <1>1, <2>1 DEF Answered
<1>5. PICK d : d = IF e.sig = "remote" THEN [e EXCEPT !.sig = "stable", !.need = b]
                   ELSE [e EXCEPT !.sig = "local", !.mine = 0, !.need = FALSE]
  OBVIOUS
<1>6. /\ d \in ConnType /\ d.live /\ d.id = e.id /\ d.making = e.making /\ d.ops = e.ops
      /\ SameBuffer(e, d) /\ SameTracks(e, d)
  BY <1>2, <1>5, Constants DEF ConnType, SameBuffer, SameTracks
<1>7. Sets(conn, conn', p, d) /\ Sets(timer, timer', p, 0) /\ call' = call
  BY <1>4, <1>5 DEF Answered, Becomes, Untimed, Sets
<1>8. net' \in [Peer -> Seq(Msg)]
  <2>1. Message("answer", o.of) \in Msg /\ Note("answer") \in Msg
    BY <1>3, Made DEF Types, Note
  <2> QED
    BY <1>4, <2>1, Sending, SideFacts
<1>9. SameTracks(conn[p], d) /\ TimerInv(d, 0) /\ (d.remote /\ (d.pend > 0 \/ d.eoc) => In(d.ops, DrainOp))
  BY <1>2, <1>3, <1>6 DEF SameTracks, SameBuffer, TimerInv
<1> QED
  BY <1>2, <1>3, <1>6, <1>7, <1>8, <1>9, Constants, SettledStep, SideFacts

\* handleAnswer.
LEMMA AnswerAppliedStep ==
    ASSUME IndInv, NEW p \in Peer, conn[p].ops # << >>, NEW o, o = Head(conn[p].ops), o.kind = "apply",
           AnswerApplied(p, Rest(conn[p]), o), env' = env
    PROVE  IndInv'
<1>1. PICK e : e = Rest(conn[p]) /\ Taken(conn[p], o, e)
  BY DEF Taken
<1>2. /\ e \in ConnType /\ o \in Op /\ conn[p].live /\ e.live /\ e.id = conn[p].id /\ e.id > 0
      /\ e.ops \in Seq(Op)
      /\ SameTracks(conn[p], e) /\ ~ In(e.ops, OfferOp)
      /\ o \notin OfferOp => ~ e.making
      /\ \A t : TimerInv(conn[p], t) /\ t # 0 => e.id = t
  BY <1>1, OpTaken, SideFacts
<1>3. o \notin OfferOp /\ o.of \in Of
  BY <1>2 DEF OfferOp, WorkOp, Op
<1>4. CASE Drops(p, e) /\ net' = net
  BY <1>2, <1>4, DropsStep, SideFacts
<1>5. CASE ~ Drops(p, e)
  <2>1. PICK f : f = [e EXCEPT !.sig = "stable", !.remote = TRUE]
    OBVIOUS
  <2>2. /\ f \in ConnType /\ f.live /\ f.id = e.id /\ f.making = e.making /\ f.ops = e.ops
        /\ f.pend = e.pend /\ f.eoc = e.eoc /\ SameTracks(e, f)
    BY <1>2, <2>1, Constants DEF ConnType, SameTracks
  <2>3. CASE e.pend > 0 \/ e.eoc
    <3>1. PICK r \in Op : r = Operation("drain", o.of) /\ r.kind = "drain" /\ r.of = o.of
      BY <1>3, MadeOp DEF Kinds
    <3>2. PICK d : Enqueued(f, r, d)
      BY DEF Enqueued
    <3>3. /\ d \in ConnType /\ Grown(f.ops, r, d.ops) /\ d.ops \in Seq(Op)
          /\ d.id = f.id /\ d.live = f.live /\ d.making = f.making /\ SameTracks(f, d)
      BY <2>2, <3>2, OpAdded
    <3>4. Sets(conn, conn', p, d) /\ UNCHANGED <<timer, call, net>>
      BY <1>1, <1>5, <2>1, <2>3, <3>1, <3>2 DEF AnswerApplied, Becomes, Sets, Enqueued
    <3>5. r \in Handler /\ r \notin OfferOp /\ r \in DrainOp
      BY <3>1 DEF Handler, OfferOp, DrainOp, Drains, WorkOp, Kinds
    <3>6. \A X : In(d.ops, X) <=> In(f.ops, X) \/ r \in X
      BY <1>2, <2>2, <3>3, ChainGrown
    <3>7. TimerInv(d, timer[p]) /\ SameTracks(conn[p], d)
      BY <1>2, <2>2, <3>3, <3>5, <3>6, SideFacts DEF TimerInv, SameTracks
    <3> QED
      BY <1>2, <1>3, <2>2, <3>3, <3>4, <3>5, <3>6, <3>7, SettledStep, SideFacts
  <2>4. CASE ~ (e.pend > 0 \/ e.eoc)
    <3>1. Sets(conn, conn', p, f) /\ Sets(timer, timer', p, 0) /\ call' = call /\ net' = net
      BY <1>1, <1>5, <2>1, <2>4 DEF AnswerApplied, Becomes, Untimed, Sets
    <3>2. TimerInv(f, 0) /\ SameTracks(conn[p], f)
      BY <1>2, <2>2 DEF TimerInv, SameTracks
    <3> QED
      BY <1>2, <1>3, <2>2, <2>4, <3>1, <3>2, Constants, SettledStep, SideFacts
  <2> QED
    BY <2>3, <2>4
<1> QED
  BY <1>1, <1>4, <1>5 DEF AnswerApplied

\* drainCandidates is done.
LEMMA DrainedStep ==
    ASSUME IndInv, NEW p \in Peer, conn[p].ops # << >>, NEW o, o = Head(conn[p].ops), o.kind \in Drains,
           Drained(p, Rest(conn[p]), o), env' = env
    PROVE  IndInv'
<1>1. PICK e : e = Rest(conn[p]) /\ Taken(conn[p], o, e)
  BY DEF Taken
<1>2. /\ e \in ConnType /\ o \in Op /\ conn[p].live /\ e.live /\ e.id = conn[p].id /\ e.id > 0
      /\ e.ops \in Seq(Op)
      /\ SameTracks(conn[p], e) /\ ~ In(e.ops, OfferOp)
      /\ o \notin OfferOp => ~ e.making
      /\ \A t : TimerInv(conn[p], t) /\ t # 0 => e.id = t
  BY <1>1, OpTaken, SideFacts
<1>3. o \notin OfferOp /\ o.of \in Of
  BY <1>2 DEF OfferOp, WorkOp, Op, Drains
<1>4. PICK f : f = [e EXCEPT !.pend = 0, !.eoc = FALSE]
  OBVIOUS
<1>5. /\ f \in ConnType /\ f.live /\ f.id = e.id /\ f.making = e.making /\ f.ops = e.ops
      /\ f.pend = 0 /\ ~ f.eoc /\ SameTracks(e, f)
  BY <1>2, <1>4, Constants DEF ConnType, SameTracks
<1>6. CASE o.kind = "drain answer"
  <2>1. PICK r \in Op : r = Operation("answer", o.of) /\ r.kind = "answer" /\ r.of = o.of
    BY <1>3, MadeOp DEF Kinds
  <2>2. PICK d : Enqueued(f, r, d)
    BY DEF Enqueued
  <2>3. /\ d \in ConnType /\ Grown(f.ops, r, d.ops) /\ d.ops \in Seq(Op)
        /\ d.id = f.id /\ d.live = f.live /\ d.making = f.making /\ SameTracks(f, d) /\ SameBuffer(f, d)
    BY <1>5, <2>2, OpAdded
  <2>4. Sets(conn, conn', p, d) /\ UNCHANGED <<timer, call, net>>
    BY <1>1, <1>4, <1>6, <2>1, <2>2 DEF Drained, Becomes, Sets, Enqueued
  <2>5. r \in Handler /\ r \notin OfferOp
    BY <2>1 DEF Handler, OfferOp, WorkOp, Kinds
  <2>6. \A X : In(d.ops, X) <=> In(f.ops, X) \/ r \in X
    BY <1>2, <1>5, <2>3, ChainGrown
  <2>7. TimerInv(d, timer[p]) /\ SameTracks(conn[p], d) /\ ~ (d.pend > 0 \/ d.eoc)
    BY <1>2, <1>5, <2>3, <2>5, <2>6, SideFacts DEF TimerInv, SameTracks, SameBuffer
  <2> QED
    BY <1>2, <1>3, <1>5, <2>3, <2>4, <2>5, <2>6, <2>7, SettledStep, SideFacts
<1>7. CASE o.kind # "drain answer"
  <2>1. Sets(conn, conn', p, f) /\ Sets(timer, timer', p, 0) /\ call' = call /\ net' = net
    BY <1>1, <1>4, <1>7 DEF Drained, Becomes, Untimed, Sets
  <2>2. TimerInv(f, 0) /\ SameTracks(conn[p], f) /\ ~ (f.pend > 0 \/ f.eoc)
    BY <1>2, <1>5 DEF TimerInv, SameTracks
  <2> QED
    BY <1>2, <1>3, <1>5, <2>1, <2>2, Constants, SettledStep, SideFacts
<1> QED
  BY <1>6, <1>7

\* The first operation settles.
LEMMA SettlesStep ==
    ASSUME IndInv, NEW p \in Peer, Settles(p) PROVE IndInv'
<1>1. PICK o, e : /\ o = Head(conn[p].ops) /\ e = Rest(conn[p]) /\ conn[p].ops # << >> /\ env' = env
                  /\ \/ o.kind = "offer" /\ OfferMade(p, e, o)
                     \/ o.kind = "rollback" /\ RolledBack(p, e, o)
                     \/ o.kind = "remote" /\ RemoteApplied(p, e, o)
                     \/ o.kind = "answer" /\ Answered(p, e, o)
                     \/ o.kind = "apply" /\ AnswerApplied(p, e, o)
                     \/ o.kind \in Drains /\ Drained(p, e, o)
  BY DEF Settles, Rest, Drains
<1> QED
  BY <1>1, OfferMadeStep, RolledBackStep, RemoteAppliedStep, AnsweredStep, AnswerAppliedStep, DrainedStep

\* The first operation rejects.
LEMMA RejectsStep ==
    ASSUME IndInv, NEW p \in Peer, Rejects(p) PROVE IndInv'
<1>1. PICK o, e : /\ Taken(conn[p], o, e) /\ o.kind \notin Drains
                  /\ IF o.kind = "offer" /\ o.of[2] # conn[p].gen
                     THEN Becomes(p, e) /\ UNCHANGED <<call, timer>>
                     ELSE Drops(p, e)
  BY DEF Rejects, Taken, Rest, Drains
<1>2. /\ e \in ConnType /\ o \in Op /\ conn[p].live /\ e.live /\ e.id = conn[p].id /\ e.id > 0
      /\ e.gen = conn[p].gen /\ e.sig = conn[p].sig
      /\ SameBuffer(conn[p], e) /\ SameTracks(conn[p], e) /\ ~ In(e.ops, OfferOp)
      /\ e.making => o.of[2] = e.gen
      /\ e.remote /\ (e.pend > 0 \/ e.eoc) /\ o \notin DrainOp => In(e.ops, DrainOp)
      /\ \A t : TimerInv(conn[p], t) /\ t # 0 =>
            e.id = t /\ (e.sig = "local" \/ o \in Handler \/ In(e.ops, Handler))
  BY <1>1, OpTaken, SideFacts
<1>3. Onward(env, env') /\ env'.overlap = env.overlap /\ env'.lost = env.lost /\ net' = net
  BY EventStep, SideFacts DEF Rejects
<1>4. CASE o.kind = "offer" /\ o.of[2] # conn[p].gen
  <2>1. o \notin Handler /\ o \notin DrainOp
    BY <1>2, <1>4 DEF Handler, DrainOp, Drains, WorkOp, Kinds
  <2>2. TimerInv(e, timer[p])
    BY <1>2, <2>1, SideFacts DEF TimerInv
  <2>3. Sets(conn, conn', p, e) /\ UNCHANGED <<call, timer>>
    BY <1>1, <1>4 DEF Becomes, Sets
  <2> QED
    BY <1>2, <1>3, <1>4, <2>1, <2>2, <2>3, SettledStep, SideFacts
<1>5. CASE ~ (o.kind = "offer" /\ o.of[2] # conn[p].gen)
  <2>1. Drops(p, e)
    BY <1>1, <1>5
  <2> QED
    BY <1>2, <1>3, <2>1, DropsStep, SideFacts
<1> QED
  BY <1>4, <1>5

\* A handler left behind is rejected.
LEMMA StaleRejectsStep ==
    ASSUME IndInv, NEW p \in Peer, StaleRejects(p) PROVE IndInv'
<1> USE SideFacts
<1>1. PICK k0 \in CallType : k0 = call[p]
  OBVIOUS
<1>2. PICK k : k = [k0 EXCEPT !.stale = FALSE]
  OBVIOUS
<1>3. k \in CallType /\ k.started = k0.started /\ k.has = k0.has /\ k.pub = k0.pub
  BY <1>2 DEF CallType
<1>4. Sets(call, call', p, k) /\ Sets(timer, timer', p, 0) /\ UNCHANGED <<conn, net, env>>
  BY <1>1, <1>2 DEF StaleRejects, Untimed, Sets
<1>5. TrackInv(k, conn[p], env.overlap) /\ StartInv(k, conn[p], env.lost) /\ TimerInv(conn[p], 0)
  BY <1>1, <1>3 DEF TrackInv, StartInv, TimerInv
<1> QED
  BY <1>3, <1>4, <1>5, Constants, SideStep DEF SideInv

\* The connection gathers a candidate.
LEMMA GathersStep ==
    ASSUME IndInv, NEW p \in Peer, Gathers(p) PROVE IndInv'
<1> USE SideFacts
<1>1. PICK type \in {"ice", "eoc"} : Send(p, Note(type))
  BY DEF Gathers
<1>2. Note(type) \in Msg
  BY Made DEF Note, Types
<1>3. net' \in [Peer -> Seq(Msg)]
  BY <1>1, <1>2, Sending
<1>4. Onward(env, env') /\ env'.overlap = env.overlap /\ env'.lost = env.lost /\ UNCHANGED <<call, conn, timer>>
  BY EventStep DEF Gathers
<1> QED
  BY <1>3, <1>4, SideStep DEF SideInv

\* The connection is established.
LEMMA ConnectsStep ==
    ASSUME IndInv, NEW p \in Peer, Connects(p) PROVE IndInv'
<1> USE SideFacts
<1>1. PICK c \in ConnType : c = conn[p] /\ c.live
  BY DEF Connects, Described
<1>2. PICK d : d = [c EXCEPT !.ice = "connected", !.restarts = 0]
  OBVIOUS
<1>3. /\ d \in ConnType /\ SameChain(c, d) /\ d.gen = c.gen /\ SameBuffer(c, d) /\ SameTracks(c, d)
      /\ d.live
  BY <1>1, <1>2, Constants DEF ConnType, SameChain, SameBuffer, SameTracks
<1>4. Sets(conn, conn', p, d) /\ Sets(timer, timer', p, 0) /\ UNCHANGED <<call, net, env>>
  BY <1>1, <1>2 DEF Connects, Becomes, Untimed, Sets
<1>5. TrackInv(call[p], d, env.overlap)
  BY <1>1, <1>3, TracksKept
<1> QED
  BY <1>1, <1>3, <1>4, <1>5, ChainKeptStep

\* ICE fails: it is restarted, or the connection is dropped.
LEMMA IceFailsStep ==
    ASSUME IndInv, NEW p \in Peer, IceFails(p) PROVE IndInv'
<1> USE SideFacts
<1>1. PICK c \in ConnType : c = conn[p] /\ c.live /\ c.id > 0
  BY DEF IceFails, Described, ConnInv
<1>2. Onward(env, env') /\ env'.overlap = env.overlap /\ env'.lost = env.lost /\ net' = net
  BY EventStep DEF IceFails
<1>3. CASE c.restarts < MaxIceRestarts
  <2>1. c.restarts + 1 \in Restarts
    BY <1>3, Constants DEF ConnType, Restarts
  <2>2. PICK d : d = [c EXCEPT !.ice = "failed", !.restarts = c.restarts + 1, !.need = TRUE]
    OBVIOUS
  <2>3. /\ d \in ConnType /\ SameChain(c, d) /\ d.gen = c.gen /\ SameBuffer(c, d) /\ SameTracks(c, d)
        /\ d.live
    BY <1>1, <2>1, <2>2, Constants DEF ConnType, SameChain, SameBuffer, SameTracks
  <2>4. Sets(conn, conn', p, d) /\ Sets(timer, timer', p, 0) /\ UNCHANGED call
    BY <1>1, <1>3, <2>2 DEF IceFails, Becomes, Untimed, Sets
  <2>5. TrackInv(call[p], d, env.overlap)
    BY <1>1, <2>3, TracksKept
  <2> QED
    BY <1>1, <1>2, <2>3, <2>4, <2>5, ChainKeptStep
<1>4. CASE ~ (c.restarts < MaxIceRestarts)
  <2>1. Drops(p, c)
    BY <1>1, <1>4 DEF IceFails
  <2> QED
    BY <1>1, <1>2, <2>1, DropsStep
<1> QED
  BY <1>3, <1>4

\* The negotiation timer expires.
LEMMA TimeoutStep ==
    ASSUME IndInv, NEW p \in Peer, Timeout(p) PROVE IndInv'
<1> USE SideFacts
<1>1. Onward(env, env') /\ env'.overlap = env.overlap /\ env'.lost = env.lost /\ net' = net
  BY EventStep DEF Timeout
<1>2. conn[p].live /\ conn[p].id = timer[p] /\ conn[p].id > 0
  BY DEF Timeout, TimerInv, ConnInv
<1>3. Drops(p, conn[p])
  BY <1>2 DEF Timeout
<1> QED
  BY <1>1, <1>2, <1>3, DropsStep

-----------------------------------------------------------------------------
(* One side: what it receives.                                             *)

\* The queue without its first message.
LEMMA Receiving ==
    ASSUME net \in [Peer -> Seq(Msg)], NEW p \in Peer, Receive(p)
    PROVE  /\ net' \in [Peer -> Seq(Msg)] /\ Shrunk(net[p], net'[p]) /\ net[p] # << >>
           /\ Head(net[p]) = net[p][1] /\ Head(net[p]) \in Msg
           /\ \A q \in Peer : q # p => net'[q] = net[q]
<1>1. net[p] # << >> /\ net[p] \in Seq(Msg) /\ net' = [net EXCEPT ![p] = Tail(net[p])]
  BY DEF Receive
<1>2. PICK q \in Seq(Msg) : q = Tail(net[p]) /\ Shrunk(net[p], q) /\ Head(net[p]) = net[p][1] /\ net[p][1] \in Msg
  BY <1>1, Taking
<1>3. net' = [net EXCEPT ![p] = q]
  BY <1>1, <1>2
<1> QED
  BY <1>1, <1>2, <1>3

\* Nobody listens.
LEMMA LostStep ==
    ASSUME IndInv, NEW p \in Peer, net' \in [Peer -> Seq(Msg)], NEW b \in BOOLEAN,
           call' = [call EXCEPT ![p].has = b], env' = [env EXCEPT !.lost = TRUE],
           UNCHANGED <<conn, timer>>
    PROVE  IndInv'
<1> USE SideFacts
<1>1. PICK k0 \in CallType : k0 = call[p]
  OBVIOUS
<1>2. PICK k : k = [k0 EXCEPT !.has = b]
  OBVIOUS
<1>3. k \in CallType /\ k.started = k0.started /\ k.pub = k0.pub
  BY <1>2 DEF CallType
<1>4. Sets(call, call', p, k)
  BY <1>1, <1>2 DEF Sets
<1>5. Onward(env, env') /\ env'.lost /\ env'.overlap = env.overlap
  BY DEF EnvType, Onward
<1>6. TrackInv(k, conn[p], env'.overlap) /\ StartInv(k, conn[p], env'.lost)
  <2>1. SameTracks(conn[p], conn[p])
    BY DEF SameTracks
  <2>2. TrackInv(k, conn[p], env.overlap)
    BY <1>1, <1>3, <2>1, TracksKept
  <2> QED
    BY <1>1, <1>3, <1>5, <2>2 DEF StartInv
<1> QED
  BY <1>3, <1>4, <1>5, <1>6, SideStep DEF SideInv

\* A listening call.
Listening(p) ==
    call[p].started /\ ~ call[p].closed /\ (conn[p].live \/ conn[p].id < MaxConns)

\* The other side has left the room.
LEMMA PeerLeftStep ==
    ASSUME IndInv, NEW p \in Peer, net' \in [Peer -> Seq(Msg)], env' = env, Listening(p), PeerLeft(p)
    PROVE  IndInv'
<1> USE SideFacts
<1>1. call \in [Peer -> CallType]
  BY DEF IndInv, Typing
<1>2. PICK k \in CallType : Sets(call, call', p, k) /\ k.started = call[p].started
  BY <1>1, CallMarked DEF PeerLeft
<1>3. conn[p].id \in Ids
  BY DEF ConnType
<1>4. PICK c \in ConnType : c = Dropped(conn[p]) /\ ConnInv(c) /\ ~ c.live /\ c.id = conn[p].id
  BY <1>3, NotYetMade DEF Dropped
<1>5. Sets(conn, conn', p, c) /\ Sets(timer, timer', p, 0)
  BY <1>4 DEF PeerLeft, Becomes, Untimed, Sets
<1>6. SideInv(k, c, 0, env')
  BY <1>2, <1>4 DEF SideInv, TimerInv, TrackInv, StartInv, Listening
<1> QED
  BY <1>2, <1>4, <1>5, <1>6, Constants, SideStep

\* The other side has joined it.
LEMMA PeerJoinedStep ==
    ASSUME IndInv, NEW p \in Peer, net' \in [Peer -> Seq(Msg)], env' = env, Listening(p), PeerJoined(p)
    PROVE  IndInv'
<1> USE SideFacts
<1>1. PICK k0 \in CallType : k0 = call[p]
  OBVIOUS
<1>2. PICK k : k = [k0 EXCEPT !.has = TRUE]
  OBVIOUS
<1>3. k \in CallType /\ k.started = k0.started /\ k.pub = k0.pub
  BY <1>2 DEF CallType
<1>4. Sets(call, call', p, k) /\ timer' = timer
  BY <1>1, <1>2 DEF PeerJoined, Sets
<1>5. conn[p].live \/ conn[p].id < MaxConns
  BY DEF Listening
<1>6. PICK d : d = GetOrCreate(p, conn[p]) /\ d \in ConnType /\ ConnInv(d) /\ d.id > 0
  BY <1>5, Created
<1>7. TimerInv(d, timer[p]) /\ TrackInv(k, d, env.overlap)
  BY <1>1, <1>3, <1>5, <1>6, CreatedSide
<1>8. Sets(conn, conn', p, d)
  BY <1>6 DEF PeerJoined, Becomes, Sets
<1>9. SideInv(k, d, timer[p], env)
  BY <1>1, <1>3, <1>6, <1>7 DEF SideInv, StartInv, Listening
<1> QED
  BY <1>3, <1>4, <1>6, <1>8, <1>9, SideStep

\* A signal's handler, on the connection it has fetched or made.
LEMMA HandledStep ==
    ASSUME IndInv, NEW p \in Peer, net' \in [Peer -> Seq(Msg)], env' = env, Listening(p), call' = call,
           NEW c \in ConnType, c = GetOrCreate(p, conn[p]), NEW d \in ConnType, NEW t \in {0, timer[p]},
           ConnInv(d), TimerInv(c, timer[p]) => TimerInv(d, t), SameTracks(c, d), d.live, d.id = c.id,
           Sets(conn, conn', p, d), Sets(timer, timer', p, t)
    PROVE  IndInv'
<1> USE SideFacts
<1>1. conn[p].live \/ conn[p].id < MaxConns
  BY DEF Listening
<1>2. c.live /\ c.id > 0
  BY <1>1, Created
<1>3. TimerInv(c, timer[p]) /\ TrackInv(call[p], c, env.overlap)
  BY <1>1, FetchedSide
<1>4. TrackInv(call[p], d, env.overlap)
  BY <1>2, <1>3, TracksKept
<1>5. SideInv(call[p], d, t, env)
  BY <1>2, <1>3, <1>4 DEF SideInv, StartInv, Listening
<1> QED
  BY <1>5, Constants, SideStep

\* handleOffer up to its first await.
LEMMA OnOfferStep ==
    ASSUME IndInv, NEW p \in Peer, net' \in [Peer -> Seq(Msg)], env' = env, Listening(p),
           NEW c, c = GetOrCreate(p, conn[p]), NEW m \in Msg, OnOffer(p, c, m)
    PROVE  IndInv'
<1>1. c \in ConnType /\ ConnInv(c) /\ c.live /\ c.id > 0
  BY Created, SideFacts DEF Listening
<1>2. PICK b \in BOOLEAN : b <=> c.making \/ c.sig # "stable"
  OBVIOUS
<1>3. m.of \in Of
  BY DEF Msg
<1>4. CASE b /\ p = "impolite"
  <2>1. Sets(conn, conn', p, c) /\ Sets(timer, timer', p, 0) /\ call' = call
    BY <1>2, <1>4 DEF OnOffer, Becomes, Untimed, Sets
  <2>2. TimerInv(c, 0) /\ SameTracks(c, c)
    BY DEF TimerInv, SameTracks
  <2> QED
    BY <1>1, <2>1, <2>2, HandledStep
<1>5. CASE b /\ p # "impolite"
  <2>1. PICK r \in Op : r = Operation("rollback", m.of) /\ r.kind = "rollback" /\ r.of = m.of
    BY <1>3, MadeOp DEF Kinds
  <2>2. c.gen + 1 \in Nat
    BY <1>1 DEF ConnType
  <2>3. PICK f : f = [c EXCEPT !.gen = c.gen + 1, !.making = FALSE]
    OBVIOUS
  <2>4. /\ f \in ConnType /\ f.id = c.id /\ f.live = c.live /\ f.sig = c.sig /\ ~ f.making /\ f.ops = c.ops
        /\ SameBuffer(c, f) /\ SameTracks(c, f)
    BY <1>1, <2>2, <2>3 DEF ConnType, SameBuffer, SameTracks
  <2>5. PICK d : Enqueued(f, r, d)
    BY DEF Enqueued
  <2>6. /\ d \in ConnType /\ Grown(c.ops, r, d.ops) /\ d.id = c.id /\ d.live = c.live /\ d.sig = c.sig
        /\ ~ d.making /\ SameBuffer(c, d) /\ SameTracks(c, d)
    BY <2>4, <2>5, OpAdded DEF SameBuffer, SameTracks
  <2>7. d = [c EXCEPT !.gen = c.gen + 1, !.making = FALSE, !.ops = Append(c.ops, r)]
    BY <1>1, <2>3, <2>4, <2>5 DEF Enqueued, ConnType
  <2>8. Sets(conn, conn', p, d) /\ UNCHANGED <<call, timer>>
    BY <1>2, <1>5, <2>1, <2>7 DEF OnOffer, Becomes, Sets
  <2>9. r \in Handler
    BY <2>1 DEF Handler, WorkOp, Kinds
  <2>10. ConnInv(d) /\ (TimerInv(c, timer[p]) => TimerInv(d, timer[p]))
    BY <1>1, <2>6, <2>9, HandlerAdded
  <2> QED
    BY <1>1, <2>6, <2>8, <2>10, HandledStep, SideFacts
<1>6. CASE ~ b
  <2>1. PICK r \in Op : r = Operation("remote", m.of) /\ r.kind = "remote" /\ r.of = m.of
    BY <1>3, MadeOp DEF Kinds
  <2>2. PICK d : Enqueued(c, r, d)
    BY DEF Enqueued
  <2>3. /\ d \in ConnType /\ Grown(c.ops, r, d.ops) /\ d.id = c.id /\ d.live = c.live /\ d.sig = c.sig
        /\ d.making = c.making /\ d.gen = c.gen /\ SameBuffer(c, d) /\ SameTracks(c, d)
    BY ZenonT(60), <1>1, <2>2, OpAdded
  <2>4. Sets(conn, conn', p, d) /\ UNCHANGED <<call, timer>>
    BY <1>2, <1>6, <2>1, <2>2 DEF OnOffer, Becomes, Sets, Enqueued
  <2>5. r \in Handler
    BY <2>1 DEF Handler, WorkOp, Kinds
  <2>6. ConnInv(d) /\ (TimerInv(c, timer[p]) => TimerInv(d, timer[p]))
    BY <1>1, <2>3, <2>5, HandlerAdded
  <2> QED
    BY <1>1, <2>3, <2>4, <2>6, HandledStep, SideFacts
<1> QED
  BY <1>4, <1>5, <1>6

\* handleAnswer up to its first await.
LEMMA OnAnswerStep ==
    ASSUME IndInv, NEW p \in Peer, net' \in [Peer -> Seq(Msg)], env' = env, Listening(p),
           NEW c, c = GetOrCreate(p, conn[p]), NEW m \in Msg, OnAnswer(p, c, m)
    PROVE  IndInv'
<1>1. c \in ConnType /\ ConnInv(c) /\ c.live /\ c.id > 0
  BY Created, SideFacts DEF Listening
<1>2. m.of \in Of
  BY DEF Msg
<1>3. PICK r \in Op : r = Operation("apply", m.of) /\ r.kind = "apply" /\ r.of = m.of
  BY <1>2, MadeOp DEF Kinds
<1>4. PICK d : Enqueued(c, r, d)
  BY DEF Enqueued
<1>5. /\ d \in ConnType /\ Grown(c.ops, r, d.ops) /\ d.id = c.id /\ d.live = c.live /\ d.sig = c.sig
      /\ d.making = c.making /\ d.gen = c.gen /\ SameBuffer(c, d) /\ SameTracks(c, d)
  BY ZenonT(60), <1>1, <1>4, OpAdded
<1>6. Sets(conn, conn', p, d) /\ UNCHANGED <<call, timer>>
  BY <1>3, <1>4 DEF OnAnswer, Becomes, Sets, Enqueued
<1>7. r \in Handler
  BY <1>3 DEF Handler, WorkOp, Kinds
<1>8. ConnInv(d) /\ (TimerInv(c, timer[p]) => TimerInv(d, timer[p]))
  BY <1>1, <1>5, <1>7, HandlerAdded
<1> QED
  BY <1>1, <1>5, <1>6, <1>8, HandledStep, SideFacts

\* addIceCandidate.
LEMMA OnCandidateStep ==
    ASSUME IndInv, NEW p \in Peer, net' \in [Peer -> Seq(Msg)], env' = env, Listening(p),
           NEW c, c = GetOrCreate(p, conn[p]), NEW m \in Msg, OnCandidate(p, c, m), m.type \in {"ice", "eoc"}
    PROVE  IndInv'
<1>1. /\ c \in ConnType /\ ConnInv(c) /\ c.live /\ c.id > 0
      /\ conn[p].live => c = conn[p]
      /\ ~ conn[p].live => c.pend = 0
  BY SMTT(60), Created, SideFacts DEF Listening
<1>2. CASE Drops(p, c)
  <2>1. CASE conn[p].live
    BY <1>1, <1>2, <2>1, DropsStep, SideFacts
  <2>2. CASE ~ conn[p].live
    <3>1. c.id = conn[p].id + 1 /\ c.id \in Ids
      BY SMTT(60), <1>1, <2>2, Created, SideFacts DEF Listening, ConnType
    <3>2. call \in [Peer -> CallType]
      BY DEF IndInv, Typing
    <3>3. PICK k \in CallType : Sets(call, call', p, k) /\ k.started = call[p].started
      BY <1>2, <3>2, CallMarked DEF Drops
    <3>4. PICK d \in ConnType : d = Dropped(c) /\ ConnInv(d) /\ ~ d.live /\ d.id = c.id
      BY <3>1, NotYetMade DEF Dropped
    <3>5. Sets(conn, conn', p, d) /\ Sets(timer, timer', p, 0)
      BY <1>2, <3>4 DEF Drops, Becomes, Untimed, Sets
    <3>6. SideInv(k, d, 0, env')
      BY <1>1, <3>3, <3>4 DEF SideInv, TimerInv, TrackInv, StartInv, Listening
    <3> QED
      BY <3>3, <3>4, <3>5, <3>6, Constants, SideStep, SideFacts
  <2> QED
    BY <2>1, <2>2
<1>3. CASE ~ Drops(p, c)
  <2>1. PICK n \in Pends : n = IF ~ c.remote /\ m.type = "ice" THEN c.pend + 1 ELSE c.pend
    <3>1. c.pend \in Pends
      BY <1>1 DEF ConnType
    <3>2. ~ c.remote /\ m.type = "ice" => c.pend < MaxPending
      BY <1>3 DEF OnCandidate
    <3> QED
      BY <3>1, <3>2, Constants DEF Pends
  <2>2. PICK x \in BOOLEAN : x <=> c.eoc \/ (~ c.remote /\ m.type = "eoc")
    OBVIOUS
  <2>3. PICK d : d = [c EXCEPT !.pend = n, !.eoc = x]
    OBVIOUS
  <2>4. /\ d \in ConnType /\ SameChain(c, d) /\ d.gen = c.gen /\ d.remote = c.remote /\ SameTracks(c, d)
        /\ c.remote => d = c
    BY <1>1, <2>1, <2>2, <2>3 DEF ConnType, SameChain, SameTracks
  <2>5. ConnInv(d) /\ (TimerInv(c, timer[p]) => TimerInv(d, timer[p]))
    <3>1. CASE c.remote
      BY <1>1, <2>4, <3>1
    <3>2. CASE ~ c.remote
      BY <1>1, <2>4, <3>2 DEF ConnInv, TimerInv, SameChain
    <3> QED
      BY <3>1, <3>2
  <2>6. d = IF c.remote THEN c ELSE IF m.type = "eoc" THEN [c EXCEPT !.eoc = TRUE]
            ELSE [c EXCEPT !.pend = c.pend + 1]
    <3>1. CASE c.remote
      BY <2>4, <3>1
    <3>2. CASE ~ c.remote /\ m.type = "eoc"
      BY <1>1, <2>1, <2>2, <2>3, <3>2 DEF ConnType
    <3>3. CASE ~ c.remote /\ m.type # "eoc"
      <4>1. x = c.eoc /\ n = c.pend + 1
        BY <1>1, <2>1, <2>2, <3>3 DEF ConnType
      <4> QED
        BY <1>1, <2>3, <3>3, <4>1 DEF ConnType
    <3> QED
      BY <3>1, <3>2, <3>3
  <2>7. Sets(conn, conn', p, d) /\ UNCHANGED <<call, timer>>
    BY <1>3, <2>6 DEF OnCandidate, Becomes, Sets
  <2> QED
    BY <1>1, <2>4, <2>5, <2>7, HandledStep, SideFacts DEF SameChain
<1> QED
  BY <1>2, <1>3

\* The room hands over an event.
LEMMA ReceiveStep ==
    ASSUME IndInv, NEW p \in Peer, Receive(p) PROVE IndInv'
<1>1. net' \in [Peer -> Seq(Msg)] /\ Head(net[p]) \in Msg
  BY Receiving, SideFacts
<1>2. PICK m \in Msg : m = Head(net[p])
  BY <1>1
<1>3. CASE ~ (call[p].started /\ ~ call[p].closed)
  <2>1. PICK b \in BOOLEAN : b <=> m.type # "left"
    OBVIOUS
  <2>2. call' = [call EXCEPT ![p].has = b] /\ env' = [env EXCEPT !.lost = TRUE] /\ UNCHANGED <<conn, timer>>
    BY <1>2, <1>3, <2>1 DEF Receive
  <2> QED
    BY <1>1, <2>2, LostStep
<1>4. CASE call[p].started /\ ~ call[p].closed
  <2>1. Listening(p) /\ env' = env
    BY <1>4 DEF Receive, Listening
  <2>2. \/ PeerLeft(p) \/ PeerJoined(p) \/ Signal(p, m)
    BY <1>2, <1>4 DEF Receive
  <2>3. CASE Signal(p, m)
    <3>1. CASE ~ conn[p].live /\ ~ call[p].has
      <4>1. UNCHANGED <<call, conn, timer>>
        BY <2>3, <3>1 DEF Signal
      <4> QED
        BY <1>1, <2>1, <4>1, SideStep, SideFacts DEF SideInv
    <3>2. CASE ~ (~ conn[p].live /\ ~ call[p].has)
      <4>1. PICK c : c = GetOrCreate(p, conn[p])
        OBVIOUS
      <4>2. \/ OnOffer(p, c, m) \/ OnAnswer(p, c, m)
            \/ m.type \in {"ice", "eoc"} /\ OnCandidate(p, c, m)
        BY <2>3, <3>2, <4>1 DEF Signal
      <4> QED
        BY <1>1, <2>1, <4>1, <4>2, OnOfferStep, OnAnswerStep, OnCandidateStep
    <3> QED
      BY <3>1, <3>2
  <2> QED
    BY <1>1, <2>1, <2>2, <2>3, PeerLeftStep, PeerJoinedStep
<1> QED
  BY <1>3, <1>4

-----------------------------------------------------------------------------
(* The theorems about one side.                                            *)

\* Each side starts with no connection.
LEMMA Start0 == Init => IndInv
<1>1. SUFFICES ASSUME Init PROVE IndInv
  OBVIOUS
<1>2. ASSUME NEW p \in Peer
      PROVE  /\ call[p] \in CallType /\ conn[p] = NoConnection(0) /\ timer[p] = 0
             /\ ~ call[p].started /\ call[p].has
  <2>1. PICK P \in {{}, Tracks} :
           call[p] = [started |-> FALSE, closed |-> FALSE, has |-> TRUE, pub |-> P, stale |-> FALSE]
    BY <1>1 DEF Init
  <2>2. P \in TrackSets
    BY DEF TrackSets
  <2> QED
    BY <1>1, <2>1, <2>2 DEF Init, CallType
<1>3. \A p \in Peer : conn[p] \in ConnType /\ ConnInv(conn[p]) /\ ~ conn[p].live /\ conn[p].id = 0
  BY <1>2, Constants, NotYetMade
<1>4. Typing
  <2>1. call \in [Peer -> CallType] /\ conn \in [Peer -> ConnType]
    BY <1>1, <1>2, <1>3 DEF Init
  <2>2. timer \in [Peer -> Ids] /\ net \in [Peer -> Seq(Msg)]
    BY <1>1, Constants DEF Init
  <2>3. env \in EnvType
    BY <1>1 DEF Init, EnvType
  <2> QED
    BY <2>1, <2>2, <2>3 DEF Typing
<1> QED
  BY <1>2, <1>3, <1>4 DEF IndInv, SideInv, TimerInv, TrackInv, StartInv

\* A step of any action keeps the invariant.
LEMMA Step == IndInv /\ [Next]_vars => IndInv'
<1>1. SUFFICES ASSUME IndInv, [Next]_vars PROVE IndInv'
  OBVIOUS
<1>2. CASE UNCHANGED vars
  BY <1>1, <1>2 DEF vars, IndInv, Typing
<1>3. CASE Next
  <2>1. PICK p \in Peer :
           \/ Start(p) \/ Refresh(p) \/ Close(p)
           \/ \E t \in Tracks : AddTrack(p, t) \/ Unpublish(p, t)
           \/ \E t, u \in Tracks : ReplaceTrack(p, t, u)
           \/ SwapSettles(p) \/ SwapRejects(p)
           \/ NegotiationNeeded(p) \/ Settles(p) \/ Rejects(p) \/ StaleRejects(p)
           \/ Receive(p) \/ Gathers(p) \/ Connects(p) \/ IceFails(p) \/ Timeout(p)
    BY <1>3 DEF Next
  <2>2. CASE Start(p) \/ Refresh(p) \/ Close(p)
    BY <1>1, <2>2, StartStep, RefreshStep, CloseStep
  <2>3. CASE \/ \E t \in Tracks : AddTrack(p, t) \/ Unpublish(p, t)
             \/ \E t, u \in Tracks : ReplaceTrack(p, t, u)
    BY <1>1, <2>3, AddTrackStep, UnpublishStep, ReplaceTrackStep
  <2>4. CASE \/ SwapSettles(p) \/ SwapRejects(p)
             \/ NegotiationNeeded(p) \/ Settles(p) \/ Rejects(p) \/ StaleRejects(p)
    BY <1>1, <2>4, SwapSettlesStep, SwapRejectsStep, NegotiationNeededStep, SettlesStep, RejectsStep, StaleRejectsStep
  <2>5. CASE Receive(p) \/ Gathers(p) \/ Connects(p) \/ IceFails(p) \/ Timeout(p)
    BY <1>1, <2>5, ReceiveStep, GathersStep, ConnectsStep, IceFailsStep, TimeoutStep
  <2> QED
    BY <2>1, <2>2, <2>3, <2>4, <2>5
<1> QED
  BY <1>1, <1>2, <1>3

\* The invariant of the sides holds throughout.
THEOREM Invariance == Spec => []IndInv
<1>1. Init => IndInv
  BY Start0
<1>2. IndInv /\ [Next]_vars => IndInv'
  BY Step
<1> QED
  BY <1>1, <1>2, PTL DEF Spec

\* Every reachable state is well typed; in particular a side that is making an offer
\* has it in its chain (makingOffer of PeerConnection).
THEOREM TypeCorrect == Spec => []TypeOK
<1>1. IndInv => TypeOK
  <2>1. SUFFICES ASSUME IndInv PROVE TypeOK
    OBVIOUS
  <2>2. call \in [Peer -> [started : BOOLEAN, closed : BOOLEAN, has : BOOLEAN,
                           pub : SUBSET Tracks, stale : BOOLEAN]]
    BY <2>1 DEF IndInv, Typing, CallType, TrackSets
  <2>3. timer \in [Peer -> 0 .. MaxConns]
    BY <2>1 DEF IndInv, Typing, Ids
  <2>4. ASSUME NEW p \in Peer
        PROVE  /\ conn[p].id \in 0 .. MaxConns
               /\ conn[p].sig \in {"stable", "local", "remote"}
               /\ conn[p].pend \in 0 .. MaxPending
               /\ conn[p].restarts \in 0 .. MaxIceRestarts
               /\ conn[p].making => \E i \in DOMAIN conn[p].ops : conn[p].ops[i].kind = "offer"
    <3>1. conn[p] \in ConnType /\ ConnInv(conn[p])
      BY <2>1, SideFacts
    <3>2. conn[p].ops \in Seq(Op) /\ DOMAIN conn[p].ops = 1 .. Len(conn[p].ops)
      BY <3>1 DEF ConnType, Ops
    <3>3. conn[p].making => \E i \in 1 .. Len(conn[p].ops) : conn[p].ops[i].kind = "offer"
      BY <3>1 DEF ConnInv, In, CurrentOffer, OfferOp, WorkOp
    <3> QED
      BY <3>1, <3>2, <3>3 DEF ConnType, Ids, Sigs, Pends, Restarts
  <2> QED
    BY <2>2, <2>3, <2>4 DEF TypeOK
<1> QED
  BY <1>1, Invariance, PTL

\* Some handler is at work when an operation of one is in the chain.
LEMMA HandlingIn ==
    ASSUME NEW c \in ConnType
    PROVE  Handling(c) # {} <=> In(c.ops, Handler)
<1>1. c.ops \in Seq(Op) /\ DOMAIN c.ops = 1 .. Len(c.ops)
  BY DEF ConnType, Ops
<1>2. \A k \in 1 .. Len(c.ops) : c.ops[k] \in Op /\ (c.ops[k] \in Handler <=> c.ops[k].kind # "offer")
  <2>1. \A o \in Op : o \in Handler <=> o.kind # "offer"
    BY DEF Handler, WorkOp, Op
  <2>2. \A k \in 1 .. Len(c.ops) : c.ops[k] \in Op
    BY <1>1
  <2> QED
    BY <2>1, <2>2
<1> QED
  BY <1>1, <1>2 DEF Handling, In

\* No negotiation timer outlives the negotiation it is for: an armed one belongs to the
\* present connection, which awaits an answer or has a handler at work (Call.ts,
\* _clearPeerTimer and the NegotiationNeeded listener).
THEOREM TimersAreNeeded == Spec => []TimerMeansWaiting
<1>1. IndInv => TimerMeansWaiting
  BY SideFacts, HandlingIn DEF TimerMeansWaiting, TimerInv
<1> QED
  BY <1>1, Invariance, PTL

\* No candidate stays in the buffer once there is a remote description and no handler
\* is at work (PeerConnection.addIceCandidate and drainCandidates).
THEOREM CandidatesAreApplied == Spec => []CandidatesDrained
<1>1. IndInv => CandidatesDrained
  <2>1. SUFFICES ASSUME IndInv, NEW p \in Peer, conn[p].live, conn[p].remote, Handling(conn[p]) = {}
                 PROVE  conn[p].pend = 0 /\ ~ conn[p].eoc
    BY DEF CandidatesDrained
  <2>2. conn[p] \in ConnType /\ ConnInv(conn[p])
    BY <2>1, SideFacts
  <2>3. ~ In(conn[p].ops, Handler)
    BY <2>1, <2>2, HandlingIn
  <2>4. DrainOp \subseteq Handler
    BY DEF DrainOp, Handler, Drains, WorkOp, Kinds
  <2>5. ~ In(conn[p].ops, DrainOp)
    BY <2>3, <2>4 DEF In
  <2>6. conn[p].pend \in Nat
    BY <2>2, Constants DEF ConnType, Pends
  <2> QED
    BY <2>1, <2>2, <2>5, <2>6 DEF ConnInv
<1> QED
  BY <1>1, Invariance, PTL

\* What a connection sends follows the registry of local tracks, whichever of the two
\* came first (Call.getOrCreateConnection, addTrack, replaceTrack, removeTrack), but for
\* a replacement the browser is still making or has refused (PeerConnection.replaceTrack).
THEOREM SendersFollow == Spec => []SendersFollowRegistry
<1>1. IndInv => SendersFollowRegistry
  <2>1. SUFFICES ASSUME IndInv, NEW p \in Peer, conn[p].live, ~ env.overlap
                 PROVE  conn[p].senders = (call[p].pub \ {s[2] : s \in Unmade(conn[p])})
                                              \cup {s[1] : s \in Unmade(conn[p])}
    BY DEF SendersFollowRegistry
  <2>2. TrackInv(call[p], conn[p], env.overlap)
    BY <2>1, SideFacts
  <2>3. CASE conn[p].swap = {} /\ conn[p].refused = {} /\ conn[p].senders = call[p].pub
    <3>1. Unmade(conn[p]) = {}
      BY <2>3 DEF Unmade
    <3> QED
      BY <2>3, <3>1
  <2>4. CASE ~ (conn[p].swap = {} /\ conn[p].refused = {} /\ conn[p].senders = call[p].pub)
    <3>1. PICK t, u \in Tracks : /\ Pending(conn[p], t, u) /\ t \notin call[p].pub /\ u \in call[p].pub
                                 /\ conn[p].senders = (call[p].pub \ {u}) \cup {t}
      BY <2>1, <2>2, <2>4 DEF TrackInv
    <3>2. Unmade(conn[p]) = {<<t, u>>}
      BY <3>1 DEF Unmade, Pending
    <3>3. {s[2] : s \in Unmade(conn[p])} = {u} /\ {s[1] : s \in Unmade(conn[p])} = {t}
      BY <3>2
    <3> QED
      BY <3>1, <3>3
  <2> QED
    BY <2>3, <2>4
<1> QED
  BY <1>1, Invariance, PTL

-----------------------------------------------------------------------------
(* Both sides: the queues.                                                 *)

\* What kind of operation or message an element is.
LEMMA OpClass ==
    ASSUME NEW o \in Op
    PROVE  /\ o \in OfferOp <=> o.kind = "offer"
           /\ o \in OfferHandler <=> o.kind \in {"rollback", "remote", "answer", "drain answer"}
           /\ o \in AppliedPart <=> o.kind \in {"remote", "answer", "drain answer"}
           /\ o \in AnswerPart <=> o.kind \in {"answer", "drain answer"}
           /\ o \in RollbackOp <=> o.kind = "rollback"
           /\ o \in ApplyOp <=> o.kind = "apply"
  BY DEF OfferOp, OfferHandler, AppliedPart, AnswerPart, RollbackOp, ApplyOp, WorkOp
\* The same of messages.
LEMMA MsgClass ==
    ASSUME NEW m \in Msg
    PROVE  /\ m \in OfferMsg <=> m.type = "offer"
           /\ m \in AnswerMsg <=> m.type = "answer"
           /\ m \in RoomMsg <=> m.type \in {"left", "joined"}
  BY DEF OfferMsg, AnswerMsg, RoomMsg

\* A part of a set of operations.
LEMMA InPart ==
    ASSUME NEW q
    PROVE  /\ In(q, AnswerPart) => In(q, AppliedPart)
           /\ In(q, AppliedPart) => In(q, OfferHandler)
           /\ In(q, RollbackOp) => In(q, OfferHandler)
           /\ In(q, OfferHandler) => In(q, AppliedPart) \/ In(q, RollbackOp)
<1>1. AnswerPart \subseteq AppliedPart /\ AppliedPart \subseteq OfferHandler /\ RollbackOp \subseteq OfferHandler
  BY DEF AnswerPart, AppliedPart, OfferHandler, RollbackOp, WorkOp
<1>2. \A o : o \in OfferHandler => o \in AppliedPart \/ o \in RollbackOp
  BY DEF AppliedPart, OfferHandler, RollbackOp, WorkOp
<1> QED
  BY <1>1, <1>2 DEF In

\* A side making an offer has it in its chain.
LEMMA MakingIn ==
    ASSUME NEW c, ConnInv(c), c.making
    PROVE  In(c.ops, OfferOp) /\ c.sig = "stable"
<1>1. In(c.ops, OfferOp)
  BY DEF ConnInv, In, CurrentOffer
<1> QED
  BY <1>1 DEF ConnInv

\* A queue that lost its first element, and one that gained one, for every set at once.
Losing(q, p) ==
    /\ \A X : In(q, X) <=> In(p, X) \/ q[1] \in X
    /\ \A X : Single(q, X) => Single(p, X) /\ (q[1] \in X => ~ In(p, X))
    /\ \A X, of : About(q, X, of) => About(p, X, of) /\ (q[1] \in X => q[1].of = of)
    /\ \A X, Y : Ordered(q, X, Y) => Ordered(p, X, Y) /\ (q[1] \in Y => ~ In(p, X) /\ q[1] \notin X)
Gaining(q, m, p) ==
    /\ \A X : In(p, X) <=> In(q, X) \/ m \in X
    /\ \A X : Single(q, X) /\ ~ (In(q, X) /\ m \in X) => Single(p, X)
    /\ \A X, of : About(q, X, of) /\ (m \in X => m.of = of) => About(p, X, of)
    /\ \A X, Y : Ordered(q, X, Y) /\ (m \in X => m \notin Y /\ ~ In(q, Y)) => Ordered(p, X, Y)
\* The first element is taken.
LEMMA QueueLosing ==
    ASSUME NEW S, NEW q \in Seq(S), NEW p \in Seq(S), Shrunk(q, p)
    PROVE  Losing(q, p)
  BY InShrunk DEF Losing
\* An element is appended.
LEMMA QueueGaining ==
    ASSUME NEW S, NEW q \in Seq(S), NEW m, NEW p \in Seq(S), Grown(q, m, p)
    PROVE  Gaining(q, m, p)
  BY InGrown, OrderedGrown DEF Gaining

\* When no element is in X nothing is said of them.
LEMMA NoneIn ==
    ASSUME NEW q, NEW X, ~ In(q, X)
    PROVE  Single(q, X) /\ \A of, Y : About(q, X, of) /\ Ordered(q, X, Y) /\ Ordered(q, Y, X)
  BY DEF In, Single, About, Ordered

-----------------------------------------------------------------------------
(* Both sides: the offers on their way to the impolite one.                *)

\* All of them will be ignored.
IgnoresAll(i, ni) == i.making \/ (i.sig = "local" /\ ~ In(i.ops, ApplyOp) /\ ~ In(ni, AnswerMsg))
\* They are then accounted for.
LEMMA AllIgnored ==
    ASSUME NEW i, NEW p, NEW ni, NEW np, IgnoresAll(i, ni)
    PROVE  PoliteOffers(i, p, ni, np)
  BY DEF PoliteOffers, Ignored, IgnoresAll, In

\* There are none.
LEMMA NoOffers ==
    ASSUME NEW i, NEW p, NEW ni, NEW np, ~ In(ni, OfferMsg)
    PROVE  PoliteOffers(i, p, ni, np)
  BY DEF PoliteOffers, In

\* What the two sides keep for them to be ignored or answered as before.
Ignores(i, i2) == i2.making = i.making /\ i2.sig = i.sig /\ (In(i2.ops, ApplyOp) <=> In(i.ops, ApplyOp))
Waits(i, p, np, i2, p2, np2) ==
    p2.sig = p.sig /\ p2.mine = p.mine /\ (Accepted(i2, p2, np2) => Accepted(i, p, np))
\* Then they are ignored or answered as before.
LEMMA OffersKept ==
    ASSUME NEW i, NEW p, NEW ni, NEW np, PoliteOffers(i, p, ni, np), NEW i2, NEW p2, NEW np2,
           Ignores(i, i2), Waits(i, p, np, i2, p2, np2) \/ p.sig # "local" \/ Accepted(i, p, np)
    PROVE  PoliteOffers(i2, p2, ni, np2)
  BY DEF PoliteOffers, Ignored, Ignores, Waits

\* The queue grows, by an offer only if all others are ignored and this one is not yet.
LEMMA OffersGrown ==
    ASSUME NEW i, NEW p, NEW ni \in Seq(Msg), NEW np, PoliteOffers(i, p, ni, np), NEW p2,
           NEW m, NEW n2 \in Seq(Msg), Grown(ni, m, n2),
           \/ m \notin OfferMsg /\ Waits(i, p, np, i, p2, np)
           \/ m \notin OfferMsg /\ p.sig # "local"
           \/ /\ m \notin AnswerMsg /\ p.sig # "local"
              /\ p2.sig = "local" /\ m.of = <<1, p2.mine>> /\ ~ Accepted(i, p2, np)
    PROVE  PoliteOffers(i, p2, n2, np)
<1>1. Len(ni) \in Nat /\ Len(n2) = Len(ni) + 1 /\ n2[Len(ni) + 1] = m
  BY DEF Grown
<1>2. \A k \in 1 .. Len(ni) : n2[k] = ni[k] /\ k < Len(ni) + 1
  BY <1>1 DEF Grown
<1>3. \A k \in 1 .. Len(n2) : k \in 1 .. Len(ni) \/ k = Len(ni) + 1
  BY <1>1
<1>4. ASSUME NEW k \in 1 .. Len(ni), Ignored(i, ni, k) PROVE Ignored(i, n2, k)
  BY <1>1, <1>2, <1>3, <1>4 DEF Ignored
<1>5. ASSUME m \notin OfferMsg, NEW k \in 1 .. Len(ni), \A l \in 1 .. Len(ni) : ni[l] \in OfferMsg => l <= k
      PROVE  \A l \in 1 .. Len(n2) : n2[l] \in OfferMsg => l <= k
  BY <1>1, <1>2, <1>3, <1>5
<1>6. CASE m \notin OfferMsg /\ Waits(i, p, np, i, p2, np)
  BY <1>1, <1>2, <1>3, <1>4, <1>5, <1>6 DEF PoliteOffers, Waits
<1>7. CASE m \notin OfferMsg /\ p.sig # "local"
  BY <1>1, <1>2, <1>3, <1>4, <1>7 DEF PoliteOffers
<1>8. CASE /\ m \notin AnswerMsg /\ p.sig # "local"
           /\ p2.sig = "local" /\ m.of = <<1, p2.mine>> /\ ~ Accepted(i, p2, np)
  <2>1. \A l \in 1 .. Len(n2) : l <= Len(ni) + 1
    BY <1>1
  <2>2. ASSUME NEW k \in 1 .. Len(ni), n2[k] \in OfferMsg PROVE Ignored(i, n2, k)
    BY <1>2, <1>4, <1>8, <2>2 DEF PoliteOffers
  <2> QED
    BY <1>1, <1>2, <1>3, <1>8, <2>1, <2>2 DEF PoliteOffers
<1> QED
  BY <1>6, <1>7, <1>8

\* The queue loses its first message, which is no answer or unblocks all others.
LEMMA OffersShrunk ==
    ASSUME NEW i, NEW p, NEW ni \in Seq(Msg), NEW np, PoliteOffers(i, p, ni, np), NEW i2,
           NEW n2 \in Seq(Msg), Shrunk(ni, n2), Waits(i, p, np, i2, p, np),
           \/ ni[1] \notin AnswerMsg /\ Ignores(i, i2)
           \/ ni[1] \in AnswerMsg /\ ~ i.making
    PROVE  PoliteOffers(i2, p, n2, np)
<1>1. Len(ni) \in Nat /\ Len(n2) \in Nat /\ Len(ni) = Len(n2) + 1
  BY DEF Shrunk
<1>2. \A k \in 1 .. Len(n2) : k + 1 \in 1 .. Len(ni) /\ n2[k] = ni[k + 1] /\ k \in Nat
  BY <1>1 DEF Shrunk
<1>3. 1 \in 1 .. Len(ni)
  BY <1>1
<1>4. ASSUME NEW k \in 1 .. Len(n2), Ignored(i, ni, k + 1)
      PROVE  Ignored(i2, n2, k)
  <2>1. ni[1] \in AnswerMsg /\ ~ i.making => k + 1 < 1
    BY <1>3, <1>4 DEF Ignored
  <2>2. ni[1] \notin AnswerMsg /\ Ignores(i, i2)
    BY <1>2, <2>1
  <2>3. CASE i.making
    BY <2>2, <2>3 DEF Ignored, Ignores
  <2>4. CASE ~ i.making
    <3>1. i2.sig = "local" /\ ~ In(i2.ops, ApplyOp)
      BY <1>4, <2>2, <2>4 DEF Ignored, Ignores
    <3>2. \A l \in 1 .. Len(n2) : n2[l] \in AnswerMsg => k + 1 < l + 1
      BY <1>2, <1>4, <2>4 DEF Ignored
    <3>3. \A l \in 1 .. Len(n2) : n2[l] \in AnswerMsg => k < l
      BY <1>2, <3>2
    <3> QED
      BY <3>1, <3>3 DEF Ignored
  <2> QED
    BY <2>3, <2>4
<1>5. ASSUME NEW k \in 1 .. Len(n2), \A l \in 1 .. Len(ni) : ni[l] \in OfferMsg => l <= k + 1
      PROVE  \A l \in 1 .. Len(n2) : n2[l] \in OfferMsg => l <= k
  BY <1>2, <1>5
<1> QED
  BY <1>2, <1>4, <1>5 DEF PoliteOffers, Waits

-----------------------------------------------------------------------------
(* Both sides: the steps of the impolite one.                              *)

\* What a step finds.
Sides(i, p, ni, np) ==
    /\ GlareInv(i, p, ni, np) /\ i \in ConnType /\ p \in ConnType /\ ConnInv(i) /\ ConnInv(p)
    /\ ni \in Seq(Msg) /\ np \in Seq(Msg) /\ i.ops \in Seq(Op) /\ p.ops \in Seq(Op)

\* Fields that matter to the negotiations.
SameSide(c, d) == d.sig = c.sig /\ d.ops = c.ops /\ d.mine = c.mine /\ d.making = c.making

\* Nothing of it changes.
LEMMA GlareKept ==
    ASSUME NEW i, NEW p, NEW ni, NEW np, GlareInv(i, p, ni, np), NEW i2, NEW p2,
           SameSide(i, i2), SameSide(p, p2)
    PROVE  GlareInv(i2, p2, ni, np)
<1>1. Ignores(i, i2) /\ Waits(i, p, np, i2, p2, np)
  BY DEF SameSide, Ignores, Waits, Accepted
<1>2. PoliteOffers(i2, p2, ni, np)
  BY <1>1, OffersKept DEF GlareInv
<1>3. ImpoliteOffer(i2, p2, ni, np)
  BY DEF GlareInv, ImpoliteOffer, SameSide
<1>4. PoliteOffer(i2, p2, ni, np) /\ Chains(i2, p2)
  BY DEF GlareInv, PoliteOffer, Chains, Accepted, SameSide
<1> QED
  BY <1>2, <1>3, <1>4 DEF GlareInv

\* A message other than an offer, an answer or an event of the room.
Candidate == {m \in Msg : m.type \in {"ice", "eoc"}}

\* A candidate is sent to the impolite side, or taken by it.
LEMMA CandidateImpolite ==
    ASSUME NEW i, NEW p, NEW ni, NEW np, Sides(i, p, ni, np), NEW n2 \in Seq(Msg),
           \/ \E m \in Candidate : Grown(ni, m, n2)
           \/ Shrunk(ni, n2) /\ ni[1] \in Candidate
    PROVE  GlareInv(i, p, n2, np)
<1>1. Ignores(i, i) /\ Waits(i, p, np, i, p, np)
  BY DEF Ignores, Waits
<1>2. CASE \E m \in Candidate : Grown(ni, m, n2)
  <2>1. PICK m \in Candidate : Grown(ni, m, n2)
    BY <1>2
  <2>2. m \notin OfferMsg /\ m \notin AnswerMsg /\ m \notin RoomMsg
    BY DEF Candidate, OfferMsg, AnswerMsg, RoomMsg
  <2>3. Gaining(ni, m, n2)
    BY <2>1, QueueGaining DEF Sides
  <2>4. PoliteOffers(i, p, n2, np)
    BY <1>1, <2>1, <2>2, OffersGrown DEF Sides, GlareInv
  <2> QED
    BY <2>2, <2>3, <2>4 DEF Sides, GlareInv, ImpoliteOffer, PoliteOffer, Gaining
<1>3. CASE Shrunk(ni, n2) /\ ni[1] \in Candidate
  <2>1. ni[1] \notin OfferMsg /\ ni[1] \notin AnswerMsg /\ ni[1] \notin RoomMsg
    BY <1>3 DEF Candidate, OfferMsg, AnswerMsg, RoomMsg
  <2>2. Losing(ni, n2)
    BY <1>3, QueueLosing DEF Sides
  <2>3. PoliteOffers(i, p, n2, np)
    BY <1>1, <1>3, <2>1, OffersShrunk DEF Sides, GlareInv
  <2> QED
    BY <2>1, <2>2, <2>3 DEF Sides, GlareInv, ImpoliteOffer, PoliteOffer, Losing
<1> QED
  BY <1>2, <1>3

\* A candidate is sent to the polite side, or taken by it.
LEMMA CandidatePolite ==
    ASSUME NEW i, NEW p, NEW ni, NEW np, Sides(i, p, ni, np), NEW n2 \in Seq(Msg),
           \/ \E m \in Candidate : Grown(np, m, n2)
           \/ Shrunk(np, n2) /\ np[1] \in Candidate
    PROVE  GlareInv(i, p, ni, n2)
<1>1. /\ \A X \in {OfferMsg, AnswerMsg, RoomMsg} : In(n2, X) <=> In(np, X)
      /\ \A X \in {OfferMsg, AnswerMsg} : Single(np, X) => Single(n2, X)
      /\ \A X \in {OfferMsg, AnswerMsg} : \A of : About(np, X, of) => About(n2, X, of)
      /\ Ordered(np, AnswerMsg, OfferMsg) => Ordered(n2, AnswerMsg, OfferMsg)
  <2>1. CASE \E m \in Candidate : Grown(np, m, n2)
    <3>1. PICK m \in Candidate : Grown(np, m, n2)
      BY <2>1
    <3>2. m \notin OfferMsg /\ m \notin AnswerMsg /\ m \notin RoomMsg
      BY DEF Candidate, OfferMsg, AnswerMsg, RoomMsg
    <3>3. Gaining(np, m, n2)
      BY <3>1, QueueGaining DEF Sides
    <3> QED
      BY <3>2, <3>3 DEF Gaining
  <2>2. CASE Shrunk(np, n2) /\ np[1] \in Candidate
    <3>1. np[1] \notin OfferMsg /\ np[1] \notin AnswerMsg /\ np[1] \notin RoomMsg
      BY <2>2 DEF Candidate, OfferMsg, AnswerMsg, RoomMsg
    <3>2. Losing(np, n2)
      BY <2>2, QueueLosing DEF Sides
    <3> QED
      BY <3>1, <3>2 DEF Losing
  <2> QED
    BY <2>1, <2>2
<1>2. Ignores(i, i) /\ Waits(i, p, np, i, p, n2)
  BY <1>1 DEF Ignores, Waits, Accepted
<1>3. PoliteOffers(i, p, ni, n2)
  BY <1>2, OffersKept DEF Sides, GlareInv
<1> QED
  BY <1>1, <1>3 DEF Sides, GlareInv, ImpoliteOffer, PoliteOffer, Accepted

\* The impolite side begins an offer.
LEMMA ImpoliteBegins ==
    ASSUME NEW i, NEW p, NEW ni, NEW np, Sides(i, p, ni, np), NEW i2,
           i.ops = << >>, i.sig = "stable", i2.sig = i.sig, i2.mine = i.mine, i2.making,
           NEW o \in OfferOp, i2.ops = <<o>>
    PROVE  GlareInv(i2, p, ni, np)
<1>1. o \in Op /\ o \notin OfferHandler /\ o \notin AnswerPart /\ o \notin RollbackOp /\ o \notin ApplyOp
  BY DEF OfferOp, OfferHandler, AnswerPart, RollbackOp, ApplyOp, WorkOp
<1>2. Len(i2.ops) = 1 /\ i2.ops[1] = o
  OBVIOUS
<1>3. \A X : In(i2.ops, X) <=> o \in X
  BY <1>2 DEF In
<1>4. \A X : ~ In(i.ops, X)
  BY EmptyQueue
<1>5. /\ Single(i2.ops, OfferHandler) /\ Single(i2.ops, ApplyOp)
      /\ \A of : About(i2.ops, OfferHandler, of) /\ About(i2.ops, ApplyOp, of)
  BY <1>1, <1>3, NoneIn
<1>6. PoliteOffers(i2, p, ni, np)
  BY AllIgnored DEF IgnoresAll
<1>7. ImpoliteOffer(i2, p, ni, np)
  BY <1>1, <1>3, <1>4, <1>5 DEF Sides, GlareInv, ImpoliteOffer
<1>8. PoliteOffer(i2, p, ni, np) /\ Chains(i2, p)
  BY <1>1, <1>3, <1>4, <1>5 DEF Sides, GlareInv, PoliteOffer, Accepted, Chains
<1> QED
  BY <1>6, <1>7, <1>8 DEF Sides, GlareInv

\* It has made the offer and sends it.
LEMMA ImpoliteOffers ==
    ASSUME NEW i, NEW p, NEW ni, NEW np, Sides(i, p, ni, np), NEW i2 \in ConnType,
           i.ops[1] \in OfferOp, In(i.ops, OfferOp), Shrunk(i.ops, i2.ops), i2.sig = "local", ~ i2.making,
           NEW m \in OfferMsg, m.of = <<1, i2.mine>>, NEW n2 \in Seq(Msg), Grown(np, m, n2)
    PROVE  GlareInv(i2, p, ni, n2)
<1>1. LET o == i.ops[1] IN
      o \in Op /\ o \notin OfferHandler /\ o \notin AnswerPart /\ o \notin RollbackOp /\ o \notin ApplyOp
  BY DEF OfferOp, OfferHandler, AnswerPart, RollbackOp, ApplyOp, WorkOp
<1>2. i.sig = "stable" /\ i2.ops \in Seq(Op)
  BY DEF Sides, ConnInv, ConnType, Ops
<1>3. Losing(i.ops, i2.ops) /\ Gaining(np, m, n2)
  BY <1>2, QueueLosing, QueueGaining DEF Sides
<1>4. ~ In(i2.ops, OfferOp)
  BY <1>2, InShrunk DEF Sides, ConnInv
<1>5. m \notin AnswerMsg /\ m \notin RoomMsg
  BY DEF OfferMsg, AnswerMsg, RoomMsg
<1>6. /\ ~ In(np, OfferMsg) /\ ~ In(p.ops, OfferHandler) /\ ~ In(ni, AnswerMsg) /\ ~ In(i.ops, ApplyOp)
  BY <1>2 DEF Sides, GlareInv, ImpoliteOffer
<1>7. /\ \A of : About(np, OfferMsg, of) /\ About(p.ops, OfferHandler, of) /\ About(ni, AnswerMsg, of)
      /\ \A of : About(i2.ops, ApplyOp, of)
      /\ Single(i2.ops, ApplyOp) /\ ~ In(i2.ops, ApplyOp)
  BY <1>3, <1>6, NoneIn DEF Losing
<1>8. PoliteOffers(i2, p, ni, n2)
  BY <1>6, <1>7, AllIgnored DEF IgnoresAll
<1>9. ImpoliteOffer(i2, p, ni, n2)
  BY <1>3, <1>6, <1>7 DEF Sides, GlareInv, ImpoliteOffer, Gaining
<1>10. ~ In(i.ops, OfferHandler) /\ ~ In(i2.ops, OfferHandler) /\ ~ In(i2.ops, AnswerPart)
  <2>1. ~ In(i.ops, OfferHandler)
    BY DEF Sides, GlareInv, PoliteOffer
  <2> QED
    BY <1>3, <2>1, InPart DEF Losing
<1>11. PoliteOffer(i2, p, ni, n2)
  BY <1>3, <1>5, <1>6, <1>7, <1>10, NoneIn DEF Sides, GlareInv, PoliteOffer, Accepted, Gaining
<1>12. Chains(i2, p)
  BY <1>3, <1>4, <1>10 DEF Sides, GlareInv, Chains, Losing
<1> QED
  BY <1>3, <1>5, <1>8, <1>9, <1>11, <1>12 DEF Sides, GlareInv, Gaining

\* The impolite side answers an offer: nothing else is going on.
LEMMA Answering ==
    ASSUME NEW i, NEW p, NEW ni, NEW np, Sides(i, p, ni, np), In(i.ops, OfferHandler)
    PROVE  /\ i.sig # "local" /\ ~ i.making /\ ~ In(i.ops, OfferOp) /\ ~ In(i.ops, ApplyOp)
           /\ ~ In(i.ops, RollbackOp) /\ ~ In(ni, OfferMsg) /\ ~ In(ni, AnswerMsg)
           /\ p.sig = "local" /\ ~ In(p.ops, OfferHandler) /\ ~ In(p.ops, ApplyOp)
           /\ ~ In(np, OfferMsg) /\ ~ In(np, AnswerMsg)
<1>1. /\ i.sig # "local" /\ ~ In(i.ops, OfferOp) /\ p.sig = "local"
      /\ ~ In(np, AnswerMsg) /\ ~ In(p.ops, ApplyOp) /\ Accepted(i, p, np)
  BY DEF Sides, GlareInv, PoliteOffer, Accepted
<1>2. ~ i.making
  BY <1>1, MakingIn DEF Sides
<1>3. ~ In(ni, OfferMsg)
  BY <1>1, <1>2 DEF Sides, GlareInv, PoliteOffers, Ignored, In
<1>4. /\ ~ In(ni, AnswerMsg) /\ ~ In(p.ops, OfferHandler) /\ ~ In(np, OfferMsg) /\ ~ In(i.ops, ApplyOp)
  BY <1>1 DEF Sides, GlareInv, ImpoliteOffer
<1>5. ~ In(i.ops, RollbackOp)
  BY DEF Sides, GlareInv, Chains
<1> QED
  BY <1>1, <1>2, <1>3, <1>4, <1>5

\* Its handler goes on: the offer is applied, or the candidates are.
LEMMA ImpoliteProgresses ==
    ASSUME NEW i, NEW p, NEW ni, NEW np, Sides(i, p, ni, np), NEW i2, NEW e, NEW r,
           i.ops[1] \in OfferHandler, Losing(i.ops, e), Gaining(e, r, i2.ops),
           r \in AnswerPart, r.of = i.ops[1].of,
           i2.sig = "remote", i2.making = i.making, i2.mine = i.mine
    PROVE  GlareInv(i2, p, ni, np)
<1>1. r \in OfferHandler /\ r \notin OfferOp /\ r \notin RollbackOp /\ r \notin ApplyOp
  BY DEF AnswerPart, OfferOp, OfferHandler, RollbackOp, ApplyOp, WorkOp
<1>2. In(i.ops, OfferHandler)
  BY DEF Losing
<1>3. /\ i.sig # "local" /\ ~ i.making /\ ~ In(i.ops, OfferOp) /\ ~ In(i.ops, ApplyOp)
      /\ ~ In(i.ops, RollbackOp) /\ ~ In(ni, OfferMsg) /\ ~ In(ni, AnswerMsg)
      /\ p.sig = "local" /\ ~ In(p.ops, OfferHandler) /\ ~ In(p.ops, ApplyOp)
      /\ ~ In(np, OfferMsg) /\ ~ In(np, AnswerMsg)
  BY <1>2, Answering
<1>4. /\ ~ In(i2.ops, OfferOp) /\ ~ In(i2.ops, ApplyOp) /\ ~ In(i2.ops, RollbackOp)
      /\ In(i2.ops, OfferHandler) /\ In(i2.ops, AnswerPart)
  BY <1>1, <1>3 DEF Losing, Gaining
<1>5. Single(i2.ops, OfferHandler) /\ About(i2.ops, OfferHandler, <<1, p.mine>>)
  <2>1. Single(i.ops, OfferHandler) /\ About(i.ops, OfferHandler, <<1, p.mine>>)
    BY DEF Sides, GlareInv, PoliteOffer
  <2>2. ~ In(e, OfferHandler) /\ Single(e, OfferHandler) /\ About(e, OfferHandler, <<1, p.mine>>)
        /\ r.of = <<1, p.mine>>
    BY <2>1 DEF Losing
  <2> QED
    BY <2>2 DEF Gaining
<1>6. PoliteOffers(i2, p, ni, np)
  BY <1>3, NoOffers
<1>7. ImpoliteOffer(i2, p, ni, np)
  BY <1>3, <1>4, NoneIn DEF Sides, GlareInv, ImpoliteOffer
<1>8. PoliteOffer(i2, p, ni, np)
  BY <1>3, <1>4, <1>5 DEF Sides, GlareInv, PoliteOffer, Accepted
<1>9. Chains(i2, p)
  BY <1>4 DEF Sides, GlareInv, Chains
<1> QED
  BY <1>6, <1>7, <1>8, <1>9 DEF Sides, GlareInv

\* It has made its answer and sends it.
LEMMA ImpoliteAnswers ==
    ASSUME NEW i, NEW p, NEW ni, NEW np, Sides(i, p, ni, np), NEW i2,
           i.ops[1] \in AnswerPart, Losing(i.ops, i2.ops),
           i2.sig = "stable", i2.making = i.making, i2.mine = i.mine,
           NEW m \in AnswerMsg, m.of = i.ops[1].of, NEW n2 \in Seq(Msg), Grown(np, m, n2)
    PROVE  GlareInv(i2, p, ni, n2)
<1>1. i.ops[1] \in OfferHandler
  BY DEF AnswerPart, OfferHandler, WorkOp
<1>2. In(i.ops, OfferHandler)
  BY <1>1 DEF Losing
<1>3. /\ i.sig # "local" /\ ~ i.making /\ ~ In(i.ops, OfferOp) /\ ~ In(i.ops, ApplyOp)
      /\ ~ In(i.ops, RollbackOp) /\ ~ In(ni, OfferMsg) /\ ~ In(ni, AnswerMsg)
      /\ p.sig = "local" /\ ~ In(p.ops, OfferHandler) /\ ~ In(p.ops, ApplyOp)
      /\ ~ In(np, OfferMsg) /\ ~ In(np, AnswerMsg)
  BY <1>2, Answering
<1>4. Single(i.ops, OfferHandler) /\ About(i.ops, OfferHandler, <<1, p.mine>>)
  BY DEF Sides, GlareInv, PoliteOffer
<1>5. /\ ~ In(i2.ops, OfferOp) /\ ~ In(i2.ops, ApplyOp) /\ ~ In(i2.ops, RollbackOp)
      /\ ~ In(i2.ops, OfferHandler) /\ m.of = <<1, p.mine>>
  BY <1>1, <1>3, <1>4 DEF Losing
<1>6. ~ In(i2.ops, AnswerPart)
  BY <1>5, InPart
<1>7. Gaining(np, m, n2) /\ m \notin OfferMsg /\ m \notin RoomMsg
  BY QueueGaining DEF Sides, OfferMsg, AnswerMsg, RoomMsg
<1>8. /\ ~ In(n2, OfferMsg) /\ ~ In(n2, RoomMsg) /\ In(n2, AnswerMsg) /\ Single(n2, AnswerMsg)
      /\ About(n2, AnswerMsg, <<1, p.mine>>) /\ Ordered(n2, AnswerMsg, OfferMsg)
  BY <1>3, <1>5, <1>7, NoneIn DEF Gaining, Sides, GlareInv
<1>9. PoliteOffers(i2, p, ni, n2)
  BY <1>3, NoOffers
<1>10. ImpoliteOffer(i2, p, ni, n2)
  BY <1>3, <1>5, <1>8, NoneIn DEF Sides, GlareInv, ImpoliteOffer
<1>11. PoliteOffer(i2, p, ni, n2)
  BY <1>3, <1>5, <1>8, NoneIn DEF Sides, GlareInv, PoliteOffer, Accepted
<1>12. Chains(i2, p)
  BY <1>5, <1>6 DEF Sides, GlareInv, Chains
<1> QED
  BY <1>8, <1>9, <1>10, <1>11, <1>12 DEF Sides, GlareInv

\* The kinds of operations told apart; draining after an answer is none of them.
Classes == {OfferOp, OfferHandler, AnswerPart, AppliedPart, RollbackOp, ApplyOp}
Passing == WorkOp({"drain"})

\* A chain in which those operations are the same, and one that lost its first.
SameOps(q, p) ==
    /\ \A X \in Classes : In(p, X) <=> In(q, X)
    /\ \A X \in Classes : Single(q, X) => Single(p, X)
    /\ \A X \in Classes : \A of : About(q, X, of) => About(p, X, of)
    /\ Ordered(q, ApplyOp, OfferHandler) => Ordered(p, ApplyOp, OfferHandler)
LosingOp(q, p) ==
    /\ \A X \in Classes : In(q, X) <=> In(p, X) \/ q[1] \in X
    /\ \A X \in Classes : Single(q, X) => Single(p, X) /\ (q[1] \in X => ~ In(p, X))
    /\ \A X \in Classes : \A of : About(q, X, of) => About(p, X, of) /\ (q[1] \in X => q[1].of = of)
    /\ Ordered(q, ApplyOp, OfferHandler) => Ordered(p, ApplyOp, OfferHandler)

\* A drain that is added, or over, makes no difference.
LEMMA DrainPasses ==
    /\ \A o \in Passing : \A X \in Classes : o \notin X
    /\ \A q, p : Losing(q, p) => LosingOp(q, p)
    /\ \A q, e, r, p : Losing(q, e) /\ Gaining(e, r, p) /\ r \in Passing => LosingOp(q, p)
    /\ \A q, p : Losing(q, p) /\ q[1] \in Passing => SameOps(q, p)
<1>1. ASSUME NEW o \in Passing, NEW X \in Classes PROVE o \notin X
  BY DEF Passing, Classes, OfferOp, OfferHandler, AnswerPart, AppliedPart, RollbackOp, ApplyOp, WorkOp
<1>2. \A o \in Passing : o \notin ApplyOp
  BY <1>1 DEF Classes
<1>3. ASSUME NEW q, NEW p, Losing(q, p) PROVE LosingOp(q, p)
  BY <1>3 DEF Losing, LosingOp
<1>4. ASSUME NEW q, NEW e, NEW r \in Passing, NEW p, Losing(q, e), Gaining(e, r, p) PROVE LosingOp(q, p)
  BY <1>1, <1>2, <1>4 DEF Losing, Gaining, LosingOp
<1>5. ASSUME NEW q, NEW p, Losing(q, p), q[1] \in Passing PROVE SameOps(q, p)
  BY <1>1, <1>5 DEF Losing, SameOps
<1> QED
  BY <1>1, <1>3, <1>4, <1>5

\* A side's chain has the same operations and its state is the same.
LEMMA OpsKept ==
    ASSUME NEW i, NEW p, NEW ni, NEW np, GlareInv(i, p, ni, np), NEW i2, NEW p2,
           SameOps(i.ops, i2.ops), i2.sig = i.sig, i2.mine = i.mine, i2.making = i.making,
           SameOps(p.ops, p2.ops), p2.sig = p.sig, p2.mine = p.mine, p2.making = p.making
    PROVE  GlareInv(i2, p2, ni, np)
<1>0. {OfferOp, OfferHandler, AnswerPart, AppliedPart, RollbackOp, ApplyOp} \subseteq Classes
  BY DEF Classes
<1>1. Ignores(i, i2) /\ Waits(i, p, np, i2, p2, np)
  BY <1>0 DEF SameOps, Ignores, Waits, Accepted
<1>2. PoliteOffers(i2, p2, ni, np)
  BY <1>1, OffersKept DEF GlareInv
<1>3. ImpoliteOffer(i2, p2, ni, np)
  BY <1>0 DEF GlareInv, ImpoliteOffer, SameOps
<1>4. PoliteOffer(i2, p2, ni, np)
  BY <1>0 DEF GlareInv, PoliteOffer, Accepted, SameOps
<1>5. Chains(i2, p2)
  BY <1>0 DEF GlareInv, Chains, SameOps
<1> QED
  BY <1>2, <1>3, <1>4, <1>5 DEF GlareInv

\* The impolite side applies the answer.
LEMMA ImpoliteApplies ==
    ASSUME NEW i, NEW p, NEW ni, NEW np, Sides(i, p, ni, np), NEW i2,
           i.ops[1] \in ApplyOp, LosingOp(i.ops, i2.ops),
           i2.sig = "stable", i2.making = i.making, i2.mine = i.mine
    PROVE  GlareInv(i2, p, ni, np)
<1>0. {OfferOp, OfferHandler, AnswerPart, AppliedPart, RollbackOp, ApplyOp} \subseteq Classes
  BY DEF Classes
<1>1. In(i.ops, ApplyOp)
  BY <1>0 DEF LosingOp
<1>2. /\ i.sig = "local" /\ ~ In(np, OfferMsg) /\ ~ In(p.ops, OfferHandler) /\ ~ In(ni, AnswerMsg)
      /\ Single(i.ops, ApplyOp)
  BY <1>1 DEF Sides, GlareInv, ImpoliteOffer
<1>3. ~ i.making /\ ~ In(i.ops, OfferOp)
  BY <1>2, MakingIn DEF Sides, ConnInv
<1>4. ~ In(i.ops, OfferHandler) /\ ~ In(np, AnswerMsg) /\ ~ In(p.ops, ApplyOp)
  BY <1>1, <1>2 DEF Sides, GlareInv, PoliteOffer
<1>5. ~ In(i.ops, AnswerPart) /\ ~ In(i.ops, RollbackOp)
  BY <1>4, InPart
<1>6. /\ ~ In(i2.ops, ApplyOp) /\ ~ In(i2.ops, OfferHandler) /\ ~ In(i2.ops, AnswerPart)
      /\ ~ In(i2.ops, RollbackOp) /\ ~ In(i2.ops, OfferOp)
  BY <1>0, <1>2, <1>3, <1>4, <1>5 DEF LosingOp
<1>7. ~ Accepted(i2, p, np)
  BY <1>4, <1>6 DEF Accepted
<1>8. PoliteOffers(i2, p, ni, np)
  BY <1>1, <1>3, <1>7 DEF Sides, GlareInv, PoliteOffers, Ignored
<1>9. ImpoliteOffer(i2, p, ni, np)
  BY <1>2, <1>6, NoneIn DEF Sides, GlareInv, ImpoliteOffer
<1>10. PoliteOffer(i2, p, ni, np)
  BY <1>4, <1>6, <1>7, NoneIn DEF Sides, GlareInv, PoliteOffer
<1>11. Chains(i2, p)
  BY <1>6 DEF Sides, GlareInv, Chains
<1> QED
  BY <1>8, <1>9, <1>10, <1>11 DEF Sides, GlareInv

\* It ignores an offer.
LEMMA ImpoliteIgnores ==
    ASSUME NEW i, NEW p, NEW ni, NEW np, Sides(i, p, ni, np), NEW n2 \in Seq(Msg),
           Shrunk(ni, n2), ni[1] \in OfferMsg
    PROVE  GlareInv(i, p, n2, np)
<1>1. Ignores(i, i) /\ Waits(i, p, np, i, p, np)
  BY DEF Ignores, Waits
<1>2. ni[1] \notin AnswerMsg /\ ni[1] \notin RoomMsg
  BY DEF OfferMsg, AnswerMsg, RoomMsg
<1>3. Losing(ni, n2)
  BY QueueLosing DEF Sides
<1>4. PoliteOffers(i, p, n2, np)
  BY <1>1, <1>2, OffersShrunk DEF Sides, GlareInv
<1> QED
  BY <1>2, <1>3, <1>4 DEF Sides, GlareInv, ImpoliteOffer, PoliteOffer, Losing

\* It accepts an offer: this is the last one, and the polite side waits for its answer.
LEMMA ImpoliteAccepts ==
    ASSUME NEW i, NEW p, NEW ni, NEW np, Sides(i, p, ni, np), NEW n2 \in Seq(Msg),
           Shrunk(ni, n2), ni[1] \in OfferMsg, i.sig = "stable", ~ i.making,
           NEW i2, NEW r, Gaining(i.ops, r, i2.ops), r \in WorkOp({"remote"}), r.of = ni[1].of,
           i2.sig = i.sig, i2.making = i.making, i2.mine = i.mine
    PROVE  GlareInv(i2, p, n2, np)
<1>1. /\ r \in OfferHandler /\ r \notin OfferOp /\ r \notin RollbackOp /\ r \notin ApplyOp
      /\ r \notin AnswerPart
  BY DEF AnswerPart, OfferOp, OfferHandler, RollbackOp, ApplyOp, WorkOp
<1>2. ni[1] \notin AnswerMsg /\ ni[1] \notin RoomMsg
  BY DEF OfferMsg, AnswerMsg, RoomMsg
<1>3. Losing(ni, n2)
  BY QueueLosing DEF Sides
<1>4. 1 \in 1 .. Len(ni) /\ Len(n2) \in Nat /\ Len(ni) = Len(n2) + 1
  BY DEF Sides, Shrunk
<1>5. /\ ~ Accepted(i, p, np) /\ p.sig = "local" /\ ni[1].of = <<1, p.mine>>
      /\ \A l \in 1 .. Len(ni) : ni[l] \in OfferMsg => l <= 1
  BY <1>4 DEF Sides, GlareInv, PoliteOffers, Ignored
<1>6. ~ In(n2, OfferMsg)
  <2>1. ASSUME NEW l \in 1 .. Len(n2), n2[l] \in OfferMsg PROVE FALSE
    <3>1. l + 1 \in 1 .. Len(ni) /\ ni[l + 1] = n2[l] /\ ~ (l + 1 <= 1)
      BY <1>4 DEF Shrunk
    <3> QED
      BY <1>5, <2>1, <3>1
  <2> QED
    BY <2>1 DEF In
<1>7. ~ In(i.ops, OfferHandler) /\ ~ In(np, AnswerMsg) /\ ~ In(p.ops, ApplyOp)
  BY <1>5 DEF Accepted
<1>8. ~ In(i.ops, OfferOp)
  BY DEF Sides, GlareInv, Chains
<1>9. ~ In(i.ops, ApplyOp) /\ ~ In(ni, AnswerMsg) /\ ~ In(np, OfferMsg) /\ ~ In(p.ops, OfferHandler)
  BY DEF Sides, GlareInv, ImpoliteOffer
<1>10. ~ In(i.ops, RollbackOp) /\ ~ In(i.ops, AnswerPart)
  BY <1>7, InPart
<1>11. /\ ~ In(i2.ops, OfferOp) /\ ~ In(i2.ops, ApplyOp) /\ ~ In(i2.ops, RollbackOp)
       /\ ~ In(i2.ops, AnswerPart) /\ In(i2.ops, OfferHandler)
       /\ Single(i2.ops, OfferHandler) /\ About(i2.ops, OfferHandler, <<1, p.mine>>)
  BY <1>1, <1>5, <1>7, <1>8, <1>9, <1>10, NoneIn DEF Gaining
<1>12. ~ In(n2, AnswerMsg) /\ ~ In(n2, RoomMsg)
  BY <1>3, <1>9 DEF Losing, Sides, GlareInv
<1>13. PoliteOffers(i2, p, n2, np)
  BY <1>6, NoOffers
<1>14. ImpoliteOffer(i2, p, n2, np)
  BY <1>9, <1>11, <1>12, NoneIn DEF ImpoliteOffer
<1>15. PoliteOffer(i2, p, n2, np)
  BY <1>5, <1>7, <1>11, <1>12, NoneIn DEF Sides, GlareInv, PoliteOffer
<1>16. Chains(i2, p)
  BY <1>11 DEF Sides, GlareInv, Chains
<1> QED
  BY <1>12, <1>13, <1>14, <1>15, <1>16 DEF Sides, GlareInv

\* It takes an answer.
LEMMA ImpoliteHears ==
    ASSUME NEW i, NEW p, NEW ni, NEW np, Sides(i, p, ni, np), NEW n2 \in Seq(Msg),
           Shrunk(ni, n2), ni[1] \in AnswerMsg,
           NEW i2, NEW r, Gaining(i.ops, r, i2.ops), r \in ApplyOp, r.of = ni[1].of,
           i2.sig = i.sig, i2.making = i.making, i2.mine = i.mine
    PROVE  GlareInv(i2, p, n2, np)
<1>1. /\ r \notin OfferHandler /\ r \notin OfferOp /\ r \notin RollbackOp
      /\ r \notin AnswerPart
  BY DEF AnswerPart, OfferOp, OfferHandler, RollbackOp, ApplyOp, WorkOp
<1>2. ni[1] \notin OfferMsg /\ ni[1] \notin RoomMsg
  BY DEF OfferMsg, AnswerMsg, RoomMsg
<1>3. Losing(ni, n2)
  BY QueueLosing DEF Sides
<1>4. In(ni, AnswerMsg)
  BY <1>3 DEF Losing
<1>5. /\ i.sig = "local" /\ ~ In(i.ops, ApplyOp) /\ ~ In(np, OfferMsg) /\ ~ In(p.ops, OfferHandler)
      /\ Single(ni, AnswerMsg) /\ About(ni, AnswerMsg, <<1, i.mine>>)
  BY <1>4 DEF Sides, GlareInv, ImpoliteOffer
<1>6. ~ i.making /\ ~ In(i.ops, OfferOp)
  BY <1>5, MakingIn DEF Sides, ConnInv
<1>7. ~ In(i.ops, OfferHandler) /\ ~ In(np, AnswerMsg) /\ ~ In(p.ops, ApplyOp)
  BY <1>4, <1>5 DEF Sides, GlareInv, PoliteOffer
<1>8. ~ In(i.ops, RollbackOp) /\ ~ In(i.ops, AnswerPart)
  BY <1>7, InPart
<1>9. ~ In(n2, AnswerMsg) /\ ~ In(n2, RoomMsg) /\ r.of = <<1, i.mine>>
  BY <1>3, <1>5 DEF Losing, Sides, GlareInv
<1>10. /\ ~ In(i2.ops, OfferOp) /\ ~ In(i2.ops, OfferHandler) /\ ~ In(i2.ops, RollbackOp)
       /\ ~ In(i2.ops, AnswerPart) /\ In(i2.ops, ApplyOp)
       /\ Single(i2.ops, ApplyOp) /\ About(i2.ops, ApplyOp, <<1, i.mine>>)
  BY <1>1, <1>5, <1>6, <1>7, <1>8, <1>9, NoneIn DEF Gaining
<1>11. Waits(i, p, np, i2, p, np)
  BY <1>7, <1>10 DEF Waits, Accepted
<1>12. PoliteOffers(i2, p, n2, np)
  BY <1>6, <1>11, OffersShrunk DEF Sides, GlareInv
<1>13. ImpoliteOffer(i2, p, n2, np)
  BY <1>5, <1>9, <1>10, NoneIn DEF ImpoliteOffer
<1>14. PoliteOffer(i2, p, n2, np)
  BY <1>7, <1>9, <1>10, NoneIn DEF Sides, GlareInv, PoliteOffer, Accepted
<1>15. Chains(i2, p)
  BY <1>5, <1>10 DEF Sides, GlareInv, Chains
<1> QED
  BY <1>9, <1>12, <1>13, <1>14, <1>15 DEF Sides, GlareInv

-----------------------------------------------------------------------------
(* Both sides: the steps of the polite one.                                *)

\* The polite side begins an offer.
LEMMA PoliteBegins ==
    ASSUME NEW i, NEW p, NEW ni, NEW np, Sides(i, p, ni, np), NEW p2,
           p.ops = << >>, p.sig = "stable", p2.sig = p.sig, p2.mine = p.mine, p2.making,
           NEW o \in OfferOp, p2.ops = <<o>>
    PROVE  GlareInv(i, p2, ni, np)
<1>1. /\ o \in Op /\ o \notin OfferHandler /\ o \notin AnswerPart /\ o \notin AppliedPart
      /\ o \notin RollbackOp /\ o \notin ApplyOp
  BY DEF OfferOp, OfferHandler, AnswerPart, AppliedPart, RollbackOp, ApplyOp, WorkOp
<1>2. Len(p2.ops) = 1 /\ p2.ops[1] = o
  OBVIOUS
<1>3. \A X : In(p2.ops, X) <=> o \in X
  BY <1>2 DEF In
<1>4. \A X : ~ In(p.ops, X)
  BY EmptyQueue
<1>5. Ignores(i, i)
  BY DEF Ignores
<1>6. PoliteOffers(i, p2, ni, np)
  BY <1>5, OffersKept DEF Sides, GlareInv
<1>7. ImpoliteOffer(i, p2, ni, np)
  BY <1>1, <1>3, <1>4, NoneIn DEF Sides, GlareInv, ImpoliteOffer
<1>8. PoliteOffer(i, p2, ni, np)
  BY <1>1, <1>3, <1>4, NoneIn DEF Sides, GlareInv, PoliteOffer, Accepted
<1>9. Chains(i, p2)
  BY <1>1, <1>3 DEF Sides, GlareInv, Chains
<1> QED
  BY <1>6, <1>7, <1>8, <1>9 DEF Sides, GlareInv

\* Its offer is over: it was made too late, or it was rejected.
LEMMA PoliteOfferOver ==
    ASSUME NEW i, NEW p, NEW ni, NEW np, Sides(i, p, ni, np), NEW p2, p2.ops \in Seq(Op),
           p.ops[1] \in OfferOp, Shrunk(p.ops, p2.ops)
    PROVE  /\ GlareInv(i, p2, ni, np)
           /\ p.sig = "stable" /\ ~ Accepted(i, p, np) /\ ~ Accepted(i, p2, np)
<1>1. LET o == p.ops[1] IN
      o \notin OfferHandler /\ o \notin AnswerPart /\ o \notin AppliedPart /\ o \notin RollbackOp /\ o \notin ApplyOp
  BY DEF OfferOp, OfferHandler, AnswerPart, AppliedPart, RollbackOp, ApplyOp, WorkOp
<1>2. Losing(p.ops, p2.ops)
  BY QueueLosing DEF Sides
<1>3. In(p.ops, OfferOp)
  BY <1>2 DEF Losing
<1>4. p.sig = "stable" /\ ~ In(p.ops, AppliedPart)
  BY <1>3 DEF Sides, ConnInv, GlareInv, Chains
<1>5. ~ In(p2.ops, OfferOp)
  BY InShrunk DEF Sides, ConnInv
<1>6. ~ Accepted(i, p, np) /\ ~ In(i.ops, OfferHandler) /\ ~ In(np, AnswerMsg) /\ ~ In(p.ops, ApplyOp)
  BY <1>4 DEF Sides, GlareInv, PoliteOffer, Accepted
<1>7. /\ ~ In(p2.ops, AppliedPart) /\ ~ In(p2.ops, ApplyOp) /\ ~ Accepted(i, p2, np)
      /\ ~ In(p2.ops, AnswerPart) /\ (In(p2.ops, OfferHandler) <=> In(p.ops, OfferHandler))
  BY <1>1, <1>2, <1>4, <1>6, InPart DEF Losing, Accepted
<1>8. Ignores(i, i)
  BY DEF Ignores
<1>9. PoliteOffers(i, p2, ni, np)
  BY <1>4, <1>8, OffersKept DEF Sides, GlareInv
<1>10. ImpoliteOffer(i, p2, ni, np)
  BY <1>2, <1>7 DEF Sides, GlareInv, ImpoliteOffer, Losing
<1>11. PoliteOffer(i, p2, ni, np)
  BY <1>6, <1>7, NoneIn DEF Sides, GlareInv, PoliteOffer
<1>12. Chains(i, p2)
  BY <1>5, <1>7 DEF Sides, GlareInv, Chains
<1> QED
  BY <1>4, <1>6, <1>7, <1>9, <1>10, <1>11, <1>12 DEF Sides, GlareInv

\* It has made the offer and sends it.
LEMMA PoliteOffersIt ==
    ASSUME NEW i, NEW p, NEW ni, NEW np, Sides(i, p, ni, np), NEW p2, p2.ops \in Seq(Op),
           p.ops[1] \in OfferOp, Shrunk(p.ops, p2.ops), p2.sig = "local",
           NEW m \in OfferMsg, m.of = <<1, p2.mine>>, NEW n2 \in Seq(Msg), Grown(ni, m, n2)
    PROVE  GlareInv(i, p2, n2, np)
<1>1. /\ GlareInv(i, p2, ni, np)
      /\ p.sig = "stable" /\ ~ Accepted(i, p, np) /\ ~ Accepted(i, p2, np)
  BY PoliteOfferOver
<1>2. m \notin AnswerMsg /\ m \notin RoomMsg
  BY DEF OfferMsg, AnswerMsg, RoomMsg
<1>3. Gaining(ni, m, n2)
  BY QueueGaining DEF Sides
<1>4. PoliteOffers(i, p2, n2, np)
  BY <1>1, <1>2, OffersGrown DEF Sides, GlareInv
<1> QED
  BY <1>1, <1>2, <1>3, <1>4 DEF GlareInv, ImpoliteOffer, PoliteOffer, Gaining

\* The polite side handles an offer: the impolite one waits and ignores all others.
LEMMA Yielding ==
    ASSUME NEW i, NEW p, NEW ni, NEW np, Sides(i, p, ni, np),
           In(p.ops, OfferHandler) \/ In(np, OfferMsg)
    PROVE  /\ i.sig = "local" /\ ~ In(i.ops, ApplyOp) /\ ~ In(ni, AnswerMsg) /\ IgnoresAll(i, ni)
           /\ ~ In(i.ops, OfferHandler)
<1>1. i.sig = "local" /\ ~ In(i.ops, ApplyOp) /\ ~ In(ni, AnswerMsg)
  BY DEF Sides, GlareInv, ImpoliteOffer
<1>2. ~ In(i.ops, OfferHandler)
  BY <1>1 DEF Sides, GlareInv, PoliteOffer
<1> QED
  BY <1>1, <1>2 DEF IgnoresAll

\* When its handler is first in the chain nothing of its own offer is left.
LEMMA Yielded ==
    ASSUME NEW i, NEW p, NEW ni, NEW np, Sides(i, p, ni, np), NEW e, e \in Seq(Op),
           p.ops[1] \in OfferHandler, Shrunk(p.ops, e)
    PROVE  /\ Losing(p.ops, e) /\ In(p.ops, OfferHandler) /\ ~ In(np, OfferMsg) /\ ~ In(np, AnswerMsg)
           /\ ~ In(p.ops, ApplyOp) /\ ~ In(e, ApplyOp) /\ ~ In(e, OfferHandler) /\ ~ In(e, OfferOp)
           /\ ~ In(e, AppliedPart) /\ ~ In(e, AnswerPart) /\ ~ In(e, RollbackOp)
           /\ p.ops[1].of = <<1, i.mine>>
<1>1. Losing(p.ops, e)
  BY QueueLosing DEF Sides
<1>2. In(p.ops, OfferHandler)
  BY <1>1 DEF Losing
<1>3. ~ In(np, OfferMsg) /\ Single(p.ops, OfferHandler) /\ About(p.ops, OfferHandler, <<1, i.mine>>)
  BY <1>2 DEF Sides, GlareInv, ImpoliteOffer
<1>4. ~ In(np, AnswerMsg) /\ Ordered(p.ops, ApplyOp, OfferHandler)
  BY <1>2 DEF Sides, GlareInv, PoliteOffer
<1>5. ~ In(e, OfferOp)
  BY InShrunk DEF Sides, ConnInv
<1>6. ~ In(e, ApplyOp) /\ ~ In(p.ops, ApplyOp) /\ ~ In(e, OfferHandler) /\ p.ops[1].of = <<1, i.mine>>
  BY <1>1, <1>3, <1>4 DEF Losing
<1> QED
  BY <1>1, <1>2, <1>3, <1>4, <1>5, <1>6, InPart

\* Its handler goes on: the rollback is done, the offer is applied, or the candidates are.
LEMMA PoliteProgresses ==
    ASSUME NEW i, NEW p, NEW ni, NEW np, Sides(i, p, ni, np), NEW p2, NEW e, NEW r,
           e \in Seq(Op), p.ops[1] \in OfferHandler, Shrunk(p.ops, e), Gaining(e, r, p2.ops),
           r \in AppliedPart, r.of = p.ops[1].of, r \in AnswerPart => p2.sig = "remote"
    PROVE  GlareInv(i, p2, ni, np)
<1>1. r \in OfferHandler /\ r \notin OfferOp /\ r \notin RollbackOp /\ r \notin ApplyOp
  BY DEF AppliedPart, OfferOp, OfferHandler, RollbackOp, ApplyOp, WorkOp
<1>2. /\ Losing(p.ops, e) /\ In(p.ops, OfferHandler) /\ ~ In(np, OfferMsg) /\ ~ In(np, AnswerMsg)
      /\ ~ In(p.ops, ApplyOp) /\ ~ In(e, ApplyOp) /\ ~ In(e, OfferHandler) /\ ~ In(e, OfferOp)
      /\ ~ In(e, AppliedPart) /\ ~ In(e, AnswerPart) /\ ~ In(e, RollbackOp)
      /\ p.ops[1].of = <<1, i.mine>>
  BY Yielded
<1>3. /\ i.sig = "local" /\ ~ In(i.ops, ApplyOp) /\ ~ In(ni, AnswerMsg) /\ IgnoresAll(i, ni)
      /\ ~ In(i.ops, OfferHandler)
  BY <1>2, Yielding
<1>4. /\ In(p2.ops, OfferHandler) /\ ~ In(p2.ops, OfferOp) /\ ~ In(p2.ops, RollbackOp)
      /\ ~ In(p2.ops, ApplyOp) /\ (In(p2.ops, AnswerPart) => p2.sig = "remote")
      /\ Single(p2.ops, OfferHandler) /\ About(p2.ops, OfferHandler, <<1, i.mine>>)
  BY <1>1, <1>2, NoneIn DEF Gaining
<1>5. PoliteOffers(i, p2, ni, np)
  BY <1>3, AllIgnored
<1>6. ImpoliteOffer(i, p2, ni, np)
  BY <1>2, <1>3, <1>4 DEF Sides, GlareInv, ImpoliteOffer
<1>7. PoliteOffer(i, p2, ni, np)
  BY <1>2, <1>3, <1>4, NoneIn DEF PoliteOffer, Accepted
<1>8. Chains(i, p2)
  BY <1>4 DEF Sides, GlareInv, Chains
<1> QED
  BY <1>5, <1>6, <1>7, <1>8 DEF Sides, GlareInv

\* It has made its answer and sends it.
LEMMA PoliteAnswers ==
    ASSUME NEW i, NEW p, NEW ni, NEW np, Sides(i, p, ni, np), NEW p2, p2.ops \in Seq(Op),
           p.ops[1] \in AnswerPart, Shrunk(p.ops, p2.ops),
           NEW m \in AnswerMsg, m.of = p.ops[1].of, NEW n2 \in Seq(Msg), Grown(ni, m, n2)
    PROVE  GlareInv(i, p2, n2, np)
<1>1. p.ops[1] \in OfferHandler
  BY DEF AnswerPart, OfferHandler, WorkOp
<1>2. /\ Losing(p.ops, p2.ops) /\ In(p.ops, OfferHandler) /\ ~ In(np, OfferMsg) /\ ~ In(np, AnswerMsg)
      /\ ~ In(p.ops, ApplyOp) /\ ~ In(p2.ops, ApplyOp) /\ ~ In(p2.ops, OfferHandler) /\ ~ In(p2.ops, OfferOp)
      /\ ~ In(p2.ops, AppliedPart) /\ ~ In(p2.ops, AnswerPart) /\ ~ In(p2.ops, RollbackOp)
      /\ p.ops[1].of = <<1, i.mine>>
  BY <1>1, Yielded
<1>3. /\ i.sig = "local" /\ ~ In(i.ops, ApplyOp) /\ ~ In(ni, AnswerMsg) /\ ~ In(i.ops, OfferHandler)
  BY <1>2, Yielding
<1>4. p.sig = "remote"
  BY <1>2 DEF Losing, Sides, GlareInv, Chains
<1>5. Gaining(ni, m, n2) /\ m \notin OfferMsg /\ m \notin RoomMsg
  BY QueueGaining DEF Sides, OfferMsg, AnswerMsg, RoomMsg
<1>6. /\ In(n2, AnswerMsg) /\ ~ In(n2, RoomMsg) /\ Single(n2, AnswerMsg)
      /\ About(n2, AnswerMsg, <<1, i.mine>>)
  BY <1>2, <1>3, <1>5, NoneIn DEF Gaining, Sides, GlareInv
<1>7. PoliteOffers(i, p2, n2, np)
  BY <1>4, <1>5, OffersGrown DEF Sides, GlareInv
<1>8. ImpoliteOffer(i, p2, n2, np)
  BY <1>2, <1>3, <1>6, NoneIn DEF ImpoliteOffer
<1>9. PoliteOffer(i, p2, n2, np)
  BY <1>2, <1>3, NoneIn DEF PoliteOffer, Accepted
<1>10. Chains(i, p2)
  BY <1>2 DEF Sides, GlareInv, Chains
<1> QED
  BY <1>6, <1>7, <1>8, <1>9, <1>10 DEF Sides, GlareInv

\* The polite side applies the answer.
LEMMA PoliteApplies ==
    ASSUME NEW i, NEW p, NEW ni, NEW np, Sides(i, p, ni, np), NEW p2,
           p.ops[1] \in ApplyOp, LosingOp(p.ops, p2.ops)
    PROVE  GlareInv(i, p2, ni, np)
<1>0. {OfferOp, OfferHandler, AnswerPart, AppliedPart, RollbackOp, ApplyOp} \subseteq Classes
  BY DEF Classes
<1>1. In(p.ops, ApplyOp)
  BY <1>0 DEF LosingOp
<1>2. Accepted(i, p, np)
  BY <1>1 DEF Accepted
<1>3. /\ p.sig = "local" /\ ~ In(i.ops, OfferHandler) /\ ~ In(np, AnswerMsg) /\ Single(p.ops, ApplyOp)
      /\ ~ In(ni, AnswerMsg) /\ ~ In(i.ops, ApplyOp) /\ ~ In(p.ops, AppliedPart)
  BY <1>1, <1>2 DEF Sides, GlareInv, PoliteOffer
<1>4. ~ In(p.ops, OfferOp) /\ p.ops[1] \notin OfferHandler
  BY <1>3 DEF Sides, ConnInv, ApplyOp, OfferHandler, WorkOp
<1>5. /\ ~ In(p2.ops, ApplyOp) /\ ~ In(p2.ops, AppliedPart) /\ ~ In(p2.ops, OfferOp)
      /\ (In(p2.ops, OfferHandler) <=> In(p.ops, OfferHandler))
  BY <1>0, <1>3, <1>4 DEF LosingOp
<1>6. ~ In(p2.ops, AnswerPart)
  BY <1>5, InPart
<1>7. Ignores(i, i)
  BY DEF Ignores
<1>8. PoliteOffers(i, p2, ni, np)
  BY <1>2, <1>7, OffersKept DEF Sides, GlareInv
<1>9. ImpoliteOffer(i, p2, ni, np)
  <2>1. Single(p.ops, OfferHandler) /\ About(p.ops, OfferHandler, <<1, i.mine>>)
    BY DEF Sides, GlareInv, ImpoliteOffer
  <2>2. Single(p2.ops, OfferHandler) /\ About(p2.ops, OfferHandler, <<1, i.mine>>)
    BY <1>0, <2>1 DEF LosingOp
  <2> QED
    BY <1>5, <2>2 DEF Sides, GlareInv, ImpoliteOffer
<1>10. PoliteOffer(i, p2, ni, np)
  BY <1>3, <1>5, NoneIn DEF PoliteOffer, Accepted
<1>11. Chains(i, p2)
  BY <1>5, <1>6 DEF Sides, GlareInv, Chains
<1> QED
  BY <1>8, <1>9, <1>10, <1>11 DEF Sides, GlareInv

\* It takes an offer: it rolls its own back, or has none.
LEMMA PoliteYields ==
    ASSUME NEW i, NEW p, NEW ni, NEW np, Sides(i, p, ni, np), NEW n2 \in Seq(Msg),
           Shrunk(np, n2), np[1] \in OfferMsg,
           NEW p2, NEW r, Gaining(p.ops, r, p2.ops), r.of = np[1].of,
           \/ r \in RollbackOp
           \/ r \in WorkOp({"remote"}) /\ p.sig = "stable" /\ ~ p.making,
           p2.sig = p.sig, p2.mine = p.mine
    PROVE  GlareInv(i, p2, ni, n2)
<1>1. r \in OfferHandler /\ r \notin OfferOp /\ r \notin ApplyOp /\ r \notin AnswerPart
  BY DEF AnswerPart, OfferOp, OfferHandler, RollbackOp, ApplyOp, WorkOp
<1>2. np[1] \notin AnswerMsg /\ np[1] \notin RoomMsg
  BY DEF OfferMsg, AnswerMsg, RoomMsg
<1>3. Losing(np, n2)
  BY QueueLosing DEF Sides
<1>4. In(np, OfferMsg)
  BY <1>3 DEF Losing
<1>5. /\ i.sig = "local" /\ ~ In(i.ops, ApplyOp) /\ ~ In(ni, AnswerMsg) /\ IgnoresAll(i, ni)
      /\ ~ In(i.ops, OfferHandler)
  BY <1>4, Yielding
<1>6. ~ In(p.ops, OfferHandler) /\ Single(np, OfferMsg) /\ About(np, OfferMsg, <<1, i.mine>>)
  BY <1>4 DEF Sides, GlareInv, ImpoliteOffer
<1>7. Ordered(np, AnswerMsg, OfferMsg)
  BY DEF Sides, GlareInv, PoliteOffer
<1>8. /\ ~ In(n2, OfferMsg) /\ ~ In(n2, AnswerMsg) /\ ~ In(n2, RoomMsg) /\ r.of = <<1, i.mine>>
  BY <1>3, <1>6, <1>7 DEF Losing, Sides, GlareInv
<1>9. ~ In(p.ops, AppliedPart) /\ ~ In(p.ops, RollbackOp) /\ ~ In(p.ops, AnswerPart)
  BY <1>6, InPart
<1>10. /\ In(p2.ops, OfferHandler) /\ Single(p2.ops, OfferHandler)
       /\ About(p2.ops, OfferHandler, <<1, i.mine>>) /\ ~ In(p2.ops, AnswerPart)
       /\ (In(p2.ops, ApplyOp) <=> In(p.ops, ApplyOp)) /\ (In(p2.ops, OfferOp) <=> In(p.ops, OfferOp))
  BY <1>1, <1>6, <1>8, <1>9, NoneIn DEF Gaining
<1>11. /\ Single(p2.ops, ApplyOp) /\ About(p2.ops, ApplyOp, <<1, p.mine>>)
       /\ Ordered(p2.ops, ApplyOp, OfferHandler) /\ (In(p.ops, ApplyOp) => p.sig = "local")
  <2>1. /\ Single(p.ops, ApplyOp) /\ About(p.ops, ApplyOp, <<1, p.mine>>)
        /\ Ordered(p.ops, ApplyOp, OfferHandler) /\ (In(p.ops, ApplyOp) => p.sig = "local")
    BY DEF Sides, GlareInv, PoliteOffer, Accepted
  <2> QED
    BY <1>1, <2>1 DEF Gaining
<1>12. CASE r \in RollbackOp
  <2>1. ~ In(p2.ops, AppliedPart) /\ In(p2.ops, RollbackOp)
    <3>1. r \notin AppliedPart
      BY <1>12 DEF RollbackOp, AppliedPart, WorkOp
    <3> QED
      BY <1>9, <1>12, <3>1 DEF Gaining
  <2>2. PoliteOffer(i, p2, ni, n2)
    BY <1>5, <1>8, <1>10, <1>11, <2>1, NoneIn DEF PoliteOffer, Accepted
  <2>3. Chains(i, p2)
    BY <1>10, <2>1 DEF Sides, GlareInv, Chains
  <2> QED
    BY <2>2, <2>3, <1>5, <1>8, <1>10, AllIgnored, NoneIn DEF Sides, GlareInv, ImpoliteOffer
<1>13. CASE r \in WorkOp({"remote"}) /\ p.sig = "stable" /\ ~ p.making
  <2>1. ~ In(p.ops, ApplyOp) /\ ~ In(p2.ops, ApplyOp)
    BY <1>10, <1>11, <1>13
  <2>2. ~ In(p.ops, OfferOp) /\ ~ In(p2.ops, OfferOp)
    BY <1>9, <1>10, <1>13 DEF Sides, GlareInv, Chains
  <2>3. PoliteOffer(i, p2, ni, n2)
    BY <1>5, <1>8, <2>1, NoneIn DEF PoliteOffer, Accepted
  <2>4. Chains(i, p2)
    BY <1>10, <2>2 DEF Sides, GlareInv, Chains
  <2> QED
    BY <2>3, <2>4, <1>5, <1>8, <1>10, AllIgnored, NoneIn DEF Sides, GlareInv, ImpoliteOffer
<1> QED
  BY <1>12, <1>13

\* It takes an answer.
LEMMA PoliteHears ==
    ASSUME NEW i, NEW p, NEW ni, NEW np, Sides(i, p, ni, np), NEW n2 \in Seq(Msg),
           Shrunk(np, n2), np[1] \in AnswerMsg,
           NEW p2, NEW r, Gaining(p.ops, r, p2.ops), r \in ApplyOp, r.of = np[1].of,
           p2.sig = p.sig, p2.making = p.making, p2.mine = p.mine
    PROVE  GlareInv(i, p2, ni, n2)
<1>1. r \notin OfferHandler /\ r \notin OfferOp
  BY DEF OfferOp, OfferHandler, ApplyOp, WorkOp
<1>2. np[1] \notin OfferMsg /\ np[1] \notin RoomMsg
  BY DEF OfferMsg, AnswerMsg, RoomMsg
<1>3. Losing(np, n2)
  BY QueueLosing DEF Sides
<1>4. In(np, AnswerMsg)
  BY <1>3 DEF Losing
<1>5. /\ Accepted(i, p, np) /\ p.sig = "local" /\ ~ In(i.ops, OfferHandler) /\ ~ In(p.ops, ApplyOp)
      /\ ~ In(p.ops, OfferHandler) /\ ~ In(ni, AnswerMsg) /\ ~ In(i.ops, ApplyOp)
      /\ Single(np, AnswerMsg) /\ About(np, AnswerMsg, <<1, p.mine>>)
      /\ Ordered(np, AnswerMsg, OfferMsg)
  BY <1>4 DEF Sides, GlareInv, PoliteOffer, Accepted
<1>6. ~ In(p.ops, OfferOp)
  BY <1>5 DEF Sides, ConnInv
<1>7. /\ ~ In(n2, AnswerMsg) /\ ~ In(n2, RoomMsg) /\ r.of = <<1, p.mine>>
      /\ (In(n2, OfferMsg) <=> In(np, OfferMsg))
  BY <1>2, <1>3, <1>5 DEF Losing, Sides, GlareInv
<1>8. /\ ~ In(p2.ops, OfferHandler) /\ ~ In(p2.ops, OfferOp) /\ In(p2.ops, ApplyOp)
      /\ Single(p2.ops, ApplyOp) /\ About(p2.ops, ApplyOp, <<1, p.mine>>)
  BY <1>1, <1>5, <1>6, <1>7, NoneIn DEF Gaining
<1>9. ~ In(p2.ops, AppliedPart) /\ ~ In(p2.ops, AnswerPart)
  BY <1>8, InPart
<1>10. Ignores(i, i)
  BY DEF Ignores
<1>11. PoliteOffers(i, p2, ni, n2)
  BY <1>5, <1>10, OffersKept DEF Sides, GlareInv
<1>12. ImpoliteOffer(i, p2, ni, n2)
  <2>1. Single(np, OfferMsg) /\ About(np, OfferMsg, <<1, i.mine>>)
    BY DEF Sides, GlareInv, ImpoliteOffer
  <2>2. Single(n2, OfferMsg) /\ About(n2, OfferMsg, <<1, i.mine>>)
    BY <1>3, <2>1 DEF Losing
  <2> QED
    BY <1>5, <1>7, <1>8, <2>2, NoneIn DEF Sides, GlareInv, ImpoliteOffer
<1>13. PoliteOffer(i, p2, ni, n2)
  BY <1>5, <1>7, <1>8, <1>9, NoneIn DEF PoliteOffer, Accepted
<1>14. Chains(i, p2)
  BY <1>8, <1>9 DEF Sides, GlareInv, Chains
<1> QED
  BY <1>7, <1>11, <1>12, <1>13, <1>14 DEF Sides, GlareInv

-----------------------------------------------------------------------------
(* Both sides: the steps of either.                                        *)

\* The side p has the connection c and the queue n, the other one has o and m.
Beside(p, c, o, n, m) == IF p = "impolite" THEN Sides(c, o, n, m) ELSE Sides(o, c, m, n)
Kept(p, c, o, n, m) == IF p = "impolite" THEN GlareInv(c, o, n, m) ELSE GlareInv(o, c, m, n)

\* Its connection and its chain are well formed.
LEMMA BesideFacts ==
    ASSUME NEW p, NEW c, NEW o, NEW n, NEW m, Beside(p, c, o, n, m)
    PROVE  /\ c \in ConnType /\ ConnInv(c) /\ c.ops \in Seq(Op) /\ n \in Seq(Msg) /\ m \in Seq(Msg)
           /\ Kept(p, c, o, n, m) /\ ~ In(n, RoomMsg)
           /\ In(c.ops, AnswerPart) => c.sig = "remote"
  BY DEF Beside, Sides, Kept, GlareInv, Chains

\* Nothing of it changes.
LEMMA KeptSame ==
    ASSUME NEW p, NEW c, NEW o, NEW n, NEW m, Kept(p, c, o, n, m), NEW d, SameSide(c, d)
    PROVE  Kept(p, d, o, n, m)
<1>1. SameSide(o, o)
  BY DEF SameSide
<1> QED
  BY <1>1, GlareKept DEF Kept

\* It begins an offer.
LEMMA KeptBegins ==
    ASSUME NEW p, NEW c, NEW o, NEW n, NEW m, Beside(p, c, o, n, m), NEW d,
           c.ops = << >>, c.sig = "stable", d.sig = c.sig, d.mine = c.mine, d.making,
           NEW x \in OfferOp, d.ops = <<x>>
    PROVE  Kept(p, d, o, n, m)
<1>1. CASE p = "impolite"
  BY <1>1, ImpoliteBegins DEF Beside, Kept
<1>2. CASE p # "impolite"
  BY <1>2, PoliteBegins DEF Beside, Kept
<1> QED
  BY <1>1, <1>2

\* It has made an offer and sends it.
LEMMA KeptOffers ==
    ASSUME NEW p, NEW c, NEW o, NEW n, NEW m, Beside(p, c, o, n, m), NEW d \in ConnType,
           c.ops[1] \in OfferOp, d.ops \in Seq(Op), Shrunk(c.ops, d.ops), d.sig = "local", ~ d.making,
           NEW x \in OfferMsg, x.of = <<1, d.mine>>, NEW m2 \in Seq(Msg), Grown(m, x, m2)
    PROVE  Kept(p, d, o, n, m2)
<1>1. CASE p = "impolite"
  <2>1. Sides(c, o, n, m)
    BY <1>1 DEF Beside
  <2>2. Losing(c.ops, d.ops)
    BY <2>1, QueueLosing DEF Sides
  <2>3. In(c.ops, OfferOp)
    BY <2>2 DEF Losing
  <2>4. GlareInv(d, o, n, m2)
    BY <2>1, <2>3, ImpoliteOffers
  <2> QED
    BY <1>1, <2>4 DEF Kept
<1>2. CASE p # "impolite"
  <2>1. Sides(o, c, m, n)
    BY <1>2 DEF Beside
  <2>2. GlareInv(o, d, m2, n)
    BY <2>1, PoliteOffersIt
  <2> QED
    BY <1>2, <2>2 DEF Kept
<1> QED
  BY <1>1, <1>2

\* Its offer is over: only the polite side gives one up.
LEMMA KeptOver ==
    ASSUME NEW p, NEW c, NEW o, NEW n, NEW m, Beside(p, c, o, n, m), NEW d,
           c.ops[1] \in OfferOp, d.ops \in Seq(Op), Shrunk(c.ops, d.ops), ~ c.making
    PROVE  Kept(p, d, o, n, m)
<1>1. CASE p = "impolite"
  <2>1. Losing(c.ops, d.ops)
    BY <1>1, QueueLosing DEF Beside, Sides
  <2>2. In(c.ops, OfferOp)
    BY <2>1 DEF Losing
  <2>3. c.making
    BY <1>1, <2>2 DEF Beside, Sides, GlareInv, Chains
  <2> QED
    BY <2>3
<1>2. CASE p # "impolite"
  BY <1>2, PoliteOfferOver DEF Beside, Kept
<1> QED
  BY <1>1, <1>2

\* Its handler of an offer goes on.
LEMMA KeptProgresses ==
    ASSUME NEW p, NEW c, NEW o, NEW n, NEW m, Beside(p, c, o, n, m), NEW d, NEW e, NEW r,
           e \in Seq(Op), c.ops[1] \in OfferHandler, Shrunk(c.ops, e), Gaining(e, r, d.ops),
           r \in AppliedPart, r.of = c.ops[1].of, r \in AnswerPart => d.sig = "remote",
           c.ops[1] \in RollbackOp \/ r \in AnswerPart, d.making = c.making, d.mine = c.mine
    PROVE  Kept(p, d, o, n, m)
<1>1. CASE p = "impolite"
  <2>1. Sides(c, o, n, m)
    BY <1>1 DEF Beside
  <2>2. Losing(c.ops, e)
    BY <2>1, QueueLosing DEF Sides
  <2>3. ~ In(c.ops, RollbackOp)
    BY <2>1 DEF Sides, GlareInv, Chains
  <2>4. r \in AnswerPart /\ d.sig = "remote"
    BY <2>2, <2>3 DEF Losing
  <2>5. GlareInv(d, o, n, m)
    BY <2>1, <2>2, <2>4, ImpoliteProgresses
  <2> QED
    BY <1>1, <2>5 DEF Kept
<1>2. CASE p # "impolite"
  <2>1. Sides(o, c, m, n)
    BY <1>2 DEF Beside
  <2>2. GlareInv(o, d, m, n)
    BY <2>1, PoliteProgresses
  <2> QED
    BY <1>2, <2>2 DEF Kept
<1> QED
  BY <1>1, <1>2

\* It has made an answer and sends it.
LEMMA KeptAnswers ==
    ASSUME NEW p, NEW c, NEW o, NEW n, NEW m, Beside(p, c, o, n, m), NEW d,
           c.ops[1] \in AnswerPart, d.ops \in Seq(Op), Shrunk(c.ops, d.ops),
           d.sig = "stable", d.making = c.making, d.mine = c.mine,
           NEW x \in AnswerMsg, x.of = c.ops[1].of, NEW m2 \in Seq(Msg), Grown(m, x, m2)
    PROVE  Kept(p, d, o, n, m2)
<1>1. CASE p = "impolite"
  <2>1. Sides(c, o, n, m)
    BY <1>1 DEF Beside
  <2>2. Losing(c.ops, d.ops)
    BY <2>1, QueueLosing DEF Sides
  <2>3. GlareInv(d, o, n, m2)
    BY <2>1, <2>2, ImpoliteAnswers
  <2> QED
    BY <1>1, <2>3 DEF Kept
<1>2. CASE p # "impolite"
  <2>1. Sides(o, c, m, n)
    BY <1>2 DEF Beside
  <2>2. GlareInv(o, d, m2, n)
    BY <2>1, PoliteAnswers
  <2> QED
    BY <1>2, <2>2 DEF Kept
<1> QED
  BY <1>1, <1>2

\* It applies an answer.
LEMMA KeptApplies ==
    ASSUME NEW p, NEW c, NEW o, NEW n, NEW m, Beside(p, c, o, n, m), NEW d,
           c.ops[1] \in ApplyOp, LosingOp(c.ops, d.ops),
           d.sig = "stable", d.making = c.making, d.mine = c.mine
    PROVE  Kept(p, d, o, n, m)
<1>1. CASE p = "impolite"
  BY <1>1, ImpoliteApplies DEF Beside, Kept
<1>2. CASE p # "impolite"
  BY <1>2, PoliteApplies DEF Beside, Kept
<1> QED
  BY <1>1, <1>2

\* It has drained its candidates after an answer.
LEMMA KeptDrains ==
    ASSUME NEW p, NEW c, NEW o, NEW n, NEW m, Beside(p, c, o, n, m), NEW d,
           SameOps(c.ops, d.ops), d.sig = c.sig, d.making = c.making, d.mine = c.mine
    PROVE  Kept(p, d, o, n, m)
<1>1. SameOps(o.ops, o.ops)
  BY DEF SameOps
<1> QED
  BY <1>1, OpsKept DEF Beside, Sides, Kept

\* It sends a candidate.
LEMMA KeptGathers ==
    ASSUME NEW p, NEW c, NEW o, NEW n, NEW m, Beside(p, c, o, n, m),
           NEW x \in Candidate, NEW m2 \in Seq(Msg), Grown(m, x, m2)
    PROVE  Kept(p, c, o, n, m2)
<1>1. CASE p = "impolite"
  BY <1>1, CandidatePolite DEF Beside, Kept
<1>2. CASE p # "impolite"
  BY <1>2, CandidateImpolite DEF Beside, Kept
<1> QED
  BY <1>1, <1>2

\* It takes a candidate.
LEMMA KeptBuffers ==
    ASSUME NEW p, NEW c, NEW o, NEW n, NEW m, Beside(p, c, o, n, m),
           NEW n2 \in Seq(Msg), Shrunk(n, n2), n[1] \in Candidate, NEW d, SameSide(c, d)
    PROVE  Kept(p, d, o, n2, m)
<1>1. CASE p = "impolite"
  <2>1. Kept(p, c, o, n2, m)
    BY <1>1, CandidateImpolite DEF Beside, Kept
  <2> QED
    BY <2>1, KeptSame
<1>2. CASE p # "impolite"
  <2>1. Kept(p, c, o, n2, m)
    BY <1>2, CandidatePolite DEF Beside, Kept
  <2> QED
    BY <2>1, KeptSame
<1> QED
  BY <1>1, <1>2

\* It takes an offer.
LEMMA KeptTakesOffer ==
    ASSUME NEW p, NEW c, NEW o, NEW n, NEW m, Beside(p, c, o, n, m),
           NEW n2 \in Seq(Msg), Shrunk(n, n2), n[1] \in OfferMsg, NEW d, NEW r,
           \/ p = "impolite" /\ d = c
           \/ /\ Gaining(c.ops, r, d.ops) /\ r.of = n[1].of /\ d.sig = c.sig /\ d.mine = c.mine
              /\ \/ p # "impolite" /\ r \in RollbackOp
                 \/ r \in WorkOp({"remote"}) /\ c.sig = "stable" /\ ~ c.making /\ d.making = c.making
    PROVE  Kept(p, d, o, n2, m)
<1>1. CASE p = "impolite"
  <2>1. Sides(c, o, n, m)
    BY <1>1 DEF Beside
  <2>2. GlareInv(d, o, n2, m)
    BY <1>1, <2>1, ImpoliteIgnores, ImpoliteAccepts
  <2> QED
    BY <1>1, <2>2 DEF Kept
<1>2. CASE p # "impolite"
  <2>1. Sides(o, c, m, n)
    BY <1>2 DEF Beside
  <2>2. GlareInv(o, d, m, n2)
    BY <1>2, <2>1, PoliteYields
  <2> QED
    BY <1>2, <2>2 DEF Kept
<1> QED
  BY <1>1, <1>2

\* It takes an answer.
LEMMA KeptTakesAnswer ==
    ASSUME NEW p, NEW c, NEW o, NEW n, NEW m, Beside(p, c, o, n, m),
           NEW n2 \in Seq(Msg), Shrunk(n, n2), n[1] \in AnswerMsg, NEW d, NEW r,
           Gaining(c.ops, r, d.ops), r \in ApplyOp, r.of = n[1].of,
           d.sig = c.sig, d.making = c.making, d.mine = c.mine
    PROVE  Kept(p, d, o, n2, m)
<1>1. CASE p = "impolite"
  BY <1>1, ImpoliteHears DEF Beside, Kept
<1>2. CASE p # "impolite"
  BY <1>2, PoliteHears DEF Beside, Kept
<1> QED
  BY <1>1, <1>2

\* The connections are no longer the first ones.
LEMMA Breaks ==
    ASSUME NEW p \in Peer,
           env'.lost \/ conn'[p].id > 1 \/ (conn'[p].id > 0 /\ ~ conn'[p].live)
    PROVE  Glare'
<1>1. CASE env'.lost
  BY <1>1 DEF Glare, FirstConnections
<1>2. CASE conn'[p].id > 1 \/ (conn'[p].id > 0 /\ ~ conn'[p].live)
  <2>1. conn'[p].id # 0 /\ ~ (conn'[p].id = 1 /\ conn'[p].live)
    BY <1>2
  <2> QED
    BY <2>1 DEF Glare, FirstConnections
<1> QED
  BY <1>1, <1>2

\* What a step of the side p finds while they are.
LEMMA Firsts ==
    ASSUME IndInv, Glare, FirstConnections, NEW p \in Peer
    PROVE  /\ Beside(p, conn[p], conn[Other(p)], net[p], net[Other(p)])
           /\ call["polite"].has /\ call["impolite"].has /\ call[p].has
           /\ conn[p].live => conn[p].id = 1
<1>1. Sides(conn["impolite"], conn["polite"], net["impolite"], net["polite"])
  BY SideFacts DEF Glare, Sides, Peer, ConnType, Ops
<1>2. p = "impolite" \/ p = "polite"
  BY DEF Peer
<1> QED
  BY <1>1, <1>2 DEF Beside, Other, Glare, FirstConnections, Peer

\* A step of the side p that keeps its connection, or makes the first.
LEMMA Continues ==
    ASSUME IndInv, Glare, NEW p \in Peer, NEW k, NEW d,
           Sets(call, call', p, k), Sets(conn, conn', p, d),
           \/ d.id = conn[p].id /\ d.live = conn[p].live
           \/ conn[p].id = 0,
           call[p].has => k.has, call[p].started => k.started, env.lost => env'.lost,
           FirstConnections => Kept(p, d, conn[Other(p)], net'[p], net'[Other(p)])
    PROVE  Glare'
<1>1. /\ call \in [Peer -> CallType] /\ conn \in [Peer -> ConnType] /\ Other(p) \in Peer /\ Other(p) # p
      /\ StartInv(call[p], conn[p], env.lost) /\ ConnInv(conn[p])
  BY SideFacts DEF IndInv, Typing
<1>2. /\ conn'[p] = d /\ call'[p] = k
      /\ \A q \in Peer : q # p => conn'[q] = conn[q] /\ call'[q] = call[q]
  BY <1>1 DEF Sets
<1>3. SUFFICES ASSUME ~ env'.lost,
                      \A q \in Peer : \/ conn'[q].id = 0 /\ ~ conn'[q].live /\ ~ call'[q].started
                                      \/ conn'[q].id = 1 /\ conn'[q].live
               PROVE  /\ \A q \in Peer : call'[q].has
                      /\ GlareInv(conn'["impolite"], conn'["polite"], net'["impolite"], net'["polite"])
  BY DEF Glare, FirstConnections
<1>4. ~ env.lost
  BY <1>3
<1>5. \/ conn[p].id = 0 /\ ~ conn[p].live /\ ~ call[p].started
      \/ conn[p].id = 1 /\ conn[p].live
  <2>1. CASE conn[p].id = 0
    BY <1>1, <1>4, <2>1 DEF StartInv, ConnInv
  <2>2. CASE conn[p].id # 0
    BY <1>2, <1>3, <2>2
  <2> QED
    BY <2>1, <2>2
<1>6. FirstConnections
  <2>1. ASSUME NEW q \in Peer
        PROVE  \/ conn[q].id = 0 /\ ~ conn[q].live /\ ~ call[q].started
               \/ conn[q].id = 1 /\ conn[q].live
    BY <1>2, <1>3, <1>5
  <2> QED
    BY <1>4, <2>1 DEF FirstConnections
<1>7. \A q \in Peer : call[q].has
  BY <1>6 DEF Glare
<1>8. Kept(p, d, conn[Other(p)], net'[p], net'[Other(p)])
  BY <1>6
<1>9. (p = "impolite" /\ Other(p) = "polite") \/ (p = "polite" /\ Other(p) = "impolite")
  BY DEF Peer, Other
<1>10. GlareInv(conn'["impolite"], conn'["polite"], net'["impolite"], net'["polite"])
  BY <1>1, <1>2, <1>8, <1>9 DEF Kept
<1> QED
  BY <1>2, <1>7, <1>10

-----------------------------------------------------------------------------
(* Both sides: the actions.                                                *)

\* A dropped connection is no longer the first one.
LEMMA DropsGlare ==
    ASSUME IndInv, NEW p \in Peer, NEW c \in ConnType, c.id > 0, Becomes(p, Dropped(c))
    PROVE  Glare'
<1>1. c.id \in Ids
  BY DEF ConnType
<1>2. PICK d \in ConnType : d = Dropped(c) /\ d.id = c.id /\ ~ d.live
  BY <1>1, NotYetMade DEF Dropped
<1>3. conn'[p] = d
  BY <1>2 DEF Becomes, IndInv, Typing
<1> QED
  BY <1>2, <1>3, Breaks

\* A step that sends and receives nothing and does not touch the negotiation.
LEMMA QuietGlare ==
    ASSUME IndInv, Glare, NEW p \in Peer, NEW k, NEW d, Sets(call, call', p, k), Sets(conn, conn', p, d),
           d.id = conn[p].id, d.live = conn[p].live, SameSide(conn[p], d), net' = net,
           k.has = call[p].has, k.started = call[p].started, Onward(env, env')
    PROVE  Glare'
<1>1. ASSUME FirstConnections PROVE Kept(p, d, conn[Other(p)], net'[p], net'[Other(p)])
  <2>1. Kept(p, conn[p], conn[Other(p)], net[p], net[Other(p)])
    BY <1>1, Firsts, BesideFacts
  <2> QED
    BY <2>1, KeptSame
<1> QED
  BY <1>1, Continues DEF Onward

\* start() makes the first connection.
LEMMA StartGlare ==
    ASSUME IndInv, Glare, NEW p \in Peer, Start(p) PROVE Glare'
<1>1. PICK k0 \in CallType : k0 = call[p]
  BY SideFacts
<1>2. PICK k : k = [k0 EXCEPT !.started = TRUE]
  OBVIOUS
<1>3. k \in CallType /\ k.started /\ k.has = k0.has
  BY <1>2 DEF CallType
<1>4. Sets(call, call', p, k) /\ env' = env /\ net' = net
  BY <1>1, <1>2 DEF Start, Sets
<1>5. conn[p].id = 0 /\ conn[p].id < MaxConns /\ ~ conn[p].live /\ call[p] \in CallType /\ conn[p] \in ConnType
      /\ ConnInv(conn[p])
  BY Constants, SideFacts DEF Start, StartInv, ConnInv
<1>6. CASE call[p].has
  <2>1. PICK d : /\ d = GetOrCreate(p, conn[p]) /\ SameSide(conn[p], d)
    <3>1. PICK d : d = GetOrCreate(p, conn[p])
      OBVIOUS
    <3>2. /\ d.sig = "stable" /\ d.ops = << >> /\ ~ d.making /\ d.mine = conn[p].mine /\ d \in ConnType
          /\ conn[p].sig = "stable" /\ conn[p].ops = << >> /\ ~ conn[p].making
      BY <1>5, <3>1, Created
    <3>3. d.making = conn[p].making
      BY <1>5, <3>2 DEF ConnType
    <3> QED
      BY <3>1, <3>2, <3>3 DEF SameSide
  <2>2. Sets(conn, conn', p, d)
    BY <1>6, <2>1 DEF Start, Becomes, Sets
  <2>3. ASSUME FirstConnections PROVE Kept(p, d, conn[Other(p)], net'[p], net'[Other(p)])
    <3>1. Kept(p, conn[p], conn[Other(p)], net[p], net[Other(p)])
      BY <2>3, Firsts, BesideFacts
    <3> QED
      BY <1>4, <2>1, <3>1, KeptSame
  <2> QED
    BY <1>1, <1>3, <1>4, <1>5, <2>2, <2>3, Continues
<1>7. CASE ~ call[p].has
  <2>1. env'.lost
    BY <1>4, <1>5, <1>7, SideFacts DEF StartInv
  <2> QED
    BY <2>1, Breaks
<1> QED
  BY <1>6, <1>7

\* The room is refreshed.
LEMMA RefreshGlare ==
    ASSUME IndInv, NEW p \in Peer, Refresh(p) PROVE Glare'
<1>1. conn[p].id \in Ids /\ conn[p].id < MaxConns /\ call[p].started /\ conn[p].id \in Nat
  BY SideFacts DEF Refresh, ConnType, Ids
<1>2. Onward(env, env') /\ env'.lost = env.lost
  BY EventStep, SideFacts DEF Refresh
<1>3. PICK c \in ConnType : c = Dropped(conn[p]) /\ ConnInv(c) /\ ~ c.live /\ c.id = conn[p].id
  BY <1>1, NotYetMade DEF Dropped
<1>4. PICK d : d = GetOrCreate(p, c) /\ d.id = c.id + 1
  BY <1>1, <1>3, Created, SideFacts
<1>5. conn'[p] = d
  BY <1>3, <1>4 DEF Refresh, Becomes, IndInv, Typing
<1>6. env.lost \/ conn[p].id > 0
  BY <1>1, SideFacts DEF StartInv
<1> QED
  BY <1>1, <1>2, <1>3, <1>4, <1>5, <1>6, Breaks

\* close().
LEMMA CloseGlare ==
    ASSUME IndInv, Glare, NEW p \in Peer, Close(p) PROVE Glare'
<1>1. conn[p] \in ConnType /\ Becomes(p, Dropped(conn[p])) /\ conn[p].id \in Nat /\ net' = net
  BY SideFacts DEF Close, ConnType, Ids
<1>2. CASE conn[p].id > 0
  BY <1>1, <1>2, DropsGlare
<1>3. CASE conn[p].id = 0
  <2>1. ~ conn[p].live
    BY <1>3, SideFacts DEF ConnInv
  <2>2. conn[p] = Dropped(conn[p])
    BY <2>1, SideFacts DEF ConnInv, Dropped
  <2>3. PICK k0 \in CallType : k0 = call[p]
    BY SideFacts
  <2>4. PICK s \in BOOLEAN : s <=> k0.stale \/ Handling(conn[p]) # {}
    OBVIOUS
  <2>5. PICK k : k = [k0 EXCEPT !.closed = TRUE, !.pub = {}, !.stale = s]
    OBVIOUS
  <2>6. k.started = k0.started /\ k.has = k0.has
    BY <2>5 DEF CallType
  <2>7. Sets(call, call', p, k) /\ Sets(conn, conn', p, conn[p])
    BY <1>1, <2>2, <2>3, <2>4, <2>5 DEF Close, Sets, Becomes
  <2>8. Onward(env, env')
    BY EventStep, SideFacts DEF Close
  <2>9. SameSide(conn[p], conn[p])
    BY DEF SameSide
  <2> QED
    BY <1>1, <2>3, <2>6, <2>7, <2>8, <2>9, QuietGlare
<1> QED
  BY <1>1, <1>2, <1>3

\* addTrack.
LEMMA AddTrackGlare ==
    ASSUME IndInv, Glare, NEW p \in Peer, NEW x \in Tracks, AddTrack(p, x) PROVE Glare'
<1>1. PICK k0 \in CallType, c0 \in ConnType : k0 = call[p] /\ c0 = conn[p]
  BY SideFacts
<1>2. PICK P, S : P = k0.pub \cup {x} /\ S = c0.senders \cup {x}
  OBVIOUS
<1>3. PICK k : k = [k0 EXCEPT !.pub = P]
  OBVIOUS
<1>4. k.started = k0.started /\ k.has = k0.has
  BY <1>3 DEF CallType
<1>5. PICK d : d = IF c0.live THEN [c0 EXCEPT !.senders = S, !.need = TRUE] ELSE c0
  OBVIOUS
<1>6. SameSide(c0, d) /\ d.id = c0.id /\ d.live = c0.live
  BY <1>5 DEF ConnType, SameSide
<1>7. Sets(call, call', p, k) /\ Sets(conn, conn', p, d) /\ net' = net
  BY <1>1, <1>2, <1>3, <1>5 DEF AddTrack, WithTrack, Becomes, Sets
<1>8. Onward(env, env')
  BY TrackCallStep, SideFacts DEF AddTrack
<1> QED
  BY <1>1, <1>4, <1>6, <1>7, <1>8, QuietGlare

\* removeTrack.
LEMMA UnpublishGlare ==
    ASSUME IndInv, Glare, NEW p \in Peer, NEW x \in Tracks, Unpublish(p, x) PROVE Glare'
<1>1. PICK k0 \in CallType, c0 \in ConnType : k0 = call[p] /\ c0 = conn[p]
  BY SideFacts
<1>2. PICK P, S : P = k0.pub \ {x} /\ S = c0.senders \ {x}
  OBVIOUS
<1>3. PICK k : k = [k0 EXCEPT !.pub = P]
  OBVIOUS
<1>4. k.started = k0.started /\ k.has = k0.has
  BY <1>3 DEF CallType
<1>5. PICK d : d = IF x \in c0.senders THEN [c0 EXCEPT !.senders = S, !.need = TRUE] ELSE c0
  OBVIOUS
<1>6. SameSide(c0, d) /\ d.id = c0.id /\ d.live = c0.live
  BY <1>5 DEF ConnType, SameSide
<1>7. Sets(call, call', p, k) /\ Sets(conn, conn', p, d) /\ net' = net
  BY <1>1, <1>2, <1>3, <1>5 DEF Unpublish, WithoutTrack, Becomes, Sets
<1>8. Onward(env, env')
  BY TrackCallStep, SideFacts DEF Unpublish
<1> QED
  BY <1>1, <1>4, <1>6, <1>7, <1>8, QuietGlare

\* replaceTrack.
LEMMA ReplaceTrackGlare ==
    ASSUME IndInv, Glare, NEW p \in Peer, NEW x \in Tracks, NEW u \in Tracks, ReplaceTrack(p, x, u)
    PROVE  Glare'
<1>1. PICK k0 \in CallType, c0 \in ConnType : k0 = call[p] /\ c0 = conn[p]
  BY SideFacts
<1>2. PICK P, W : /\ P = (k0.pub \ {x}) \cup {u}
                  /\ W = IF x \in c0.senders THEN c0.swap \cup {<<x, u>>} ELSE c0.swap
  OBVIOUS
<1>3. PICK k : k = [k0 EXCEPT !.pub = P]
  OBVIOUS
<1>4. k.started = k0.started /\ k.has = k0.has
  BY <1>3 DEF CallType
<1>5. PICK d : d = [c0 EXCEPT !.swap = W]
  OBVIOUS
<1>6. SameSide(c0, d) /\ d.id = c0.id /\ d.live = c0.live
  BY <1>5 DEF ConnType, SameSide
<1>7. Sets(call, call', p, k) /\ Sets(conn, conn', p, d) /\ net' = net
  BY <1>1, <1>2, <1>3, <1>5 DEF ReplaceTrack, Sets
<1>8. Onward(env, env')
  BY TrackCallStep, SideFacts DEF ReplaceTrack
<1> QED
  BY <1>1, <1>4, <1>6, <1>7, <1>8, QuietGlare

\* The browser has swapped a track.
LEMMA SwapSettlesGlare ==
    ASSUME IndInv, Glare, NEW p \in Peer, SwapSettles(p) PROVE Glare'
<1>1. PICK c0 \in ConnType : c0 = conn[p]
  BY SideFacts
<1>2. PICK W, S : Becomes(p, [c0 EXCEPT !.swap = W, !.senders = S])
  BY <1>1 DEF SwapSettles
<1>3. PICK d : d = [c0 EXCEPT !.swap = W, !.senders = S]
  OBVIOUS
<1>4. SameSide(c0, d) /\ d.id = c0.id /\ d.live = c0.live
  BY <1>3 DEF ConnType, SameSide
<1>5. Sets(conn, conn', p, d) /\ call' = call /\ net' = net /\ env' = env
  BY <1>1, <1>2, <1>3 DEF SwapSettles, Becomes, Sets
<1> QED
  BY <1>1, <1>4, <1>5, QuietGlare, SideFacts

\* The browser has refused to swap it.
LEMMA SwapRejectsGlare ==
    ASSUME IndInv, Glare, NEW p \in Peer, SwapRejects(p) PROVE Glare'
<1>1. PICK c0 \in ConnType : c0 = conn[p]
  BY SideFacts
<1>2. PICK W, R : Becomes(p, [c0 EXCEPT !.swap = W, !.refused = R])
  BY <1>1 DEF SwapRejects
<1>3. PICK d : d = [c0 EXCEPT !.swap = W, !.refused = R]
  OBVIOUS
<1>4. SameSide(c0, d) /\ d.id = c0.id /\ d.live = c0.live
  BY <1>3 DEF ConnType, SameSide
<1>5. Sets(conn, conn', p, d) /\ call' = call /\ net' = net /\ env' = env
  BY <1>1, <1>2, <1>3 DEF SwapRejects, Becomes, Sets
<1> QED
  BY <1>1, <1>4, <1>5, QuietGlare, SideFacts

\* negotiationneeded.
LEMMA NegotiationNeededGlare ==
    ASSUME IndInv, Glare, NEW p \in Peer, NegotiationNeeded(p) PROVE Glare'
<1>1. PICK c \in ConnType : c = conn[p]
  BY SideFacts
<1>2. c.live /\ c.sig = "stable" /\ c.ops = << >> /\ c.gen \in Nat /\ c.id \in Nat
  BY <1>1, Constants DEF NegotiationNeeded, ConnType, Ids
<1>3. PICK x \in Op : x = Operation("offer", <<c.id, c.gen + 1>>) /\ x.kind = "offer"
  <2>1. <<c.id, c.gen + 1>> \in Of /\ "offer" \in Kinds
    BY <1>2 DEF Of, Kinds
  <2> QED
    BY <2>1, Made
<1>4. x \in OfferOp
  BY <1>3 DEF OfferOp, WorkOp
<1>5. PICK d : d = [c EXCEPT !.making = TRUE, !.gen = c.gen + 1, !.ops = <<x>>]
  OBVIOUS
<1>6. d.live = c.live /\ d.id = c.id /\ d.sig = c.sig /\ d.mine = c.mine /\ d.making /\ d.ops = <<x>>
  BY <1>5 DEF ConnType
<1>7. Sets(conn, conn', p, d) /\ UNCHANGED <<call, net, env>>
  BY <1>1, <1>3, <1>5 DEF NegotiationNeeded, Becomes, Sets
<1>8. ASSUME FirstConnections PROVE Kept(p, d, conn[Other(p)], net'[p], net'[Other(p)])
  <2>1. Beside(p, c, conn[Other(p)], net[p], net[Other(p)])
    BY <1>1, <1>8, Firsts
  <2>2. Kept(p, d, conn[Other(p)], net[p], net[Other(p)])
    BY <1>2, <1>4, <1>6, <2>1, KeptBegins
  <2> QED
    BY <1>7, <2>2
<1> QED
  BY <1>1, <1>6, <1>7, <1>8, Continues, SideFacts

\* A handler left behind is rejected.
LEMMA StaleRejectsGlare ==
    ASSUME IndInv, Glare, NEW p \in Peer, StaleRejects(p) PROVE Glare'
<1>1. PICK k0 \in CallType : k0 = call[p]
  BY SideFacts
<1>2. PICK k : k = [k0 EXCEPT !.stale = FALSE]
  OBVIOUS
<1>3. k.started = k0.started /\ k.has = k0.has
  BY <1>2 DEF CallType
<1>4. Sets(call, call', p, k) /\ UNCHANGED <<conn, net, env>>
  BY <1>1, <1>2 DEF StaleRejects, Sets
<1>5. SameSide(conn[p], conn[p])
  BY DEF SameSide
<1> QED
  BY <1>1, <1>3, <1>4, <1>5, QuietGlare, SideFacts

\* The connection gathers a candidate.
LEMMA GathersGlare ==
    ASSUME IndInv, Glare, NEW p \in Peer, Gathers(p) PROVE Glare'
<1>1. PICK type \in {"ice", "eoc"} : Send(p, Note(type))
  BY DEF Gathers
<1>2. PICK x \in Msg : x = Note(type) /\ x.type = type
  BY Made DEF Note, Types
<1>3. x \in Candidate
  BY <1>2 DEF Candidate
<1>4. net' \in [Peer -> Seq(Msg)] /\ Grown(net[Other(p)], x, net'[Other(p)]) /\ net'[p] = net[p]
  BY <1>1, <1>2, Sending, SideFacts
<1>5. Onward(env, env') /\ UNCHANGED <<call, conn>>
  BY EventStep, SideFacts DEF Gathers
<1>6. ASSUME FirstConnections PROVE Kept(p, conn[p], conn[Other(p)], net'[p], net'[Other(p)])
  <2>1. Beside(p, conn[p], conn[Other(p)], net[p], net[Other(p)])
    BY <1>6, Firsts
  <2>2. net'[Other(p)] \in Seq(Msg)
    BY <1>4, SideFacts
  <2>3. Kept(p, conn[p], conn[Other(p)], net[p], net'[Other(p)])
    BY <1>3, <1>4, <2>1, <2>2, KeptGathers
  <2> QED
    BY <1>4, <2>3
<1> QED
  BY <1>5, <1>6, Continues, SideFacts DEF Onward

\* The connection is established.
LEMMA ConnectsGlare ==
    ASSUME IndInv, Glare, NEW p \in Peer, Connects(p) PROVE Glare'
<1>1. PICK c \in ConnType : c = conn[p]
  BY SideFacts
<1>2. PICK d : d = [c EXCEPT !.ice = "connected", !.restarts = 0]
  OBVIOUS
<1>3. SameSide(c, d) /\ d.id = c.id /\ d.live = c.live
  BY <1>2 DEF ConnType, SameSide
<1>4. Sets(conn, conn', p, d) /\ UNCHANGED <<call, net, env>>
  BY <1>1, <1>2 DEF Connects, Becomes, Sets
<1> QED
  BY <1>1, <1>3, <1>4, QuietGlare, SideFacts

\* ICE fails.
LEMMA IceFailsGlare ==
    ASSUME IndInv, Glare, NEW p \in Peer, IceFails(p) PROVE Glare'
<1>1. PICK c \in ConnType : c = conn[p] /\ c.live /\ c.id > 0
  BY SideFacts DEF IceFails, Described, ConnInv
<1>2. Onward(env, env') /\ net' = net
  BY EventStep, SideFacts DEF IceFails
<1>3. CASE c.restarts < MaxIceRestarts
  <2>1. PICK d : d = [c EXCEPT !.ice = "failed", !.restarts = c.restarts + 1, !.need = TRUE]
    OBVIOUS
  <2>2. SameSide(c, d) /\ d.id = c.id /\ d.live = c.live
    BY <2>1 DEF ConnType, SameSide
  <2>3. Sets(conn, conn', p, d) /\ UNCHANGED call
    BY <1>1, <1>3, <2>1 DEF IceFails, Becomes, Sets
  <2> QED
    BY <1>1, <1>2, <2>2, <2>3, QuietGlare, SideFacts
<1>4. CASE ~ (c.restarts < MaxIceRestarts)
  <2>1. Becomes(p, Dropped(c))
    BY <1>1, <1>4 DEF IceFails, Drops
  <2> QED
    BY <1>1, <2>1, DropsGlare
<1> QED
  BY <1>3, <1>4

\* The negotiation timer expires.
LEMMA TimeoutGlare ==
    ASSUME IndInv, NEW p \in Peer, Timeout(p) PROVE Glare'
<1>1. conn[p].live /\ conn[p].id = timer[p] /\ conn[p].id > 0 /\ conn[p] \in ConnType
  BY SideFacts DEF Timeout, TimerInv, ConnInv
<1>2. Becomes(p, Dropped(conn[p]))
  BY <1>1 DEF Timeout, Drops
<1> QED
  BY <1>1, <1>2, DropsGlare

\* setLocalDescription() made an offer.
LEMMA OfferMadeGlare ==
    ASSUME IndInv, Glare, NEW p \in Peer, NEW o, NEW e, Taken(conn[p], o, e), o.kind = "offer",
           OfferMade(p, e, o), env' = env
    PROVE  Glare'
<1>1. PICK c \in ConnType : c = conn[p] /\ ConnInv(c)
  BY SideFacts
<1>2. /\ e \in ConnType /\ o \in Op /\ o = c.ops[1] /\ Shrunk(c.ops, e.ops) /\ e.ops \in Seq(Op)
      /\ c.live /\ e.live /\ e.id = c.id /\ e.making = c.making
      /\ e.making => o.of[2] = e.gen
      /\ o \in OfferOp => o.of[1] = e.id
  BY <1>1, OpTaken
<1>3. o \in OfferOp /\ o.of \in Of /\ o.of[2] \in Nat /\ o.of = <<o.of[1], o.of[2]>>
  BY <1>2 DEF OfferOp, WorkOp, Op, Of
<1>4. PICK f : f = [e EXCEPT !.sig = "local", !.mine = o.of[2], !.need = FALSE]
  OBVIOUS
<1>5. /\ f \in ConnType /\ f.live = c.live /\ f.id = c.id /\ f.sig = "local" /\ f.mine = o.of[2]
      /\ f.ops = e.ops
  BY <1>2, <1>3, <1>4, Constants DEF ConnType
<1>6. call' = call
  BY DEF OfferMade
<1>7. CASE o.of[2] = e.gen
  <2>1. PICK d : d = [f EXCEPT !.making = FALSE]
    OBVIOUS
  <2>2. /\ d \in ConnType /\ d.live = c.live /\ d.id = c.id /\ d.sig = "local" /\ d.mine = o.of[2]
        /\ d.ops = e.ops /\ ~ d.making
    BY <1>5, <2>1 DEF ConnType
  <2>3. Sets(conn, conn', p, d) /\ Send(p, Message("offer", o.of))
    BY <1>4, <1>7, <2>1 DEF OfferMade, Becomes, Sets
  <2>4. PICK x \in Msg : x = Message("offer", o.of) /\ x.type = "offer" /\ x.of = o.of
    BY <1>3, Made DEF Types
  <2>5. net' \in [Peer -> Seq(Msg)] /\ Grown(net[Other(p)], x, net'[Other(p)]) /\ net'[p] = net[p]
    BY <2>3, <2>4, Sending, SideFacts
  <2>6. ASSUME FirstConnections PROVE Kept(p, d, conn[Other(p)], net'[p], net'[Other(p)])
    <3>1. Beside(p, c, conn[Other(p)], net[p], net[Other(p)]) /\ c.id = 1
      BY <1>1, <1>2, <2>6, Firsts
    <3>2. net'[Other(p)] \in Seq(Msg) /\ x \in OfferMsg /\ x.of = <<1, d.mine>>
      <4>1. net'[Other(p)] \in Seq(Msg)
        BY <2>5, SideFacts
      <4>2. x \in OfferMsg
        BY <2>4 DEF OfferMsg
      <4>3. x.of = <<1, d.mine>>
        BY <1>2, <1>3, <2>2, <2>4, <3>1
      <4> QED
        BY <4>1, <4>2, <4>3
    <3>3. d.ops \in Seq(Op) /\ Shrunk(c.ops, d.ops) /\ c.ops[1] \in OfferOp
      BY <1>2, <1>3, <2>2
    <3>4. Kept(p, d, conn[Other(p)], net[p], net'[Other(p)])
      BY <2>2, <2>5, <3>1, <3>2, <3>3, KeptOffers
    <3> QED
      BY <2>5, <3>4
  <2> QED
    BY <1>1, <1>6, <2>2, <2>3, <2>6, Continues, SideFacts
<1>8. CASE o.of[2] # e.gen
  <2>1. Sets(conn, conn', p, f) /\ net' = net
    BY <1>4, <1>8 DEF OfferMade, Becomes, Sets
  <2>2. ASSUME FirstConnections PROVE Kept(p, f, conn[Other(p)], net'[p], net'[Other(p)])
    <3>1. Beside(p, c, conn[Other(p)], net[p], net[Other(p)])
      BY <1>1, <2>2, Firsts
    <3>2. f.ops \in Seq(Op) /\ Shrunk(c.ops, f.ops) /\ c.ops[1] \in OfferOp /\ ~ c.making
      BY <1>2, <1>3, <1>5, <1>8
    <3>3. Kept(p, f, conn[Other(p)], net[p], net[Other(p)])
      BY <3>1, <3>2, KeptOver
    <3> QED
      BY <2>1, <3>3
  <2> QED
    BY <1>1, <1>5, <1>6, <2>1, <2>2, Continues, SideFacts
<1> QED
  BY <1>7, <1>8

\* A handler of an offer goes on to its next operation.
LEMMA ProgressGlare ==
    ASSUME IndInv, Glare, NEW p \in Peer, NEW o, NEW e, Taken(conn[p], o, e), o \in OfferHandler,
           NEW r \in Op, NEW f \in ConnType, f.live = e.live, f.id = e.id, f.making = e.making,
           f.mine = e.mine, f.ops = e.ops, NEW d, Enqueued(f, r, d), Sets(conn, conn', p, d),
           r \in AppliedPart, r.of = o.of, r \in AnswerPart => f.sig = "remote",
           o \in RollbackOp \/ r \in AnswerPart, UNCHANGED <<call, net, env>>
    PROVE  Glare'
<1>1. PICK c \in ConnType : c = conn[p] /\ ConnInv(c)
  BY SideFacts
<1>2. /\ e \in ConnType /\ o = c.ops[1] /\ Shrunk(c.ops, e.ops) /\ e.ops \in Seq(Op)
      /\ c.live /\ e.live /\ e.id = c.id /\ e.making = c.making /\ e.mine = c.mine
  BY <1>1, OpTaken
<1>3. /\ Grown(f.ops, r, d.ops) /\ d.ops \in Seq(Op) /\ d.sig = f.sig /\ d.making = f.making
      /\ d.mine = f.mine /\ d.id = f.id /\ d.live = f.live
  BY OpAdded
<1>4. Gaining(e.ops, r, d.ops)
  BY <1>2, <1>3, QueueGaining
<1>5. ASSUME FirstConnections PROVE Kept(p, d, conn[Other(p)], net'[p], net'[Other(p)])
  <2>1. Beside(p, c, conn[Other(p)], net[p], net[Other(p)])
    BY <1>1, <1>5, Firsts
  <2>2. d.making = c.making /\ d.mine = c.mine /\ (r \in AnswerPart => d.sig = "remote")
    BY <1>2, <1>3
  <2>3. Kept(p, d, conn[Other(p)], net[p], net[Other(p)])
    BY <1>2, <1>4, <2>1, <2>2, KeptProgresses
  <2> QED
    BY <2>3
<1>6. d.id = conn[p].id /\ d.live = conn[p].live
  BY <1>1, <1>2, <1>3 DEF ConnType
<1> QED
  BY <1>5, <1>6, Continues, SideFacts

\* The rollback of handleOffer.
LEMMA RolledBackGlare ==
    ASSUME IndInv, Glare, NEW p \in Peer, NEW o, NEW e, Taken(conn[p], o, e), o.kind = "rollback",
           RolledBack(p, e, o), env' = env
    PROVE  Glare'
<1>1. e \in ConnType /\ o \in Op /\ e.id > 0
  BY OpTaken, SideFacts
<1>2. o \in OfferHandler /\ o \in RollbackOp /\ o.of \in Of
  BY <1>1 DEF OfferHandler, RollbackOp, WorkOp, Op
<1>3. CASE e.sig = "stable"
  <2>1. Becomes(p, Dropped(e))
    BY <1>3 DEF RolledBack, Drops
  <2> QED
    BY <1>1, <2>1, DropsGlare
<1>4. CASE e.sig # "stable"
  <2>1. PICK r \in Op : r = Operation("remote", o.of) /\ r.kind = "remote" /\ r.of = o.of
    BY <1>2, MadeOp DEF Kinds
  <2>2. PICK b \in BOOLEAN : b <=> e.need \/ e.sig = "local"
    OBVIOUS
  <2>3. PICK f : f = [e EXCEPT !.sig = "stable", !.need = b]
    OBVIOUS
  <2>4. /\ f \in ConnType /\ f.live = e.live /\ f.id = e.id /\ f.making = e.making /\ f.mine = e.mine
        /\ f.ops = e.ops
    BY <1>1, <2>3, Constants DEF ConnType
  <2>5. PICK d : Enqueued(f, r, d)
    BY DEF Enqueued
  <2>6. d = [e EXCEPT !.sig = "stable", !.need = b, !.ops = Append(e.ops, r)]
    BY <1>1, <2>3, <2>4, <2>5 DEF Enqueued, ConnType
  <2>7. Sets(conn, conn', p, d) /\ UNCHANGED <<call, net, env>>
    BY <1>4, <2>1, <2>2, <2>6 DEF RolledBack, Becomes, Sets
  <2>8. r \in AppliedPart /\ r \notin AnswerPart
    BY <2>1 DEF AppliedPart, AnswerPart, WorkOp
  <2> QED
    BY <1>2, <2>1, <2>4, <2>5, <2>7, <2>8, ProgressGlare
<1> QED
  BY <1>3, <1>4

\* The remote offer is applied.
LEMMA RemoteAppliedGlare ==
    ASSUME IndInv, Glare, NEW p \in Peer, NEW o, NEW e, Taken(conn[p], o, e), o.kind = "remote",
           RemoteApplied(p, e, o), env' = env
    PROVE  Glare'
<1>1. e \in ConnType /\ o \in Op
  BY OpTaken, SideFacts
<1>2. o \in OfferHandler /\ o.of \in Of
  BY <1>1 DEF OfferHandler, WorkOp, Op
<1>3. PICK r \in Op : /\ r = DrainThenAnswer(e, o.of) /\ r.of = o.of
                      /\ r.kind = IF e.pend > 0 \/ e.eoc THEN "drain answer" ELSE "answer"
  <2>1. PICK x \in Kinds : x = IF e.pend > 0 \/ e.eoc THEN "drain answer" ELSE "answer"
    BY DEF Kinds
  <2> QED
    BY ZenonT(60), <1>2, <2>1, MadeOp DEF DrainThenAnswer
<1>4. r \in AppliedPart /\ r \in AnswerPart
  BY <1>3 DEF AppliedPart, AnswerPart, WorkOp
<1>5. PICK b \in BOOLEAN : b <=> e.need \/ e.sig = "local"
  OBVIOUS
<1>6. PICK f : f = [e EXCEPT !.sig = "remote", !.remote = TRUE, !.need = b]
  OBVIOUS
<1>7. /\ f \in ConnType /\ f.live = e.live /\ f.id = e.id /\ f.making = e.making /\ f.mine = e.mine
      /\ f.ops = e.ops /\ f.sig = "remote"
  BY <1>1, <1>6, Constants DEF ConnType
<1>8. PICK d : Enqueued(f, r, d)
  BY DEF Enqueued
<1>9. d = [e EXCEPT !.sig = "remote", !.remote = TRUE, !.need = b, !.ops = Append(e.ops, r)]
  BY <1>1, <1>6, <1>7, <1>8 DEF Enqueued, ConnType
<1>10. Sets(conn, conn', p, d) /\ UNCHANGED <<call, net, env>>
  BY <1>3, <1>5, <1>9 DEF RemoteApplied, Becomes, Sets
<1> QED
  BY <1>2, <1>3, <1>4, <1>7, <1>8, <1>10, ProgressGlare

\* The answer is made and sent.
LEMMA AnsweredGlare ==
    ASSUME IndInv, Glare, NEW p \in Peer, NEW o, NEW e, Taken(conn[p], o, e), o.kind = "answer",
           Answered(p, e, o), env' = env
    PROVE  Glare'
<1>1. PICK c \in ConnType : c = conn[p] /\ ConnInv(c)
  BY SideFacts
<1>2. /\ e \in ConnType /\ o \in Op /\ o = c.ops[1] /\ Shrunk(c.ops, e.ops) /\ e.ops \in Seq(Op)
      /\ c.ops \in Seq(Op)
      /\ e.live = c.live /\ e.id = c.id /\ e.making = c.making /\ e.mine = c.mine /\ e.sig = c.sig
  BY <1>1, OpTaken DEF ConnType
<1>3. o \in AnswerPart /\ o.of \in Of
  BY <1>2 DEF AnswerPart, WorkOp, Op
<1>4. PICK b \in BOOLEAN :
         IF e.sig = "remote"
         THEN /\ Becomes(p, [e EXCEPT !.sig = "stable", !.need = b])
              /\ Send(p, Message("answer", o.of))
         ELSE Becomes(p, [e EXCEPT !.sig = "local", !.mine = 0, !.need = FALSE])
  <2>1. e.need \in BOOLEAN
    BY <1>2 DEF ConnType
  <2> QED
    BY <2>1 DEF Answered
<1>5. PICK d : d = IF e.sig = "remote" THEN [e EXCEPT !.sig = "stable", !.need = b]
                   ELSE [e EXCEPT !.sig = "local", !.mine = 0, !.need = FALSE]
  OBVIOUS
<1>6. /\ d.live = c.live /\ d.id = c.id /\ d.making = c.making /\ d.ops = e.ops
      /\ e.sig = "remote" => d.sig = "stable" /\ d.mine = c.mine
  BY <1>2, <1>5 DEF ConnType
<1>7. Sets(conn, conn', p, d) /\ call' = call
  BY <1>4, <1>5 DEF Answered, Becomes, Sets
<1>8. ASSUME FirstConnections PROVE Kept(p, d, conn[Other(p)], net'[p], net'[Other(p)])
  <2>1. Beside(p, c, conn[Other(p)], net[p], net[Other(p)])
    BY <1>1, <1>8, Firsts
  <2>2. In(c.ops, AnswerPart)
    <3>1. Losing(c.ops, e.ops)
      BY <1>2, QueueLosing
    <3> QED
      BY <1>2, <1>3, <3>1 DEF Losing
  <2>3. e.sig = "remote"
    BY <1>2, <2>1, <2>2, BesideFacts
  <2>4. PICK x \in Msg : x = Message("answer", o.of) /\ x.type = "answer" /\ x.of = o.of
    BY <1>3, Made DEF Types
  <2>5. net' \in [Peer -> Seq(Msg)] /\ Grown(net[Other(p)], x, net'[Other(p)]) /\ net'[p] = net[p]
    BY <1>4, <2>3, <2>4, Sending, SideFacts
  <2>6. net'[Other(p)] \in Seq(Msg) /\ x \in AnswerMsg /\ x.of = c.ops[1].of
    BY <1>2, <2>4, <2>5, SideFacts DEF AnswerMsg
  <2>7. d.ops \in Seq(Op) /\ Shrunk(c.ops, d.ops) /\ c.ops[1] \in AnswerPart
    BY <1>2, <1>3, <1>6
  <2>8. Kept(p, d, conn[Other(p)], net[p], net'[Other(p)])
    BY <1>6, <2>1, <2>3, <2>5, <2>6, <2>7, KeptAnswers
  <2> QED
    BY <2>5, <2>8
<1> QED
  BY <1>1, <1>6, <1>7, <1>8, Continues, SideFacts

\* handleAnswer.
LEMMA AnswerAppliedGlare ==
    ASSUME IndInv, Glare, NEW p \in Peer, NEW o, NEW e, Taken(conn[p], o, e), o.kind = "apply",
           AnswerApplied(p, e, o), env' = env
    PROVE  Glare'
<1>1. PICK c \in ConnType : c = conn[p] /\ ConnInv(c)
  BY SideFacts
<1>2. /\ e \in ConnType /\ o \in Op /\ o = c.ops[1] /\ Shrunk(c.ops, e.ops) /\ e.ops \in Seq(Op)
      /\ c.ops \in Seq(Op) /\ e.id > 0
      /\ e.live = c.live /\ e.id = c.id /\ e.making = c.making /\ e.mine = c.mine
  BY <1>1, OpTaken DEF ConnType
<1>3. o \in ApplyOp /\ o.of \in Of
  BY <1>2 DEF ApplyOp, WorkOp, Op
<1>4. Losing(c.ops, e.ops)
  BY <1>2, QueueLosing
<1>5. CASE Drops(p, e)
  <2>1. Becomes(p, Dropped(e))
    BY <1>5 DEF Drops
  <2> QED
    BY <1>2, <2>1, DropsGlare
<1>6. CASE ~ Drops(p, e)
  <2>1. PICK f : f = [e EXCEPT !.sig = "stable", !.remote = TRUE]
    OBVIOUS
  <2>2. /\ f \in ConnType /\ f.live = c.live /\ f.id = c.id /\ f.making = c.making /\ f.mine = c.mine
        /\ f.ops = e.ops /\ f.sig = "stable"
    BY <1>2, <2>1, Constants DEF ConnType
  <2>3. PICK d : /\ Sets(conn, conn', p, d) /\ UNCHANGED <<call, net>> /\ LosingOp(c.ops, d.ops)
                 /\ d.live = c.live /\ d.id = c.id /\ d.making = c.making /\ d.mine = c.mine
                 /\ d.sig = "stable"
    <3>1. CASE e.pend > 0 \/ e.eoc
      <4>1. PICK r \in Op : r = Operation("drain", o.of) /\ r.kind = "drain" /\ r.of = o.of
        BY <1>3, MadeOp DEF Kinds
      <4>2. PICK d : Enqueued(f, r, d)
        BY DEF Enqueued
      <4>3. /\ Grown(f.ops, r, d.ops) /\ d.ops \in Seq(Op) /\ d.sig = f.sig /\ d.making = f.making
            /\ d.mine = f.mine /\ d.id = f.id /\ d.live = f.live
        BY <2>2, <4>2, OpAdded
      <4>4. Sets(conn, conn', p, d) /\ UNCHANGED <<call, net>>
        BY <1>6, <2>1, <3>1, <4>1, <4>2 DEF AnswerApplied, Becomes, Sets, Enqueued
      <4>5. Gaining(e.ops, r, d.ops) /\ r \in Passing
        BY <1>2, <2>2, <4>1, <4>3, QueueGaining DEF Passing, WorkOp
      <4>6. LosingOp(c.ops, d.ops)
        BY <1>4, <4>5, DrainPasses
      <4> QED
        BY <2>2, <4>3, <4>4, <4>6
    <3>2. CASE ~ (e.pend > 0 \/ e.eoc)
      <4>1. Sets(conn, conn', p, f) /\ UNCHANGED <<call, net>>
        BY <1>6, <2>1, <3>2 DEF AnswerApplied, Becomes, Sets
      <4>2. LosingOp(c.ops, f.ops)
        BY <1>4, <2>2, DrainPasses
      <4> QED
        BY <2>2, <4>1, <4>2
    <3> QED
      BY <3>1, <3>2
  <2>4. ASSUME FirstConnections PROVE Kept(p, d, conn[Other(p)], net'[p], net'[Other(p)])
    <3>1. Beside(p, c, conn[Other(p)], net[p], net[Other(p)])
      BY <1>1, <2>4, Firsts
    <3>2. Kept(p, d, conn[Other(p)], net[p], net[Other(p)])
      BY <1>2, <1>3, <2>3, <3>1, KeptApplies
    <3> QED
      BY <2>3, <3>2
  <2> QED
    BY <1>1, <2>3, <2>4, Continues, SideFacts
<1> QED
  BY <1>5, <1>6

\* drainCandidates is done.
LEMMA DrainedGlare ==
    ASSUME IndInv, Glare, NEW p \in Peer, NEW o, NEW e, Taken(conn[p], o, e), o.kind \in Drains,
           Drained(p, e, o), env' = env
    PROVE  Glare'
<1>1. PICK c \in ConnType : c = conn[p] /\ ConnInv(c)
  BY SideFacts
<1>2. /\ e \in ConnType /\ o \in Op /\ o = c.ops[1] /\ Shrunk(c.ops, e.ops) /\ e.ops \in Seq(Op)
      /\ c.ops \in Seq(Op) /\ e.sig = c.sig
      /\ e.live = c.live /\ e.id = c.id /\ e.making = c.making /\ e.mine = c.mine
  BY <1>1, OpTaken DEF ConnType
<1>3. o.of \in Of
  BY <1>2 DEF Op
<1>4. Losing(c.ops, e.ops)
  BY <1>2, QueueLosing
<1>5. PICK f : f = [e EXCEPT !.pend = 0, !.eoc = FALSE]
  OBVIOUS
<1>6. /\ f \in ConnType /\ f.live = e.live /\ f.id = e.id /\ f.making = e.making /\ f.mine = e.mine
      /\ f.ops = e.ops /\ f.sig = e.sig
  BY <1>2, <1>5, Constants DEF ConnType
<1>7. CASE o.kind = "drain answer"
  <2>1. PICK r \in Op : r = Operation("answer", o.of) /\ r.kind = "answer" /\ r.of = o.of
    BY <1>3, MadeOp DEF Kinds
  <2>2. PICK d : Enqueued(f, r, d)
    BY DEF Enqueued
  <2>3. Sets(conn, conn', p, d) /\ UNCHANGED <<call, net, env>>
    BY <1>5, <1>7, <2>1, <2>2 DEF Drained, Becomes, Sets, Enqueued
  <2>4. r \in AppliedPart /\ r \in AnswerPart /\ o \in OfferHandler /\ o \in AnswerPart
    BY <1>2, <1>7, <2>1 DEF AppliedPart, AnswerPart, OfferHandler, WorkOp
  <2>5. CASE FirstConnections
    <3>1. Beside(p, c, conn[Other(p)], net[p], net[Other(p)])
      BY <1>1, <2>5, Firsts
    <3>2. In(c.ops, AnswerPart)
      BY <1>2, <1>4, <2>4 DEF Losing
    <3>3. f.sig = "remote"
      BY <1>2, <1>6, <3>1, <3>2, BesideFacts
    <3> QED
      BY <1>6, <2>1, <2>2, <2>3, <2>4, <3>3, ProgressGlare
  <2>6. CASE ~ FirstConnections
    <3>1. d.id = f.id /\ d.live = f.live
      BY <1>6, <2>1, <2>2, OpAdded
    <3> QED
      BY <1>1, <1>2, <1>6, <2>3, <2>6, <3>1, Continues, SideFacts
  <2> QED
    BY <2>5, <2>6
<1>8. CASE o.kind # "drain answer"
  <2>1. Sets(conn, conn', p, f) /\ UNCHANGED <<call, net>>
    BY <1>5, <1>8 DEF Drained, Becomes, Sets
  <2>2. o \in Passing
    BY <1>2, <1>8 DEF Passing, WorkOp, Drains
  <2>3. SameOps(c.ops, f.ops)
    BY <1>2, <1>4, <1>6, <2>2, DrainPasses
  <2>4. ASSUME FirstConnections PROVE Kept(p, f, conn[Other(p)], net'[p], net'[Other(p)])
    <3>1. Beside(p, c, conn[Other(p)], net[p], net[Other(p)])
      BY <1>1, <2>4, Firsts
    <3>2. Kept(p, f, conn[Other(p)], net[p], net[Other(p)])
      BY <1>2, <1>6, <2>3, <3>1, KeptDrains
    <3> QED
      BY <2>1, <3>2
  <2> QED
    BY <1>1, <1>2, <1>6, <2>1, <2>4, Continues, SideFacts
<1> QED
  BY <1>7, <1>8

\* The first operation settles.
LEMMA SettlesGlare ==
    ASSUME IndInv, Glare, NEW p \in Peer, Settles(p) PROVE Glare'
<1>1. PICK o, e : /\ Taken(conn[p], o, e) /\ env' = env
                  /\ \/ o.kind = "offer" /\ OfferMade(p, e, o)
                     \/ o.kind = "rollback" /\ RolledBack(p, e, o)
                     \/ o.kind = "remote" /\ RemoteApplied(p, e, o)
                     \/ o.kind = "answer" /\ Answered(p, e, o)
                     \/ o.kind = "apply" /\ AnswerApplied(p, e, o)
                     \/ o.kind \in Drains /\ Drained(p, e, o)
  BY DEF Settles, Rest, Drains, Taken
<1> QED
  BY <1>1, OfferMadeGlare, RolledBackGlare, RemoteAppliedGlare, AnsweredGlare, AnswerAppliedGlare,
     DrainedGlare

\* The first operation rejects.
LEMMA RejectsGlare ==
    ASSUME IndInv, Glare, NEW p \in Peer, Rejects(p) PROVE Glare'
<1>1. PICK o, e : /\ Taken(conn[p], o, e)
                  /\ IF o.kind = "offer" /\ o.of[2] # conn[p].gen
                     THEN Becomes(p, e) /\ UNCHANGED call
                     ELSE Drops(p, e)
  BY DEF Rejects, Taken, Rest
<1>2. PICK c \in ConnType : c = conn[p] /\ ConnInv(c)
  BY SideFacts
<1>3. /\ e \in ConnType /\ o \in Op /\ o = c.ops[1] /\ Shrunk(c.ops, e.ops) /\ e.ops \in Seq(Op)
      /\ e.id > 0 /\ e.live = c.live /\ e.id = c.id /\ e.making = c.making /\ e.gen = c.gen
      /\ e.making => o.of[2] = e.gen
  BY <1>1, <1>2, OpTaken DEF ConnType
<1>4. Onward(env, env') /\ net' = net
  BY EventStep, SideFacts DEF Rejects
<1>5. CASE o.kind = "offer" /\ o.of[2] # conn[p].gen
  <2>1. Sets(conn, conn', p, e) /\ UNCHANGED call
    BY <1>1, <1>5 DEF Becomes, Sets
  <2>2. o \in OfferOp /\ ~ c.making
    BY <1>2, <1>3, <1>5 DEF OfferOp, WorkOp
  <2>3. ASSUME FirstConnections PROVE Kept(p, e, conn[Other(p)], net'[p], net'[Other(p)])
    <3>1. Beside(p, c, conn[Other(p)], net[p], net[Other(p)])
      BY <1>2, <2>3, Firsts
    <3>2. Kept(p, e, conn[Other(p)], net[p], net[Other(p)])
      BY <1>3, <2>2, <3>1, KeptOver
    <3> QED
      BY <1>4, <3>2
  <2> QED
    BY <1>2, <1>3, <1>4, <2>1, <2>3, Continues, SideFacts DEF Onward
<1>6. CASE ~ (o.kind = "offer" /\ o.of[2] # conn[p].gen)
  <2>1. Becomes(p, Dropped(e))
    BY <1>1, <1>6 DEF Drops
  <2> QED
    BY <1>3, <2>1, DropsGlare
<1> QED
  BY <1>5, <1>6

\* The message a side takes.
Takes(p, m) ==
    /\ net' \in [Peer -> Seq(Msg)] /\ Shrunk(net[p], net'[p]) /\ m = net[p][1]
    /\ net'[Other(p)] = net[Other(p)] /\ env' = env

\* A handler of it on the connection c, which is the present one, or a later one.
LEMMA HandledGlare ==
    ASSUME IndInv, Glare, NEW p \in Peer, NEW m \in Msg, Takes(p, m), call' = call,
           NEW c \in ConnType, c = conn[p] \/ c.id > 1, NEW d, Sets(conn, conn', p, d),
           d.id = c.id, d.live = c.live,
           Beside(p, c, conn[Other(p)], net[p], net[Other(p)]) =>
               Kept(p, d, conn[Other(p)], net'[p], net[Other(p)])
    PROVE  Glare'
<1>1. CASE c = conn[p]
  <2>1. ASSUME FirstConnections PROVE Kept(p, d, conn[Other(p)], net'[p], net'[Other(p)])
    <3>1. Beside(p, c, conn[Other(p)], net[p], net[Other(p)])
      BY <1>1, <2>1, Firsts
    <3> QED
      BY <3>1 DEF Takes
  <2> QED
    BY <1>1, <2>1, Continues, SideFacts DEF Takes
<1>2. CASE c.id > 1
  <2>1. conn'[p] = d
    BY DEF Sets, IndInv, Typing
  <2> QED
    BY <1>2, <2>1, Breaks
<1> QED
  BY <1>1, <1>2

\* handleOffer up to its first await.
LEMMA OnOfferGlare ==
    ASSUME IndInv, Glare, NEW p \in Peer, NEW m \in Msg, Takes(p, m), m.type = "offer",
           NEW c \in ConnType, c = conn[p] \/ c.id > 1, OnOffer(p, c, m)
    PROVE  Glare'
<1>1. PICK b \in BOOLEAN : b <=> c.making \/ c.sig # "stable"
  OBVIOUS
<1>2. m.of \in Of /\ net[p][1] \in OfferMsg /\ net'[p] \in Seq(Msg) /\ call' = call
  BY DEF Msg, OfferMsg, Takes, OnOffer
<1>3. CASE b /\ p = "impolite"
  <2>1. Sets(conn, conn', p, c)
    BY <1>1, <1>3 DEF OnOffer, Becomes, Sets
  <2>2. ASSUME Beside(p, c, conn[Other(p)], net[p], net[Other(p)])
        PROVE  Kept(p, c, conn[Other(p)], net'[p], net[Other(p)])
    BY <1>2, <1>3, <2>2, KeptTakesOffer DEF Takes
  <2> QED
    BY <1>2, <2>1, <2>2, HandledGlare
<1>4. CASE b /\ p # "impolite"
  <2>1. PICK r \in Op : r = Operation("rollback", m.of) /\ r.kind = "rollback" /\ r.of = m.of
    BY <1>2, MadeOp DEF Kinds
  <2>2. c.gen + 1 \in Nat
    BY DEF ConnType
  <2>3. PICK f : f = [c EXCEPT !.gen = c.gen + 1, !.making = FALSE]
    OBVIOUS
  <2>4. f \in ConnType /\ f.id = c.id /\ f.live = c.live /\ f.sig = c.sig /\ f.ops = c.ops /\ f.mine = c.mine
    BY <2>2, <2>3 DEF ConnType
  <2>5. PICK d : Enqueued(f, r, d)
    BY DEF Enqueued
  <2>6. /\ Grown(c.ops, r, d.ops) /\ c.ops \in Seq(Op) /\ d.ops \in Seq(Op) /\ d.id = c.id /\ d.live = c.live
        /\ d.sig = c.sig /\ d.mine = c.mine
    BY <2>4, <2>5, OpAdded
  <2>7. d = [c EXCEPT !.gen = c.gen + 1, !.making = FALSE, !.ops = Append(c.ops, r)]
    BY <2>3, <2>4, <2>5 DEF Enqueued, ConnType
  <2>8. Sets(conn, conn', p, d)
    BY <1>1, <1>4, <2>1, <2>7 DEF OnOffer, Becomes, Sets
  <2>9. Gaining(c.ops, r, d.ops) /\ r \in RollbackOp
    BY <2>1, <2>6, QueueGaining DEF RollbackOp, WorkOp
  <2>10. ASSUME Beside(p, c, conn[Other(p)], net[p], net[Other(p)])
         PROVE  Kept(p, d, conn[Other(p)], net'[p], net[Other(p)])
    <3>1. Shrunk(net[p], net'[p]) /\ r.of = net[p][1].of
      BY <2>1 DEF Takes
    <3> QED
      BY <1>2, <1>4, <2>6, <2>9, <2>10, <3>1, KeptTakesOffer
  <2> QED
    BY <1>2, <2>6, <2>8, <2>10, HandledGlare
<1>5. CASE ~ b
  <2>1. PICK r \in Op : r = Operation("remote", m.of) /\ r.kind = "remote" /\ r.of = m.of
    BY <1>2, MadeOp DEF Kinds
  <2>2. PICK d : Enqueued(c, r, d)
    BY DEF Enqueued
  <2>3. /\ Grown(c.ops, r, d.ops) /\ c.ops \in Seq(Op) /\ d.ops \in Seq(Op) /\ d.id = c.id /\ d.live = c.live
        /\ d.sig = c.sig /\ d.mine = c.mine /\ d.making = c.making
    BY <2>2, OpAdded
  <2>4. Sets(conn, conn', p, d)
    BY <1>1, <1>5, <2>1, <2>2 DEF OnOffer, Becomes, Sets, Enqueued
  <2>5. Gaining(c.ops, r, d.ops) /\ r \in WorkOp({"remote"})
    BY <2>1, <2>3, QueueGaining DEF WorkOp
  <2>6. ASSUME Beside(p, c, conn[Other(p)], net[p], net[Other(p)])
        PROVE  Kept(p, d, conn[Other(p)], net'[p], net[Other(p)])
    <3>1. Shrunk(net[p], net'[p]) /\ r.of = net[p][1].of
      BY <2>1 DEF Takes
    <3> QED
      BY <1>1, <1>2, <1>5, <2>3, <2>5, <2>6, <3>1, KeptTakesOffer
  <2> QED
    BY <1>2, <2>3, <2>4, <2>6, HandledGlare
<1> QED
  BY <1>3, <1>4, <1>5

\* handleAnswer up to its first await.
LEMMA OnAnswerGlare ==
    ASSUME IndInv, Glare, NEW p \in Peer, NEW m \in Msg, Takes(p, m), m.type = "answer",
           NEW c \in ConnType, c = conn[p] \/ c.id > 1, OnAnswer(p, c, m)
    PROVE  Glare'
<1>1. m.of \in Of /\ net[p][1] \in AnswerMsg /\ net'[p] \in Seq(Msg) /\ call' = call
  BY DEF Msg, AnswerMsg, Takes, OnAnswer
<1>2. PICK r \in Op : r = Operation("apply", m.of) /\ r.kind = "apply" /\ r.of = m.of
  BY <1>1, MadeOp DEF Kinds
<1>3. PICK d : Enqueued(c, r, d)
  BY DEF Enqueued
<1>4. /\ Grown(c.ops, r, d.ops) /\ c.ops \in Seq(Op) /\ d.ops \in Seq(Op) /\ d.id = c.id /\ d.live = c.live
      /\ d.sig = c.sig /\ d.mine = c.mine /\ d.making = c.making
  BY <1>3, OpAdded
<1>5. Sets(conn, conn', p, d)
  BY <1>2, <1>3 DEF OnAnswer, Becomes, Sets, Enqueued
<1>6. Gaining(c.ops, r, d.ops) /\ r \in ApplyOp
  BY <1>2, <1>4, QueueGaining DEF ApplyOp, WorkOp
<1>7. ASSUME Beside(p, c, conn[Other(p)], net[p], net[Other(p)])
      PROVE  Kept(p, d, conn[Other(p)], net'[p], net[Other(p)])
  <2>1. Shrunk(net[p], net'[p]) /\ r.of = net[p][1].of
    BY <1>2 DEF Takes
  <2> QED
    BY <1>1, <1>4, <1>6, <1>7, <2>1, KeptTakesAnswer
<1> QED
  BY <1>1, <1>4, <1>5, <1>7, HandledGlare

\* addIceCandidate.
LEMMA OnCandidateGlare ==
    ASSUME IndInv, Glare, NEW p \in Peer, NEW m \in Msg, Takes(p, m), m.type \in {"ice", "eoc"},
           NEW c \in ConnType, c.id > 0, c = conn[p] \/ c.id > 1, OnCandidate(p, c, m)
    PROVE  Glare'
<1>1. net[p][1] \in Candidate /\ net'[p] \in Seq(Msg)
  BY DEF Candidate, Takes
<1>2. CASE Drops(p, c)
  <2>1. Becomes(p, Dropped(c))
    BY <1>2 DEF Drops
  <2> QED
    BY <2>1, DropsGlare
<1>3. CASE ~ Drops(p, c)
  <2>1. PICK d : d = IF c.remote THEN c ELSE IF m.type = "eoc" THEN [c EXCEPT !.eoc = TRUE]
                     ELSE [c EXCEPT !.pend = c.pend + 1]
    OBVIOUS
  <2>2. Becomes(p, d) /\ call' = call
    BY <1>3, <2>1 DEF OnCandidate
  <2>3. SameSide(c, d) /\ d.id = c.id /\ d.live = c.live
    BY <2>1 DEF ConnType, SameSide
  <2>4. Sets(conn, conn', p, d)
    BY <2>2 DEF Becomes, Sets
  <2>5. ASSUME Beside(p, c, conn[Other(p)], net[p], net[Other(p)])
        PROVE  Kept(p, d, conn[Other(p)], net'[p], net[Other(p)])
    BY <1>1, <2>3, <2>5, KeptBuffers DEF Takes
  <2> QED
    BY <2>2, <2>3, <2>4, <2>5, HandledGlare
<1> QED
  BY <1>2, <1>3

\* The room hands over an event.
LEMMA ReceiveGlare ==
    ASSUME IndInv, Glare, NEW p \in Peer, Receive(p) PROVE Glare'
<1>1. /\ net' \in [Peer -> Seq(Msg)] /\ Shrunk(net[p], net'[p]) /\ Head(net[p]) = net[p][1]
      /\ Head(net[p]) \in Msg /\ net'[Other(p)] = net[Other(p)] /\ net'[p] \in Seq(Msg)
      /\ net[p] \in Seq(Msg)
  BY Receiving, SideFacts
<1>2. PICK m \in Msg : m = Head(net[p])
  BY <1>1
<1>3. CASE ~ (call[p].started /\ ~ call[p].closed)
  <2>1. env' = [env EXCEPT !.lost = TRUE]
    BY <1>3 DEF Receive
  <2>2. env'.lost
    BY <2>1, SideFacts DEF EnvType
  <2> QED
    BY <2>2, Breaks
<1>4. CASE call[p].started /\ ~ call[p].closed
  <2>1. env' = env /\ (conn[p].live \/ conn[p].id < MaxConns) /\ Takes(p, m)
    BY <1>1, <1>2, <1>4 DEF Receive, Takes
  <2>2. env.lost \/ conn[p].id > 0
    BY <1>4, SideFacts DEF StartInv
  <2>3. CASE env.lost
    BY <2>1, <2>3, Breaks
  <2>4. CASE conn[p].id > 0
    <3>1. PICK c : c = GetOrCreate(p, conn[p])
      OBVIOUS
    <3>2. c \in ConnType /\ c.id > 0 /\ (conn[p].live => c = conn[p]) /\ (~ conn[p].live => c.id = conn[p].id + 1)
      BY <2>1, <3>1, Created, SideFacts
    <3>3. c = conn[p] \/ c.id > 1
      BY <2>4, <3>2, SideFacts DEF ConnType, Ids
    <3>4. CASE m.type = "left"
      <4>1. PeerLeft(p)
        BY <1>2, <1>4, <3>4 DEF Receive
      <4>2. Becomes(p, Dropped(conn[p])) /\ conn[p] \in ConnType
        BY <4>1, SideFacts DEF PeerLeft
      <4> QED
        BY <2>4, <4>2, DropsGlare
    <3>5. CASE m.type = "joined"
      <4>1. PeerJoined(p)
        BY <1>2, <1>4, <3>5 DEF Receive
      <4>2. Sets(conn, conn', p, c)
        BY <3>1, <4>1 DEF PeerJoined, Becomes, Sets
      <4>3. PICK k0 \in CallType : k0 = call[p]
        BY SideFacts
      <4>4. PICK k : k = [k0 EXCEPT !.has = TRUE]
        OBVIOUS
      <4>5. k.started = k0.started /\ k.has
        BY <4>4 DEF CallType
      <4>6. Sets(call, call', p, k)
        BY <4>1, <4>3, <4>4 DEF PeerJoined, Sets
      <4>7. CASE c = conn[p]
        <5>1. ASSUME FirstConnections PROVE FALSE
          <6>1. ~ In(net[p], RoomMsg)
            BY <5>1, Firsts, BesideFacts
          <6>2. Losing(net[p], net'[p])
            BY <1>1, QueueLosing
          <6>3. net[p][1] \in RoomMsg
            BY <1>1, <1>2, <3>5 DEF RoomMsg
          <6> QED
            BY <6>1, <6>2, <6>3 DEF Losing
        <5> QED
          BY <2>1, <4>2, <4>3, <4>5, <4>6, <4>7, <5>1, Continues
      <4>8. CASE c.id > 1
        <5>1. conn'[p] = c
          BY <4>2 DEF Sets, IndInv, Typing
        <5> QED
          BY <4>8, <5>1, Breaks
      <4> QED
        BY <3>3, <4>7, <4>8
    <3>6. CASE m.type \notin {"left", "joined"}
      <4>1. Signal(p, m)
        BY <1>2, <1>4, <3>6 DEF Receive
      <4>2. CASE ~ conn[p].live /\ ~ call[p].has
        <5>1. UNCHANGED <<call, conn>>
          BY <4>1, <4>2 DEF Signal
        <5>2. ~ FirstConnections
          BY <4>2, Firsts
        <5> QED
          BY <2>1, <5>1, <5>2, Continues, SideFacts
      <4>3. CASE ~ (~ conn[p].live /\ ~ call[p].has)
        <5>1. \/ m.type = "offer" /\ OnOffer(p, c, m)
              \/ m.type = "answer" /\ OnAnswer(p, c, m)
              \/ m.type \in {"ice", "eoc"} /\ OnCandidate(p, c, m)
          BY <3>1, <4>1, <4>3 DEF Signal
        <5> QED
          BY <2>1, <3>2, <3>3, <5>1, OnOfferGlare, OnAnswerGlare, OnCandidateGlare
      <4> QED
        BY <4>2, <4>3
    <3> QED
      BY <3>4, <3>5, <3>6
  <2> QED
    BY <2>2, <2>3, <2>4
<1> QED
  BY <1>3, <1>4

-----------------------------------------------------------------------------
(* The theorems about both sides.                                          *)

\* Before anything happened there is no offer and no answer.
LEMMA GlareStarts == Init => Glare
<1>1. SUFFICES ASSUME Init PROVE Glare
  OBVIOUS
<1>2. ASSUME NEW p \in Peer PROVE call[p].has /\ conn[p].ops = << >> /\ conn[p].sig = "stable" /\ net[p] = << >>
  <2>1. PICK P \in {{}, Tracks} :
           call[p] = [started |-> FALSE, closed |-> FALSE, has |-> TRUE, pub |-> P, stale |-> FALSE]
    BY <1>1 DEF Init
  <2>2. conn[p] = NoConnection(0) /\ net[p] = << >>
    BY <1>1 DEF Init
  <2> QED
    BY <2>1, <2>2, Constants, NotYetMade
<1>3. PICK i, p, ni, np : /\ i = conn["impolite"] /\ p = conn["polite"]
                          /\ ni = net["impolite"] /\ np = net["polite"]
  OBVIOUS
<1>4. /\ i.ops = << >> /\ p.ops = << >> /\ ni = << >> /\ np = << >>
      /\ i.sig = "stable" /\ p.sig = "stable"
  BY <1>2, <1>3 DEF Peer
<1>5. \A X : ~ In(i.ops, X) /\ ~ In(p.ops, X) /\ ~ In(ni, X) /\ ~ In(np, X)
  BY <1>4, EmptyQueue
<1>6. PoliteOffers(i, p, ni, np)
  BY <1>5, NoOffers
<1>7. ImpoliteOffer(i, p, ni, np)
  BY <1>4, <1>5, NoneIn DEF ImpoliteOffer
<1>8. PoliteOffer(i, p, ni, np)
  BY <1>5, NoneIn DEF PoliteOffer, Accepted
<1>9. Chains(i, p)
  BY <1>4, <1>5 DEF Chains
<1>10. GlareInv(i, p, ni, np)
  BY <1>5, <1>6, <1>7, <1>8, <1>9 DEF GlareInv
<1> QED
  BY <1>2, <1>3, <1>10 DEF Glare

\* A step of any action keeps the negotiations apart.
LEMMA GlareStep == IndInv /\ Glare /\ [Next]_vars => Glare'
<1>1. SUFFICES ASSUME IndInv, Glare, [Next]_vars PROVE Glare'
  OBVIOUS
<1>2. CASE UNCHANGED vars
  BY <1>1, <1>2 DEF vars, Glare, FirstConnections
<1>3. CASE Next
  <2>1. PICK p \in Peer :
           \/ Start(p) \/ Refresh(p) \/ Close(p)
           \/ \E t \in Tracks : AddTrack(p, t) \/ Unpublish(p, t)
           \/ \E t, u \in Tracks : ReplaceTrack(p, t, u)
           \/ SwapSettles(p) \/ SwapRejects(p)
           \/ NegotiationNeeded(p) \/ Settles(p) \/ Rejects(p) \/ StaleRejects(p)
           \/ Receive(p) \/ Gathers(p) \/ Connects(p) \/ IceFails(p) \/ Timeout(p)
    BY <1>3 DEF Next
  <2>2. CASE Start(p) \/ Refresh(p) \/ Close(p)
    BY <1>1, <2>2, StartGlare, RefreshGlare, CloseGlare
  <2>3. CASE \/ \E t \in Tracks : AddTrack(p, t) \/ Unpublish(p, t)
             \/ \E t, u \in Tracks : ReplaceTrack(p, t, u)
    BY <1>1, <2>3, AddTrackGlare, UnpublishGlare, ReplaceTrackGlare
  <2>4. CASE \/ SwapSettles(p) \/ SwapRejects(p)
             \/ NegotiationNeeded(p) \/ Settles(p) \/ Rejects(p) \/ StaleRejects(p)
    BY <1>1, <2>4, SwapSettlesGlare, SwapRejectsGlare, NegotiationNeededGlare, SettlesGlare, RejectsGlare, StaleRejectsGlare
  <2>5. CASE Receive(p) \/ Gathers(p) \/ Connects(p) \/ IceFails(p) \/ Timeout(p)
    BY <1>1, <2>5, ReceiveGlare, GathersGlare, ConnectsGlare, IceFailsGlare, TimeoutGlare
  <2> QED
    BY <2>1, <2>2, <2>3, <2>4, <2>5
<1> QED
  BY <1>1, <1>2, <1>3

\* The invariant of the two sides holds throughout.
THEOREM GlareInvariance == Spec => []Glare
<1>1. Init => Glare
  BY GlareStarts
<1>2. IndInv /\ Glare /\ [Next]_vars => Glare'
  BY GlareStep
<1> QED
  BY <1>1, <1>2, Invariance, PTL DEF Spec

\* The negotiations of two undisturbed sides.
LEMMA UndisturbedSides ==
    ASSUME IndInv, Glare, Undisturbed
    PROVE  Sides(conn["impolite"], conn["polite"], net["impolite"], net["polite"])
<1>1. FirstConnections
  BY DEF Undisturbed, FirstConnections
<1>2. Beside("impolite", conn["impolite"], conn["polite"], net["impolite"], net["polite"])
  BY <1>1, Firsts DEF Peer, Other
<1> QED
  BY <1>2 DEF Beside

\* However the offers of both sides collide, are rolled back, ignored or repeated, and
\* for any number of candidates, tracks and ICE restarts, an answer that is about to be
\* applied was made for the offer that is outstanding (handleOffer, handleAnswer).
THEOREM AnswersMatch == Spec => []AnswerMatchesOffer
<1>1. IndInv /\ Glare => AnswerMatchesOffer
  <2>1. SUFFICES ASSUME IndInv, Glare, Undisturbed, NEW q \in Peer, conn[q].ops # << >>,
                        Head(conn[q].ops).kind = "apply"
                 PROVE  conn[q].sig = "local" /\ Head(conn[q].ops).of = <<conn[q].id, conn[q].mine>>
    BY DEF AnswerMatchesOffer
  <2>2. PICK c \in ConnType : c = conn[q] /\ c.ops \in Seq(Op) /\ c.id = 1
    BY <2>1, SideFacts DEF ConnType, Ops, Undisturbed
  <2>3. PICK o : o = Head(c.ops) /\ o = c.ops[1] /\ o \in Op /\ 1 \in 1 .. Len(c.ops)
    BY <2>1, <2>2, Taking
  <2>4. c.ops[1] \in ApplyOp /\ In(c.ops, ApplyOp)
    BY <2>1, <2>2, <2>3 DEF ApplyOp, WorkOp, In
  <2>5. Sides(conn["impolite"], conn["polite"], net["impolite"], net["polite"])
    BY <2>1, UndisturbedSides
  <2>6. c.sig = "local" /\ About(c.ops, ApplyOp, <<1, c.mine>>)
    <3>1. CASE q = "impolite"
      BY <2>2, <2>4, <2>5, <3>1 DEF Sides, GlareInv, ImpoliteOffer
    <3>2. CASE q = "polite"
      BY <2>2, <2>4, <2>5, <3>2 DEF Sides, GlareInv, PoliteOffer, Accepted
    <3> QED
      BY <3>1, <3>2 DEF Peer
  <2> QED
    BY <2>2, <2>3, <2>4, <2>6 DEF About
<1> QED
  BY <1>1, Invariance, GlareInvariance, PTL

\* However the offers collided, once everything has settled the impolite side has its
\* answer: no interleaving of rollback, ignored offer and answer loses its offer
\* (handleOffer).
THEOREM GlareIsSettled == Spec => []GlareSettles
<1>1. IndInv /\ Glare => GlareSettles
  <2>1. SUFFICES ASSUME IndInv, Glare, Undisturbed, Settled PROVE conn["impolite"].sig = "stable"
    BY DEF GlareSettles
  <2>2. PICK i, p, ni, np : /\ i = conn["impolite"] /\ p = conn["polite"]
                            /\ ni = net["impolite"] /\ np = net["polite"]
    OBVIOUS
  <2>3. Sides(i, p, ni, np)
    BY <2>1, <2>2, UndisturbedSides
  <2>4. i.ops = << >> /\ p.ops = << >> /\ ni = << >> /\ np = << >>
    BY <2>1, <2>2 DEF Settled, Peer
  <2>5. \A X : ~ In(i.ops, X) /\ ~ In(p.ops, X) /\ ~ In(ni, X) /\ ~ In(np, X)
    BY <2>4, EmptyQueue
  <2>6. i.sig # "local" /\ i.sig # "remote" /\ i.sig \in Sigs
    BY <2>3, <2>5 DEF Sides, GlareInv, ImpoliteOffer, Chains, ConnType
  <2> QED
    BY <2>2, <2>6 DEF Sigs
<1> QED
  BY <1>1, Invariance, GlareInvariance, PTL

=============================================================================
