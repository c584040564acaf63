------------------------ MODULE SignalingClientProofs ------------------------
(* Invariance proofs for SignalingClient, for every number of transports and  *)
(* every setting of the options and limits.                                   *)
(*                                                                            *)
(* A step changes the connection of one transport.  So the inductive          *)
(* invariant is a conjunction, over the transports, of what holds between one *)
(* connection, its handshake and the client; TransportStep reduces the proof  *)
(* of a step to the transport it is about.                                    *)
EXTENDS SignalingClient, SequenceTheorems, WellFoundedInduction, TLAPS

\* The ranges of the fields, so that the provers need not look into them.
Attempts == 0..MaxAttempts
InCount  == 0..MaxIn
OutCount == 0..MaxOut
InSeq    == Seq(1..MaxIn)
OutSeq   == Seq(1..MaxOut)
OutSet   == SUBSET (1..MaxOut)
States   == {"disconnected", "connecting", "connected", "reconnecting"}
Phases   == {"none", "waiting", "resolved", "rejected", "done"}

ClientType == [state : States, transport : Transport \cup {Null},
               handshake : Transport \cup {Null}, room : Transport \cup {Null},
               wired : SUBSET Transport, steady : SUBSET Transport, view : InSeq]
ConnType == [closed : BOOLEAN, exhausted : BOOLEAN, connecting : BOOLEAN,
             first : BOOLEAN, sock : SockState, settled : BOOLEAN,
             connectTimer : BOOLEAN, reconnectTimer : BOOLEAN,
             refreshing : BOOLEAN, attempt : Attempts,
             joined : BOOLEAN, received : InCount, queue : OutSeq, wire : OutSeq,
             sent : OutCount, bad : OutSet, reported : OutSet]
JoinType == [phase : Phases, listening : BOOLEAN, timer : BOOLEAN, buffer : InSeq]

-----------------------------------------------------------------------------
(* The inductive invariant *)

Live(c) == c.sock \notin {"none", "closed"}

\* Something of the connection is under way.
Pending(c) == c.connecting \/ c.refreshing \/ c.reconnectTimer \/ Live(c)

UpTo(n) == [i \in 1..n |-> i]

\* A transport does one thing at a time: it makes a socket, refreshes the token,
\* waits for its retry or has a socket; one that gave up only has a socket to close.
ConnInv(c) ==
    /\ c.connecting => ~ c.refreshing /\ ~ c.reconnectTimer /\ ~ Live(c)
    /\ c.refreshing => ~ c.reconnectTimer /\ ~ Live(c)
    /\ c.reconnectTimer => ~ Live(c)
    /\ c.exhausted => ~ c.connecting /\ ~ c.refreshing /\ ~ c.reconnectTimer
    /\ c.connectTimer => c.sock \in {"connecting", "aborting"}
    /\ c.joined => c.sock \in {"open", "closing", "errored"}
    /\ ~ c.joined => c.received = 0
    /\ Terminal(c) => c.sock \notin {"connecting", "open"}

\* The handshake follows the first socket: it settles with room-joined, and then
\* buffers every frame of that socket until the rest of joinRoom() runs.
JoinInv(o, c, h) ==
    /\ c.connecting /\ c.first => h.phase \in {"waiting", "rejected"} \/ c.closed
    /\ h.phase = "waiting" => h.listening /\ ~ c.joined /\ h.buffer = << >>
    /\ h.phase = "resolved" => /\ c.sock \in {"open", "closing"} /\ c.joined
                               /\ h.listening /\ h.buffer = UpTo(c.received)
    /\ c.connectTimer => "connectTimeout" \in o

\* The client and its present transport t.
OwnInv(o, k, t, c, h) ==
    /\ ~ c.closed
    /\ h.phase # "none"
    /\ h.phase = "done" <=> k.room = t
    /\ k.state = "disconnected" => ~ Pending(c)
    /\ c.exhausted => "connectTimeout" \in o
    /\ "reconnect" \in o /\ "connectTimeout" \notin o => Pending(c) \/ h.phase = "rejected"
    /\ k.room = t =>
          /\ k.state = "connected" <=> c.sock \in {"open", "closing", "errored"} /\ c.joined
          /\ k.state = "connected" => k.view = UpTo(c.received)

TransportInv(o, k, t, c, h) ==
    /\ ConnInv(c)
    /\ JoinInv(o, c, h)
    /\ k.transport = t => OwnInv(o, k, t, c, h)
    /\ k.transport # t => (h.phase \in {"waiting", "done"} => Terminal(c))

ClientInv(k) ==
    /\ k.wired = {k.transport} \ {Null}
    /\ k.steady = {k.room} \ {Null}
    /\ k.room \in {Null, k.transport}
    /\ k.transport = Null => k.state = "disconnected"
    /\ k.room = Null => k.state # "connected"
    /\ k.room # Null => k.state # "connecting"

Typing ==
    /\ opts \subseteq Options
    /\ client \in ClientType
    /\ conn \in [Transport -> ConnType]
    /\ join \in [Transport -> JoinType]

IndInv ==
    /\ Typing
    /\ ClientInv(client)
    /\ \A t \in Transport : TransportInv(opts, client, t, conn[t], join[t])

-----------------------------------------------------------------------------
(* Facts about the operations on one record *)

\* The initial values are in their ranges.
LEMMA Zeros ==
    /\ << >> \in OutSeq /\ << >> \in InSeq /\ {} \in OutSet
    /\ 0 \in OutCount /\ 0 \in InCount /\ 0 \in Attempts
BY BoundAssumption DEF OutSeq, InSeq, OutCount, OutSet, InCount, Attempts

\* The fields that the invariant is about, unlike the queue and what was sent.
Same(c, d) ==
    /\ d.closed = c.closed /\ d.exhausted = c.exhausted /\ d.connecting = c.connecting
    /\ d.first = c.first /\ d.sock = c.sock /\ d.connectTimer = c.connectTimer
    /\ d.reconnectTimer = c.reconnectTimer /\ d.refreshing = c.refreshing
    /\ d.joined = c.joined /\ d.received = c.received

\* A transport record that differs only elsewhere satisfies the same invariant.
LEMMA SameKeeps ==
    ASSUME NEW o, NEW k, NEW t, NEW c, NEW d, NEW h, Same(c, d), TransportInv(o, k, t, c, h)
    PROVE  TransportInv(o, k, t, d, h)
BY DEF Same, TransportInv, ConnInv, JoinInv, OwnInv, Pending, Live, Terminal

\* A set of natural numbers that is not empty has a least element.
LEMMA LeastNatural ==
    ASSUME NEW T \in SUBSET Nat, T # {}
    PROVE  \E m \in T : \A n \in T : m <= n
<1> DEFINE R == OpToRel(<, Nat)
<1>1. \A x, y \in Nat : <<x, y>> \in R <=> x < y
  BY DEF OpToRel
<1>2. IsWellFoundedOn(R, Nat)
  BY NatLessThanWellFounded
<1> HIDE DEF R
<1>3. PICK m \in T : \A y \in T : ~ (<<y, m>> \in R)
  BY <1>2, WFMin
<1>4. ASSUME NEW n \in T PROVE m <= n
  <2>1. m \in Nat /\ n \in Nat
    OBVIOUS
  <2>2. ~ (n < m)
    BY <1>1, <1>3, <2>1, Zenon
  <2> QED
    BY <2>1, <2>2
<1> QED
  BY <1>4

\* drain() moves a prefix of the queue to the wire; it stops short of the end
\* only at a frame that cannot be serialised.
LEMMA FlushShape ==
    ASSUME NEW c \in ConnType, c.sock = "open"
    PROVE  \E n \in 0..Len(c.queue) :
              /\ Flush(c) = [c EXCEPT !.wire = c.wire \o SubSeq(c.queue, 1, n),
                                      !.queue = SubSeq(c.queue, n + 1, Len(c.queue))]
              /\ n < Len(c.queue) => c.queue[n + 1] \in c.bad
<1> DEFINE blocked == {i \in 1..Len(c.queue) : c.queue[i] \in c.bad}
           stop == IF blocked = {} THEN Len(c.queue) + 1
                   ELSE CHOOSE i \in blocked : \A j \in blocked : i <= j
<1>1. Flush(c) = [c EXCEPT !.wire = @ \o SubSeq(c.queue, 1, stop - 1),
                           !.queue = SubSeq(@, stop, Len(@))]
  BY DEF Flush
<1>2. Len(c.queue) \in Nat
  BY LenProperties DEF ConnType, OutSeq
<1>3. /\ stop \in 1..Len(c.queue) + 1
      /\ stop <= Len(c.queue) => c.queue[stop] \in c.bad
  <2>1. CASE blocked = {}
    BY <1>2, <2>1
  <2>2. CASE blocked # {}
    <3>1. blocked \in SUBSET Nat
      OBVIOUS
    <3>2. stop \in blocked
      BY <2>2, <3>1, LeastNatural
    <3> HIDE DEF stop
    <3>3. stop \in 1..Len(c.queue) /\ c.queue[stop] \in c.bad
      BY <3>2
    <3> QED
      BY <1>2, <3>3
  <2> QED
    BY <2>1, <2>2
<1> HIDE DEF stop
<1>4. PICK n \in 0..Len(c.queue) : stop = n + 1 /\ n = stop - 1
  <2>1. stop - 1 \in 0..Len(c.queue) /\ stop = (stop - 1) + 1
    BY <1>2, <1>3
  <2> QED
    BY <2>1
<1>5. n < Len(c.queue) => c.queue[n + 1] \in c.bad
  BY <1>2, <1>3, <1>4
<1>6. Flush(c) = [c EXCEPT !.wire = c.wire \o SubSeq(c.queue, 1, n),
                           !.queue = SubSeq(c.queue, n + 1, Len(c.queue))]
  BY <1>1, <1>4
<1> QED
  BY <1>5, <1>6

\* Parts of a sequence of frames are sequences of frames.
LEMMA SplitType ==
    ASSUME NEW q \in OutSeq, NEW n \in 0..Len(q)
    PROVE  /\ SubSeq(q, 1, n) \in OutSeq /\ SubSeq(q, n + 1, Len(q)) \in OutSeq
           /\ Len(SubSeq(q, n + 1, Len(q))) = Len(q) - n
<1> DEFINE S == 1..MaxOut
<1> HIDE DEF S
<1>1. q \in Seq(S)
  BY DEF OutSeq, S
<1>2. Len(q) \in Nat /\ \A i \in 1..Len(q) : q[i] \in S
  BY <1>1, LenProperties, ElementOfSeq
<1>3. SubSeq(q, 1, n) \in Seq(S)
  BY <1>2, SubSeqProperties
<1>4. /\ SubSeq(q, n + 1, Len(q)) \in Seq(S)
      /\ Len(SubSeq(q, n + 1, Len(q))) = Len(q) - n
  <2>1. n + 1 \in Int /\ \A i \in (n + 1)..Len(q) : q[i] \in S
    BY <1>2
  <2>2. /\ SubSeq(q, n + 1, Len(q)) \in Seq(S)
        /\ Len(SubSeq(q, n + 1, Len(q))) =
              IF n + 1 <= Len(q) THEN Len(q) - (n + 1) + 1 ELSE 0
    BY <1>2, <2>1, SubSeqProperties
  <2> QED
    BY <1>2, <2>2
<1> QED
  BY <1>3, <1>4 DEF OutSeq, S

\* drain() leaves the control state of the transport alone.
LEMMA FlushFacts ==
    ASSUME NEW c \in ConnType
    PROVE  Flush(c) \in ConnType /\ Same(c, Flush(c))
<1>1. CASE c.sock # "open"
  BY <1>1 DEF Flush, Same
<1>2. CASE c.sock = "open"
  <2>1. PICK n \in 0..Len(c.queue) :
           Flush(c) = [c EXCEPT !.wire = c.wire \o SubSeq(c.queue, 1, n),
                                !.queue = SubSeq(c.queue, n + 1, Len(c.queue))]
    BY <1>2, FlushShape
  <2>2. PICK w : w = c.wire \o SubSeq(c.queue, 1, n)
    OBVIOUS
  <2>3. PICK q : q = SubSeq(c.queue, n + 1, Len(c.queue))
    OBVIOUS
  <2>4. c.queue \in OutSeq /\ c.wire \in OutSeq
    BY DEF ConnType
  <2>5. w \in OutSeq /\ q \in OutSeq
    BY <2>2, <2>3, <2>4, SplitType, ConcatProperties DEF OutSeq
  <2>6. Flush(c) = [c EXCEPT !.wire = w, !.queue = q]
    BY <2>1, <2>2, <2>3
  <2> QED
    BY <2>5, <2>6 DEF ConnType, Same
<1> QED
  BY <1>1, <1>2

\* close() makes the transport terminal, whatever was pending.
LEMMA CloseFacts ==
    ASSUME NEW c \in ConnType
    PROVE  /\ Close(c) \in ConnType
           /\ Close(c).closed = TRUE /\ Close(c).reconnectTimer = FALSE
           /\ Close(c).sock = Closing(c.sock)
           /\ Close(c).exhausted = c.exhausted /\ Close(c).connecting = c.connecting
           /\ Close(c).first = c.first /\ Close(c).connectTimer = c.connectTimer
           /\ Close(c).refreshing = c.refreshing /\ Close(c).joined = c.joined
           /\ Close(c).received = c.received
<1>1. Closing(c.sock) \in SockState
  BY DEF ConnType, Closing, SockState
<1> QED
  BY <1>1, Zeros DEF Close, Forget, ConnType

\* A settled join is not rejected any more; a waiting one is.
LEMMA RejectFacts ==
    ASSUME NEW h \in JoinType
    PROVE  /\ Reject(h) \in JoinType
           /\ Reject(h).phase = IF h.phase = "waiting" THEN "rejected" ELSE h.phase
           /\ h.phase # "waiting" => Reject(h) = h
BY DEF Reject, JoinType, Phases

\* _setState only changes the state.
LEMMA SetStateFacts ==
    ASSUME NEW k \in ClientType, NEW x \in States
    PROVE  /\ SetState(k, x) \in ClientType
           /\ SetState(k, x).transport = k.transport /\ SetState(k, x).room = k.room
           /\ SetState(k, x).handshake = k.handshake /\ SetState(k, x).view = k.view
           /\ SetState(k, x).wired = k.wired /\ SetState(k, x).steady = k.steady
           /\ SetState(k, x).state = IF x \in Legal[k.state] THEN x ELSE k.state
BY DEF SetState, ClientType

\* The table of transitions.
LEMMA LegalFacts ==
    ASSUME NEW s \in States
    PROVE  /\ "disconnected" \in Legal[s] <=> s # "disconnected"
           /\ "connected" \in Legal[s] <=> s \in {"connecting", "reconnecting"}
           /\ "reconnecting" \in Legal[s] <=> s # "reconnecting"
           /\ "connecting" \in Legal[s] <=> s = "disconnected"
<1>1. CASE s = "disconnected"
  BY <1>1 DEF Legal
<1>2. CASE s = "connecting"
  BY <1>2 DEF Legal
<1>3. CASE s = "connected"
  BY <1>3 DEF Legal
<1>4. CASE s = "reconnecting"
  BY <1>4 DEF Legal
<1> QED
  BY <1>1, <1>2, <1>3, <1>4 DEF States

\* The rejection of its handshake keeps the invariant of a transport.
LEMMA RejectKeeps ==
    ASSUME NEW o, NEW k, NEW t, NEW c, NEW h \in JoinType, TransportInv(o, k, t, c, h)
    PROVE  TransportInv(o, k, t, c, Reject(h))
<1>1. CASE h.phase # "waiting"
  BY <1>1, RejectFacts
<1>2. CASE h.phase = "waiting"
  <2>1. Reject(h).phase = "rejected"
    BY <1>2, RejectFacts
  <2>2. ConnInv(c)
    BY DEF TransportInv
  <2>3. JoinInv(o, c, Reject(h))
    BY <1>2, <2>1 DEF TransportInv, JoinInv
  <2>4. k.transport = t => OwnInv(o, k, t, c, Reject(h))
    BY <1>2, <2>1 DEF TransportInv, OwnInv
  <2> QED
    BY <2>1, <2>2, <2>3, <2>4 DEF TransportInv
<1> QED
  BY <1>1, <1>2

\* close() keeps the invariant of a transport that the client lets go of.
LEMMA CloseKeeps ==
    ASSUME NEW o, NEW l, NEW t, NEW c \in ConnType, NEW h,
           ConnInv(c), JoinInv(o, c, h), l.transport # t
    PROVE  TransportInv(o, l, t, Close(c), h)
<1>0. c.sock \in SockState
  BY DEF ConnType
<1>1. /\ Live(Close(c)) <=> Live(c)
      /\ Close(c).sock \notin {"connecting", "open"}
      /\ c.sock \in {"open", "closing"} => Close(c).sock = "closing"
      /\ c.sock \in {"connecting", "aborting"} => Close(c).sock = "aborting"
      /\ c.sock = "errored" => Close(c).sock = "errored"
  BY <1>0, CloseFacts DEF Closing, Live, SockState
<1>2. ConnInv(Close(c))
  BY <1>1, CloseFacts DEF ConnInv
<1>3. JoinInv(o, Close(c), h)
  BY <1>1, CloseFacts DEF JoinInv
<1>4. Terminal(Close(c))
  BY CloseFacts DEF Terminal
<1> QED
  BY <1>2, <1>3, <1>4 DEF TransportInv

-----------------------------------------------------------------------------
(* A step, seen from the transport it is about *)

\* If the transport t, its handshake and the client come out right, so does
\* everything: the other transports see at most their handshake rejected, and the
\* client's references to them do not change.
LEMMA TransportStep ==
    ASSUME IndInv, NEW t \in Transport, NEW d \in ConnType, NEW k \in ClientType,
           opts' = opts, client' = k, conn' = [conn EXCEPT ![t] = d],
           join' \in [Transport -> JoinType],
           \A s \in Transport \ {t} : join'[s] = join[s] \/ join'[s] = Reject(join[s]),
           k.transport = client.transport \/ {k.transport, client.transport} \subseteq {t, Null},
           k.room = client.room \/ {k.room, client.room} \subseteq {t, Null},
           client.transport \in {t, Null}
              \/ (k.state = client.state /\ k.view = client.view),
           ClientInv(k), TransportInv(opts, k, t, d, join'[t])
    PROVE  IndInv'
<1>1. Typing'
  BY DEF IndInv, Typing
<1>2. conn'[t] = d /\ \A s \in Transport \ {t} : conn'[s] = conn[s]
  BY DEF IndInv, Typing
<1>3. ASSUME NEW s \in Transport, s # t
      PROVE  TransportInv(opts, k, s, conn[s], join[s])
  <2>1. TransportInv(opts, client, s, conn[s], join[s])
    BY DEF IndInv
  <2>2. /\ k.transport = s <=> client.transport = s
        /\ k.room = s <=> client.room = s
        /\ client.transport = s => k.state = client.state /\ k.view = client.view
    BY <1>3, TransportAssumption
  <2>3. k.transport = s => OwnInv(opts, k, s, conn[s], join[s])
    BY <2>1, <2>2 DEF TransportInv, OwnInv
  <2> QED
    BY <2>1, <2>2, <2>3 DEF TransportInv
<1>4. ASSUME NEW s \in Transport, s # t
      PROVE  TransportInv(opts, k, s, conn[s], join'[s])
  <2>1. join[s] \in JoinType
    BY DEF IndInv, Typing
  <2> QED
    BY <1>3, <1>4, <2>1, RejectKeeps
<1>5. \A s \in Transport : TransportInv(opts', client', s, conn'[s], join'[s])
  BY <1>2, <1>4
<1> QED
  BY <1>1, <1>5 DEF IndInv

\* The same for steps that leave the client alone.
LEMMA QuietStep ==
    ASSUME IndInv, NEW t \in Transport, NEW d \in ConnType, NEW h \in JoinType,
           UNCHANGED <<opts, client>>, conn' = [conn EXCEPT ![t] = d],
           join' = [join EXCEPT ![t] = h],
           TransportInv(opts, client, t, d, h)
    PROVE  IndInv'
<1>1. /\ join' \in [Transport -> JoinType] /\ join'[t] = h
      /\ \A s \in Transport \ {t} : join'[s] = join[s]
  BY DEF IndInv, Typing
<1>2. client \in ClientType /\ ClientInv(client)
  BY DEF IndInv, Typing
<1> QED
  BY <1>1, <1>2, TransportStep

\* What the invariant says of one transport.
LEMMA AtTransport ==
    ASSUME IndInv, NEW t \in Transport
    PROVE  /\ conn[t] \in ConnType /\ join[t] \in JoinType /\ client \in ClientType
           /\ TransportInv(opts, client, t, conn[t], join[t]) /\ ClientInv(client)
           /\ conn = [conn EXCEPT ![t] = conn[t]] /\ join = [join EXCEPT ![t] = join[t]]
           /\ t \in client.wired <=> client.transport = t
           /\ t \in client.steady <=> client.room = t
BY TransportAssumption DEF IndInv, Typing, ClientInv

-----------------------------------------------------------------------------
(* The steps that leave the client alone *)

\* Timers and events that only concern the handshake.
LEMMA HandshakeStep ==
    ASSUME IndInv, NEW t \in Transport, JoinTimeout(t) \/ OnErrorFrame(t)
    PROVE  IndInv'
<1>1. UNCHANGED <<opts, client, conn>> /\ join' = [join EXCEPT ![t] = Reject(join[t])]
  BY DEF JoinTimeout, OnErrorFrame
<1>2. Reject(join[t]) \in JoinType /\ TransportInv(opts, client, t, conn[t], Reject(join[t]))
  BY AtTransport, RejectFacts, RejectKeeps
<1> QED
  BY <1>1, <1>2, AtTransport, QuietStep

\* A step that changes only the connection of t.
LEMMA ConnStep ==
    ASSUME IndInv, NEW t \in Transport, NEW d \in ConnType,
           UNCHANGED <<opts, client, join>>, conn' = [conn EXCEPT ![t] = d],
           TransportInv(opts, client, t, d, join[t])
    PROVE  IndInv'
BY AtTransport, QuietStep

\* A socket is made, unless the transport was closed meanwhile.
LEMMA SocketCreatedStep ==
    ASSUME IndInv, NEW t \in Transport, SocketCreated(t)
    PROVE  IndInv'
<1>1. PICK c \in ConnType : c = conn[t]
  BY AtTransport
<1>2. PICK h \in JoinType : h = join[t]
  BY AtTransport
<1>3. c.connecting /\ TransportInv(opts, client, t, c, h)
  BY <1>1, <1>2, AtTransport DEF SocketCreated
<1>4. CASE c.closed
  <2> DEFINE d == [c EXCEPT !.connecting = FALSE]
  <2>1. conn' = [conn EXCEPT ![t] = d] /\ UNCHANGED <<opts, client, join>>
    BY <1>1, <1>4 DEF SocketCreated
  <2>2. d \in ConnType
    BY DEF ConnType
  <2>3. /\ d.connecting = FALSE /\ d.closed = c.closed /\ d.exhausted = c.exhausted
        /\ d.first = c.first /\ d.sock = c.sock /\ d.connectTimer = c.connectTimer
        /\ d.reconnectTimer = c.reconnectTimer /\ d.refreshing = c.refreshing
        /\ d.joined = c.joined /\ d.received = c.received
    BY DEF ConnType
  <2> HIDE DEF d
  <2>4. TransportInv(opts, client, t, d, h)
    BY <1>3, <1>4, <2>3 DEF TransportInv, ConnInv, JoinInv, OwnInv, Pending, Live, Terminal
  <2> QED
    BY <1>2, <2>1, <2>2, <2>4, ConnStep
<1>5. CASE ~ c.closed
  <2>0. PICK b \in BOOLEAN : b <=> "connectTimeout" \in opts
    OBVIOUS
  <2> DEFINE d == [c EXCEPT !.connecting = FALSE, !.sock = "connecting", !.settled = FALSE,
                            !.joined = FALSE, !.received = 0, !.connectTimer = b]
  <2>1. conn' = [conn EXCEPT ![t] = d] /\ UNCHANGED <<opts, client, join>>
    BY <1>1, <1>5, <2>0 DEF SocketCreated
  <2>2. d \in ConnType
    BY Zeros DEF ConnType, SockState
  <2>3. /\ d.connecting = FALSE /\ d.closed = c.closed /\ d.exhausted = c.exhausted
        /\ d.first = c.first /\ d.sock = "connecting" /\ d.connectTimer = b
        /\ d.reconnectTimer = c.reconnectTimer /\ d.refreshing = c.refreshing
        /\ d.joined = FALSE /\ d.received = 0
    BY DEF ConnType
  <2> HIDE DEF d
  <2>4. TransportInv(opts, client, t, d, h)
    BY <1>3, <1>5, <2>0, <2>3
    DEF TransportInv, ConnInv, JoinInv, OwnInv, Pending, Live, Terminal
  <2> QED
    BY <1>2, <2>1, <2>2, <2>4, ConnStep
<1> QED
  BY <1>4, <1>5

\* No socket can be made: the join that waits for it is rejected.
LEMMA SocketUnavailableStep ==
    ASSUME IndInv, NEW t \in Transport, SocketUnavailable(t)
    PROVE  IndInv'
<1>1. PICK c \in ConnType : c = conn[t]
  BY AtTransport
<1>2. PICK h \in JoinType : h = join[t]
  BY AtTransport
<1>3. c.connecting /\ c.first /\ TransportInv(opts, client, t, c, h)
  BY <1>1, <1>2, AtTransport DEF SocketUnavailable
<1> DEFINE d == [c EXCEPT !.connecting = FALSE]
<1>4. /\ conn' = [conn EXCEPT ![t] = d] /\ UNCHANGED <<opts, client>>
      /\ join' = [join EXCEPT ![t] = Reject(h)]
  BY <1>1, <1>2 DEF SocketUnavailable
<1>5. d \in ConnType
  BY DEF ConnType
<1>6. /\ d.connecting = FALSE /\ d.closed = c.closed /\ d.exhausted = c.exhausted
      /\ d.first = c.first /\ d.sock = c.sock /\ d.connectTimer = c.connectTimer
      /\ d.reconnectTimer = c.reconnectTimer /\ d.refreshing = c.refreshing
      /\ d.joined = c.joined /\ d.received = c.received
  BY DEF ConnType
<1> HIDE DEF d
<1>7. Reject(h) \in JoinType /\ TransportInv(opts, client, t, c, Reject(h))
  BY <1>3, RejectFacts, RejectKeeps
<1>8. Reject(h).phase = "rejected" \/ c.closed
  BY <1>3, RejectFacts DEF TransportInv, JoinInv
<1>9. TransportInv(opts, client, t, d, Reject(h))
  BY <1>6, <1>7, <1>8 DEF TransportInv, ConnInv, JoinInv, OwnInv, Pending, Live, Terminal
<1> QED
  BY <1>4, <1>5, <1>7, <1>9, QuietStep

\* A step that changes the connection of t and may reject its handshake.
LEMMA RejectStep ==
    ASSUME IndInv, NEW t \in Transport, NEW d \in ConnType, NEW b \in BOOLEAN,
           UNCHANGED <<opts, client>>, conn' = [conn EXCEPT ![t] = d],
           join' = IF b THEN [join EXCEPT ![t] = Reject(join[t])] ELSE join,
           TransportInv(opts, client, t, d, join[t])
    PROVE  IndInv'
<1>1. PICK h \in JoinType : h = join[t]
  BY AtTransport
<1>2. Reject(h) \in JoinType /\ TransportInv(opts, client, t, d, Reject(h))
  BY <1>1, RejectFacts, RejectKeeps
<1>3. CASE b
  BY <1>1, <1>2, <1>3, QuietStep
<1>4. CASE ~ b
  BY <1>4, ConnStep
<1> QED
  BY <1>3, <1>4

\* A connection that does not open in time is given up.
LEMMA ConnectTimeoutStep ==
    ASSUME IndInv, NEW t \in Transport, ConnectTimeout(t)
    PROVE  IndInv'
<1>1. PICK c \in ConnType : c = conn[t]
  BY AtTransport
<1>2. PICK h \in JoinType : h = join[t]
  BY AtTransport
<1>3. c.connectTimer /\ TransportInv(opts, client, t, c, h)
  BY <1>1, <1>2, AtTransport DEF ConnectTimeout
<1>4. c.sock \in {"connecting", "aborting"}
  BY <1>3 DEF TransportInv, ConnInv
<1>5. Closing(c.sock) = "aborting"
  BY <1>4 DEF Closing
<1> DEFINE d == [c EXCEPT !.connectTimer = FALSE, !.settled = TRUE, !.exhausted = TRUE,
                          !.sock = "aborting"]
<1>6. /\ conn' = [conn EXCEPT ![t] = d] /\ UNCHANGED <<opts, client>>
      /\ join' = IF c.first THEN [join EXCEPT ![t] = Reject(join[t])] ELSE join
  BY <1>1, <1>5 DEF ConnectTimeout
<1>7. d \in ConnType /\ c.first \in BOOLEAN
  BY DEF ConnType, SockState
<1>8. /\ d.connecting = c.connecting /\ d.closed = c.closed /\ d.exhausted = TRUE
      /\ d.first = c.first /\ d.sock = "aborting" /\ d.connectTimer = FALSE
      /\ d.reconnectTimer = c.reconnectTimer /\ d.refreshing = c.refreshing
      /\ d.joined = c.joined /\ d.received = c.received
  BY DEF ConnType
<1> HIDE DEF d
<1>9. TransportInv(opts, client, t, d, h)
  BY <1>3, <1>4, <1>8 DEF TransportInv, ConnInv, JoinInv, OwnInv, Pending, Live, Terminal
<1> QED
  BY <1>2, <1>6, <1>7, <1>9, RejectStep

\* The socket opens and the queue is drained.
LEMMA OnOpenStep ==
    ASSUME IndInv, NEW t \in Transport, OnOpen(t)
    PROVE  IndInv'
<1>1. PICK c \in ConnType : c = conn[t]
  BY AtTransport
<1>2. PICK h \in JoinType : h = join[t]
  BY AtTransport
<1>3. c.sock = "connecting" /\ TransportInv(opts, client, t, c, h)
  BY <1>1, <1>2, AtTransport DEF OnOpen
<1> DEFINE d == [c EXCEPT !.sock = "open", !.connectTimer = FALSE, !.settled = TRUE,
                          !.attempt = 0]
<1>4. conn' = [conn EXCEPT ![t] = Flush(d)] /\ UNCHANGED <<opts, client, join>>
  BY <1>1 DEF OnOpen
<1>5. d \in ConnType
  BY Zeros DEF ConnType, SockState
<1>6. /\ d.connecting = c.connecting /\ d.closed = c.closed /\ d.exhausted = c.exhausted
      /\ d.first = c.first /\ d.sock = "open" /\ d.connectTimer = FALSE
      /\ d.reconnectTimer = c.reconnectTimer /\ d.refreshing = c.refreshing
      /\ d.joined = c.joined /\ d.received = c.received
  BY DEF ConnType
<1> HIDE DEF d
<1>7. TransportInv(opts, client, t, d, h)
  BY <1>3, <1>6 DEF TransportInv, ConnInv, JoinInv, OwnInv, Pending, Live, Terminal
<1>8. Flush(d) \in ConnType /\ TransportInv(opts, client, t, Flush(d), h)
  BY <1>5, <1>7, FlushFacts, SameKeeps
<1> QED
  BY <1>2, <1>4, <1>8, ConnStep

\* The server starts to close the socket.
LEMMA CloseFrameStep ==
    ASSUME IndInv, NEW t \in Transport, CloseFrame(t)
    PROVE  IndInv'
<1>1. PICK c \in ConnType : c = conn[t]
  BY AtTransport
<1>2. PICK h \in JoinType : h = join[t]
  BY AtTransport
<1>3. c.sock = "open" /\ TransportInv(opts, client, t, c, h)
  BY <1>1, <1>2, AtTransport DEF CloseFrame
<1> DEFINE d == [c EXCEPT !.sock = "closing"]
<1>4. conn' = [conn EXCEPT ![t] = d] /\ UNCHANGED <<opts, client, join>>
  BY <1>1 DEF CloseFrame
<1>5. d \in ConnType
  BY DEF ConnType, SockState
<1>6. /\ d.connecting = c.connecting /\ d.closed = c.closed /\ d.exhausted = c.exhausted
      /\ d.first = c.first /\ d.sock = "closing" /\ d.connectTimer = c.connectTimer
      /\ d.reconnectTimer = c.reconnectTimer /\ d.refreshing = c.refreshing
      /\ d.joined = c.joined /\ d.received = c.received
  BY DEF ConnType
<1> HIDE DEF d
<1>7. TransportInv(opts, client, t, d, h)
  BY <1>3, <1>6 DEF TransportInv, ConnInv, JoinInv, OwnInv, Pending, Live, Terminal
<1> QED
  BY <1>2, <1>4, <1>5, <1>7, ConnStep

\* The socket fails; its onclose is still to come.
LEMMA OnErrorStep ==
    ASSUME IndInv, NEW t \in Transport, OnError(t)
    PROVE  IndInv'
<1>1. PICK c \in ConnType : c = conn[t]
  BY AtTransport
<1>2. PICK h \in JoinType : h = join[t]
  BY AtTransport
<1>3. /\ c.sock \in {"connecting", "aborting", "open"} /\ h.phase # "resolved"
      /\ TransportInv(opts, client, t, c, h)
  BY <1>1, <1>2, AtTransport DEF OnError, Microtask
<1>4. PICK b \in BOOLEAN : b <=> c.first /\ ~ c.settled
  OBVIOUS
<1> DEFINE d == [c EXCEPT !.sock = "errored", !.connectTimer = FALSE, !.settled = TRUE]
<1>5. /\ conn' = [conn EXCEPT ![t] = d] /\ UNCHANGED <<opts, client>>
      /\ join' = IF b THEN [join EXCEPT ![t] = Reject(join[t])] ELSE join
  BY <1>1, <1>4 DEF OnError
<1>6. d \in ConnType
  BY DEF ConnType, SockState
<1>7. /\ d.connecting = c.connecting /\ d.closed = c.closed /\ d.exhausted = c.exhausted
      /\ d.first = c.first /\ d.sock = "errored" /\ d.connectTimer = FALSE
      /\ d.reconnectTimer = c.reconnectTimer /\ d.refreshing = c.refreshing
      /\ d.joined = c.joined /\ d.received = c.received
  BY DEF ConnType
<1> HIDE DEF d
<1>8. TransportInv(opts, client, t, d, h)
  BY <1>3, <1>7 DEF TransportInv, ConnInv, JoinInv, OwnInv, Pending, Live, Terminal
<1> QED
  BY <1>2, <1>5, <1>6, <1>8, RejectStep

\* initSocket() after a retry: the connection attempt takes over from what was pending.
LEMMA InitSocketFacts ==
    ASSUME NEW c \in ConnType, ~ c.connecting
    PROVE  /\ InitSocket(c, FALSE) \in ConnType
           /\ InitSocket(c, FALSE).connecting = TRUE /\ InitSocket(c, FALSE).first = FALSE
           /\ InitSocket(c, FALSE).closed = c.closed
           /\ InitSocket(c, FALSE).exhausted = c.exhausted
           /\ InitSocket(c, FALSE).sock = c.sock
           /\ InitSocket(c, FALSE).connectTimer = c.connectTimer
           /\ InitSocket(c, FALSE).reconnectTimer = c.reconnectTimer
           /\ InitSocket(c, FALSE).refreshing = c.refreshing
           /\ InitSocket(c, FALSE).joined = c.joined
           /\ InitSocket(c, FALSE).received = c.received
BY DEF InitSocket, ConnType

\* The retry timer fires: the token is refreshed or the next socket is made.
LEMMA ReconnectTimerStep ==
    ASSUME IndInv, NEW t \in Transport, ReconnectTimer(t)
    PROVE  IndInv'
<1>1. PICK c \in ConnType : c = conn[t]
  BY AtTransport
<1>2. PICK h \in JoinType : h = join[t]
  BY AtTransport
<1>3. c.reconnectTimer /\ TransportInv(opts, client, t, c, h) /\ ~ c.connecting
  BY <1>1, <1>2, AtTransport DEF ReconnectTimer, TransportInv, ConnInv
<1> DEFINE e == [c EXCEPT !.reconnectTimer = FALSE]
           r == [c EXCEPT !.reconnectTimer = FALSE, !.refreshing = TRUE]
<1>4. e \in ConnType /\ r \in ConnType
  BY DEF ConnType
<1>5. /\ e.connecting = c.connecting /\ e.closed = c.closed /\ e.exhausted = c.exhausted
      /\ e.first = c.first /\ e.sock = c.sock /\ e.connectTimer = c.connectTimer
      /\ e.reconnectTimer = FALSE /\ e.refreshing = c.refreshing
      /\ e.joined = c.joined /\ e.received = c.received
  BY DEF ConnType
<1>6. /\ r.connecting = c.connecting /\ r.closed = c.closed /\ r.exhausted = c.exhausted
      /\ r.first = c.first /\ r.sock = c.sock /\ r.connectTimer = c.connectTimer
      /\ r.reconnectTimer = FALSE /\ r.refreshing = TRUE
      /\ r.joined = c.joined /\ r.received = c.received
  BY DEF ConnType
<1>7. /\ conn' = [conn EXCEPT ![t] = IF Terminal(c) THEN e
                                     ELSE IF "tokenRefresh" \in opts THEN r
                                     ELSE InitSocket(e, FALSE)]
      /\ UNCHANGED <<opts, client, join>>
  BY <1>1, <1>3 DEF ReconnectTimer
<1> HIDE DEF e, r
<1>8. CASE Terminal(c)
  <2>1. TransportInv(opts, client, t, e, h)
    BY <1>3, <1>5, <1>8 DEF TransportInv, ConnInv, JoinInv, OwnInv, Pending, Live, Terminal
  <2> QED
    BY <1>2, <1>4, <1>7, <1>8, <2>1, ConnStep
<1>9. CASE ~ Terminal(c) /\ "tokenRefresh" \in opts
  <2>1. TransportInv(opts, client, t, r, h)
    BY <1>3, <1>6, <1>9 DEF TransportInv, ConnInv, JoinInv, OwnInv, Pending, Live, Terminal
  <2> QED
    BY <1>2, <1>4, <1>7, <1>9, <2>1, ConnStep
<1>10. CASE ~ Terminal(c) /\ "tokenRefresh" \notin opts
  <2>1. PICK d \in ConnType : d = InitSocket(e, FALSE)
    BY <1>3, <1>4, <1>5, InitSocketFacts
  <2>2. /\ d.connecting = TRUE /\ d.closed = c.closed /\ d.exhausted = c.exhausted
        /\ d.first = FALSE /\ d.sock = c.sock /\ d.connectTimer = c.connectTimer
        /\ d.reconnectTimer = FALSE /\ d.refreshing = c.refreshing
        /\ d.joined = c.joined /\ d.received = c.received
    BY <1>3, <1>4, <1>5, <2>1, InitSocketFacts
  <2>3. TransportInv(opts, client, t, d, h)
    BY <1>3, <1>10, <2>2
    DEF TransportInv, ConnInv, JoinInv, OwnInv, Pending, Live, Terminal
  <2> QED
    BY <1>2, <1>7, <1>10, <2>1, <2>3, ConnStep
<1> QED
  BY <1>8, <1>9, <1>10

\* The token has been refreshed: the next socket is made.
LEMMA TokenRefreshedStep ==
    ASSUME IndInv, NEW t \in Transport, TokenRefreshed(t)
    PROVE  IndInv'
<1>1. PICK c \in ConnType : c = conn[t]
  BY AtTransport
<1>2. PICK h \in JoinType : h = join[t]
  BY AtTransport
<1>3. c.refreshing /\ TransportInv(opts, client, t, c, h) /\ ~ c.connecting
  BY <1>1, <1>2, AtTransport DEF TokenRefreshed, TransportInv, ConnInv
<1> DEFINE e == [c EXCEPT !.refreshing = FALSE]
<1>4. e \in ConnType
  BY DEF ConnType
<1>5. /\ e.connecting = c.connecting /\ e.closed = c.closed /\ e.exhausted = c.exhausted
      /\ e.first = c.first /\ e.sock = c.sock /\ e.connectTimer = c.connectTimer
      /\ e.reconnectTimer = c.reconnectTimer /\ e.refreshing = FALSE
      /\ e.joined = c.joined /\ e.received = c.received
  BY DEF ConnType
<1>6. conn' = [conn EXCEPT ![t] = InitSocket(e, FALSE)] /\ UNCHANGED <<opts, client, join>>
  BY <1>1 DEF TokenRefreshed
<1> HIDE DEF e
<1>7. PICK d \in ConnType : d = InitSocket(e, FALSE)
  BY <1>3, <1>4, <1>5, InitSocketFacts
<1>8. /\ d.connecting = TRUE /\ d.closed = c.closed /\ d.exhausted = c.exhausted
      /\ d.first = FALSE /\ d.sock = c.sock /\ d.connectTimer = c.connectTimer
      /\ d.reconnectTimer = c.reconnectTimer /\ d.refreshing = FALSE
      /\ d.joined = c.joined /\ d.received = c.received
  BY <1>3, <1>4, <1>5, <1>7, InitSocketFacts
<1>9. TransportInv(opts, client, t, d, h)
  BY <1>3, <1>8 DEF TransportInv, ConnInv, JoinInv, OwnInv, Pending, Live, Terminal
<1> QED
  BY <1>2, <1>6, <1>7, <1>9, ConnStep

\* send() leaves the control state alone as well.
LEMMA SendFacts ==
    ASSUME NEW c \in ConnType, NEW f \in 1..MaxOut
    PROVE  Send(c, f) \in ConnType /\ Same(c, Send(c, f))
<1>1. \A q \in OutSeq : Append(q, f) \in OutSeq
  BY AppendProperties DEF OutSeq
<1>2. \A R \in OutSet : R \cup {f} \in OutSet
  BY DEF OutSet
<1>3. ASSUME NEW d \in ConnType
      PROVE  /\ [d EXCEPT !.wire = Append(d.wire, f)] \in ConnType
             /\ Same(d, [d EXCEPT !.wire = Append(d.wire, f)])
             /\ [d EXCEPT !.queue = Append(d.queue, f)] \in ConnType
             /\ Same(d, [d EXCEPT !.queue = Append(d.queue, f)])
             /\ [d EXCEPT !.reported = d.reported \cup {f}] \in ConnType
             /\ Same(d, [d EXCEPT !.reported = d.reported \cup {f}])
  <2>1. /\ d.wire \in OutSeq /\ d.queue \in OutSeq /\ d.reported \in OutSet
    BY DEF ConnType
  <2>2. PICK w \in OutSeq : w = Append(d.wire, f)
    BY <1>1, <2>1
  <2>3. PICK q \in OutSeq : q = Append(d.queue, f)
    BY <1>1, <2>1
  <2>4. PICK r \in OutSet : r = d.reported \cup {f}
    BY <1>2, <2>1
  <2>5. /\ [d EXCEPT !.wire = w] \in ConnType /\ Same(d, [d EXCEPT !.wire = w])
        /\ [d EXCEPT !.queue = q] \in ConnType /\ Same(d, [d EXCEPT !.queue = q])
        /\ [d EXCEPT !.reported = r] \in ConnType /\ Same(d, [d EXCEPT !.reported = r])
    BY DEF ConnType, Same
  <2> QED
    BY <2>2, <2>3, <2>4, <2>5
<1>4. CASE c.sock = "open"
  <2>1. PICK d \in ConnType : d = Flush(c) /\ Same(c, d)
    BY FlushFacts
  <2>2. Send(c, f) = IF f \in c.bad THEN [d EXCEPT !.reported = d.reported \cup {f}]
                     ELSE [d EXCEPT !.wire = Append(d.wire, f)]
    BY <1>4, <2>1 DEF Send
  <2>3. Send(c, f) \in ConnType /\ Same(d, Send(c, f))
    BY <1>3, <2>2
  <2> QED
    BY <2>1, <2>3 DEF Same
<1>5. CASE c.sock # "open"
  <2>1. Send(c, f) = IF Len(c.queue) < QueueSize
                     THEN [c EXCEPT !.queue = Append(c.queue, f)]
                     ELSE [c EXCEPT !.reported = c.reported \cup {f}]
    BY <1>5 DEF Send, Enqueue
  <2> QED
    BY <1>3, <2>1
<1> QED
  BY <1>4, <1>5

\* The application sends a frame.
LEMMA RoomSendStep ==
    ASSUME IndInv, NEW t \in Transport, NEW b \in BOOLEAN, RoomSend(t, b)
    PROVE  IndInv'
<1>1. PICK c \in ConnType : c = conn[t]
  BY AtTransport
<1>2. c.sent \in OutCount /\ c.bad \in OutSet
  BY DEF ConnType
<1>3. PICK f \in 1..MaxOut : f = c.sent + 1
  BY <1>1, <1>2, BoundAssumption DEF RoomSend, OutCount
<1>4. f \in OutCount
  BY BoundAssumption DEF OutCount
<1>5. PICK B \in OutSet : B = IF b THEN c.bad ELSE c.bad \cup {f}
  BY <1>2, <1>3 DEF OutSet
<1> DEFINE d == [c EXCEPT !.sent = f, !.bad = B]
<1>6. conn' = [conn EXCEPT ![t] = Send(d, f)] /\ UNCHANGED <<opts, client, join>>
  BY <1>1, <1>3, <1>5 DEF RoomSend
<1>7. d \in ConnType /\ Same(c, d)
  BY <1>4, <1>5 DEF ConnType, Same
<1> HIDE DEF d
<1>8. Send(d, f) \in ConnType /\ Same(d, Send(d, f))
  BY <1>7, SendFacts
<1>9. TransportInv(opts, client, t, Send(d, f), join[t])
  BY <1>1, <1>7, <1>8, AtTransport, SameKeeps
<1> QED
  BY <1>6, <1>8, <1>9, ConnStep

-----------------------------------------------------------------------------
(* The steps that let go of a transport *)

\* leave() and Terminated leave a client that refers to nothing.
LEMMA ResetFacts ==
    ASSUME NEW k \in ClientType
    PROVE  /\ Reset(k) \in ClientType /\ ClientInv(Reset(k))
           /\ Reset(k).transport = Null /\ Reset(k).room = Null
<1>1. PICK l \in ClientType : l = SetState(k, "disconnected")
  BY SetStateFacts DEF States
<1>2. k.state \in States
  BY DEF ClientType
<1>3. l.state = "disconnected"
  BY <1>1, <1>2, SetStateFacts, LegalFacts DEF States
<1>4. Reset(k) = [l EXCEPT !.wired = {}, !.steady = {}, !.handshake = Null, !.room = Null,
                           !.transport = Null, !.view = << >>]
  BY <1>1 DEF Reset, Unwired
<1>5. /\ Reset(k) \in ClientType /\ Reset(k).state = "disconnected"
      /\ Reset(k).transport = Null /\ Reset(k).room = Null
      /\ Reset(k).wired = {} /\ Reset(k).steady = {}
  BY <1>3, <1>4, Zeros DEF ClientType
<1> QED
  BY <1>5 DEF ClientInv

\* cancel() rejects at most the handshake that the client refers to.
LEMMA CancelFacts ==
    ASSUME IndInv, NEW k
    PROVE  /\ Cancel(join, k) \in [Transport -> JoinType]
           /\ \A s \in Transport : Cancel(join, k)[s] \in {join[s], Reject(join[s])}
<1>1. \A s \in Transport : join[s] \in JoinType /\ Reject(join[s]) \in JoinType
  BY RejectFacts DEF IndInv, Typing
<1> QED
  BY <1>1 DEF Cancel

\* The client lets go of t, whose connection is terminal.
LEMMA ResetStep ==
    ASSUME IndInv, NEW t \in Transport, NEW d \in ConnType, NEW k \in ClientType,
           NEW b \in BOOLEAN, client.transport = t,
           opts' = opts, client' = Reset(k), conn' = [conn EXCEPT ![t] = d],
           join' = IF b THEN [Cancel(join, k) EXCEPT ![t] = Reject(Cancel(join, k)[t])]
                   ELSE Cancel(join, k),
           ConnInv(d), JoinInv(opts, d, join[t]), Terminal(d)
    PROVE  IndInv'
<1>1. PICK l \in ClientType : l = Reset(k)
  BY ResetFacts
<1>2. l.transport = Null /\ l.room = Null /\ ClientInv(l)
  BY <1>1, ResetFacts
<1>3. PICK J \in [Transport -> JoinType] : J = Cancel(join, k)
  BY CancelFacts
<1>4. \A s \in Transport : J[s] \in {join[s], Reject(join[s])}
  BY <1>3, CancelFacts
<1>5. PICK h \in JoinType : h = join[t]
  BY AtTransport
<1>6. TransportInv(opts, l, t, d, h)
  BY <1>2, <1>5, TransportAssumption DEF TransportInv
<1>7. J[t] \in JoinType /\ TransportInv(opts, l, t, d, J[t])
  BY <1>4, <1>5, <1>6, RejectKeeps
<1>8. Reject(J[t]) \in JoinType /\ TransportInv(opts, l, t, d, Reject(J[t]))
  BY <1>7, RejectFacts, RejectKeeps
<1>9. /\ join' \in [Transport -> JoinType] /\ join'[t] \in {J[t], Reject(J[t])}
      /\ \A s \in Transport \ {t} : join'[s] = join[s] \/ join'[s] = Reject(join[s])
  BY <1>3, <1>4, <1>8
<1>10. TransportInv(opts, l, t, d, join'[t])
  BY <1>7, <1>8, <1>9
<1>11. client.room \in {t, Null}
  BY DEF IndInv, ClientInv
<1> QED
  BY <1>1, <1>2, <1>9, <1>10, <1>11, TransportStep

\* The application leaves.
LEMMA LeaveStep ==
    ASSUME IndInv, Leave
    PROVE  IndInv'
<1>1. PICK t \in Transport : t = client.transport
  BY DEF IndInv, Typing, ClientType, Leave
<1>2. PICK c \in ConnType : c = conn[t]
  BY AtTransport
<1>3. ConnInv(c) /\ JoinInv(opts, c, join[t])
  BY <1>2, AtTransport DEF TransportInv
<1>4. TransportInv(opts, Reset(client), t, Close(c), join[t]) /\ Terminal(Close(c))
  BY <1>3, CloseKeeps, CloseFacts, ResetFacts, AtTransport, TransportAssumption DEF Terminal
<1>5. conn' = [conn EXCEPT ![t] = Close(c)]
  BY <1>1, <1>2 DEF Leave, LeaveWith, IndInv, Typing
<1>6. opts' = opts /\ client' = Reset(client) /\ join' = Cancel(join, client)
  BY DEF Leave, LeaveWith
<1>7. Close(c) \in ConnType /\ ConnInv(Close(c)) /\ JoinInv(opts, Close(c), join[t])
  BY <1>4, CloseFacts DEF TransportInv
<1> QED
  BY <1>1, <1>4, <1>5, <1>6, <1>7, AtTransport, ResetStep

-----------------------------------------------------------------------------
(* joinRoom() *)

\* joinRoom() up to its await.
LEMMA JoinRoomStep ==
    ASSUME IndInv, NEW t \in Transport, JoinRoom(t)
    PROVE  IndInv'
<1>0. PICK b \in BOOLEAN : b <=> "joinTimeout" \in opts
  OBVIOUS
<1> DEFINE d == [NewConn EXCEPT !.connecting = TRUE, !.first = TRUE]
           h == [phase |-> "waiting", listening |-> TRUE, timer |-> b, buffer |-> << >>]
<1>1. conn' = [conn EXCEPT ![t] = d] /\ join' = [join EXCEPT ![t] = h] /\ opts' = opts
  BY <1>0 DEF JoinRoom, InitSocket, NewConn, NewHandshake
<1>2. /\ d \in ConnType /\ d.connecting = TRUE /\ d.closed = FALSE /\ d.exhausted = FALSE
      /\ d.sock = "none" /\ d.connectTimer = FALSE /\ d.reconnectTimer = FALSE
      /\ d.refreshing = FALSE /\ d.joined = FALSE /\ d.received = 0
  BY Zeros DEF ConnType, NewConn, SockState
<1>3. /\ h \in JoinType /\ h.phase = "waiting" /\ h.listening = TRUE /\ h.buffer = << >>
  BY Zeros DEF JoinType, Phases
<1> HIDE DEF d, h
<1>4. /\ client \in ClientType /\ client.transport = Null /\ client.room = Null
      /\ client.wired = {} /\ client.steady = {} /\ client.state = "disconnected"
  BY AtTransport DEF JoinRoom, ClientInv
<1>5. PICK l \in ClientType : l = SetState(client, "connecting")
  BY <1>4, SetStateFacts DEF States
<1>6. /\ l.state = "connecting" /\ l.room = Null /\ l.steady = {} /\ l.wired = {}
  BY <1>4, <1>5, SetStateFacts, LegalFacts DEF States
<1> DEFINE k == [l EXCEPT !.transport = t, !.handshake = t, !.wired = {t}]
<1>7. client' = k
  BY <1>5, <1>6 DEF JoinRoom
<1>8. /\ k \in ClientType /\ k.transport = t /\ k.room = Null /\ k.state = "connecting"
      /\ k.wired = {t} /\ k.steady = {}
  BY <1>6 DEF ClientType
<1> HIDE DEF k
<1>9. ClientInv(k)
  BY <1>8, TransportAssumption DEF ClientInv
<1>10. TransportInv(opts, k, t, d, h)
  BY <1>2, <1>3, <1>8, TransportAssumption
  DEF TransportInv, ConnInv, JoinInv, OwnInv, Pending, Live, Terminal
<1>11. /\ join' \in [Transport -> JoinType] /\ join'[t] = h
       /\ \A s \in Transport \ {t} : join'[s] = join[s]
  BY <1>1, <1>3 DEF IndInv, Typing
<1> QED
  BY <1>1, <1>2, <1>4, <1>7, <1>8, <1>9, <1>10, <1>11, TransportStep

\* What JoinSucceeds and JoinFails leave of a handshake.
LEMMA DoneFacts ==
    /\ [NewJoin EXCEPT !.phase = "done"] \in JoinType
    /\ [NewJoin EXCEPT !.phase = "done"].phase = "done"
BY Zeros DEF NewJoin, JoinType, Phases

\* A handshake that is done asks nothing of its transport but to be terminal.
LEMMA DoneClosed ==
    ASSUME NEW t, NEW c \in ConnType, NEW h, NEW g, NEW l, l.transport # t,
           ConnInv(c), JoinInv(opts, c, h), g.phase = "done"
    PROVE  TransportInv(opts, l, t, Close(c), g)
<1>1. TransportInv(opts, l, t, Close(c), h) /\ Terminal(Close(c)) /\ Close(c).closed
  BY CloseKeeps, CloseFacts DEF Terminal
<1> QED
  BY <1>1 DEF TransportInv, JoinInv

\* joinRoom() after its handshake has resolved.
LEMMA JoinSucceedsStep ==
    ASSUME IndInv, NEW t \in Transport, JoinSucceeds(t)
    PROVE  IndInv'
<1>1. PICK c \in ConnType : c = conn[t]
  BY AtTransport
<1>2. PICK h \in JoinType : h = join[t]
  BY AtTransport
<1>3. h.phase = "resolved" /\ TransportInv(opts, client, t, c, h) /\ h.buffer \in InSeq
  BY <1>1, <1>2, AtTransport DEF JoinSucceeds, JoinType
<1>4. PICK g \in JoinType : g = [NewJoin EXCEPT !.phase = "done"] /\ g.phase = "done"
  BY DoneFacts
<1>5. /\ join' \in [Transport -> JoinType] /\ join'[t] = g
      /\ \A s \in Transport \ {t} : join'[s] = join[s]
  BY <1>4 DEF JoinSucceeds, IndInv, Typing
<1>6. client \in ClientType /\ ClientInv(client)
  BY AtTransport
<1>7. CASE client.transport # t
  <2> DEFINE k == [client EXCEPT !.handshake = Null]
  <2>1. client' = k /\ conn' = [conn EXCEPT ![t] = Close(c)] /\ opts' = opts
    BY <1>1, <1>7 DEF JoinSucceeds, Overtaken
  <2>2. /\ k \in ClientType /\ k.transport = client.transport /\ k.room = client.room
        /\ k.state = client.state /\ k.view = client.view
        /\ k.wired = client.wired /\ k.steady = client.steady
    BY <1>6 DEF ClientType
  <2> HIDE DEF k
  <2>3. ClientInv(k)
    BY <1>6, <2>2 DEF ClientInv
  <2>4. TransportInv(opts, k, t, Close(c), g)
    BY <1>3, <1>4, <1>7, <2>2, DoneClosed DEF TransportInv
  <2> QED
    BY <1>5, <2>1, <2>2, <2>3, <2>4, CloseFacts, TransportStep
<1>8. CASE client.transport = t
  <2>1. client.room = Null /\ client.steady = {}
    BY <1>3, <1>6, <1>8 DEF TransportInv, OwnInv, ClientInv
  <2>2. client.state \in {"connecting", "reconnecting"}
    BY <1>3, <1>6, <1>8, <2>1
    DEF TransportInv, JoinInv, OwnInv, Pending, Live, ClientInv, ClientType, States
  <2>3. PICK l \in ClientType : l = SetState(client, "connected")
    BY <1>6, SetStateFacts DEF States
  <2>4. /\ l.state = "connected" /\ l.transport = t /\ l.steady = {}
        /\ l.wired = client.wired
    BY <1>6, <1>8, <2>1, <2>2, <2>3, SetStateFacts, LegalFacts DEF States
  <2> DEFINE k == [l EXCEPT !.room = t, !.handshake = Null, !.steady = {t},
                            !.view = h.buffer]
  <2>5. client' = k /\ conn' = [conn EXCEPT ![t] = Flush(c)] /\ opts' = opts
    BY <1>1, <1>2, <1>8, <2>3, <2>4 DEF JoinSucceeds, Overtaken, Drained
  <2>6. /\ k \in ClientType /\ k.transport = t /\ k.room = t /\ k.state = "connected"
        /\ k.view = h.buffer /\ k.wired = client.wired /\ k.steady = {t}
    BY <1>3, <2>4 DEF ClientType
  <2> HIDE DEF k
  <2>7. ClientInv(k)
    BY <1>6, <1>8, <2>6, TransportAssumption DEF ClientInv
  <2>8. TransportInv(opts, k, t, c, g)
    BY <1>3, <1>4, <1>8, <2>6
    DEF TransportInv, ConnInv, JoinInv, OwnInv, Pending, Live, Terminal
  <2>9. Flush(c) \in ConnType /\ TransportInv(opts, k, t, Flush(c), g)
    BY <2>8, FlushFacts, SameKeeps
  <2> QED
    BY <1>5, <1>8, <2>1, <2>5, <2>6, <2>7, <2>9, TransportStep
<1> QED
  BY <1>7, <1>8

\* The catch of joinRoom().
LEMMA JoinFailsStep ==
    ASSUME IndInv, NEW t \in Transport, JoinFails(t)
    PROVE  IndInv'
<1>1. PICK c \in ConnType : c = conn[t]
  BY AtTransport
<1>2. PICK h \in JoinType : h = join[t]
  BY AtTransport
<1>3. h.phase = "rejected" /\ TransportInv(opts, client, t, c, h)
  BY <1>1, <1>2, AtTransport DEF JoinFails
<1>4. PICK g \in JoinType : g = [NewJoin EXCEPT !.phase = "done"] /\ g.phase = "done"
  BY DoneFacts
<1>5. /\ join' \in [Transport -> JoinType] /\ join'[t] = g
      /\ \A s \in Transport \ {t} : join'[s] = join[s]
  BY <1>4 DEF JoinFails, IndInv, Typing
<1>6. client \in ClientType /\ ClientInv(client)
  BY AtTransport
<1>7. conn' = [conn EXCEPT ![t] = Close(c)] /\ opts' = opts /\ Close(c) \in ConnType
  BY <1>1, CloseFacts DEF JoinFails
<1>8. CASE client.transport # t
  <2>1. client' = client
    BY <1>8 DEF JoinFails, Overtaken
  <2>2. TransportInv(opts, client, t, Close(c), g)
    BY <1>3, <1>4, <1>8, DoneClosed DEF TransportInv
  <2> QED
    BY <1>5, <1>6, <1>7, <2>1, <2>2, TransportStep
<1>9. CASE client.transport = t
  <2>1. client.room = Null /\ client.steady = {}
    BY <1>3, <1>6, <1>9 DEF TransportInv, OwnInv, ClientInv
  <2>2. PICK l \in ClientType : l = SetState(client, "disconnected")
    BY <1>6, SetStateFacts DEF States
  <2>3. client.state \in States
    BY <1>6 DEF ClientType
  <2>4. l.state = "disconnected" /\ l.room = Null
    BY <1>6, <2>1, <2>2, <2>3, SetStateFacts, LegalFacts DEF States
  <2> DEFINE k == [l EXCEPT !.wired = {}, !.steady = {}, !.handshake = Null,
                            !.transport = Null]
  <2>5. client' = k
    BY <1>9, <2>2 DEF JoinFails, Overtaken, Unwired
  <2>6. /\ k \in ClientType /\ k.transport = Null /\ k.room = Null
        /\ k.state = "disconnected" /\ k.wired = {} /\ k.steady = {}
    BY <2>4 DEF ClientType
  <2> HIDE DEF k
  <2>7. ClientInv(k)
    BY <2>6 DEF ClientInv
  <2>8. TransportInv(opts, k, t, Close(c), g)
    BY <1>3, <1>4, <2>6, TransportAssumption, DoneClosed DEF TransportInv
  <2> QED
    BY <1>5, <1>7, <1>9, <2>1, <2>5, <2>6, <2>7, <2>8, TransportStep
<1> QED
  BY <1>8, <1>9

-----------------------------------------------------------------------------
(* Frames *)

\* The frames 1 to n in order.
LEMMA UpToFacts ==
    /\ UpTo(0) = << >>
    /\ \A n \in Nat : Append(UpTo(n), n + 1) = UpTo(n + 1)
<1>1. UpTo(0) = << >>
  BY DEF UpTo
<1>2. ASSUME NEW n \in Nat PROVE Append(UpTo(n), n + 1) = UpTo(n + 1)
  <2>1. UpTo(n) \in Seq(Nat) /\ Len(UpTo(n)) = n
    BY DEF UpTo
  <2>2. Append(UpTo(n), n + 1) = [i \in 1..(n + 1) |-> IF i <= n THEN UpTo(n)[i] ELSE n + 1]
    BY <2>1
  <2>3. \A i \in 1..(n + 1) : (IF i <= n THEN UpTo(n)[i] ELSE n + 1) = i
    BY DEF UpTo
  <2> QED
    BY <2>2, <2>3 DEF UpTo
<1> QED
  BY <1>1, <1>2

\* room-joined settles a waiting join and refreshes a room.
LEMMA OnRoomJoinedStep ==
    ASSUME IndInv, NEW t \in Transport, OnRoomJoined(t)
    PROVE  IndInv'
<1>1. PICK c \in ConnType : c = conn[t]
  BY AtTransport
<1>2. PICK h \in JoinType : h = join[t]
  BY AtTransport
<1>3. /\ TransportInv(opts, client, t, c, h) /\ c.sock \in {"open", "closing"} /\ ~ c.joined
      /\ h.phase # "rejected" /\ h.phase # "resolved"
  BY <1>1, <1>2, AtTransport DEF OnRoomJoined, Readable, Microtask, TransportInv, JoinInv
<1>4. client \in ClientType /\ ClientInv(client)
  BY AtTransport
<1> DEFINE d == [c EXCEPT !.joined = TRUE]
           g == IF h.phase = "waiting" THEN [h EXCEPT !.phase = "resolved", !.timer = FALSE]
                ELSE h
<1>5. d \in ConnType
  BY DEF ConnType
<1>6. /\ d.connecting = c.connecting /\ d.closed = c.closed /\ d.exhausted = c.exhausted
      /\ d.first = c.first /\ d.sock = c.sock /\ d.connectTimer = c.connectTimer
      /\ d.reconnectTimer = c.reconnectTimer /\ d.refreshing = c.refreshing
      /\ d.joined = TRUE /\ d.received = 0
  BY <1>3 DEF ConnType, TransportInv, ConnInv
<1>7. /\ g \in JoinType /\ g.listening = h.listening /\ g.buffer = h.buffer
      /\ g.phase = IF h.phase = "waiting" THEN "resolved" ELSE h.phase
  BY DEF JoinType, Phases
<1>8. join' = [join EXCEPT ![t] = g] /\ opts' = opts
  BY <1>2 DEF OnRoomJoined
<1>9. /\ join' \in [Transport -> JoinType] /\ join'[t] = g
      /\ \A s \in Transport \ {t} : join'[s] = join[s]
  BY <1>7, <1>8 DEF IndInv, Typing
<1>10. PICK l \in ClientType : l = SetState(client, "connected")
  BY <1>4, SetStateFacts DEF States
<1>11. CASE client.room = t
  <2>1. client.transport = t /\ h.phase = "done"
    BY <1>3, <1>4, <1>11, TransportAssumption DEF ClientInv, TransportInv, OwnInv
  <2>2. client.state = "reconnecting"
    BY <1>3, <1>4, <1>11, <2>1, TransportAssumption
    DEF TransportInv, OwnInv, Pending, Live, ClientInv, ClientType, States
  <2>3. /\ l.state = "connected" /\ l.transport = t /\ l.room = t
        /\ l.wired = client.wired /\ l.steady = client.steady
    BY <1>4, <1>10, <1>11, <2>1, <2>2, SetStateFacts, LegalFacts DEF States
  <2> DEFINE k == [l EXCEPT !.view = << >>]
  <2>4. client' = k /\ conn' = [conn EXCEPT ![t] = Flush(d)]
    BY <1>1, <1>10, <1>11, <2>3, AtTransport DEF OnRoomJoined
  <2>5. /\ k \in ClientType /\ k.state = "connected" /\ k.transport = t /\ k.room = t
        /\ k.wired = client.wired /\ k.steady = client.steady /\ k.view = << >>
    BY <2>3, Zeros DEF ClientType
  <2> HIDE DEF k, d, g
  <2>6. ClientInv(k)
    BY <1>4, <1>11, <2>1, <2>5, TransportAssumption DEF ClientInv
  <2>7. TransportInv(opts, k, t, d, g)
    BY <1>3, <1>6, <1>7, <2>1, <2>5, UpToFacts
    DEF TransportInv, ConnInv, JoinInv, OwnInv, Pending, Live, Terminal
  <2>8. Flush(d) \in ConnType /\ TransportInv(opts, k, t, Flush(d), g)
    BY <1>5, <2>7, FlushFacts, SameKeeps
  <2> QED
    BY <1>8, <1>9, <1>11, <2>1, <2>4, <2>5, <2>6, <2>8, TransportStep
<1>12. CASE client.room # t
  <2>1. client' = client /\ conn' = [conn EXCEPT ![t] = d]
    BY <1>1, <1>12, AtTransport DEF OnRoomJoined
  <2> HIDE DEF d, g
  <2>2. TransportInv(opts, client, t, d, g)
    BY <1>3, <1>6, <1>7, <1>12, UpToFacts
    DEF TransportInv, ConnInv, JoinInv, OwnInv, Pending, Live, Terminal
  <2> QED
    BY <1>4, <1>5, <1>8, <1>9, <2>1, <2>2, TransportStep
<1> QED
  BY <1>11, <1>12

\* Any other frame is buffered by the handshake or applied by the room.
LEMMA OnFrameStep ==
    ASSUME IndInv, NEW t \in Transport, OnFrame(t)
    PROVE  IndInv'
<1>1. PICK c \in ConnType : c = conn[t]
  BY AtTransport
<1>2. PICK h \in JoinType : h = join[t]
  BY AtTransport
<1>3. /\ TransportInv(opts, client, t, c, h) /\ c.sock \in {"open", "closing"} /\ c.joined
      /\ c.received < MaxIn
  BY <1>1, <1>2, AtTransport DEF OnFrame, Readable
<1>4. client \in ClientType /\ ClientInv(client) /\ client.view \in InSeq /\ h.buffer \in InSeq
  BY AtTransport DEF ClientType, JoinType
<1>5. c.received \in Nat /\ c.received \in InCount
  BY BoundAssumption DEF ConnType, InCount
<1>6. PICK f \in 1..MaxIn : f = c.received + 1
  BY <1>3, <1>5, BoundAssumption
<1>7. f \in InCount /\ Append(UpTo(c.received), f) = UpTo(f)
  <2>1. f \in InCount
    BY BoundAssumption DEF InCount
  <2>2. \A n \in Nat : Append(UpTo(n), n + 1) = UpTo(n + 1)
    BY UpToFacts
  <2> QED
    BY <1>5, <1>6, <2>1, <2>2
<1>8. PICK B \in InSeq : B = Append(h.buffer, f)
  BY <1>4, AppendProperties DEF InSeq
<1>9. PICK V \in InSeq : V = Append(client.view, f)
  BY <1>4, AppendProperties DEF InSeq
<1> DEFINE d == [c EXCEPT !.received = f]
           g == IF h.listening /\ h.phase = "resolved" THEN [h EXCEPT !.buffer = B] ELSE h
           k == IF client.room = t THEN [client EXCEPT !.view = V] ELSE client
<1>10. /\ d \in ConnType
       /\ d.connecting = c.connecting /\ d.closed = c.closed /\ d.exhausted = c.exhausted
       /\ d.first = c.first /\ d.sock = c.sock /\ d.connectTimer = c.connectTimer
       /\ d.reconnectTimer = c.reconnectTimer /\ d.refreshing = c.refreshing
       /\ d.joined = c.joined /\ d.received = f
  BY <1>7 DEF ConnType
<1>11. /\ g \in JoinType /\ g.listening = h.listening /\ g.phase = h.phase
       /\ g.buffer = IF h.listening /\ h.phase = "resolved" THEN B ELSE h.buffer
  BY DEF JoinType
<1>12. /\ k \in ClientType /\ k.state = client.state /\ k.transport = client.transport
       /\ k.room = client.room /\ k.wired = client.wired /\ k.steady = client.steady
       /\ k.view = IF client.room = t THEN V ELSE client.view
  BY <1>4 DEF ClientType
<1>13. /\ conn' = [conn EXCEPT ![t] = d] /\ join' = [join EXCEPT ![t] = g] /\ client' = k
       /\ opts' = opts
  <2>1. conn' = [conn EXCEPT ![t] = d] /\ opts' = opts
    BY <1>1, <1>6 DEF OnFrame
  <2>2. join' = [join EXCEPT ![t] = g]
    BY <1>1, <1>2, <1>6, <1>8 DEF OnFrame
  <2>3. client' = k
    BY <1>1, <1>6, <1>9, AtTransport DEF OnFrame
  <2> QED
    BY <2>1, <2>2, <2>3
<1> HIDE DEF d, g, k
<1>14. ClientInv(k)
  BY <1>4, <1>12 DEF ClientInv
<1>15. TransportInv(opts, k, t, d, g)
  <2>1. h.phase = "resolved" => g.buffer = UpTo(f)
    BY <1>3, <1>7, <1>8, <1>11 DEF TransportInv, JoinInv
  <2>2. client.transport = t /\ client.room = t =>
           k.state = "connected" /\ k.view = UpTo(f)
    BY <1>3, <1>7, <1>9, <1>12 DEF TransportInv, OwnInv
  <2>3. ConnInv(d)
    BY <1>3, <1>10 DEF TransportInv, ConnInv, Live, Terminal
  <2>4. JoinInv(opts, d, g)
    BY <1>3, <1>10, <1>11, <2>1 DEF TransportInv, JoinInv
  <2>5. k.transport = t => OwnInv(opts, k, t, d, g)
    BY <1>3, <1>10, <1>11, <1>12, <2>2 DEF TransportInv, OwnInv, Pending, Live
  <2>6. k.transport # t => (g.phase \in {"waiting", "done"} => Terminal(d))
    BY <1>3, <1>10, <1>11, <1>12 DEF TransportInv, Terminal
  <2> QED
    BY <2>3, <2>4, <2>5, <2>6 DEF TransportInv
<1>16. /\ join' \in [Transport -> JoinType] /\ join'[t] = g
       /\ \A s \in Transport \ {t} : join'[s] = join[s]
  BY <1>11, <1>13 DEF IndInv, Typing
<1>17. client.transport \in {t, Null} \/ (k.state = client.state /\ k.view = client.view)
  BY <1>4, <1>12, TransportAssumption DEF ClientInv
<1> QED
  BY <1>10, <1>12, <1>13, <1>14, <1>15, <1>16, <1>17, TransportStep

-----------------------------------------------------------------------------
(* The end of a socket *)

\* The socket of a transport that is neither closed nor exhausted is gone and
\* nothing else is under way: d is its record and k the client after its listener
\* of Close.  So it is when scheduleReconnect() decides what comes next.
Idle(t, k, d) ==
    /\ d \in ConnType /\ ConnInv(d) /\ JoinInv(opts, d, join[t])
    /\ ~ Pending(d) /\ ~ Terminal(d) /\ ~ Terminal(conn[t]) /\ ~ d.joined
    /\ k \in ClientType /\ k.transport = client.transport /\ k.room = client.room
    /\ k.wired = client.wired /\ k.steady = client.steady
    /\ k = client \/ client.transport = t

\* The transport gives up.
LEMMA GiveUpStep ==
    ASSUME IndInv, NEW t \in Transport, NEW k, NEW d, Idle(t, k, d),
           opts' = opts, GiveUp(t, k, d)
    PROVE  IndInv'
<1> USE DEF Idle
<1>1. PICK b \in BOOLEAN : b <=> d.first /\ ~ d.settled
  OBVIOUS
<1> DEFINE e == [d EXCEPT !.queue = << >>, !.wire = << >>, !.sent = 0, !.bad = {},
                          !.reported = {}, !.exhausted = TRUE, !.settled = TRUE]
<1>2. conn' = [conn EXCEPT ![t] = e]
  BY DEF GiveUp, Forget
<1>3. /\ e \in ConnType /\ e.connecting = d.connecting /\ e.closed = d.closed
      /\ e.exhausted = TRUE /\ e.first = d.first /\ e.sock = d.sock
      /\ e.connectTimer = d.connectTimer /\ e.reconnectTimer = d.reconnectTimer
      /\ e.refreshing = d.refreshing /\ e.joined = d.joined /\ e.received = d.received
  BY Zeros DEF ConnType
<1> HIDE DEF e
<1>4. ConnInv(e) /\ JoinInv(opts, e, join[t]) /\ Terminal(e)
  BY <1>3 DEF ConnInv, JoinInv, Pending, Live, Terminal
<1>5. CASE client.transport = t
  <2>1. t \in k.wired
    BY <1>5, AtTransport
  <2>2. client' = Reset(k)
    BY <2>1 DEF GiveUp
  <2>3. join' = IF b THEN [Cancel(join, k) EXCEPT ![t] = Reject(Cancel(join, k)[t])]
                ELSE Cancel(join, k)
    BY <1>1, <2>1 DEF GiveUp
  <2> QED
    BY <1>2, <1>3, <1>4, <1>5, <2>2, <2>3, ResetStep
<1>6. CASE client.transport # t
  <2>1. k = client /\ t \notin k.wired
    BY <1>6, AtTransport
  <2>2. client' = client
    BY <2>1 DEF GiveUp
  <2>3. join' = IF b THEN [join EXCEPT ![t] = Reject(join[t])] ELSE join
    BY <1>1, <2>1 DEF GiveUp
  <2>4. TransportInv(opts, client, t, e, join[t])
    BY <1>4, <1>6 DEF TransportInv
  <2> QED
    BY <1>2, <1>3, <2>2, <2>3, <2>4, RejectStep
<1> QED
  BY <1>5, <1>6

\* The transport schedules another attempt, or its listener leaves.
LEMMA RetryStep ==
    ASSUME IndInv, NEW t \in Transport, NEW k, NEW d, Idle(t, k, d), ~ Exhausted(d),
           opts' = opts, Retry(t, k, d)
    PROVE  IndInv'
<1> USE DEF Idle
<1>1. ASSUME NEW e \in ConnType, e.attempt = d.attempt
      PROVE  /\ ScheduleReconnect(e) \in ConnType
             /\ ScheduleReconnect(e).reconnectTimer = TRUE
             /\ ScheduleReconnect(e).connecting = e.connecting
             /\ ScheduleReconnect(e).closed = e.closed
             /\ ScheduleReconnect(e).exhausted = e.exhausted
             /\ ScheduleReconnect(e).first = e.first
             /\ ScheduleReconnect(e).sock = e.sock
             /\ ScheduleReconnect(e).connectTimer = e.connectTimer
             /\ ScheduleReconnect(e).refreshing = e.refreshing
             /\ ScheduleReconnect(e).joined = e.joined
             /\ ScheduleReconnect(e).received = e.received
  <2>1. e.attempt \in Attempts
    BY DEF ConnType
  <2>2. PICK a \in Attempts : a = e.attempt + 1
    BY <1>1, <2>1, BoundAssumption DEF Attempts, Exhausted
  <2>3. ScheduleReconnect(e) = [e EXCEPT !.attempt = a, !.reconnectTimer = TRUE]
    BY <2>2 DEF ScheduleReconnect
  <2> QED
    BY <2>3 DEF ConnType
<1>2. k.state \in States
  BY DEF ClientType
<1>3. PICK l \in ClientType : l = IF t \in k.wired THEN SetState(k, "reconnecting") ELSE k
  BY SetStateFacts DEF States
<1>4. /\ l.transport = client.transport /\ l.room = client.room
      /\ l.wired = client.wired /\ l.steady = client.steady
      /\ t \in k.wired => l.state = "reconnecting"
      /\ t \notin k.wired => l = k
  BY <1>2, <1>3, SetStateFacts, LegalFacts DEF States
<1>5. t \in k.wired <=> client.transport = t
  BY AtTransport
<1>6. TransportInv(opts, client, t, conn[t], join[t]) /\ ClientInv(client)
  BY AtTransport
<1>7. CASE /\ client' = l /\ UNCHANGED join
           /\ conn' = [conn EXCEPT ![t] = ScheduleReconnect(d)]
  <2>1. PICK e \in ConnType : e = ScheduleReconnect(d)
    BY <1>1
  <2>2. /\ e.connecting = d.connecting /\ e.closed = d.closed /\ e.exhausted = d.exhausted
        /\ e.first = d.first /\ e.sock = d.sock /\ e.connectTimer = d.connectTimer
        /\ e.reconnectTimer = TRUE /\ e.refreshing = d.refreshing
        /\ e.joined = d.joined /\ e.received = d.received
    BY <1>1, <2>1
  <2>3. ConnInv(e) /\ JoinInv(opts, e, join[t]) /\ ~ Terminal(e) /\ Pending(e) /\ ~ e.joined
    BY <2>2 DEF ConnInv, JoinInv, Pending, Live, Terminal
  <2>4. ClientInv(l)
    BY <1>4, <1>5, <1>6, TransportAssumption DEF ClientInv
  <2>5. l.transport = t => OwnInv(opts, l, t, e, join[t])
    BY <1>4, <1>5, <1>6, <2>3 DEF TransportInv, OwnInv, Terminal
  <2>6. l.transport # t => ~ (join[t].phase \in {"waiting", "done"})
    BY <1>4, <1>6 DEF TransportInv
  <2>7. TransportInv(opts, l, t, e, join[t])
    BY <2>3, <2>5, <2>6 DEF TransportInv
  <2>8. client.transport \in {t, Null} \/ (l.state = client.state /\ l.view = client.view)
    BY <1>4, <1>5
  <2>9. join' \in [Transport -> JoinType] /\ join' = join
    BY <1>7 DEF IndInv, Typing
  <2> QED
    BY <1>4, <1>7, <2>1, <2>4, <2>7, <2>8, <2>9, TransportStep
<1>8. CASE /\ t \in k.wired /\ client' = Reset(l) /\ join' = Cancel(join, l)
           /\ conn' = [conn EXCEPT ![t] = ScheduleReconnect(Close(d))]
  <2>1. Close(d) \in ConnType /\ Close(d).attempt = d.attempt
    <3>1. Closing(d.sock) \in SockState
      BY DEF ConnType, Closing, SockState
    <3> QED
      BY <3>1, CloseFacts DEF Close, Forget, ConnType
  <2> DEFINE x == Close(d)
  <2>2. /\ x.connecting = d.connecting /\ x.closed = TRUE /\ x.exhausted = d.exhausted
        /\ x.first = d.first /\ x.sock = Closing(d.sock) /\ x.connectTimer = d.connectTimer
        /\ x.refreshing = d.refreshing /\ x.joined = d.joined /\ x.received = d.received
    BY CloseFacts
  <2> HIDE DEF x
  <2>3. PICK e \in ConnType : e = ScheduleReconnect(x)
    BY <1>1, <2>1 DEF x
  <2>4. /\ e.connecting = d.connecting /\ e.closed = TRUE /\ e.exhausted = d.exhausted
        /\ e.first = d.first /\ e.sock = Closing(d.sock) /\ e.connectTimer = d.connectTimer
        /\ e.reconnectTimer = TRUE /\ e.refreshing = d.refreshing
        /\ e.joined = d.joined /\ e.received = d.received
    <3>1. x \in ConnType /\ x.attempt = d.attempt
      BY <2>1 DEF x
    <3> QED
      BY <1>1, <2>2, <2>3, <3>1
  <2>5. e.sock = d.sock
    BY <2>4 DEF Closing, Pending, Live
  <2>6. ConnInv(e) /\ Terminal(e)
    BY <2>4, <2>5 DEF ConnInv, Pending, Live, Terminal
  <2>7. JoinInv(opts, e, join[t])
    BY <2>4, <2>5 DEF JoinInv, Pending, Live
  <2> QED
    BY <1>5, <1>8, <2>3, <2>6, <2>7, ResetStep DEF x
<1> QED
  BY <1>3, <1>7, <1>8 DEF Retry

\* The socket has closed: the end of the transport, another attempt, or leave().
LEMMA OnCloseStep ==
    ASSUME IndInv, NEW t \in Transport, NEW fatal \in BOOLEAN, OnClose(t, fatal)
    PROVE  IndInv'
<1>1. PICK c \in ConnType : c = conn[t]
  BY AtTransport
<1>2. PICK h \in JoinType : h = join[t]
  BY AtTransport
<1>3. TransportInv(opts, client, t, c, h) /\ ClientInv(client) /\ client \in ClientType
  BY <1>1, <1>2, AtTransport
<1>4. c.sock \in {"open", "closing", "errored"} /\ h.phase # "resolved" /\ opts' = opts
  BY <1>1, <1>2, <1>3 DEF OnClose, Microtask, TransportInv, JoinInv
<1> DEFINE d == [c EXCEPT !.sock = "closed", !.connectTimer = FALSE,
                          !.joined = FALSE, !.received = 0]
<1>5. /\ d \in ConnType /\ d.connecting = c.connecting /\ d.closed = c.closed
      /\ d.exhausted = c.exhausted /\ d.first = c.first /\ d.sock = "closed"
      /\ d.connectTimer = FALSE /\ d.reconnectTimer = c.reconnectTimer
      /\ d.refreshing = c.refreshing /\ d.joined = FALSE /\ d.received = 0
  BY Zeros DEF ConnType, SockState
<1>6. PICK k \in ClientType : k = ClosedClient(t)
  BY <1>3, SetStateFacts DEF ClosedClient, States
<1>7. \/ /\ t \in client.wired /\ LeaveWith(k, [conn EXCEPT ![t] = d])
      \/ /\ Terminal(d) \/ "reconnect" \notin opts
         /\ client' = k /\ conn' = [conn EXCEPT ![t] = d] /\ UNCHANGED join
      \/ /\ ~ Terminal(d) /\ "reconnect" \in opts
         /\ GiveUp(t, k, d)
      \/ /\ ~ Terminal(d) /\ "reconnect" \in opts /\ ~ Exhausted(d)
         /\ Retry(t, k, d)
  BY <1>1, <1>6 DEF OnClose
<1> HIDE DEF d
<1>8. /\ k.transport = client.transport /\ k.room = client.room
      /\ k.wired = client.wired /\ k.steady = client.steady
      /\ client.transport = t => k.state = "disconnected"
      /\ client.transport # t => k = client
  <2>1. client.state \in States
    BY <1>3 DEF ClientType
  <2> QED
    BY <1>3, <1>6, <2>1, AtTransport, SetStateFacts, LegalFacts DEF ClosedClient, States
<1>9. ConnInv(d) /\ JoinInv(opts, d, h) /\ ~ Pending(d)
  BY <1>3, <1>4, <1>5 DEF TransportInv, ConnInv, JoinInv, Pending, Live, Terminal
<1>10. CASE t \in client.wired /\ LeaveWith(k, [conn EXCEPT ![t] = d])
  <2>1. client.transport = t
    BY <1>10, AtTransport
  <2>2. client' = Reset(k) /\ join' = Cancel(join, k)
    BY <1>10 DEF LeaveWith
  <2>3. conn' = [conn EXCEPT ![t] = Close(d)]
    BY <1>8, <1>10, <2>1 DEF LeaveWith, IndInv, Typing
  <2>4. TransportInv(opts, Reset(k), t, Close(d), h) /\ Close(d) \in ConnType
    BY ZenonT(60), <1>5, <1>9, CloseKeeps, CloseFacts, ResetFacts, TransportAssumption
  <2>5. ConnInv(Close(d)) /\ JoinInv(opts, Close(d), h) /\ Terminal(Close(d))
    BY <1>5, <2>4, CloseFacts DEF TransportInv, Terminal
  <2> QED
    BY <1>2, <1>4, <2>1, <2>2, <2>3, <2>4, <2>5, ResetStep
<1>11. CASE /\ Terminal(d) \/ "reconnect" \notin opts
            /\ client' = k /\ conn' = [conn EXCEPT ![t] = d] /\ UNCHANGED join
  <2>1. ClientInv(k)
    BY <1>3, <1>8, TransportAssumption DEF ClientInv
  <2>2. k.transport = t => OwnInv(opts, k, t, d, h)
    BY <1>3, <1>5, <1>8, <1>9, <1>11 DEF TransportInv, OwnInv, Terminal
  <2>3. k.transport # t => (h.phase \in {"waiting", "done"} => Terminal(d))
    BY <1>3, <1>5, <1>8 DEF TransportInv, Terminal
  <2>4. TransportInv(opts, k, t, d, h)
    BY <1>9, <2>2, <2>3 DEF TransportInv
  <2>5. join' \in [Transport -> JoinType] /\ join' = join
    BY <1>11 DEF IndInv, Typing
  <2>6. client.transport \in {t, Null} \/ (k.state = client.state /\ k.view = client.view)
    BY <1>8
  <2> QED
    BY <1>2, <1>4, <1>5, <1>8, <1>11, <2>1, <2>4, <2>5, <2>6, TransportStep
<1>12. ~ Terminal(d) => Idle(t, k, d)
  BY <1>1, <1>2, <1>5, <1>8, <1>9 DEF Idle, Terminal
<1> QED
  BY <1>4, <1>7, <1>10, <1>11, <1>12, GiveUpStep, RetryStep

\* The token could not be refreshed.
LEMMA TokenRefreshFailsStep ==
    ASSUME IndInv, NEW t \in Transport, TokenRefreshFails(t)
    PROVE  IndInv'
<1>1. PICK c \in ConnType : c = conn[t]
  BY AtTransport
<1>2. PICK h \in JoinType : h = join[t]
  BY AtTransport
<1>3. /\ TransportInv(opts, client, t, c, h) /\ ClientInv(client) /\ client \in ClientType
      /\ c.refreshing /\ opts' = opts
  BY <1>1, <1>2, AtTransport DEF TokenRefreshFails
<1> DEFINE d == [c EXCEPT !.refreshing = FALSE]
<1>4. /\ d \in ConnType /\ d.connecting = c.connecting /\ d.closed = c.closed
      /\ d.exhausted = c.exhausted /\ d.first = c.first /\ d.sock = c.sock
      /\ d.connectTimer = c.connectTimer /\ d.reconnectTimer = c.reconnectTimer
      /\ d.refreshing = FALSE /\ d.joined = c.joined /\ d.received = c.received
  BY DEF ConnType
<1>5. \/ Terminal(d) /\ conn' = [conn EXCEPT ![t] = d] /\ UNCHANGED <<client, join>>
      \/ ~ Terminal(d) /\ GiveUp(t, client, d)
      \/ ~ Terminal(d) /\ ~ Exhausted(d) /\ Retry(t, client, d)
  BY <1>1 DEF TokenRefreshFails
<1> HIDE DEF d
<1>6. ConnInv(d) /\ JoinInv(opts, d, h) /\ ~ Pending(d) /\ ~ d.joined
  BY <1>3, <1>4 DEF TransportInv, ConnInv, JoinInv, Pending, Live, Terminal
<1>7. CASE Terminal(d) /\ conn' = [conn EXCEPT ![t] = d] /\ UNCHANGED <<client, join>>
  <2>1. TransportInv(opts, client, t, d, h)
    BY <1>3, <1>4, <1>6, <1>7 DEF TransportInv, ConnInv, OwnInv, Terminal
  <2> QED
    BY <1>2, <1>3, <1>4, <1>7, <2>1, ConnStep
<1>8. ~ Terminal(d) => Idle(t, client, d)
  BY <1>1, <1>2, <1>3, <1>4, <1>6 DEF Idle, Terminal
<1> QED
  BY <1>3, <1>5, <1>7, <1>8, GiveUpStep, RetryStep

-----------------------------------------------------------------------------
(* The invariant and what follows from it *)

\* The client starts without a transport.
LEMMA InitInv ==
    ASSUME Init
    PROVE  IndInv
<1>1. /\ client \in ClientType /\ client.state = "disconnected" /\ client.transport = Null
      /\ client.room = Null /\ client.wired = {} /\ client.steady = {}
  BY Zeros DEF Init, ClientType, States
<1>2. ClientInv(client)
  BY <1>1 DEF ClientInv
<1>3. NewConn \in ConnType /\ NewJoin \in JoinType
  BY Zeros DEF ConnType, JoinType, NewConn, NewJoin, SockState, Phases
<1>4. Typing
  BY <1>1, <1>3 DEF Init, Typing
<1>5. ASSUME NEW t \in Transport PROVE TransportInv(opts, client, t, conn[t], join[t])
  <2>1. conn[t] = NewConn /\ join[t] = NewJoin
    BY DEF Init
  <2>2. /\ NewConn.connecting = FALSE /\ NewConn.refreshing = FALSE
        /\ NewConn.reconnectTimer = FALSE /\ NewConn.exhausted = FALSE
        /\ NewConn.connectTimer = FALSE /\ NewConn.joined = FALSE /\ NewConn.received = 0
        /\ NewConn.closed = FALSE /\ NewJoin.phase = "none"
    BY DEF NewConn, NewJoin
  <2>3. ConnInv(NewConn) /\ JoinInv(opts, NewConn, NewJoin)
    BY <2>2 DEF ConnInv, JoinInv, Terminal
  <2> QED
    BY <1>1, <2>1, <2>2, <2>3, TransportAssumption DEF TransportInv
<1> QED
  BY <1>2, <1>4, <1>5 DEF IndInv

\* Every step keeps the invariant.
LEMMA NextInv ==
    ASSUME IndInv, [Next]_vars
    PROVE  IndInv'
<1>1. CASE UNCHANGED vars
  BY <1>1 DEF vars, IndInv, Typing
<1>2. CASE Next
  BY <1>2, LeaveStep, JoinRoomStep, RoomSendStep, JoinSucceedsStep, JoinFailsStep,
     HandshakeStep, SocketCreatedStep, SocketUnavailableStep, ConnectTimeoutStep,
     OnOpenStep, CloseFrameStep, OnErrorStep, OnCloseStep, ReconnectTimerStep,
     TokenRefreshedStep, TokenRefreshFailsStep, OnRoomJoinedStep, OnFrameStep
  DEF Next
<1> QED
  BY <1>1, <1>2

\* The inductive invariant holds in every behaviour.
THEOREM Invariance == Spec => []IndInv
BY InitInv, NextInv, PTL DEF Spec

\* A connection that the client has let go of is closed for good or about to be,
\* whatever leave(), joinRoom(), timers and socket events came between, and the
\* client listens to its present transport alone.
THEOREM ConnectionsDoNotLeak == Spec => []NoLeakedConnection
<1>1. IndInv => NoLeakedConnection
  BY DEF IndInv, ClientInv, TransportInv, NoLeakedConnection
<1> QED
  BY <1>1, Invariance, PTL

\* A transport that was closed or gave up never has a socket that is opening or
\* open, also when close() overtakes the making of a socket, a token refresh or a
\* retry.
THEOREM TerminalStaysFinal == Spec => []TerminalIsFinal
<1>1. IndInv => TerminalIsFinal
  BY DEF IndInv, TransportInv, ConnInv, TerminalIsFinal
<1> QED
  BY <1>1, Invariance, PTL

\* In a room, Connected means that the present socket has delivered its snapshot,
\* and the room has then applied every frame since, once and in order.
THEOREM RoomViewIsComplete == Spec => []ViewIsComplete
<1>1. IndInv => ViewIsComplete
  <2>1. SUFFICES ASSUME IndInv, client.room # Null PROVE ViewIsComplete
    BY DEF ViewIsComplete
  <2>2. PICK t \in Transport : t = client.room /\ t = client.transport
    BY <2>1 DEF IndInv, Typing, ClientType, ClientInv
  <2>3. TransportInv(opts, client, t, conn[t], join[t])
    BY <2>1 DEF IndInv
  <2> QED
    BY <2>2, <2>3 DEF TransportInv, OwnInv, ViewIsComplete, UpTo
<1> QED
  BY <1>1, Invariance, PTL

\* With reconnect on and no connect timeout, the client never keeps a transport
\* on which nothing will ever happen again.
THEOREM NeverStalls == Spec => []UntimedNeverStalls
<1>1. IndInv => UntimedNeverStalls
  <2>1. SUFFICES ASSUME IndInv, "connectTimeout" \notin opts, "reconnect" \in opts,
                        client.transport # Null
                 PROVE  Active(client.transport)
    BY DEF UntimedNeverStalls, NeverStalled
  <2>2. PICK t \in Transport : t = client.transport
    BY <2>1 DEF IndInv, Typing, ClientType
  <2>3. TransportInv(opts, client, t, conn[t], join[t])
    BY <2>1 DEF IndInv
  <2> QED
    BY <2>1, <2>2, <2>3 DEF TransportInv, OwnInv, Pending, Live, Active
<1> QED
  BY <1>1, Invariance, PTL

-----------------------------------------------------------------------------
(* The frames that were handed to a transport *)

\* What FramesKept says of the n frames sent so far, kept being those that are on
\* the wire or queued.
KeptInv(kept, n, bad, reported) ==
    /\ Elements(kept) \cup reported = 1..n
    /\ Elements(kept) \cap reported = {}
    /\ \A i, j \in 1..Len(kept) : kept[i] = kept[j] => i = j
    /\ bad = {} => \A i, j \in 1..Len(kept) : i < j => kept[i] < kept[j]

LogInv(c) ==
    /\ Len(c.queue) <= QueueSize
    /\ KeptInv(c.wire \o c.queue, c.sent, c.bad, c.reported)

\* L is K with f put in after its first p elements.
Inserted(K, L, p, f) ==
    /\ p \in 0..Len(K) /\ Len(L) = Len(K) + 1 /\ L[p + 1] = f
    /\ \A i \in 1..p : L[i] = K[i]
    /\ \A i \in (p + 1)..Len(K) : L[i + 1] = K[i]

\* The next frame goes anywhere among the kept ones, and at their end as long as
\* every frame can be serialised.
LEMMA InsertKeeps ==
    ASSUME NEW K \in OutSeq, NEW L \in OutSeq, NEW n \in Nat, NEW bad, NEW worse,
           NEW R, NEW p, KeptInv(K, n, bad, R), Inserted(K, L, p, n + 1),
           worse = {} => bad = {} /\ p = Len(K)
    PROVE  KeptInv(L, n + 1, worse, R)
<1>0. /\ p \in 0..Len(K) /\ Len(L) = Len(K) + 1 /\ L[p + 1] = n + 1
      /\ \A i \in 1..p : L[i] = K[i]
      /\ \A i \in (p + 1)..Len(K) : L[i + 1] = K[i]
  BY DEF Inserted
<1>1. Len(K) \in Nat /\ p \in Nat
  BY <1>0, LenProperties DEF OutSeq
<1> DEFINE m == Len(K)
<1>2. \A i \in 1..m : K[i] \in 1..n
  BY DEF KeptInv, Elements
<1>3. R \subseteq 1..n
  BY DEF KeptInv
<1>4. \A i \in 1..(m + 1) : \/ i \in 1..p /\ L[i] = K[i]
                            \/ i = p + 1 /\ L[i] = n + 1
                            \/ i > p + 1 /\ i - 1 \in (p + 1)..m /\ L[i] = K[i - 1]
  <2>1. SUFFICES ASSUME NEW i \in 1..(m + 1)
                 PROVE  \/ i \in 1..p /\ L[i] = K[i]
                        \/ i = p + 1 /\ L[i] = n + 1
                        \/ i > p + 1 /\ i - 1 \in (p + 1)..m /\ L[i] = K[i - 1]
    OBVIOUS
  <2>2. CASE i <= p
    BY <1>0, <1>1, <2>2
  <2>3. CASE i = p + 1
    BY <1>0, <2>3
  <2>4. CASE i > p + 1
    <3>1. i - 1 \in (p + 1)..m /\ (i - 1) + 1 = i
      BY <1>0, <1>1, <2>4
    <3>2. L[(i - 1) + 1] = K[i - 1]
      BY <1>0, <3>1
    <3> QED
      BY <2>4, <3>1, <3>2
  <2> QED
    BY <1>0, <1>1, <2>2, <2>3, <2>4
<1>5. Elements(L) = Elements(K) \cup {n + 1}
  <2>1. ASSUME NEW i \in 1..(m + 1) PROVE L[i] \in Elements(K) \cup {n + 1}
    <3>1. CASE i \in 1..p /\ L[i] = K[i]
      BY <1>0, <1>1, <3>1 DEF Elements
    <3>2. CASE i = p + 1 /\ L[i] = n + 1
      BY <3>2
    <3>3. CASE i > p + 1 /\ i - 1 \in (p + 1)..m /\ L[i] = K[i - 1]
      <4>1. i - 1 \in 1..m
        BY <1>0, <1>1, <3>3
      <4> QED
        BY <3>3, <4>1 DEF Elements
    <3> QED
      BY <1>4, <3>1, <3>2, <3>3
  <2>2. ASSUME NEW i \in 1..m PROVE K[i] \in Elements(L)
    <3>1. CASE i <= p
      <4>1. L[i] = K[i] /\ i \in 1..Len(L)
        BY <1>0, <1>1, <3>1
      <4> QED
        BY <4>1 DEF Elements
    <3>2. CASE i > p
      <4>1. L[i + 1] = K[i] /\ i + 1 \in 1..Len(L)
        BY <1>0, <1>1, <3>2
      <4> QED
        BY <4>1 DEF Elements
    <3> QED
      BY <1>0, <1>1, <3>1, <3>2
  <2>3. n + 1 \in Elements(L)
    <3>1. p + 1 \in 1..Len(L)
      BY <1>0, <1>1
    <3> QED
      BY <1>0, <3>1 DEF Elements
  <2>4. \A x \in Elements(L) : x \in Elements(K) \cup {n + 1}
    BY <1>0, <2>1 DEF Elements
  <2>5. \A x \in Elements(K) : x \in Elements(L)
    BY <2>2 DEF Elements
  <2> QED
    BY <2>3, <2>4, <2>5
<1>6. Elements(K) \cap R = {} /\ Elements(K) \cup R = 1..n
  BY DEF KeptInv
<1>7. Elements(L) \cup R = 1..(n + 1)
  <2>1. 1..(n + 1) = (1..n) \cup {n + 1}
    OBVIOUS
  <2> QED
    BY <1>5, <1>6, <2>1
<1>8. Elements(L) \cap R = {}
  <2>1. n + 1 \notin R
    BY <1>3
  <2> QED
    BY <1>5, <1>6, <2>1
<1>9. ASSUME NEW i \in 1..Len(L), NEW j \in 1..Len(L), L[i] = L[j] PROVE i = j
  <2>1. \A a, b \in 1..m : K[a] = K[b] => a = b
    BY DEF KeptInv
  <2>2. i \in 1..(m + 1) /\ j \in 1..(m + 1) /\ m \in Nat /\ p \in 0..m
    BY <1>0, <1>1
  <2>3. ASSUME NEW a \in 1..(m + 1)
        PROVE  \/ a = p + 1 /\ L[a] = n + 1
               \/ \E x \in 1..m : L[a] = K[x] /\ L[a] # n + 1
                                /\ x = IF a <= p THEN a ELSE a - 1
    <3> HIDE DEF m
    <3>1. CASE a \in 1..p /\ L[a] = K[a]
      <4>1. a \in 1..m /\ a <= p
        BY <2>2, <3>1
      <4> QED
        BY <1>2, <3>1, <4>1 DEF m
    <3>2. CASE a = p + 1 /\ L[a] = n + 1
      BY <3>2
    <3>3. CASE a > p + 1 /\ a - 1 \in (p + 1)..m /\ L[a] = K[a - 1]
      <4>1. a - 1 \in 1..m /\ ~ (a <= p)
        BY <2>2, <3>3
      <4>2. K[a - 1] \in 1..n
        BY <1>2, <4>1 DEF m
      <4> QED
        BY <3>3, <4>1, <4>2
    <3> QED
      BY <1>4, <3>1, <3>2, <3>3 DEF m
  <2>4. CASE L[i] = n + 1
    BY <1>9, <2>2, <2>3, <2>4
  <2>5. CASE L[i] # n + 1
    <3>1. PICK x \in 1..m : L[i] = K[x] /\ x = IF i <= p THEN i ELSE i - 1
      BY <2>2, <2>3, <2>5
    <3>2. PICK y \in 1..m : L[j] = K[y] /\ y = IF j <= p THEN j ELSE j - 1
      BY <1>9, <2>2, <2>3, <2>5
    <3>3. x = y /\ i # p + 1 /\ j # p + 1
      BY <1>0, <1>9, <2>1, <2>5, <3>1, <3>2
    <3> HIDE DEF m
    <3> QED
      BY <2>2, <3>1, <3>2, <3>3
  <2> QED
    BY <2>4, <2>5
<1>10. ASSUME worse = {}, NEW i \in 1..Len(L), NEW j \in 1..Len(L), i < j
       PROVE  L[i] < L[j]
  <2>1. /\ \A a, b \in 1..m : a < b => K[a] < K[b]
        /\ p = m
    BY <1>10 DEF KeptInv
  <2>2. i \in 1..m /\ L[i] = K[i] /\ K[i] \in 1..n
    BY <1>0, <1>1, <1>2, <1>10, <2>1
  <2>3. CASE j = m + 1
    BY <1>0, <2>1, <2>2, <2>3
  <2>4. CASE j # m + 1
    BY <1>0, <1>1, <1>10, <2>1, <2>2, <2>4
  <2> QED
    BY <2>3, <2>4
<1> QED
  BY <1>7, <1>8, <1>9, <1>10 DEF KeptInv

\* A frame that is reported is not kept.
LEMMA ReportKeeps ==
    ASSUME NEW K, NEW n \in Nat, NEW bad, NEW worse, NEW R, KeptInv(K, n, bad, R),
           worse = {} => bad = {}
    PROVE  KeptInv(K, n + 1, worse, R \cup {n + 1})
<1>1. Elements(K) \cap R = {} /\ Elements(K) \cup R = 1..n
  BY DEF KeptInv
<1>2. 1..(n + 1) = (1..n) \cup {n + 1} /\ n + 1 \notin 1..n
  OBVIOUS
<1>3. Elements(K) \cup (R \cup {n + 1}) = 1..(n + 1) /\ Elements(K) \cap (R \cup {n + 1}) = {}
  BY <1>1, <1>2
<1> QED
  BY <1>3 DEF KeptInv

\* drain() keeps the frames, their order and the bound on the queue; what is left
\* in the queue waits behind a frame that cannot be serialised.
LEMMA FlushKeeps ==
    ASSUME NEW c \in ConnType, c.sock = "open"
    PROVE  /\ Flush(c).wire \o Flush(c).queue = c.wire \o c.queue
           /\ Len(Flush(c).queue) <= Len(c.queue)
           /\ Flush(c).queue = << >> \/ c.bad # {}
           /\ Flush(c).sent = c.sent /\ Flush(c).bad = c.bad
           /\ Flush(c).reported = c.reported
<1>1. PICK n \in 0..Len(c.queue) :
         /\ Flush(c) = [c EXCEPT !.wire = c.wire \o SubSeq(c.queue, 1, n),
                                 !.queue = SubSeq(c.queue, n + 1, Len(c.queue))]
         /\ n < Len(c.queue) => c.queue[n + 1] \in c.bad
  BY FlushShape
<1>2. PICK q \in OutSeq : q = c.queue
  BY DEF ConnType
<1>3. PICK w \in OutSeq : w = c.wire
  BY DEF ConnType
<1>4. /\ Flush(c).wire = w \o SubSeq(q, 1, n) /\ Flush(c).queue = SubSeq(q, n + 1, Len(q))
      /\ Flush(c).sent = c.sent /\ Flush(c).bad = c.bad
      /\ Flush(c).reported = c.reported
  BY <1>1, <1>2, <1>3 DEF ConnType
<1>5. /\ SubSeq(q, 1, n) \in OutSeq /\ SubSeq(q, n + 1, Len(q)) \in OutSeq
      /\ Len(SubSeq(q, n + 1, Len(q))) = Len(q) - n
  BY <1>2, SplitType
<1>6. Len(q) \in Nat
  BY LenProperties DEF OutSeq
<1>7. SubSeq(q, 1, n) \o SubSeq(q, n + 1, Len(q)) = q
  <2>1. PICK S : q \in Seq(S)
    BY DEF OutSeq
  <2>2. 1 \in 1..Len(q) + 1 /\ n \in 1 - 1..Len(q) /\ Len(q) \in n..Len(q)
    BY <1>2, <1>6
  <2>3. SubSeq(q, 1, n) \o SubSeq(q, n + 1, Len(q)) = SubSeq(q, 1, Len(q))
    BY <2>1, <2>2, ConcatAdjacentSubSeq
  <2> QED
    BY <2>1, <2>3, SubSeqFull
<1>8. (w \o SubSeq(q, 1, n)) \o SubSeq(q, n + 1, Len(q)) = w \o q
  <2>1. PICK S : S = 1..MaxOut
    OBVIOUS
  <2>2. /\ w \in Seq(S) /\ SubSeq(q, 1, n) \in Seq(S)
        /\ SubSeq(q, n + 1, Len(q)) \in Seq(S)
    BY <1>5, <2>1 DEF OutSeq
  <2>3. (w \o SubSeq(q, 1, n)) \o SubSeq(q, n + 1, Len(q))
           = w \o (SubSeq(q, 1, n) \o SubSeq(q, n + 1, Len(q)))
    <3>1. \A x, y, z \in Seq(S) : (x \o y) \o z = x \o (y \o z)
      BY ConcatAssociative
    <3> QED
      BY <2>2, <3>1
  <2> QED
    BY <1>7, <2>3
<1>9. Flush(c).queue = << >> \/ c.bad # {}
  <2>1. CASE n < Len(q)
    BY <1>1, <1>2, <2>1
  <2>2. CASE n = Len(q)
    BY <1>4, <1>5, <1>6, <2>2, EmptySeq DEF OutSeq
  <2> QED
    BY <1>2, <1>6, <2>1, <2>2
<1>10. Flush(c).wire \o Flush(c).queue = c.wire \o c.queue
  BY <1>2, <1>3, <1>4, <1>8, Zenon
<1>11. Len(Flush(c).queue) <= Len(c.queue)
  <2>1. Len(Flush(c).queue) = Len(q) - n
    BY <1>4, <1>5, Zenon
  <2> QED
    BY <1>2, <1>6, <2>1
<1> QED
  BY <1>4, <1>9, <1>10, <1>11

\* Where a frame lands that is put between the wire w and the queue q.
LEMMA InsertShape ==
    ASSUME NEW w \in OutSeq, NEW q \in OutSeq, NEW f \in 1..MaxOut,
           NEW K, K = w \o q, NEW L, L = Append(w, f) \o q
    PROVE  K \in OutSeq /\ L \in OutSeq /\ Inserted(K, L, Len(w), f)
<1>1. PICK S : S = 1..MaxOut
  OBVIOUS
<1>2. w \in Seq(S) /\ q \in Seq(S) /\ f \in S
  BY <1>1 DEF OutSeq
<1>3. PICK v \in Seq(S) : v = Append(w, f)
  BY <1>2, AppendProperties
<1>4. /\ Len(v) = Len(w) + 1 /\ v[Len(w) + 1] = f
      /\ \A i \in 1..Len(w) : v[i] = w[i]
  BY <1>2, <1>3, AppendProperties
<1>5. /\ Len(w) \in Nat /\ Len(q) \in Nat
  BY <1>2, LenProperties
<1>6. /\ K \in Seq(S) /\ Len(K) = Len(w) + Len(q)
      /\ \A i \in 1..(Len(w) + Len(q)) :
            K[i] = IF i <= Len(w) THEN w[i] ELSE q[i - Len(w)]
  BY <1>2, ConcatProperties
<1>7. /\ L \in Seq(S) /\ Len(L) = Len(v) + Len(q)
      /\ \A i \in 1..(Len(v) + Len(q)) :
            L[i] = IF i <= Len(v) THEN v[i] ELSE q[i - Len(v)]
  BY <1>2, <1>3, ConcatProperties
<1>8. /\ Len(L) = Len(K) + 1 /\ Len(w) \in 0..Len(K)
      /\ L[Len(w) + 1] = f
      /\ \A i \in 1..Len(w) : L[i] = K[i]
  BY <1>4, <1>5, <1>6, <1>7
<1>9. \A i \in (Len(w) + 1)..Len(K) : L[i + 1] = K[i]
  <2>1. SUFFICES ASSUME NEW i \in (Len(w) + 1)..Len(K)
                 PROVE  L[i + 1] = K[i]
    OBVIOUS
  <2>2. i \in 1..(Len(w) + Len(q)) /\ i + 1 \in 1..(Len(v) + Len(q))
    BY <1>4, <1>5, <1>6
  <2>3. ~ (i <= Len(w)) /\ ~ (i + 1 <= Len(v)) /\ (i + 1) - Len(v) = i - Len(w)
    BY <1>4, <1>5, <1>6
  <2>4. L[i + 1] = q[(i + 1) - Len(v)] /\ K[i] = q[i - Len(w)]
    BY <1>6, <1>7, <2>2, <2>3
  <2> QED
    BY <2>3, <2>4
<1> QED
  BY <1>1, <1>3, <1>6, <1>7, <1>8, <1>9 DEF OutSeq, Inserted

\* A frame at the end of the queue is the last one kept.
LEMMA EnqueueShape ==
    ASSUME NEW w \in OutSeq, NEW q \in OutSeq, NEW f \in 1..MaxOut
    PROVE  /\ Append(q, f) \in OutSeq /\ Len(Append(q, f)) = Len(q) + 1
           /\ w \o Append(q, f) = Append(w \o q, f) \o << >>
           /\ (w \o q) \o << >> = w \o q /\ w \o q \in OutSeq
<1>1. PICK S : S = 1..MaxOut
  OBVIOUS
<1>2. w \in Seq(S) /\ q \in Seq(S) /\ f \in S
  BY <1>1 DEF OutSeq
<1>3. PICK K \in Seq(S) : K = w \o q
  BY <1>2, ConcatProperties
<1>4. K \o << >> = K
  BY <1>3, ConcatEmptySeq
<1>5. PICK v \in Seq(S) : v = Append(q, f)
  BY <1>2, AppendProperties
<1>6. Len(v) = Len(q) + 1 /\ v[Len(q) + 1] = f /\ \A i \in 1..Len(q) : v[i] = q[i]
  BY <1>2, <1>5, AppendProperties
<1>7. PICK x \in Seq(S) : x = Append(K, f)
  BY <1>2, <1>3, AppendProperties
<1>8. Len(x) = Len(K) + 1 /\ x[Len(K) + 1] = f /\ \A i \in 1..Len(K) : x[i] = K[i]
  BY <1>2, <1>3, <1>7, AppendProperties
<1>9. PICK y \in Seq(S) : y = w \o v
  BY <1>2, <1>5, ConcatProperties
<1>10. /\ Len(w) \in Nat /\ Len(q) \in Nat
  BY <1>2, LenProperties
<1>11. /\ Len(K) = Len(w) + Len(q)
       /\ \A i \in 1..(Len(w) + Len(q)) : K[i] = IF i <= Len(w) THEN w[i] ELSE q[i - Len(w)]
  BY <1>2, <1>3, ConcatProperties
<1>12. /\ Len(y) = Len(w) + Len(v)
       /\ \A i \in 1..(Len(w) + Len(v)) : y[i] = IF i <= Len(w) THEN w[i] ELSE v[i - Len(w)]
  BY <1>2, <1>5, <1>9, ConcatProperties
<1>13. Len(x) = Len(y)
  BY <1>6, <1>8, <1>10, <1>11, <1>12
<1>14. ASSUME NEW i \in 1..Len(x) PROVE x[i] = y[i]
  <2>1. i \in 1..(Len(w) + Len(v))
    BY <1>12, <1>13
  <2>2. CASE i <= Len(w)
    <3>1. i \in 1..Len(K) /\ i \in 1..(Len(w) + Len(q))
      BY <1>10, <1>11, <2>2
    <3> QED
      BY <1>8, <1>11, <1>12, <2>1, <2>2, <3>1
  <2>3. CASE i > Len(w) /\ i <= Len(K)
    <3>1. i \in 1..Len(K) /\ i \in 1..(Len(w) + Len(q)) /\ i - Len(w) \in 1..Len(q)
          /\ ~ (i <= Len(w))
      BY <1>10, <1>11, <2>3
    <3> QED
      BY <1>6, <1>8, <1>11, <1>12, <2>1, <3>1
  <2>4. CASE i > Len(K)
    <3>1. i = Len(K) + 1 /\ i - Len(w) = Len(q) + 1 /\ ~ (i <= Len(w))
      BY <1>8, <1>10, <1>11, <2>4
    <3> QED
      BY <1>6, <1>8, <1>12, <2>1, <3>1
  <2> QED
    BY <1>10, <1>11, <2>2, <2>3, <2>4
<1>15. x = y
  BY <1>13, <1>14, SeqEqual
<1>16. x \o << >> = x
  BY ConcatEmptySeq
<1> QED
  BY <1>1, <1>3, <1>4, <1>5, <1>6, <1>7, <1>9, <1>15, <1>16 DEF OutSeq

\* A frame put between wire and queue is kept with the others.
LEMMA InsertedKeeps ==
    ASSUME NEW u \in OutSeq, NEW v \in OutSeq, NEW n \in Nat, NEW bad, NEW worse, NEW R,
           n + 1 \in 1..MaxOut, KeptInv(u \o v, n, bad, R),
           worse = {} => bad = {}, v = << >> \/ worse # {}
    PROVE  KeptInv(Append(u, n + 1) \o v, n + 1, worse, R)
<1>1. PICK K : K = u \o v
  OBVIOUS
<1>2. PICK L : L = Append(u, n + 1) \o v
  OBVIOUS
<1>3. K \in OutSeq /\ L \in OutSeq /\ Inserted(K, L, Len(u), n + 1)
  BY <1>1, <1>2, InsertShape
<1>4. v = << >> => Len(u) = Len(K)
  <2>1. u \o << >> = u
    BY ConcatEmptySeq DEF OutSeq
  <2> QED
    BY <1>1, <2>1
<1> QED
  BY <1>1, <1>2, <1>3, <1>4, InsertKeeps

\* send() of the next frame.
LEMMA SendKeeps ==
    ASSUME NEW c \in ConnType, LogInv(c), NEW f \in 1..MaxOut, f = c.sent + 1,
           NEW B \in OutSet, c.bad \subseteq B,
           NEW d \in ConnType, d = [c EXCEPT !.sent = f, !.bad = B]
    PROVE  LogInv(Send(d, f))
<1>1. /\ d.queue = c.queue /\ d.wire = c.wire /\ d.reported = c.reported
      /\ d.sent = f /\ d.bad = B
  BY DEF ConnType
<1>2. PICK w \in OutSeq, q \in OutSeq : w = c.wire /\ q = c.queue
  BY DEF ConnType
<1>3. PICK K \in OutSeq : K = w \o q
  BY EnqueueShape
<1>4. c.sent \in Nat
  BY DEF ConnType, OutCount
<1>5. KeptInv(K, c.sent, c.bad, c.reported) /\ Len(q) <= QueueSize /\ Len(q) \in Nat
  BY <1>2, <1>3, LenProperties DEF LogInv, OutSeq
<1>6. B = {} => c.bad = {}
  OBVIOUS
<1>7. KeptInv(K, f, B, c.reported \cup {f})
  BY <1>4, <1>5, <1>6, ReportKeeps
<1>8. ASSUME NEW u \in OutSeq, NEW v \in OutSeq, u \o v = K, v = << >> \/ B # {}
      PROVE  KeptInv(Append(u, f) \o v, f, B, c.reported)
  BY <1>4, <1>5, <1>6, <1>8, InsertedKeeps
<1>9. CASE d.sock = "open"
  <2>1. PICK x \in ConnType : x = Flush(d)
    BY FlushFacts
  <2>2. /\ x.wire \o x.queue = K /\ Len(x.queue) <= Len(q)
        /\ x.queue = << >> \/ B # {}
        /\ x.sent = f /\ x.bad = B /\ x.reported = c.reported
    BY <1>1, <1>2, <1>3, <1>9, <2>1, FlushKeeps
  <2>3. x.wire \in OutSeq /\ x.queue \in OutSeq /\ Len(x.queue) \in Nat
    BY LenProperties DEF ConnType, OutSeq
  <2>4. Len(x.queue) <= QueueSize
    BY <1>5, <2>2, <2>3, BoundAssumption
  <2>5. CASE f \in B
    <3>1. Send(d, f) = [x EXCEPT !.reported = x.reported \cup {f}]
      BY <1>1, <1>9, <2>1, <2>5 DEF Send
    <3>2. /\ Send(d, f).wire = x.wire /\ Send(d, f).queue = x.queue
          /\ Send(d, f).sent = f /\ Send(d, f).bad = B
          /\ Send(d, f).reported = c.reported \cup {f}
      BY <2>2, <3>1 DEF ConnType
    <3> QED
      BY <1>7, <2>2, <2>4, <3>2 DEF LogInv
  <2>6. CASE f \notin B
    <3>1. Send(d, f) = [x EXCEPT !.wire = Append(x.wire, f)]
      BY <1>1, <1>9, <2>1, <2>6 DEF Send
    <3>2. /\ Send(d, f).wire = Append(x.wire, f) /\ Send(d, f).queue = x.queue
          /\ Send(d, f).sent = f /\ Send(d, f).bad = B
          /\ Send(d, f).reported = c.reported
      BY <2>2, <3>1 DEF ConnType
    <3>3. KeptInv(Append(x.wire, f) \o x.queue, f, B, c.reported)
      BY <1>8, <2>2, <2>3
    <3> QED
      BY <2>4, <3>2, <3>3 DEF LogInv
  <2> QED
    BY <2>5, <2>6
<1>10. CASE d.sock # "open" /\ Len(q) < QueueSize
  <2>1. Send(d, f) = [d EXCEPT !.queue = Append(d.queue, f)]
    BY <1>1, <1>2, <1>10 DEF Send, Enqueue
  <2>2. /\ Send(d, f).wire = w /\ Send(d, f).queue = Append(q, f)
        /\ Send(d, f).sent = f /\ Send(d, f).bad = B
        /\ Send(d, f).reported = c.reported
    BY <1>1, <1>2, <2>1 DEF ConnType
  <2>3. KeptInv(Append(K, f) \o << >>, f, B, c.reported)
    <3>1. K \o << >> = K /\ << >> \in OutSeq
      BY <1>3, EnqueueShape, Zeros
    <3> QED
      BY <1>8, <3>1
  <2>4. w \o Append(q, f) = Append(K, f) \o << >> /\ Len(Append(q, f)) = Len(q) + 1
    BY <1>3, EnqueueShape
  <2>5. Len(Append(q, f)) <= QueueSize
    BY <1>5, <1>10, <2>4, BoundAssumption
  <2> QED
    BY <2>2, <2>3, <2>4, <2>5 DEF LogInv
<1>11. CASE d.sock # "open" /\ ~ (Len(q) < QueueSize)
  <2>1. Send(d, f) = [d EXCEPT !.reported = d.reported \cup {f}]
    BY <1>1, <1>2, <1>11 DEF Send, Enqueue
  <2>2. /\ Send(d, f).wire = w /\ Send(d, f).queue = q
        /\ Send(d, f).sent = f /\ Send(d, f).bad = B
        /\ Send(d, f).reported = c.reported \cup {f}
    BY <1>1, <1>2, <2>1 DEF ConnType
  <2> QED
    BY <1>3, <1>5, <1>7, <2>2 DEF LogInv
<1> QED
  BY <1>9, <1>10, <1>11

LogsInv == \A t \in Transport : LogInv(conn[t])

SameLog(c, d) ==
    /\ d.queue = c.queue /\ d.wire = c.wire /\ d.sent = c.sent
    /\ d.bad = c.bad /\ d.reported = c.reported

Blank(d) ==
    /\ d.queue = << >> /\ d.wire = << >> /\ d.sent = 0
    /\ d.bad = {} /\ d.reported = {}

\* A step that changes the connection of t, or none.
LEMMA OneLog ==
    ASSUME IndInv, LogsInv, NEW t \in Transport, NEW d, conn' = [conn EXCEPT ![t] = d],
           LogInv(d)
    PROVE  LogsInv'
BY DEF IndInv, Typing, LogsInv

\* Nothing has been handed to a new transport, or is followed of a terminal one.
LEMMA BlankLog ==
    ASSUME NEW d, Blank(d)
    PROVE  LogInv(d)
<1>1. << >> \o << >> = << >>
  BY ConcatEmptySeq DEF OutSeq
<1>2. Elements(<< >>) = {} /\ 1..0 = {}
  BY DEF Elements
<1> QED
  BY <1>1, <1>2, BoundAssumption DEF Blank, LogInv, KeptInv

\* A record with the same frames satisfies the same invariant.
LEMMA SameLogKeeps ==
    ASSUME NEW c, NEW d, LogInv(c), SameLog(c, d)
    PROVE  LogInv(d)
BY DEF LogInv, SameLog

\* Draining the queue keeps the frames.
LEMMA FlushLog ==
    ASSUME NEW c \in ConnType, LogInv(c)
    PROVE  LogInv(Flush(c))
<1>1. CASE c.sock # "open"
  BY <1>1 DEF Flush
<1>2. CASE c.sock = "open"
  <2>1. Flush(c).queue \in OutSeq /\ c.queue \in OutSeq
    BY FlushFacts DEF ConnType
  <2>2. Len(Flush(c).queue) \in Nat /\ Len(c.queue) \in Nat
    BY <2>1, LenProperties DEF OutSeq
  <2>3. Len(Flush(c).queue) <= QueueSize
    <3>1. Len(Flush(c).queue) <= Len(c.queue) /\ Len(c.queue) <= QueueSize
      BY <1>2, FlushKeeps DEF LogInv
    <3> QED
      BY <2>2, <3>1, BoundAssumption
  <2>4. KeptInv(Flush(c).wire \o Flush(c).queue, Flush(c).sent, Flush(c).bad,
                Flush(c).reported)
    BY <1>2, FlushKeeps DEF LogInv
  <2> QED
    BY <2>3, <2>4 DEF LogInv
<1> QED
  BY <1>1, <1>2

\* Of a transport that is closed nothing is followed any more.
LEMMA CloseBlank ==
    ASSUME NEW c \in ConnType
    PROVE  Blank(Close(c)) /\ Blank(ScheduleReconnect(Close(c)))
<1>1. Closing(c.sock) \in SockState
  BY DEF ConnType, Closing, SockState
<1>2. PICK x : x = Closing(c.sock)
  OBVIOUS
<1>3. Close(c) = [c EXCEPT !.queue = << >>, !.wire = << >>, !.sent = 0, !.bad = {},
                  !.reported = {}, !.closed = TRUE, !.reconnectTimer = FALSE, !.sock = x]
  BY <1>2 DEF Close, Forget, ConnType
<1>4. Blank(Close(c)) /\ Close(c) \in ConnType
  BY <1>3, CloseFacts DEF Blank, ConnType
<1>5. Blank(ScheduleReconnect(Close(c)))
  BY <1>4 DEF Blank, ConnType, ScheduleReconnect
<1> QED
  BY <1>4, <1>5

\* The steps that leave the frames alone.
LEMMA QuietLogs ==
    ASSUME IndInv, LogsInv, NEW t \in Transport,
           \/ SocketCreated(t) \/ SocketUnavailable(t) \/ ConnectTimeout(t)
           \/ CloseFrame(t) \/ OnError(t) \/ ReconnectTimer(t) \/ TokenRefreshed(t)
           \/ OnFrame(t)
    PROVE  LogsInv'
<1>1. PICK c \in ConnType : c = conn[t]
  BY AtTransport
<1>2. conn \in [Transport -> ConnType] /\ LogInv(c)
  BY <1>1 DEF IndInv, Typing, LogsInv
<1>3. ASSUME NEW d, conn' = [conn EXCEPT ![t] = d], SameLog(c, d) PROVE LogsInv'
  BY <1>2, <1>3, SameLogKeeps, OneLog
<1>4. CASE SocketCreated(t)
  <2>1. PICK b \in BOOLEAN : b <=> "connectTimeout" \in opts
    OBVIOUS
  <2> DEFINE d == [c EXCEPT !.connecting = FALSE]
             e == [c EXCEPT !.connecting = FALSE, !.sock = "connecting", !.settled = FALSE,
                            !.joined = FALSE, !.received = 0, !.connectTimer = b]
  <2>2. conn' = [conn EXCEPT ![t] = d] \/ conn' = [conn EXCEPT ![t] = e]
    BY <1>1, <1>4, <2>1 DEF SocketCreated
  <2>3. SameLog(c, d) /\ SameLog(c, e)
    BY DEF SameLog, ConnType
  <2> HIDE DEF d, e
  <2> QED
    BY <1>3, <2>2, <2>3
<1>5. CASE SocketUnavailable(t)
  <2> DEFINE d == [c EXCEPT !.connecting = FALSE]
  <2>1. conn' = [conn EXCEPT ![t] = d] /\ SameLog(c, d)
    BY <1>1, <1>5 DEF SocketUnavailable, SameLog, ConnType
  <2> HIDE DEF d
  <2> QED
    BY <1>3, <2>1
<1>6. CASE ConnectTimeout(t)
  <2>1. PICK x : x = Closing(c.sock)
    OBVIOUS
  <2> DEFINE d == [c EXCEPT !.connectTimer = FALSE, !.settled = TRUE, !.exhausted = TRUE,
                            !.sock = x]
  <2>2. conn' = [conn EXCEPT ![t] = d]
    BY <1>1, <1>6, <2>1 DEF ConnectTimeout
  <2>3. SameLog(c, d)
    BY DEF SameLog, ConnType
  <2> HIDE DEF d
  <2> QED
    BY <1>3, <2>2, <2>3
<1>7. CASE CloseFrame(t) \/ OnError(t)
  <2> DEFINE d == [c EXCEPT !.sock = "closing"]
             e == [c EXCEPT !.sock = "errored", !.connectTimer = FALSE, !.settled = TRUE]
  <2>1. conn' = [conn EXCEPT ![t] = d] \/ conn' = [conn EXCEPT ![t] = e]
    BY <1>1, <1>7 DEF CloseFrame, OnError
  <2>2. SameLog(c, d) /\ SameLog(c, e)
    BY DEF SameLog, ConnType
  <2> HIDE DEF d, e
  <2> QED
    BY <1>3, <2>1, <2>2
<1>8. CASE ReconnectTimer(t)
  <2> DEFINE d == [c EXCEPT !.reconnectTimer = FALSE]
             e == [c EXCEPT !.reconnectTimer = FALSE, !.refreshing = TRUE]
  <2>1. \/ conn' = [conn EXCEPT ![t] = d] \/ conn' = [conn EXCEPT ![t] = c]
        \/ conn' = [conn EXCEPT ![t] = e] \/ conn' = [conn EXCEPT ![t] = InitSocket(d, FALSE)]
    BY <1>1, <1>8 DEF ReconnectTimer
  <2>2. SameLog(c, d) /\ SameLog(c, e) /\ SameLog(c, c) /\ d \in ConnType
    BY DEF SameLog, ConnType
  <2> HIDE DEF d, e
  <2>3. SameLog(d, InitSocket(d, FALSE))
    BY <2>2 DEF SameLog, ConnType, InitSocket
  <2> QED
    BY <1>3, <2>1, <2>2, <2>3 DEF SameLog
<1>9. CASE TokenRefreshed(t)
  <2> DEFINE d == [c EXCEPT !.refreshing = FALSE]
  <2>1. conn' = [conn EXCEPT ![t] = InitSocket(d, FALSE)]
    BY <1>1, <1>9 DEF TokenRefreshed
  <2>2. SameLog(c, d) /\ d \in ConnType
    BY DEF SameLog, ConnType
  <2> HIDE DEF d
  <2>3. SameLog(d, InitSocket(d, FALSE))
    BY <2>2 DEF SameLog, ConnType, InitSocket
  <2> QED
    BY <1>3, <2>1, <2>2, <2>3 DEF SameLog
<1>10. CASE OnFrame(t)
  <2>1. PICK x : x = c.received + 1
    OBVIOUS
  <2> DEFINE d == [c EXCEPT !.received = x]
  <2>2. conn' = [conn EXCEPT ![t] = d]
    BY <1>1, <1>10, <2>1 DEF OnFrame
  <2>3. SameLog(c, d)
    BY DEF SameLog, ConnType
  <2> HIDE DEF d
  <2> QED
    BY <1>3, <2>2, <2>3
<1> QED
  BY <1>4, <1>5, <1>6, <1>7, <1>8, <1>9, <1>10

\* The steps that drain the queue.
LEMMA DrainingLogs ==
    ASSUME IndInv, LogsInv, NEW t \in Transport, OnOpen(t) \/ OnRoomJoined(t)
    PROVE  LogsInv'
<1>1. PICK c \in ConnType : c = conn[t]
  BY AtTransport
<1>2. LogInv(c)
  BY <1>1 DEF LogsInv
<1> DEFINE d == [c EXCEPT !.sock = "open", !.connectTimer = FALSE, !.settled = TRUE,
                          !.attempt = 0]
           e == [c EXCEPT !.joined = TRUE]
<1>3. d \in ConnType /\ SameLog(c, d) /\ e \in ConnType /\ SameLog(c, e)
  BY Zeros DEF ConnType, SockState, SameLog
<1>4. \/ conn' = [conn EXCEPT ![t] = Flush(d)]
      \/ conn' = [conn EXCEPT ![t] = Flush(e)]
      \/ conn' = [conn EXCEPT ![t] = e]
  BY <1>1 DEF OnOpen, OnRoomJoined
<1> HIDE DEF d, e
<1>5. LogInv(e) /\ LogInv(Flush(e)) /\ LogInv(Flush(d))
  BY <1>2, <1>3, SameLogKeeps, FlushLog
<1> QED
  BY <1>4, <1>5, OneLog

\* joinRoom() and what follows its handshake, and leave().
LEMMA JoinLogs ==
    ASSUME IndInv, LogsInv,
           Leave \/ \E t \in Transport : JoinRoom(t) \/ JoinSucceeds(t) \/ JoinFails(t)
    PROVE  LogsInv'
<1>1. CASE Leave
  <2>1. PICK t \in Transport : t = client.transport
    BY <1>1 DEF IndInv, Typing, ClientType, Leave
  <2>2. PICK c \in ConnType : c = conn[t]
    BY AtTransport
  <2>3. conn' = [conn EXCEPT ![t] = Close(c)]
    BY <1>1, <2>1, <2>2 DEF Leave, LeaveWith, IndInv, Typing
  <2> QED
    BY <2>3, CloseBlank, BlankLog, OneLog
<1>2. ASSUME NEW t \in Transport, JoinRoom(t) PROVE LogsInv'
  <2>1. conn' = [conn EXCEPT ![t] = [NewConn EXCEPT !.connecting = TRUE, !.first = TRUE]]
    BY <1>2 DEF JoinRoom, InitSocket, NewConn
  <2>2. Blank([NewConn EXCEPT !.connecting = TRUE, !.first = TRUE])
    BY DEF NewConn, Blank
  <2> QED
    BY <2>1, <2>2, BlankLog, OneLog
<1>3. ASSUME NEW t \in Transport, JoinSucceeds(t) \/ JoinFails(t) PROVE LogsInv'
  <2>1. PICK c \in ConnType : c = conn[t]
    BY AtTransport
  <2>2. conn' = [conn EXCEPT ![t] = Close(c)] \/ conn' = [conn EXCEPT ![t] = Flush(c)]
    BY <1>3, <2>1 DEF JoinSucceeds, JoinFails
  <2>3. LogInv(Close(c)) /\ LogInv(Flush(c))
    BY <2>1, CloseBlank, BlankLog, FlushLog DEF LogsInv
  <2> QED
    BY <2>2, <2>3, OneLog
<1> QED
  BY <1>1, <1>2, <1>3

\* What scheduleReconnect() decides.
LEMMA RetryLogs ==
    ASSUME IndInv, LogsInv, NEW t \in Transport, NEW k, NEW d \in ConnType, LogInv(d),
           GiveUp(t, k, d) \/ Retry(t, k, d)
    PROVE  LogsInv'
<1>1. CASE GiveUp(t, k, d)
  <2> DEFINE e == [d EXCEPT !.queue = << >>, !.wire = << >>, !.sent = 0, !.bad = {},
                            !.reported = {}, !.exhausted = TRUE, !.settled = TRUE]
  <2>1. conn' = [conn EXCEPT ![t] = e]
    BY <1>1 DEF GiveUp, Forget
  <2>2. Blank(e)
    BY DEF Blank, ConnType
  <2> QED
    BY <2>1, <2>2, BlankLog, OneLog
<1>2. CASE Retry(t, k, d)
  <2>1. \/ conn' = [conn EXCEPT ![t] = ScheduleReconnect(d)]
        \/ conn' = [conn EXCEPT ![t] = ScheduleReconnect(Close(d))]
    BY <1>2 DEF Retry
  <2>2. SameLog(d, ScheduleReconnect(d))
    BY DEF SameLog, ScheduleReconnect, ConnType
  <2> QED
    BY <2>1, <2>2, SameLogKeeps, CloseBlank, BlankLog, OneLog
<1> QED
  BY <1>1, <1>2

\* The end of a socket or of a token refresh.
LEMMA ClosingLogs ==
    ASSUME IndInv, LogsInv, NEW t \in Transport,
           TokenRefreshFails(t) \/ \E fatal \in BOOLEAN : OnClose(t, fatal)
    PROVE  LogsInv'
<1>1. PICK c \in ConnType : c = conn[t]
  BY AtTransport
<1>2. LogInv(c)
  BY <1>1 DEF LogsInv
<1> DEFINE d == [c EXCEPT !.sock = "closed", !.connectTimer = FALSE,
                          !.joined = FALSE, !.received = 0]
           e == [c EXCEPT !.refreshing = FALSE]
<1>3. d \in ConnType /\ SameLog(c, d) /\ e \in ConnType /\ SameLog(c, e)
  BY Zeros DEF ConnType, SockState, SameLog
<1>4. CASE TokenRefreshFails(t)
  <2>1. \/ conn' = [conn EXCEPT ![t] = e]
        \/ GiveUp(t, client, e) \/ Retry(t, client, e)
    BY <1>1, <1>4 DEF TokenRefreshFails
  <2> HIDE DEF e
  <2>2. LogInv(e)
    BY <1>2, <1>3, SameLogKeeps
  <2> QED
    BY <1>3, <2>1, <2>2, OneLog, RetryLogs
<1>5. ASSUME NEW fatal \in BOOLEAN, OnClose(t, fatal) PROVE LogsInv'
  <2>1. \/ t \in client.wired /\ LeaveWith(ClosedClient(t), [conn EXCEPT ![t] = d])
        \/ conn' = [conn EXCEPT ![t] = d]
        \/ GiveUp(t, ClosedClient(t), d) \/ Retry(t, ClosedClient(t), d)
    BY <1>1, <1>5 DEF OnClose
  <2> HIDE DEF d
  <2>2. LogInv(d)
    BY <1>2, <1>3, SameLogKeeps
  <2>3. CASE t \in client.wired /\ LeaveWith(ClosedClient(t), [conn EXCEPT ![t] = d])
    <3>1. ClosedClient(t).transport = t
      BY <2>3, AtTransport, SetStateFacts DEF ClosedClient, States
    <3>2. conn' = [conn EXCEPT ![t] = Close(d)]
      BY <2>3, <3>1 DEF LeaveWith, IndInv, Typing
    <3> QED
      BY <1>3, <3>2, CloseBlank, BlankLog, OneLog
  <2> QED
    BY <1>3, <2>1, <2>2, <2>3, OneLog, RetryLogs
<1> QED
  BY <1>4, <1>5

\* The application sends a frame.
LEMMA SendLogs ==
    ASSUME IndInv, LogsInv, NEW t \in Transport, NEW b \in BOOLEAN, RoomSend(t, b)
    PROVE  LogsInv'
<1>1. PICK c \in ConnType : c = conn[t]
  BY AtTransport
<1>2. c.sent \in OutCount /\ c.bad \in OutSet
  BY DEF ConnType
<1>3. PICK f \in 1..MaxOut : f = c.sent + 1
  BY <1>1, <1>2, BoundAssumption DEF RoomSend, OutCount
<1>4. f \in OutCount
  BY BoundAssumption DEF OutCount
<1>5. PICK B \in OutSet : B = IF b THEN c.bad ELSE c.bad \cup {f}
  BY <1>2, <1>3 DEF OutSet
<1> DEFINE d == [c EXCEPT !.sent = f, !.bad = B]
<1>6. conn' = [conn EXCEPT ![t] = Send(d, f)]
  BY <1>1, <1>3, <1>5 DEF RoomSend
<1>7. d \in ConnType
  BY <1>4, <1>5 DEF ConnType
<1>8. LogInv(c) /\ c.bad \subseteq B
  BY <1>1, <1>5 DEF LogsInv
<1>9. LogInv(Send(d, f))
  BY <1>3, <1>7, <1>8, SendKeeps
<1> QED
  BY <1>6, <1>9, OneLog

\* The invariant on the frames, with the one it rests on.
THEOREM LogInvariance == Spec => [](IndInv /\ LogsInv)
<1>1. Init => IndInv /\ LogsInv
  <2>1. SUFFICES ASSUME Init PROVE LogsInv
    BY InitInv
  <2>2. Blank(NewConn)
    BY DEF Blank, NewConn
  <2> QED
    BY <2>1, <2>2, BlankLog DEF Init, LogsInv
<1>2. IndInv /\ LogsInv /\ [Next]_vars => (IndInv /\ LogsInv)'
  <2>1. SUFFICES ASSUME IndInv, LogsInv, [Next]_vars PROVE LogsInv'
    BY NextInv
  <2>2. CASE UNCHANGED vars
    BY <2>1, <2>2 DEF vars, LogsInv
  <2>3. CASE Next
    <3>1. ASSUME NEW t \in Transport, JoinTimeout(t) \/ OnErrorFrame(t) PROVE LogsInv'
      BY <2>1, <3>1 DEF JoinTimeout, OnErrorFrame, LogsInv
    <3> QED
      BY <2>1, <2>3, <3>1, QuietLogs, DrainingLogs, JoinLogs, ClosingLogs, SendLogs DEF Next
  <2> QED
    BY <2>1, <2>2, <2>3
<1> QED
  BY <1>1, <1>2, PTL DEF Spec

\* While a transport lives, every frame handed to it is on the wire, queued or
\* reported by an error, exactly one of these and once, through reconnects, drains
\* that stop half-way and refusals of a full queue; and frames that can all be
\* serialised keep their order.
THEOREM FramesAreKept == Spec => []FramesKept
<1>1. LogsInv => FramesKept
  BY DEF LogsInv, LogInv, KeptInv, FramesKept
<1> QED
  BY <1>1, LogInvariance, PTL

\* Types, and the queue within maxQueueSize.
THEOREM TypeCorrect == Spec => []TypeOK
<1>1. IndInv /\ LogsInv => TypeOK
  <2>1. SUFFICES ASSUME IndInv, LogsInv PROVE TypeOK
    OBVIOUS
  <2>2. \A t \in Transport : Len(conn[t].queue) <= QueueSize
    BY <2>1 DEF LogsInv, LogInv
  <2> QED
    BY <2>1, <2>2
    DEF IndInv, Typing, TypeOK, ClientType, ConnType, JoinType, Attempts, InCount,
        OutCount, InSeq, OutSeq, OutSet, States, Phases
<1> QED
  BY <1>1, LogInvariance, PTL
=============================================================================
