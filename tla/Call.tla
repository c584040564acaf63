-------------------------------- MODULE Call --------------------------------
(***************************************************************************)
(* The mesh call of media/src between two peers of one room: the Call of   *)
(* each side, its PeerConnection (perfect negotiation), the local track    *)
(* registry, and the signals the room relays in order.  Of the browser's   *)
(* RTCPeerConnection the model has its signalling state, its chain of      *)
(* asynchronous operations and its negotiationneeded event.  An operation  *)
(* settling and the continuation that awaited it are one step.             *)
(***************************************************************************)
EXTENDS Integers, Sequences

CONSTANTS
    Tracks,          \* local tracks of a side
    NegTimeout,      \* whether negotiationTimeoutMs is set
    MaxIceRestarts,  \* maxIceRestarts
    MaxPending,      \* MAX_PENDING_CANDIDATES
    MaxConns,        \* bound: connections a side creates
    MaxEvents        \* bound: candidates, track calls, failures, timeouts,
                     \*        refreshes and closes of both sides

ASSUME CallConstants ==
    /\ NegTimeout \in BOOLEAN
    /\ {MaxIceRestarts, MaxPending, MaxEvents} \subseteq Nat /\ MaxConns \in Nat \ {0}

VARIABLES
    call,   \* per side: the Call object and its track registry
    conn,   \* per side: its connection to the other
    timer,  \* per side: the connection that armed the negotiation timer, or 0
    net,    \* per side: signals and room events on their way to it
    env     \* counters of the environment

vars == <<call, conn, timer, net, env>>

Peer == {"polite", "impolite"}
Other(p) == IF p = "polite" THEN "impolite" ELSE "polite"
NoOffer == <<0, 0>>
Message(type, of) == [type |-> type, of |-> of]
Note(type) == Message(type, NoOffer)
Operation(kind, of) == [kind |-> kind, of |-> of]

\* A connection not yet made: id counts the connections of the side.
NoConnection(id) ==
    [id |-> id, live |-> FALSE, sig |-> "stable", remote |-> FALSE, making |-> FALSE,
     gen |-> 0, mine |-> 0, need |-> FALSE, ops |-> <<>>, pend |-> 0, eoc |-> FALSE,
     senders |-> {}, swap |-> {}, refused |-> {}, ice |-> "new", restarts |-> 0]

Init ==
    /\ call \in [Peer -> {[started |-> FALSE, closed |-> FALSE, has |-> TRUE, pub |-> P,
                           stale |-> FALSE] : P \in {{}, Tracks}}]
    /\ conn = [p \in Peer |-> NoConnection(0)]
    /\ timer = [p \in Peer |-> 0]
    /\ net = [p \in Peer |-> <<>>]
    /\ env = [events |-> 0, lost |-> FALSE, overlap |-> FALSE]

Event == env.events < MaxEvents /\ env' = [env EXCEPT !.events = @ + 1]

\* Replacements of tracks that the connection has not made: under way, or refused.
Unmade(c) == c.swap \cup c.refused

\* A call that changes the registry; it overlaps a replacement that is not made.
TrackCall(p) ==
    /\ env.events < MaxEvents
    /\ env' = [env EXCEPT !.events = @ + 1, !.overlap = @ \/ Unmade(conn[p]) # {}]

-----------------------------------------------------------------------------
(* What the handlers are made of.                                          *)

\* getOrCreateConnection: a new connection is given every registered track, which
\* makes it need negotiation.
GetOrCreate(p, c) ==
    IF c.live THEN c
    ELSE [NoConnection(c.id + 1) EXCEPT !.live = TRUE, !.senders = call[p].pub,
                                        !.need = call[p].pub # {}]

\* Handlers that await an operation of the connection, other than its own offer.
Handling(c) == {i \in DOMAIN c.ops : c.ops[i].kind # "offer"}

\* _dropConnection.  Operations of a closed connection never settle or reject.
Dropped(c) == NoConnection(c.id)
Becomes(p, c) == conn' = [conn EXCEPT ![p] = c]
Untimed(p) == timer' = [timer EXCEPT ![p] = 0]
Send(p, msg) == net' = [net EXCEPT ![Other(p)] = Append(@, msg)]

\* The connection's Error event, and every other way to drop it: the handlers that
\* still wait on it are left behind.
Drops(p, c) ==
    /\ Becomes(p, Dropped(c))
    /\ Untimed(p)
    /\ call' = [call EXCEPT ![p].stale = @ \/ Handling(c) # {}]

-----------------------------------------------------------------------------
(* The Call's own operations.                                              *)

\* start(): connect to the peers of the room and listen to it.
Start(p) ==
    /\ ~ call[p].started /\ ~ call[p].closed
    /\ call' = [call EXCEPT ![p].started = TRUE]
    /\ Becomes(p, IF call[p].has THEN GetOrCreate(p, conn[p]) ELSE conn[p])
    /\ UNCHANGED <<timer, net, env>>

\* The room is refreshed after a reconnect: restart() replaces every connection.
\* Frames on their way were lost; the other side sees the peer leave and join.
Refresh(p) ==
    /\ Event
    /\ call[p].started /\ ~ call[p].closed
    /\ conn[p].id < MaxConns
    /\ Becomes(p, GetOrCreate(p, Dropped(conn[p])))
    /\ Untimed(p)
    /\ call' = [call EXCEPT ![p].stale = @ \/ Handling(conn[p]) # {}, ![p].has = TRUE]
    /\ net' = [net EXCEPT ![p] = <<>>, ![Other(p)] = @ \o <<Note("left"), Note("joined")>>]

Close(p) ==
    /\ Event
    /\ ~ call[p].closed
    /\ Becomes(p, Dropped(conn[p]))
    /\ Untimed(p)
    /\ call' = [call EXCEPT ![p] = [call[p] EXCEPT !.closed = TRUE, !.pub = {},
                     !.stale = call[p].stale \/ Handling(conn[p]) # {}]]
    /\ UNCHANGED net

\* addTrack and removeTrack of a connection: a sender more, or one less of those it
\* has; either needs negotiation.
WithTrack(c, t) ==
    IF c.live THEN [c EXCEPT !.senders = @ \cup {t}, !.need = TRUE] ELSE c
WithoutTrack(c, t) ==
    IF t \in c.senders THEN [c EXCEPT !.senders = @ \ {t}, !.need = TRUE] ELSE c

\* addTrack (addScreenTrack is the same call).
AddTrack(p, t) ==
    /\ TrackCall(p)
    /\ ~ call[p].closed /\ t \notin call[p].pub
    /\ call' = [call EXCEPT ![p].pub = @ \cup {t}]
    /\ Becomes(p, WithTrack(conn[p], t))
    /\ UNCHANGED <<timer, net>>

\* removeTrack, and the track's ended event.
Unpublish(p, t) ==
    /\ TrackCall(p)
    /\ t \in call[p].pub
    /\ call' = [call EXCEPT ![p].pub = @ \ {t}]
    /\ Becomes(p, WithoutTrack(conn[p], t))
    /\ UNCHANGED <<timer, net>>

\* Mutant: the registry keeps the replaced track.
ReplaceTrackUnregistered(p, t, u) ==
    /\ TrackCall(p)
    /\ t \in call[p].pub /\ u \notin call[p].pub
    /\ conn' = [conn EXCEPT ![p].swap = IF t \in conn[p].senders THEN @ \cup {<<t, u>>} ELSE @]
    /\ UNCHANGED <<call, timer, net>>

\* replaceTrack: the registry at once, the sender when the browser has swapped it.
ReplaceTrack(p, t, u) ==
    /\ TrackCall(p)
    /\ t \in call[p].pub /\ u \notin call[p].pub
    /\ call' = [call EXCEPT ![p].pub = (@ \ {t}) \cup {u}]
    /\ conn' = [conn EXCEPT ![p].swap = IF t \in conn[p].senders THEN @ \cup {<<t, u>>} ELSE @]
    /\ UNCHANGED <<timer, net>>

SwapSettles(p) ==
    /\ LET c == conn[p] IN
       \E s \in c.swap :
          Becomes(p, [c EXCEPT !.swap = c.swap \ {s}, !.senders = (c.senders \ {s[1]}) \cup {s[2]}])
    /\ UNCHANGED <<call, timer, net, env>>

\* sender.replaceTrack rejects: the sender keeps its track, the registry has the new one.
SwapRejects(p) ==
    /\ LET c == conn[p] IN
       \E s \in c.swap :
          Becomes(p, [c EXCEPT !.swap = c.swap \ {s}, !.refused = c.refused \cup {s}])
    /\ UNCHANGED <<call, timer, net, env>>

-----------------------------------------------------------------------------
(* The operations chain of the RTCPeerConnection and what awaits it.       *)

\* negotiationneeded fires in the stable state with an empty chain.
NegotiationNeeded(p) ==
    LET c == conn[p] IN
    /\ c.live /\ c.need /\ c.sig = "stable" /\ c.ops = <<>>
    /\ ~ c.making
    /\ Becomes(p, [c EXCEPT !.making = TRUE, !.gen = @ + 1,
                            !.ops = <<Operation("offer", <<c.id, c.gen + 1>>)>>])
    /\ UNCHANGED <<call, timer, net, env>>

\* setLocalDescription() made an offer.  It is sent, and timed, unless a rollback
\* has moved the generation on.
OfferMade(p, c, op) ==
    LET made == [c EXCEPT !.sig = "local", !.mine = op.of[2], !.need = FALSE] IN
    /\ IF op.of[2] = c.gen
       THEN /\ Becomes(p, [made EXCEPT !.making = FALSE])
            /\ Send(p, Message("offer", op.of))
            /\ timer' = IF NegTimeout THEN [timer EXCEPT ![p] = c.id] ELSE timer
       ELSE Becomes(p, made) /\ UNCHANGED <<timer, net>>
    /\ UNCHANGED call

\* handleOffer after the rollback: the remote offer is next.  In the stable state
\* there is nothing to roll back and the operation rejects.
RolledBack(p, c, op) ==
    IF c.sig = "stable" THEN Drops(p, c) /\ UNCHANGED net
    ELSE /\ Becomes(p, [c EXCEPT !.sig = "stable", !.need = @ \/ c.sig = "local",
                                 !.ops = Append(@, Operation("remote", op.of))])
         /\ UNCHANGED <<call, timer, net>>

\* The step after setRemoteDescription: drainCandidates, when any are buffered.
DrainThenAnswer(c, of) ==
    Operation(IF c.pend > 0 \/ c.eoc THEN "drain answer" ELSE "answer", of)

RemoteApplied(p, c, op) ==
    /\ Becomes(p, [c EXCEPT !.sig = "remote", !.remote = TRUE, !.need = @ \/ c.sig = "local",
                            !.ops = Append(@, DrainThenAnswer(c, op.of))])
    /\ UNCHANGED <<call, timer, net>>

\* Mutant: answering leaves the timer of the rolled back offer armed.
AnsweredTimed(p, c, op) ==
    /\ c.sig = "remote"
    /\ Becomes(p, [c EXCEPT !.sig = "stable"])
    /\ Send(p, Message("answer", op.of))
    /\ UNCHANGED <<call, timer>>

\* setLocalDescription() in handleOffer: an answer when an offer is applied, else an
\* offer.  handleRoomSignal clears the timer and sends what it got as the answer.
Answered(p, c, op) ==
    /\ \E left \in {c.need, FALSE} :
          IF c.sig = "remote"
          THEN /\ Becomes(p, [c EXCEPT !.sig = "stable", !.need = left])
               /\ Send(p, Message("answer", op.of))
          ELSE /\ Becomes(p, [c EXCEPT !.sig = "local", !.mine = 0, !.need = FALSE])
               /\ Send(p, Note("answer"))
    /\ Untimed(p)
    /\ UNCHANGED call

\* Mutant: the buffered candidates are only drained after an offer.
AnswerAppliedUndrained(p, c, op) ==
    /\ c.sig = "local"
    /\ Becomes(p, [c EXCEPT !.sig = "stable", !.remote = TRUE])
    /\ Untimed(p)
    /\ UNCHANGED <<call, net>>

\* handleAnswer: only an outstanding offer takes an answer; one made for another
\* offer may or may not be refused.
AnswerApplied(p, c, op) ==
    \/ /\ c.sig = "local"
       /\ LET applied == [c EXCEPT !.sig = "stable", !.remote = TRUE] IN
          IF c.pend > 0 \/ c.eoc
          THEN /\ Becomes(p, [applied EXCEPT !.ops = Append(@, Operation("drain", op.of))])
               /\ UNCHANGED timer
          ELSE Becomes(p, applied) /\ Untimed(p)
       /\ UNCHANGED <<call, net>>
    \/ /\ c.sig # "local" \/ op.of # <<c.id, c.mine>>
       /\ Drops(p, c)
       /\ UNCHANGED net

\* drainCandidates is done; handleOffer answers next, handleAnswer is over.
Drained(p, c, op) ==
    LET empty == [c EXCEPT !.pend = 0, !.eoc = FALSE] IN
    /\ IF op.kind = "drain answer"
       THEN Becomes(p, [empty EXCEPT !.ops = Append(@, Operation("answer", op.of))])
            /\ UNCHANGED timer
       ELSE Becomes(p, empty) /\ Untimed(p)
    /\ UNCHANGED <<call, net>>

\* The first operation of the chain settles and its handler runs on.
Settles(p) ==
    /\ conn[p].ops # <<>>
    /\ LET op == Head(conn[p].ops)
           c == [conn[p] EXCEPT !.ops = Tail(@)]
       IN  \/ op.kind = "offer" /\ OfferMade(p, c, op)
           \/ op.kind = "rollback" /\ RolledBack(p, c, op)
           \/ op.kind = "remote" /\ RemoteApplied(p, c, op)
           \/ op.kind = "answer" /\ Answered(p, c, op)
           \/ op.kind = "apply" /\ AnswerApplied(p, c, op)
           \/ op.kind \in {"drain", "drain answer"} /\ Drained(p, c, op)
    /\ UNCHANGED env

\* It rejects: the Error event, unless it was an offer of an older generation.
Rejects(p) ==
    /\ conn[p].ops # <<>>
    /\ LET op == Head(conn[p].ops) IN
       /\ op.kind \notin {"drain", "drain answer"}
       /\ IF op.kind = "offer" /\ op.of[2] # conn[p].gen
          THEN Becomes(p, [conn[p] EXCEPT !.ops = Tail(@)]) /\ UNCHANGED <<call, timer>>
          ELSE Drops(p, [conn[p] EXCEPT !.ops = Tail(@)])
    /\ Event
    /\ UNCHANGED net

\* A handler left behind by a dropped connection is rejected after all, and clears
\* whatever timer the peer has by now.
StaleRejects(p) ==
    /\ call[p].stale
    /\ call' = [call EXCEPT ![p].stale = FALSE]
    /\ Untimed(p)
    /\ UNCHANGED <<conn, net, env>>

-----------------------------------------------------------------------------
(* Room events and signals.                                                *)

\* Mutants: the rollback forgets makingOffer; neither side, or both, give way.
OnOfferStillMaking(p, c, msg) ==
    LET collision == c.making \/ c.sig # "stable" IN
    /\ ~ (collision /\ p = "impolite")
    /\ Becomes(p, IF collision
         THEN [c EXCEPT !.gen = @ + 1, !.ops = Append(@, Operation("rollback", msg.of))]
         ELSE [c EXCEPT !.ops = Append(@, Operation("remote", msg.of))])
    /\ UNCHANGED <<call, timer>>
OnOfferStubborn(p, c, msg) ==
    /\ Becomes(p, IF c.making \/ c.sig # "stable" THEN c
                  ELSE [c EXCEPT !.ops = Append(@, Operation("remote", msg.of))])
    /\ UNCHANGED <<call, timer>>
OnOfferYielding(p, c, msg) ==
    /\ Becomes(p, IF c.making \/ c.sig # "stable"
         THEN [c EXCEPT !.gen = @ + 1, !.making = FALSE,
                        !.ops = Append(@, Operation("rollback", msg.of))]
         ELSE [c EXCEPT !.ops = Append(@, Operation("remote", msg.of))])
    /\ UNCHANGED <<call, timer>>

\* handleOffer up to its first await.
OnOffer(p, c, msg) ==
    LET collision == c.making \/ c.sig # "stable" IN
    IF collision /\ p = "impolite"
    THEN Becomes(p, c) /\ Untimed(p) /\ UNCHANGED call
    ELSE /\ Becomes(p, IF collision
              THEN [c EXCEPT !.gen = @ + 1, !.making = FALSE,
                             !.ops = Append(@, Operation("rollback", msg.of))]
              ELSE [c EXCEPT !.ops = Append(@, Operation("remote", msg.of))])
         /\ UNCHANGED <<call, timer>>

OnAnswer(p, c, msg) ==
    /\ Becomes(p, [c EXCEPT !.ops = Append(@, Operation("apply", msg.of))])
    /\ UNCHANGED <<call, timer>>

\* addIceCandidate: buffered until there is a remote description.
OnCandidate(p, c, msg) ==
    \/ /\ c.remote \/ msg.type = "eoc" \/ c.pend < MaxPending
       /\ Becomes(p, IF c.remote THEN c
                     ELSE IF msg.type = "eoc" THEN [c EXCEPT !.eoc = TRUE]
                     ELSE [c EXCEPT !.pend = @ + 1])
       /\ UNCHANGED <<call, timer>>
    \/ /\ ~ c.remote /\ msg.type = "ice" /\ c.pend = MaxPending
       /\ Drops(p, c)

PeerLeft(p) ==
    /\ Becomes(p, Dropped(conn[p]))
    /\ Untimed(p)
    /\ call' = [call EXCEPT ![p].has = FALSE, ![p].stale = @ \/ Handling(conn[p]) # {}]

PeerJoined(p) ==
    /\ Becomes(p, GetOrCreate(p, conn[p]))
    /\ call' = [call EXCEPT ![p].has = TRUE]
    /\ UNCHANGED timer

\* handleRoomSignal: a signal of a peer in the room makes a connection if need be.
Signal(p, msg) ==
    IF ~ conn[p].live /\ ~ call[p].has
    THEN UNCHANGED <<call, conn, timer>>
    ELSE LET c == GetOrCreate(p, conn[p]) IN
         \/ msg.type = "offer" /\ OnOffer(p, c, msg)
         \/ msg.type = "answer" /\ OnAnswer(p, c, msg)
         \/ msg.type \in {"ice", "eoc"} /\ OnCandidate(p, c, msg)

\* The room hands over the next event; without listeners it is lost.
Receive(p) ==
    /\ net[p] # <<>>
    /\ net' = [net EXCEPT ![p] = Tail(@)]
    /\ LET msg == Head(net[p])
           listening == call[p].started /\ ~ call[p].closed
       IN  \/ /\ ~ listening
              /\ env' = [env EXCEPT !.lost = TRUE]
              /\ call' = [call EXCEPT ![p].has = msg.type # "left"]
              /\ UNCHANGED <<conn, timer>>
           \/ /\ listening
              /\ conn[p].live \/ conn[p].id < MaxConns
              /\ \/ msg.type = "left" /\ PeerLeft(p)
                 \/ msg.type = "joined" /\ PeerJoined(p)
                 \/ msg.type \notin {"left", "joined"} /\ Signal(p, msg)
              /\ UNCHANGED env

-----------------------------------------------------------------------------
(* The network and the timer.                                              *)

Described(c) == c.live /\ (c.sig = "local" \/ (c.sig = "stable" /\ c.remote))

\* The connection gathers a candidate, or null at the end.
Gathers(p) ==
    /\ Described(conn[p]) /\ Event
    /\ \E type \in {"ice", "eoc"} : Send(p, Note(type))
    /\ UNCHANGED <<call, conn, timer>>

Connects(p) ==
    /\ Described(conn[p]) /\ conn[p].remote /\ conn[p].ice # "connected"
    /\ Becomes(p, [conn[p] EXCEPT !.ice = "connected", !.restarts = 0])
    /\ Untimed(p)
    /\ UNCHANGED <<call, net, env>>

\* connectionState becomes failed: restart ICE while the budget lasts.
IceFails(p) ==
    /\ Event
    /\ Described(conn[p]) /\ conn[p].remote
    /\ IF conn[p].restarts < MaxIceRestarts
       THEN /\ Becomes(p, [conn[p] EXCEPT !.ice = "failed", !.restarts = @ + 1, !.need = TRUE])
            /\ Untimed(p)
            /\ UNCHANGED call
       ELSE Drops(p, conn[p])
    /\ UNCHANGED net

\* The negotiation timer drops the connection that armed it, if it is still the one.
Timeout(p) ==
    /\ timer[p] # 0
    /\ Event
    /\ IF conn[p].live /\ conn[p].id = timer[p] THEN Drops(p, conn[p])
       ELSE Untimed(p) /\ UNCHANGED <<call, conn>>
    /\ UNCHANGED net

Next ==
    \E p \in Peer :
        \/ Start(p) \/ Refresh(p) \/ Close(p)
        \/ \E t \in Tracks : AddTrack(p, t) \/ Unpublish(p, t)
        \/ \E t, u \in Tracks : ReplaceTrack(p, t, u)
        \/ SwapSettles(p) \/ SwapRejects(p)
        \/ NegotiationNeeded(p) \/ Settles(p) \/ Rejects(p) \/ StaleRejects(p)
        \/ Receive(p) \/ Gathers(p) \/ Connects(p) \/ IceFails(p) \/ Timeout(p)

Spec == Init /\ [][Next]_vars

-----------------------------------------------------------------------------
(* Properties.                                                             *)

\* The shape of the state: at most one pending answer or offer per handler.
TypeOK ==
    /\ call \in [Peer -> [started : BOOLEAN, closed : BOOLEAN, has : BOOLEAN,
                          pub : SUBSET Tracks, stale : BOOLEAN]]
    /\ timer \in [Peer -> 0 .. MaxConns]
    /\ \A p \in Peer :
          /\ conn[p].id \in 0 .. MaxConns
          /\ conn[p].sig \in {"stable", "local", "remote"}
          /\ conn[p].pend \in 0 .. MaxPending
          /\ conn[p].restarts \in 0 .. MaxIceRestarts
          /\ conn[p].making => \E i \in DOMAIN conn[p].ops : conn[p].ops[i].kind = "offer"

\* Nothing is on its way and no operation is pending.
Settled ==
    \A p \in Peer : /\ call[p].started /\ net[p] = <<>> /\ conn[p].ops = <<>>
                    /\ ~ (conn[p].need /\ conn[p].sig = "stable")

\* Both sides still have the connection they began with and heard every signal.
Undisturbed == ~ env.lost /\ \A p \in Peer : conn[p].live /\ conn[p].id = 1

\* An answer is applied to the very offer it was made for: a glare, a rollback or
\* an ICE restart of both sides never crosses the answers (handleOffer, handleAnswer).
AnswerMatchesOffer ==
    \A p \in Peer :
        LET c == conn[p] IN
        Undisturbed /\ c.ops # <<>> /\ Head(c.ops).kind = "apply" =>
            c.sig = "local" /\ Head(c.ops).of = <<c.id, c.mine>>

\* Whatever collided, once everything settled the impolite side has its answer:
\* its offer is never lost between the rollback and the ignored offer (handleOffer).
GlareSettles ==
    Undisturbed /\ Settled => conn["impolite"].sig = "stable"

\* An armed negotiation timer belongs to the present connection, which awaits an
\* answer or has a handler at work that will clear it: no expiry tears down a call
\* whose negotiation is over (_clearPeerTimer and the timer of _wireConnection).
TimerMeansWaiting ==
    \A p \in Peer : timer[p] # 0 =>
        /\ conn[p].live /\ conn[p].id = timer[p]
        /\ conn[p].sig = "local" \/ Handling(conn[p]) # {}

\* With a remote description and no handler at work no candidate is left in the
\* buffer: none waits for a drain that never comes (addIceCandidate, drainCandidates).
CandidatesDrained ==
    \A p \in Peer : conn[p].live /\ conn[p].remote /\ Handling(conn[p]) = {} =>
        conn[p].pend = 0 /\ ~ conn[p].eoc

\* Every connection sends exactly the registered tracks, whichever of the two came first
\* (getOrCreateConnection, addTrack, replaceTrack, removeTrack), but for the old track of a
\* replacement that is under way or was refused on this connection; a connection made after
\* the refusal sends the new one.  It says nothing once the registry is changed again
\* while such a replacement is outstanding.
SendersFollowRegistry ==
    \A p \in Peer : conn[p].live /\ ~ env.overlap =>
        conn[p].senders = (call[p].pub \ {s[2] : s \in Unmade(conn[p])})
                              \cup {s[1] : s \in Unmade(conn[p])}

\* With negotiationTimeoutMs set a side that waits for an answer has its timer armed.
RenegotiationIsTimed ==
    \A p \in Peer : NegTimeout /\ Settled /\ conn[p].live /\ conn[p].sig = "local" => timer[p] # 0
=============================================================================
