---------------------------- MODULE MediaServer ----------------------------
(***************************************************************************)
(* A MediaService with its WorkerPool and the MediaRouters of its rooms    *)
(* (packages/media/src), on top of mediasoup.                              *)
(*                                                                         *)
(* Every operation is cut at its awaits.  A transport, producer or         *)
(* consumer carries the request that creates it: at is "asked" until       *)
(* mediasoup has answered.  Of mediasoup's objects the model keeps whether *)
(* they are live; held says that the MediaRouter has them in its maps.     *)
(***************************************************************************)
EXTENDS Integers, FiniteSets

CONSTANTS
    Room, Peer,
    Worker,                      \* identities of worker processes
    Router,                      \* identities of routers, each used once
    Transport, Producer, Consumer, \* identities of entities, each used once
    None,
    NumWorkers,                  \* settings.numWorkers
    LimitBitrate,                \* whether maxIncomingBitrate is configured
    MaxEvents                    \* bound: calls and failures from outside

ASSUME MediaAssumption ==
    /\ None \notin Worker \cup Router \cup Transport \cup Producer
    /\ NumWorkers \in Nat \ {0} /\ LimitBitrate \in BOOLEAN /\ MaxEvents \in Nat

VARIABLES
    pool,      \* WorkerPool._started, _starting; spawns that start() awaits (boot) and
               \* that nobody awaits (stray); history: closed
    load,      \* WorkerPool._load: its domain is the set of workers
    service,   \* MediaService._started
    room,      \* the rooms: open, and their peers
    creation,  \* MediaService._pending, with the worker asked and closedDuringInit
    routerOf,  \* MediaService._routers
    router,    \* the MediaRouters: room, worker, and state "none", "open", "closed", "dead"
    transport, producer, consumer,
    events

poolVars == <<pool, load, service>>
roomVars == <<room, creation, routerOf, router>>
mediaVars == <<transport, producer, consumer>>
vars == <<poolVars, roomVars, mediaVars, events>>

Direction == {"send", "recv"}
RouterOn(t) == router[transport[t].router]
Open(r) == router[r].state = "open"

NewTransport == [at |-> "none", router |-> None, peer |-> None, dir |-> "send",
                 live |-> FALSE, held |-> FALSE, orphan |-> FALSE]
NewProducer == [at |-> "none", t |-> None, live |-> FALSE, held |-> FALSE]
NewConsumer == [at |-> "none", t |-> None, source |-> None,
                live |-> FALSE, held |-> FALSE, notice |-> FALSE]

Init ==
    /\ pool = [started |-> FALSE, starting |-> FALSE, boot |-> 0, stray |-> 0,
               closed |-> FALSE]
    /\ load = [w \in {} |-> 0]
    /\ service = FALSE
    /\ room = [i \in Room |-> [open |-> TRUE, peers |-> {}]]
    /\ creation = [i \in Room |-> None]
    /\ routerOf = [i \in Room |-> None]
    /\ router = [r \in Router |-> [state |-> "none", room |-> None, worker |-> None]]
    /\ transport = [t \in Transport |-> NewTransport]
    /\ producer = [p \in Producer |-> NewProducer]
    /\ consumer = [c \in Consumer |-> NewConsumer]
    /\ events = 0

Event == events < MaxEvents /\ events' = events + 1

-----------------------------------------------------------------------------
(* What closing does to the objects below.                                 *)

\* MediaEntity forwards transportclose, the observer of a producer its close, and a
\* consumer of a closed producer is told by the worker later.
CloseEntities(T) ==
    LET gone == {p \in Producer : producer[p].live /\ producer[p].t \in T}
    IN /\ producer' = [p \in Producer |-> IF p \in gone
                          THEN [producer[p] EXCEPT !.live = FALSE, !.held = FALSE]
                          ELSE producer[p]]
       /\ consumer' = [c \in Consumer |->
             CASE consumer[c].live /\ consumer[c].t \in T ->
                    [consumer[c] EXCEPT !.live = FALSE, !.held = FALSE, !.notice = FALSE]
               [] consumer[c].live /\ consumer[c].t \notin T /\ consumer[c].source \in gone ->
                    [consumer[c] EXCEPT !.notice = TRUE]
               [] OTHER -> consumer[c]]

CloseTransports(T) ==
    /\ transport' = [t \in Transport |-> IF t \in T
                        THEN [transport[t] EXCEPT !.live = FALSE, !.held = FALSE]
                        ELSE transport[t]]
    /\ CloseEntities(T)

TransportsOf(R) == {t \in Transport : transport[t].router \in R}
OpenOn(W) == {r \in Router : Open(r) /\ router[r].worker \in W}

\* MediaRouter.close().
CloseRouter(r) ==
    /\ router' = [router EXCEPT ![r].state = "closed"]
    /\ CloseTransports(TransportsOf({r}))

\* The workers of W are gone: their open routers close, with all that runs on them, and
\* requests that are still unanswered on their routers are rejected.
LoseWorkers(W) ==
    /\ router' = [r \in Router |-> IF router[r].worker \in W
                     THEN [router[r] EXCEPT !.state = "dead"] ELSE router[r]]
    /\ CloseTransports(TransportsOf(OpenOn(W)))
    /\ routerOf' = [i \in Room |-> IF routerOf[i] \in OpenOn(W) THEN None ELSE routerOf[i]]
    /\ creation' = [i \in Room |-> IF creation[i] # None /\ creation[i].worker \in W
                                   THEN None ELSE creation[i]]

\* The close listener of WorkerPool.createRouter.
Unloaded(w) == [load EXCEPT ![w] = IF @ = 0 THEN 0 ELSE @ - 1]

\* Requests fail when the worker has died, and mediasoup may refuse any of them.
Answered(t) == RouterOn(t).state # "dead"

-----------------------------------------------------------------------------
(* The pool and the service.                                               *)

\* MediaService.init(): a second call while workers spawn returns at once.
InitReturns ==
    /\ Event
    /\ pool.started \/ pool.starting
    /\ service' = TRUE
    /\ UNCHANGED <<pool, load, roomVars, mediaVars>>

InitSpawns ==
    /\ Event
    /\ ~ pool.started /\ ~ pool.starting
    /\ pool' = [pool EXCEPT !.starting = TRUE, !.boot = NumWorkers, !.closed = FALSE]
    /\ UNCHANGED <<load, service, roomVars, mediaVars>>

\* A worker of start() is up; with the last one start() and init() return.
SpawnedAtStart(w) ==
    /\ pool.boot > 0 /\ w \in Worker \ DOMAIN load
    /\ load' = [v \in DOMAIN load \cup {w} |-> IF v = w THEN 0 ELSE load[v]]
    /\ LET last == pool.boot = 1
       IN /\ pool' = [pool EXCEPT !.boot = @ - 1, !.started = @ \/ last,
                                  !.starting = @ /\ ~ last]
          /\ service' = (service \/ last)
    /\ UNCHANGED <<roomVars, mediaVars, events>>

\* Mutant of SpawnFailsAtStart: _starting is not reset.
StartNeverEnds ==
    /\ Event
    /\ pool.boot > 0
    /\ pool' = [pool EXCEPT !.stray = @ + pool.boot - 1, !.boot = 0]
    /\ UNCHANGED <<load, service, roomVars, mediaVars>>

\* One failure rejects Promise.all; the other spawns go on unawaited.
SpawnFailsAtStart ==
    /\ Event
    /\ pool.boot > 0
    /\ pool' = [pool EXCEPT !.stray = @ + pool.boot - 1, !.boot = 0, !.starting = FALSE]
    /\ UNCHANGED <<load, service, roomVars, mediaVars>>

Respawned(w) ==
    /\ pool.stray > 0 /\ w \in Worker \ DOMAIN load
    /\ load' = [v \in DOMAIN load \cup {w} |-> IF v = w THEN 0 ELSE load[v]]
    /\ pool' = [pool EXCEPT !.stray = @ - 1]
    /\ UNCHANGED <<service, roomVars, mediaVars, events>>

RespawnFails ==
    /\ Event
    /\ pool.stray > 0
    /\ pool' = [pool EXCEPT !.stray = @ - 1]
    /\ UNCHANGED <<load, service, roomVars, mediaVars>>

\* The died listener.
Died == IF pool.started THEN [pool EXCEPT !.stray = @ + 1] ELSE pool

\* The routers close before died is emitted.
WorkerDies(w) ==
    /\ Event
    /\ w \in DOMAIN load
    /\ LoseWorkers({w})
    /\ load' = [v \in DOMAIN load \ {w} |-> load[v]]
    /\ pool' = Died
    /\ UNCHANGED <<service, room>>

CloseAll ==
    /\ Event
    /\ LoseWorkers(DOMAIN load)
    /\ load' = [w \in {} |-> 0]
    /\ pool' = [pool EXCEPT !.started = FALSE, !.closed = TRUE]
    /\ service' = FALSE
    /\ UNCHANGED room

-----------------------------------------------------------------------------
(* Rooms and their routers.                                                *)

LeastLoaded(w) == \A v \in DOMAIN load : load[w] <= load[v]

\* Mutant of AttachRoom: a router that exists is not returned.
AttachRoomAgain(i, w) ==
    /\ service
    /\ creation[i] = None
    /\ pool.started /\ w \in DOMAIN load /\ LeastLoaded(w)
    /\ room[i].open
    /\ creation' = [creation EXCEPT ![i] = [worker |-> w, closed |-> FALSE]]
    /\ UNCHANGED <<poolVars, room, routerOf, router, mediaVars, events>>

\* attachRoom() up to the await of worker.createRouter.
AttachRoom(i, w) ==
    /\ service
    /\ routerOf[i] = None /\ creation[i] = None
    /\ pool.started /\ w \in DOMAIN load /\ LeastLoaded(w)
    /\ room[i].open
    /\ creation' = [creation EXCEPT ![i] = [worker |-> w, closed |-> FALSE]]
    /\ UNCHANGED <<poolVars, room, routerOf, router, mediaVars, events>>

RouterCreated(i, r) ==
    /\ creation[i] # None /\ ~ creation[i].closed
    /\ router[r].state = "none"
    /\ router' = [router EXCEPT ![r] = [state |-> "open", room |-> i,
                                        worker |-> creation[i].worker]]
    /\ load' = [load EXCEPT ![creation[i].worker] = @ + 1]
    /\ routerOf' = [routerOf EXCEPT ![i] = r]
    /\ creation' = [creation EXCEPT ![i] = None]
    /\ UNCHANGED <<pool, service, room, mediaVars, events>>

\* The room closed during the creation: the router is closed again at once.
CreationTooLate(i) ==
    /\ creation[i] # None /\ creation[i].closed
    /\ creation' = [creation EXCEPT ![i] = None]
    /\ UNCHANGED <<poolVars, room, routerOf, router, mediaVars, events>>

\* The Closed event reaches earlyClose or onRoomClosed, whichever is attached.
RoomCloses(i) ==
    /\ Event
    /\ room[i].open
    /\ room' = [room EXCEPT ![i] = [open |-> FALSE, peers |-> {}]]
    /\ creation' = [creation EXCEPT ![i] = IF @ = None THEN @ ELSE [@ EXCEPT !.closed = TRUE]]
    /\ routerOf' = [routerOf EXCEPT ![i] = None]
    /\ \/ /\ routerOf[i] = None
          /\ UNCHANGED <<load, router, mediaVars>>
       \/ /\ routerOf[i] # None
          /\ CloseRouter(routerOf[i])
          /\ load' = Unloaded(router[routerOf[i]].worker)
    /\ UNCHANGED <<pool, service>>

\* Another room with the same id.
RoomOpens(i) ==
    /\ Event
    /\ ~ room[i].open
    /\ room' = [room EXCEPT ![i].open = TRUE]
    /\ UNCHANGED <<poolVars, creation, routerOf, router, mediaVars>>

PeerJoins(i, n) ==
    /\ Event
    /\ room[i].open /\ n \notin room[i].peers
    /\ room' = [room EXCEPT ![i].peers = @ \cup {n}]
    /\ UNCHANGED <<poolVars, creation, routerOf, router, mediaVars>>

-----------------------------------------------------------------------------
(* The requests of peers, which SfuSignalHandler dispatches.               *)

\* Requests reach the router of the room the peer is in.
Serves(r, n) == \E i \in Room : routerOf[i] = r /\ n \in room[i].peers
Fresh(x) == x.at = "none"

\* closeTransportsForPeer(); orphan marks a transport whose creation is under way.
PeerTransports(r, n) == {t \in Transport :
    transport[t].router = r /\ transport[t].peer = n /\ transport[t].held}

PeerLeaves(i, n) ==
    LET closing == PeerTransports(routerOf[i], n)
    IN /\ Event
       /\ n \in room[i].peers
       /\ room' = [room EXCEPT ![i].peers = @ \ {n}]
       /\ transport' = [t \in Transport |->
             IF t \in closing THEN [transport[t] EXCEPT !.live = FALSE, !.held = FALSE]
             ELSE IF /\ transport[t].at \in {"asked", "limiting"} /\ transport[t].peer = n
                     /\ transport[t].router = routerOf[i]
                  THEN [transport[t] EXCEPT !.orphan = TRUE] ELSE transport[t]]
       /\ CloseEntities(closing)
       /\ UNCHANGED <<poolVars, creation, routerOf, router>>

CreateWebRtcTransport(r, n, t, dir) ==
    /\ Open(r) /\ Serves(r, n) /\ Fresh(transport[t])
    /\ transport' = [transport EXCEPT ![t] = [NewTransport EXCEPT
           !.at = "asked", !.router = r, !.peer = n, !.dir = dir]]
    /\ UNCHANGED <<poolVars, roomVars, producer, consumer, events>>

TransportCreated(t) ==
    /\ transport[t].at = "asked" /\ Answered(t)
    /\ transport' = [transport EXCEPT ![t].live = Open(transport[t].router),
                                      ![t].at = IF LimitBitrate THEN "limiting" ELSE "done",
                                      ![t].held = ~ LimitBitrate]
    /\ UNCHANGED <<poolVars, roomVars, producer, consumer, events>>

\* setMaxIncomingBitrate() has settled, either way.
TransportLimited(t) ==
    /\ transport[t].at = "limiting"
    /\ transport' = [transport EXCEPT ![t].at = "done", ![t].held = TRUE]
    /\ UNCHANGED <<poolVars, roomVars, producer, consumer, events>>

Produce(r, n, t, p) ==
    /\ Open(r) /\ Serves(r, n) /\ Fresh(producer[p])
    /\ t \in PeerTransports(r, n) /\ transport[t].dir # "recv"
    /\ producer' = [producer EXCEPT ![p] = [NewProducer EXCEPT !.at = "asked", !.t = t]]
    /\ UNCHANGED <<poolVars, roomVars, transport, consumer, events>>

\* A producer whose transport closed meanwhile is registered all the same.
Produced(p) ==
    /\ producer[p].at = "asked" /\ Answered(producer[p].t)
    /\ producer' = [producer EXCEPT ![p].at = "done", ![p].held = TRUE,
                                    ![p].live = transport[producer[p].t].live]
    /\ UNCHANGED <<poolVars, roomVars, transport, consumer, events>>

\* (mediasoup refuses a source that is registered but no longer live)
Consume(r, n, t, p, c) ==
    /\ Open(r) /\ Serves(r, n) /\ Fresh(consumer[c])
    /\ producer[p].held /\ producer[p].live /\ transport[producer[p].t].router = r
    /\ t \in PeerTransports(r, n) /\ transport[t].dir # "send"
    /\ consumer' = [consumer EXCEPT ![c] = [NewConsumer EXCEPT
           !.at = "asked", !.t = t, !.source = p]]
    /\ UNCHANGED <<poolVars, roomVars, transport, producer, events>>

\* SfuSignalHandler: one request of peer n to router r.
Dispatch(r, n) == \E t \in Transport :
    \/ \E dir \in Direction : CreateWebRtcTransport(r, n, t, dir)
    \/ \E p \in Producer :
        \/ Produce(r, n, t, p)
        \/ \E c \in Consumer : Consume(r, n, t, p, c)

\* The worker tells of a source that closed after the request.
Consumed(c) ==
    LET live == transport[consumer[c].t].live
    IN /\ consumer[c].at = "asked" /\ Answered(consumer[c].t)
       /\ consumer' = [consumer EXCEPT ![c].at = "done", ![c].held = TRUE, ![c].live = live,
                          ![c].notice = live /\ ~ producer[consumer[c].source].live]
       /\ UNCHANGED <<poolVars, roomVars, transport, producer, events>>

RequestFails ==
    /\ \/ \E t \in Transport : /\ transport[t].at = "asked"
                               /\ transport' = [transport EXCEPT ![t].at = "failed"]
                               /\ UNCHANGED <<producer, consumer>>
       \/ \E p \in Producer : /\ producer[p].at = "asked"
                              /\ producer' = [producer EXCEPT ![p].at = "failed"]
                              /\ UNCHANGED <<transport, consumer>>
       \/ \E c \in Consumer : /\ consumer[c].at = "asked"
                              /\ consumer' = [consumer EXCEPT ![c].at = "failed"]
                              /\ UNCHANGED <<transport, producer>>
    /\ UNCHANGED <<poolVars, roomVars, events>>

\* Mutant of ProducerCloseArrives: nobody listens.
ProducerCloseIgnored(c) ==
    /\ consumer[c].notice
    /\ consumer' = [consumer EXCEPT ![c].notice = FALSE]
    /\ UNCHANGED <<poolVars, roomVars, transport, producer, events>>

\* producerclose closes the consumer, which leaves the router's map.
ProducerCloseArrives(c) ==
    /\ consumer[c].notice
    /\ consumer' = [consumer EXCEPT ![c].live = FALSE, ![c].held = FALSE, ![c].notice = FALSE]
    /\ UNCHANGED <<poolVars, roomVars, transport, producer, events>>

\* MediaEntity.close() by the application.
CloseProducer(p) ==
    /\ Event
    /\ producer[p].held
    /\ producer' = [producer EXCEPT ![p].live = FALSE, ![p].held = FALSE]
    /\ consumer' = [c \in Consumer |-> IF consumer[c].live /\ consumer[c].source = p
                                       THEN [consumer[c] EXCEPT !.notice = TRUE]
                                       ELSE consumer[c]]
    /\ UNCHANGED <<poolVars, roomVars, transport>>

CloseConsumer(c) ==
    /\ Event
    /\ consumer[c].held
    /\ consumer' = [consumer EXCEPT ![c].live = FALSE, ![c].held = FALSE, ![c].notice = FALSE]
    /\ UNCHANGED <<poolVars, roomVars, transport, producer>>

Next ==
    \/ InitReturns \/ InitSpawns \/ SpawnFailsAtStart \/ RespawnFails \/ CloseAll
    \/ \E w \in Worker : SpawnedAtStart(w) \/ Respawned(w) \/ WorkerDies(w)
    \/ \E i \in Room :
        \/ CreationTooLate(i) \/ RoomCloses(i) \/ RoomOpens(i)
        \/ \E w \in Worker : AttachRoom(i, w)
        \/ \E r \in Router : RouterCreated(i, r)
        \/ \E n \in Peer : PeerJoins(i, n) \/ PeerLeaves(i, n)
    \/ \E r \in Router, n \in Peer : Dispatch(r, n)
    \/ \E t \in Transport : TransportCreated(t) \/ TransportLimited(t)
    \/ \E p \in Producer : Produced(p) \/ CloseProducer(p)
    \/ \E c \in Consumer : Consumed(c) \/ ProducerCloseArrives(c) \/ CloseConsumer(c)
    \/ RequestFails

Spec == Init /\ [][Next]_vars
-----------------------------------------------------------------------------
(* Properties.                                                             *)

\* Type invariant; WorkerPool is starting exactly while start() awaits spawns.
TypeOK ==
    /\ pool \in [started : BOOLEAN, starting : BOOLEAN, boot : 0 .. NumWorkers, stray : Nat,
                 closed : BOOLEAN]
    /\ pool.starting = (pool.boot > 0)
    /\ DOMAIN load \subseteq Worker /\ \A w \in DOMAIN load : load[w] \in Nat
    /\ service \in BOOLEAN /\ events \in 0 .. MaxEvents
    /\ room \in [Room -> [open : BOOLEAN, peers : SUBSET Peer]]
    /\ creation \in [Room -> {None} \cup [worker : DOMAIN load, closed : BOOLEAN]]
    /\ routerOf \in [Room -> Router \cup {None}]
    /\ router \in [Router -> [state : {"none", "open", "closed", "dead"},
                              room : Room \cup {None}, worker : Worker \cup {None}]]
    /\ transport \in [Transport ->
          [at : {"none", "asked", "limiting", "done", "failed"}, router : Router \cup {None},
           peer : Peer \cup {None}, dir : Direction, live : BOOLEAN, held : BOOLEAN,
           orphan : BOOLEAN]]
    /\ producer \in [Producer -> [at : {"none", "asked", "done", "failed"},
          t : Transport \cup {None}, live : BOOLEAN, held : BOOLEAN]]
    /\ consumer \in [Consumer -> [at : {"none", "asked", "done", "failed"},
          t : Transport \cup {None}, source : Producer \cup {None},
          live : BOOLEAN, held : BOOLEAN, notice : BOOLEAN]]

\* MediaService hands out only routers that are open, on a live worker and of an open
\* room, whatever closes or dies during their creation and after it; no router runs that
\* it does not know, so a room has one and a closed room none; and the load by which
\* WorkerPool places routers is the number of those that run on each worker.
RoutersFollowRooms ==
    /\ \A i \in Room : routerOf[i] # None =>
          /\ Open(routerOf[i]) /\ router[routerOf[i]].room = i
          /\ router[routerOf[i]].worker \in DOMAIN load
          /\ room[i].open
    /\ \A r \in Router : Open(r) => routerOf[router[r].room] = r
    /\ \A w \in DOMAIN load : load[w] = Cardinality(OpenOn({w}))

\* A peer that leaves takes its transports with it, and these their producers and
\* consumers (transports that were being created when it left aside); and a consumer
\* that runs has a registered source, or the news of its end is on the way, also when
\* the source closes while the consumer is being created.
MediaFollowsPeers ==
    /\ \A t \in Transport : transport[t].held /\ transport[t].live /\ ~ transport[t].orphan =>
          transport[t].peer \in room[RouterOn(t).room].peers
    /\ \A p \in Producer : producer[p].live => transport[producer[p].t].live
    /\ \A c \in Consumer : consumer[c].live =>
          /\ transport[consumer[c].t].live
          /\ producer[consumer[c].source].held \/ consumer[c].notice

\* The following say what the repository says; TLC refutes them (README, section 5).

\* "tears down a peer's media on peerLeft" (media/src/types.ts:22): an open transport of
\* a router belongs to a peer of the room.
LeftPeersHoldNothing ==
    \A t \in Transport : transport[t].held /\ transport[t].live =>
        transport[t].peer \in room[RouterOn(t).room].peers

\* "Closes all workers and empties the pool. Respawning is disabled once closed."
\* (WorkerPool.ts:109)
ClosedPoolIsEmpty == pool.closed => DOMAIN load = {}

\* start() is "safe against concurrent calls; returns once all workers are ready"
\* (WorkerPool.ts:72): MediaService is started only when its pool is.
StartReturnsReady == service => pool.started
=============================================================================
