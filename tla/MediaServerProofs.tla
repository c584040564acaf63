------------------------- MODULE MediaServerProofs -------------------------
(***************************************************************************)
(* Proofs about the media server, for any number of rooms, peers, workers, *)
(* routers, transports, producers and consumers: the shape of the state,   *)
(* that routers and the worker loads follow the rooms, and that transports *)
(* and what runs on them follow the peers.                                 *)
(***************************************************************************)
EXTENDS MediaServer, FiniteSetTheorems, TLAPS

PoolState == [started : BOOLEAN, starting : BOOLEAN, boot : 0 .. NumWorkers, stray : Nat,
              closed : BOOLEAN]
RoomState == [open : BOOLEAN, peers : SUBSET Peer]
RouterState == [state : {"none", "open", "closed", "dead"},
                room : Room \cup {None}, worker : Worker \cup {None}]
TransportState ==
    [at : {"none", "asked", "limiting", "done", "failed"}, router : Router \cup {None},
     peer : Peer \cup {None}, dir : Direction, live : BOOLEAN, held : BOOLEAN, orphan : BOOLEAN]
ProducerState == [at : {"none", "asked", "done", "failed"}, t : Transport \cup {None},
                  live : BOOLEAN, held : BOOLEAN]
ConsumerState == [at : {"none", "asked", "done", "failed"}, t : Transport \cup {None},
                  source : Producer \cup {None}, live : BOOLEAN, held : BOOLEAN,
                  notice : BOOLEAN]

PoolTyping ==
    /\ pool \in PoolState /\ pool.starting = (pool.boot > 0)
    /\ service \in BOOLEAN /\ events \in 0 .. MaxEvents

\* The loads are a function, which TypeOK need not say.
LoadTyping == DOMAIN load \subseteq Worker /\ load \in [DOMAIN load -> Nat]
RoomTyping ==
    /\ room \in [Room -> RoomState]
    /\ creation \in [Room -> {None} \cup [worker : DOMAIN load, closed : BOOLEAN]]
    /\ routerOf \in [Room -> Router \cup {None}]
    /\ router \in [Router -> RouterState]
MediaTyping ==
    /\ transport \in [Transport -> TransportState]
    /\ producer \in [Producer -> ProducerState]
    /\ consumer \in [Consumer -> ConsumerState]

-----------------------------------------------------------------------------
(* The inductive invariant.                                                *)

\* A room with a creation under way has no router yet, and closes only by marking it.
CreationInv ==
    \A i \in Room : creation[i] # None =>
        routerOf[i] = None /\ (creation[i].closed \/ room[i].open)

\* The router of a room, and the room of a router.
RouterOfInv ==
    /\ \A i \in Room : routerOf[i] # None =>
          /\ Open(routerOf[i]) /\ router[routerOf[i]].room = i
          /\ router[routerOf[i]].worker \in DOMAIN load
          /\ room[i].open
    /\ \A r \in Router : Open(r) => router[r].room \in Room /\ routerOf[router[r].room] = r

\* Only finitely many routers run, so that they can be counted.
OpenRouters == {r \in Router : Open(r)}
LoadInv ==
    /\ IsFiniteSet(OpenRouters)
    /\ \A w \in DOMAIN load : load[w] = Cardinality(OpenOn({w}))

\* A router that was never created has no worker.
UnusedInv == \A r \in Router : router[r].state = "none" => router[r].worker = None

\* A transport belongs to a router that was created; only an answered one is live or
\* registered, and a live one runs on an open router.  As long as its router is open, a
\* transport that is being created, or registered, belongs to a peer of the room,
\* unless the peer left during the creation.
TransportInv(t) ==
    LET x == transport[t] IN
    /\ x.at # "none" => x.router \in Router /\ router[x.router].state # "none"
    /\ x.held => x.at = "done"
    /\ x.live => x.at \in {"limiting", "done"} /\ Open(x.router)
    /\ /\ x.at \in {"asked", "limiting"} \/ x.held
       /\ ~ x.orphan /\ Open(x.router)
       => x.peer \in room[router[x.router].room].peers

ProducerInv(p) ==
    LET x == producer[p] IN
    /\ x.at # "none" => x.t \in Transport
    /\ x.held => x.at = "done"
    /\ x.live => x.held /\ transport[x.t].live

\* The source of a consumer was registered once, and stays known as such.
ConsumerInv(c) ==
    LET x == consumer[c] IN
    /\ x.at # "none" => x.t \in Transport /\ x.source \in Producer /\ producer[x.source].at = "done"
    /\ x.live => /\ x.at = "done" /\ transport[x.t].live
                 /\ producer[x.source].held \/ x.notice

RouterInv == CreationInv /\ RouterOfInv /\ LoadInv /\ UnusedInv
MediaInv ==
    /\ \A t \in Transport : TransportInv(t)
    /\ \A p \in Producer : ProducerInv(p)
    /\ \A c \in Consumer : ConsumerInv(c)

Typing == PoolTyping /\ LoadTyping /\ RoomTyping /\ MediaTyping
IndInv == Typing /\ RouterInv /\ MediaInv

\* What the rooms and routers are about, apart from the media.
RoomInv == LoadTyping /\ RoomTyping /\ RouterInv

\* Typing is more than TypeOK.
LEMMA TypingImpliesTypeOK == Typing => TypeOK
BY DEF Typing, PoolTyping, LoadTyping, RoomTyping, MediaTyping, TypeOK, PoolState, RoomState,
       RouterState, TransportState, ProducerState, ConsumerState

\* The initial state satisfies the inductive invariant.
LEMMA InitInv == Init => IndInv
<1> SUFFICES ASSUME Init PROVE IndInv
  OBVIOUS
<1> USE MediaAssumption DEF Init
<1>1. PoolTyping
  <2>1. pool \in PoolState /\ pool.starting = FALSE /\ (pool.boot > 0) = FALSE
    BY DEF PoolState
  <2>2. service \in BOOLEAN
    OBVIOUS
  <2>3. events \in 0 .. MaxEvents
    OBVIOUS
  <2> QED
    BY <2>1, <2>2, <2>3 DEF PoolTyping
<1>2. LoadTyping /\ RoomTyping
  BY DEF LoadTyping, RoomTyping, RoomState, RouterState
<1>3. MediaTyping
  BY DEF MediaTyping, NewTransport, NewProducer, NewConsumer, TransportState, ProducerState,
         ConsumerState, Direction
<1>4. CreationInv /\ RouterOfInv /\ UnusedInv
  BY DEF CreationInv, RouterOfInv, UnusedInv, Open
<1>5. LoadInv
  <2>1. OpenRouters = {}
    BY DEF OpenRouters, Open
  <2> QED
    BY <2>1, FS_EmptySet DEF LoadInv
<1>6. MediaInv
  BY DEF MediaInv, TransportInv, ProducerInv, ConsumerInv, NewTransport, NewProducer, NewConsumer
<1> QED
  BY <1>1, <1>2, <1>3, <1>4, <1>5, <1>6 DEF IndInv, Typing, RouterInv

-----------------------------------------------------------------------------
(* The pool.                                                               *)

\* Assigning a field of the pool.
LEMMA PoolUpdate ==
    ASSUME NEW q \in PoolState
    PROVE  /\ \A b \in BOOLEAN : /\ [q EXCEPT !.started = b] \in PoolState
                                /\ [q EXCEPT !.starting = b] \in PoolState
                                /\ [q EXCEPT !.closed = b] \in PoolState
           /\ \A n \in 0 .. NumWorkers : [q EXCEPT !.boot = n] \in PoolState
           /\ \A n \in Nat : [q EXCEPT !.stray = n] \in PoolState
BY DEF PoolState

\* Every step keeps the shape of the pool, and WorkerPool._starting says whether
\* start() awaits spawns.
LEMMA PoolStep ==
    ASSUME PoolTyping, Next
    PROVE  PoolTyping'
<1> USE MediaAssumption
<1>0. 0 \in 0 .. NumWorkers /\ NumWorkers \in 0 .. NumWorkers
  OBVIOUS
<1>1. ASSUME Event PROVE events' \in 0 .. MaxEvents
  BY <1>1 DEF Event, PoolTyping
<1>2. CASE InitReturns
  BY <1>1, <1>2 DEF InitReturns, PoolTyping
<1>3. CASE InitSpawns
  <2>0. pool \in PoolState
    BY DEF PoolTyping
  <2>1. pool' \in PoolState
    <3>1. pool' = [pool EXCEPT !.starting = TRUE, !.boot = NumWorkers, !.closed = FALSE]
      BY <1>3 DEF InitSpawns
    <3>2. [pool EXCEPT !.starting = TRUE] \in PoolState
      BY <2>0, PoolUpdate
    <3>3. [[pool EXCEPT !.starting = TRUE] EXCEPT !.boot = NumWorkers] \in PoolState
      BY <1>0, <3>2, PoolUpdate, Zenon
    <3> QED
      BY <3>1, <3>3, PoolUpdate
  <2>3. pool'.starting = TRUE /\ (pool'.boot > 0) = TRUE
    BY <2>0, <1>3 DEF InitSpawns, PoolState
  <2>2. service' \in BOOLEAN /\ events' \in 0 .. MaxEvents
    BY <1>1, <1>3 DEF InitSpawns, PoolTyping
  <2> QED
    BY <2>1, <2>2, <2>3 DEF PoolTyping
<1>4. CASE SpawnFailsAtStart
  <2>0. pool \in PoolState
    BY DEF PoolTyping
  <2>1. pool' \in PoolState
    <3>1. /\ pool.boot \in 0 .. NumWorkers /\ pool.stray \in Nat /\ pool.boot > 0
      BY <2>0, <1>4 DEF SpawnFailsAtStart, PoolState
    <3> DEFINE stray == pool.stray + pool.boot - 1
    <3>2. stray \in Nat
      BY <3>1
    <3>3. pool' = [pool EXCEPT !.stray = stray, !.boot = 0, !.starting = FALSE]
      BY <1>4 DEF SpawnFailsAtStart
    <3> HIDE DEF stray
    <3>4. [pool EXCEPT !.stray = stray] \in PoolState
      BY <2>0, <3>2, PoolUpdate
    <3>5. [[pool EXCEPT !.stray = stray] EXCEPT !.boot = 0] \in PoolState
      BY <1>0, <3>4, PoolUpdate, Zenon
    <3> QED
      BY <3>3, <3>5, PoolUpdate
  <2>3. pool'.starting = FALSE /\ (pool'.boot > 0) = FALSE
    BY <2>0, <1>4 DEF SpawnFailsAtStart, PoolState
  <2>2. service' \in BOOLEAN /\ events' \in 0 .. MaxEvents
    BY <1>1, <1>4 DEF SpawnFailsAtStart, PoolTyping
  <2> QED
    BY <2>1, <2>2, <2>3 DEF PoolTyping
<1>5. CASE RespawnFails
  BY <1>1, <1>5 DEF RespawnFails, PoolTyping, PoolState
<1>6. CASE CloseAll
  BY <1>1, <1>6 DEF CloseAll, PoolTyping, PoolState
<1>7. ASSUME NEW w \in Worker, SpawnedAtStart(w) PROVE PoolTyping'
  <2>1. /\ pool \in PoolState /\ pool.boot \in 0 .. NumWorkers /\ pool.boot > 0
        /\ pool.starting \in BOOLEAN /\ pool.starting /\ pool.started \in BOOLEAN
    BY <1>7 DEF SpawnedAtStart, PoolTyping, PoolState
  <2> DEFINE started == pool.started \/ pool.boot = 1
             starting == pool.starting /\ ~ (pool.boot = 1)
  <2>2. pool' = [pool EXCEPT !.boot = @ - 1, !.started = started, !.starting = starting]
    BY <1>7 DEF SpawnedAtStart
  <2>7. started \in BOOLEAN /\ starting \in BOOLEAN /\ (starting <=> pool.boot # 1)
    BY <2>1
  <2> HIDE DEF started, starting
  <2>3. pool' \in PoolState
    <3>1. [pool EXCEPT !.boot = @ - 1] \in PoolState
      BY <2>1, PoolUpdate
    <3>2. [[pool EXCEPT !.boot = @ - 1] EXCEPT !.started = started] \in PoolState
      BY <2>7, <3>1, PoolUpdate
    <3> QED
      BY <2>2, <2>7, <3>2, PoolUpdate
  <2>4. pool'.starting \in BOOLEAN /\ pool'.boot = pool.boot - 1 /\ (pool'.starting <=> pool.boot # 1)
    BY <2>1, <2>2, <2>7 DEF PoolState
  <2>5. pool'.starting = (pool'.boot > 0)
    BY <2>1, <2>4
  <2>6. service' \in BOOLEAN /\ events' \in 0 .. MaxEvents
    BY <1>7 DEF SpawnedAtStart, PoolTyping
  <2> QED
    BY <2>3, <2>5, <2>6 DEF PoolTyping
<1>8. ASSUME NEW w \in Worker, Respawned(w) PROVE PoolTyping'
  BY <1>8 DEF Respawned, PoolTyping, PoolState
<1>9. ASSUME NEW w \in Worker, WorkerDies(w) PROVE PoolTyping'
  BY <1>1, <1>9 DEF WorkerDies, Died, PoolTyping, PoolState
<1>10. CASE UNCHANGED <<pool, service>> /\ (Event \/ UNCHANGED events)
  BY <1>1, <1>10 DEF PoolTyping
<1>11. ASSUME NEW i \in Room,
              CreationTooLate(i) \/ RoomCloses(i) \/ RoomOpens(i)
              \/ (\E w \in Worker : AttachRoom(i, w)) \/ (\E r \in Router : RouterCreated(i, r))
              \/ \E n \in Peer : PeerJoins(i, n) \/ PeerLeaves(i, n)
       PROVE  UNCHANGED <<pool, service>> /\ (Event \/ UNCHANGED events)
  BY <1>11 DEF CreationTooLate, RoomCloses, RoomOpens, AttachRoom, RouterCreated, PeerJoins,
               PeerLeaves, poolVars
<1>12. ASSUME NEW r \in Router, NEW n \in Peer, Dispatch(r, n)
       PROVE  UNCHANGED <<pool, service>> /\ (Event \/ UNCHANGED events)
  BY <1>12 DEF Dispatch, CreateWebRtcTransport, Produce, Consume, poolVars
<1>13. CASE \/ \E t \in Transport : TransportCreated(t) \/ TransportLimited(t)
            \/ \E p \in Producer : Produced(p) \/ CloseProducer(p)
            \/ \E c \in Consumer : Consumed(c) \/ ProducerCloseArrives(c) \/ CloseConsumer(c)
            \/ RequestFails
  BY <1>10, <1>13 DEF TransportCreated, TransportLimited, Produced, CloseProducer, Consumed,
        ProducerCloseArrives, CloseConsumer, RequestFails, poolVars
<1> QED
  BY <1>2, <1>3, <1>4, <1>5, <1>6, <1>7, <1>8, <1>9, <1>10, <1>11, <1>12, <1>13 DEF Next

-----------------------------------------------------------------------------
(* Rooms, routers and loads.                                               *)

\* The facts of RoomInv about one room and one router, typed.
LEMMA RoomFacts ==
    ASSUME RoomInv
    PROVE  /\ DOMAIN load \subseteq Worker /\ load \in [DOMAIN load -> Nat]
           /\ \A i \in Room : /\ room[i] \in RoomState /\ routerOf[i] \in Router \cup {None}
                              /\ creation[i] \in {None} \cup [worker : DOMAIN load, closed : BOOLEAN]
           /\ \A r \in Router : router[r] \in RouterState
           /\ \A r \in Router : Open(r) => router[r].worker \in DOMAIN load
           /\ None \notin Router /\ None \notin Worker
BY MediaAssumption DEF RoomInv, LoadTyping, RoomTyping, RouterInv, RouterOfInv

\* When workers are lost, exactly the rooms whose router ran on them lose it, and what
\* remains is counted as before.
LEMMA LoseWorkersRoom ==
    ASSUME RoomInv, NEW W \in SUBSET DOMAIN load, LoseWorkers(W), UNCHANGED room,
           load' = [v \in DOMAIN load \ W |-> load[v]]
    PROVE  RoomInv'
<1>F. DOMAIN load' = DOMAIN load \ W /\ \A v \in DOMAIN load \ W : load'[v] = load[v]
  OBVIOUS
<1>1. ASSUME NEW r \in Router
      PROVE  /\ router'[r] = IF router[r].worker \in W THEN [router[r] EXCEPT !.state = "dead"]
                             ELSE router[r]
             /\ router'[r] \in RouterState
             /\ router'[r].worker = router[r].worker /\ router'[r].room = router[r].room
             /\ router'[r].state = IF router[r].worker \in W THEN "dead" ELSE router[r].state
  BY RoomFacts DEF LoseWorkers, RouterState
<1>2. ASSUME NEW i \in Room
      PROVE  /\ routerOf'[i] = IF routerOf[i] \in OpenOn(W) THEN None ELSE routerOf[i]
             /\ creation'[i] = IF creation[i] # None /\ creation[i].worker \in W THEN None
                               ELSE creation[i]
  BY DEF LoseWorkers
<1>3. LoadTyping'
  BY RoomFacts, <1>F DEF LoadTyping
<1>4. RoomTyping'
  <2>1. router' \in [Router -> RouterState]
    BY <1>1 DEF LoseWorkers
  <2>2. routerOf' \in [Room -> Router \cup {None}]
    BY RoomFacts DEF LoseWorkers
  <2>3. creation' \in [Room -> {None} \cup [worker : DOMAIN load', closed : BOOLEAN]]
    BY RoomFacts, <1>F DEF LoseWorkers
  <2> QED
    BY <2>1, <2>2, <2>3 DEF RoomTyping, RoomInv
<1>5. \A r \in Router : Open(r)' <=> Open(r) /\ router[r].worker \notin W
  BY <1>1 DEF Open
<1>6. RouterOfInv'
  <2>1. ASSUME NEW i \in Room, routerOf'[i] # None
        PROVE  /\ routerOf'[i] = routerOf[i] /\ router'[routerOf'[i]].state = "open" /\ router'[routerOf'[i]].room = i
               /\ router'[routerOf'[i]].worker \in DOMAIN load' /\ room'[i].open
    <3>1. routerOf'[i] = routerOf[i] /\ routerOf[i] \in Router /\ routerOf[i] \notin OpenOn(W)
      BY <1>2, <2>1, RoomFacts
    <3>2. /\ Open(routerOf[i]) /\ router[routerOf[i]].room = i
          /\ router[routerOf[i]].worker \in DOMAIN load /\ room[i].open
      BY <2>1, <3>1 DEF RoomInv, RouterInv, RouterOfInv
    <3>3. router[routerOf[i]].worker \notin W
      BY <3>1, <3>2 DEF OpenOn
    <3> QED
      BY ZenonT(60), <3>1, <3>2, <3>3, <1>1, <1>5, <1>F DEF Open
  <2>2. ASSUME NEW r \in Router, Open(r)'
        PROVE  router'[r].room \in Room /\ routerOf'[router'[r].room] = r
    <3>1. Open(r) /\ router[r].worker \notin W /\ router'[r].room = router[r].room
      BY <1>1, <1>5, <2>2
    <3>2. router[r].room \in Room /\ routerOf[router[r].room] = r
      BY <3>1 DEF RoomInv, RouterInv, RouterOfInv
    <3> QED
      BY <3>1, <3>2, <1>2 DEF OpenOn
  <2> QED
    BY <2>1, <2>2 DEF RouterOfInv, Open
<1>7. CreationInv'
  BY <1>2 DEF RoomInv, RouterInv, CreationInv
<1>8. LoadInv'
  <2>1. OpenRouters' \subseteq OpenRouters
    BY <1>5 DEF OpenRouters
  <2>2. IsFiniteSet(OpenRouters')
    BY <2>1, FS_Subset DEF RoomInv, RouterInv, LoadInv
  <2>3. ASSUME NEW w \in DOMAIN load' PROVE OpenOn({w})' = OpenOn({w})
    BY <1>1, <1>5, <1>F DEF OpenOn
  <2> QED
    BY <2>2, <2>3, <1>F DEF RoomInv, RouterInv, LoadInv
<1>9. UnusedInv'
  BY <1>1, RoomFacts DEF RoomInv, RouterInv, UnusedInv
<1> QED
  BY <1>3, <1>4, <1>6, <1>7, <1>8, <1>9 DEF RoomInv, RouterInv

\* A worker that is up has no load.
LEMMA SpawnRoom ==
    ASSUME RoomInv, NEW w \in Worker \ DOMAIN load, UNCHANGED roomVars,
           load' = [v \in DOMAIN load \cup {w} |-> IF v = w THEN 0 ELSE load[v]]
    PROVE  RoomInv'
<1>F. /\ DOMAIN load' = DOMAIN load \cup {w} /\ load'[w] = 0
      /\ \A v \in DOMAIN load : load'[v] = load[v]
  OBVIOUS
<1>U. room' = room /\ creation' = creation /\ routerOf' = routerOf /\ router' = router
  BY DEF roomVars
<1>1. LoadTyping' /\ RoomTyping'
  BY <1>F, <1>U, RoomFacts DEF LoadTyping, RoomTyping, RoomInv
<1>2. CreationInv' /\ RouterOfInv' /\ UnusedInv'
  BY <1>F, <1>U DEF RoomInv, RouterInv, CreationInv, RouterOfInv, UnusedInv, Open
<1>3. LoadInv'
  <2>1. OpenRouters' = OpenRouters
    BY <1>U DEF OpenRouters, Open
  <2>2. OpenOn({w}) = {}
    BY RoomFacts DEF OpenOn
  <2>3. \A v \in DOMAIN load' : OpenOn({v})' = OpenOn({v})
    BY <1>U DEF OpenOn, Open
  <2> QED
    BY <2>1, <2>2, <2>3, <1>F, FS_EmptySet DEF RoomInv, RouterInv, LoadInv
<1> QED
  BY <1>1, <1>2, <1>3 DEF RoomInv, RouterInv

\* createRouter() answered for a room that is still open: the room has its router, and
\* its worker one more.
LEMMA CreatedRoom ==
    ASSUME RoomInv, NEW i \in Room, NEW r \in Router, RouterCreated(i, r)
    PROVE  RoomInv'
<1> PICK w \in DOMAIN load : w = creation[i].worker
  BY RoomFacts DEF RouterCreated
<1>F. /\ room[i].open /\ routerOf[i] = None
      /\ router[r].state = "none" /\ router[r].worker = None
  BY RoomFacts DEF RouterCreated, RoomInv, RouterInv, CreationInv, UnusedInv
<1>N. DOMAIN load' = DOMAIN load /\ load' = [load EXCEPT ![w] = @ + 1] /\ UNCHANGED room
  BY <1>F, RoomFacts DEF RouterCreated
<1>1. /\ router'[r] = [state |-> "open", room |-> i, worker |-> w]
      /\ \A k \in Router \ {r} : router'[k] = router[k]
      /\ routerOf'[i] = r /\ \A j \in Room \ {i} : routerOf'[j] = routerOf[j]
      /\ creation'[i] = None /\ \A j \in Room \ {i} : creation'[j] = creation[j]
  BY DEF RouterCreated, RoomInv, RoomTyping
<1>2. LoadTyping'
  BY RoomFacts, <1>F, <1>N DEF LoadTyping
<1>3. RoomTyping'
  <2>1. [state |-> "open", room |-> i, worker |-> w] \in RouterState
    BY <1>F, RoomFacts DEF RouterState
  <2> QED
    BY <2>1, <1>N DEF RouterCreated, RoomInv, RoomTyping
<1>4. Open(r)' /\ ~ Open(r) /\ \A k \in Router \ {r} : Open(k)' <=> Open(k)
  BY <1>1, <1>F DEF Open
<1>5. RouterOfInv'
  <2>1. ASSUME NEW j \in Room, routerOf'[j] # None
        PROVE  /\ router'[routerOf'[j]].state = "open" /\ router'[routerOf'[j]].room = j
               /\ router'[routerOf'[j]].worker \in DOMAIN load' /\ room'[j].open
    <3>1. CASE j = i
      BY <3>1, <1>1, <1>F, <1>N
    <3>2. CASE j # i
      <4>1. /\ routerOf'[j] = routerOf[j] /\ routerOf[j] \in Router /\ Open(routerOf[j])
            /\ router[routerOf[j]].room = j /\ router[routerOf[j]].worker \in DOMAIN load
            /\ room[j].open
        BY <2>1, <3>2, <1>1, RoomFacts DEF RoomInv, RouterInv, RouterOfInv
      <4> QED
        BY <4>1, <1>1, <1>F, <1>N DEF Open
    <3> QED
      BY <3>1, <3>2
  <2>2. ASSUME NEW k \in Router, Open(k)'
        PROVE  router'[k].room \in Room /\ routerOf'[router'[k].room] = k
    <3>1. CASE k = r
      BY <3>1, <1>1
    <3>2. CASE k # r
      <4>1. router[k].room \in Room /\ routerOf[router[k].room] = k /\ router'[k] = router[k]
        BY <2>2, <3>2, <1>1, <1>4 DEF RoomInv, RouterInv, RouterOfInv
      <4>2. router[k].room # i
        BY <4>1, <1>F, RoomFacts
      <4> QED
        BY <4>1, <4>2, <1>1
    <3> QED
      BY <3>1, <3>2
  <2> QED
    BY <2>1, <2>2 DEF RouterOfInv, Open
<1>6. CreationInv'
  BY <1>1, <1>N DEF RoomInv, RouterInv, CreationInv
<1>7. LoadInv'
  <2>1. OpenRouters' = OpenRouters \cup {r} /\ r \notin OpenRouters
    BY <1>4 DEF OpenRouters
  <2>2. IsFiniteSet(OpenRouters) /\ IsFiniteSet(OpenRouters')
    BY <2>1, FS_AddElement DEF RoomInv, RouterInv, LoadInv
  <2>3. ASSUME NEW v \in DOMAIN load, v # w PROVE OpenOn({v})' = OpenOn({v})
    <3>1. \A k \in Router : k \in OpenOn({v})' <=> k \in OpenOn({v})
      BY <2>3, <1>1, <1>4 DEF OpenOn
    <3>2. OpenOn({v})' \subseteq Router /\ OpenOn({v}) \subseteq Router
      BY DEF OpenOn
    <3> QED
      BY <3>1, <3>2
  <2>4. OpenOn({w})' = OpenOn({w}) \cup {r} /\ r \notin OpenOn({w})
    <3>1. \A k \in Router : k \in OpenOn({w})' <=> k \in OpenOn({w}) \/ k = r
      BY <1>1, <1>4 DEF OpenOn
    <3>2. OpenOn({w})' \subseteq Router /\ OpenOn({w}) \subseteq Router
      BY DEF OpenOn
    <3> QED
      BY <3>1, <3>2, <1>4 DEF OpenOn
  <2>5. IsFiniteSet(OpenOn({w}))
    BY <2>2, FS_Subset DEF OpenOn, OpenRouters
  <2>6. Cardinality(OpenOn({w})') = Cardinality(OpenOn({w})) + 1
    BY <2>4, <2>5, FS_AddElement
  <2>7. load'[w] = load[w] + 1 /\ \A v \in DOMAIN load : v # w => load'[v] = load[v]
    BY <1>N, <1>F, RoomFacts
  <2>8. \A v \in DOMAIN load : load[v] = Cardinality(OpenOn({v}))
    BY DEF RoomInv, RouterInv, LoadInv
  <2>9. ASSUME NEW v \in DOMAIN load' PROVE load'[v] = Cardinality(OpenOn({v})')
    BY <2>3, <2>6, <2>7, <2>8, <1>N
  <2> QED
    BY <2>2, <2>9 DEF LoadInv
<1>8. UnusedInv'
  BY <1>1 DEF RoomInv, RouterInv, UnusedInv
<1> QED
  BY <1>2, <1>3, <1>5, <1>6, <1>7, <1>8 DEF RoomInv, RouterInv

\* A room that closes takes its router along, and a creation under way will not give
\* it another.
LEMMA ClosedRoom ==
    ASSUME RoomInv, NEW i \in Room, RoomCloses(i)
    PROVE  RoomInv'
<1>1. /\ room'[i] = [open |-> FALSE, peers |-> {}] /\ \A j \in Room \ {i} : room'[j] = room[j]
      /\ room' \in [Room -> RoomState]
  BY DEF RoomCloses, RoomInv, RoomTyping, RoomState
<1>2. /\ routerOf'[i] = None /\ \A j \in Room \ {i} : routerOf'[j] = routerOf[j]
      /\ routerOf' \in [Room -> Router \cup {None}]
  BY DEF RoomCloses, RoomInv, RoomTyping
<1>3. /\ creation' \in [Room -> {None} \cup [worker : DOMAIN load, closed : BOOLEAN]]
      /\ creation'[i] # None => creation[i] # None /\ creation'[i].closed
      /\ \A j \in Room \ {i} : creation'[j] = creation[j]
  <2>1. creation' = [creation EXCEPT ![i] = IF creation[i] = None THEN None
                                            ELSE [creation[i] EXCEPT !.closed = TRUE]]
    BY DEF RoomCloses
  <2>2. creation \in [Room -> {None} \cup [worker : DOMAIN load, closed : BOOLEAN]]
    BY DEF RoomInv, RoomTyping
  <2> QED
    BY <2>1, <2>2
<1>4. CreationInv'
  BY <1>1, <1>2, <1>3 DEF RoomInv, RouterInv, CreationInv
<1>5. CASE routerOf[i] = None
  <2>1. UNCHANGED <<load, router>>
    BY <1>5 DEF RoomCloses
  <2>2. routerOf' = routerOf
    BY <1>5 DEF RoomCloses, RoomInv, RoomTyping
  <2>3. LoadTyping' /\ RoomTyping' /\ UnusedInv'
    BY <1>1, <1>2, <1>3, <2>1 DEF RoomInv, RouterInv, LoadTyping, RoomTyping, UnusedInv
  <2>4. RouterOfInv'
    BY <1>1, <1>5, <2>1, <2>2 DEF RoomInv, RouterInv, RouterOfInv, Open
  <2>5. LoadInv'
    BY <2>1 DEF RoomInv, RouterInv, LoadInv, OpenRouters, OpenOn, Open
  <2> QED
    BY <1>4, <2>3, <2>4, <2>5 DEF RoomInv, RouterInv
<1>6. CASE routerOf[i] # None
  <2> PICK r \in Router : r = routerOf[i]
    BY <1>6, RoomFacts
  <2> PICK w \in DOMAIN load : w = router[r].worker
    BY <1>6 DEF RoomInv, RouterInv, RouterOfInv
  <2>1. Open(r) /\ router[r].room = i
    BY <1>6 DEF RoomInv, RouterInv, RouterOfInv
  <2>2. router' = [router EXCEPT ![r].state = "closed"] /\ load' = Unloaded(w)
    BY <1>6 DEF RoomCloses, CloseRouter
  <2>3. /\ router' \in [Router -> RouterState]
        /\ router'[r].state = "closed" /\ router'[r].room = i
        /\ \A k \in Router \ {r} : router'[k] = router[k]
    BY <2>1, <2>2 DEF RoomInv, RoomTyping, RouterState
  <2>4. /\ DOMAIN load' = DOMAIN load /\ load' \in [DOMAIN load -> Nat]
        /\ \A v \in DOMAIN load : v # w => load'[v] = load[v]
        /\ load'[w] = IF load[w] = 0 THEN 0 ELSE load[w] - 1
    BY <2>2, RoomFacts DEF Unloaded
  <2>5. LoadTyping' /\ RoomTyping' /\ UnusedInv'
    BY <1>1, <1>2, <1>3, <2>3, <2>4 DEF RoomInv, RouterInv, LoadTyping, RoomTyping, UnusedInv
  <2>6. ~ Open(r)' /\ \A k \in Router \ {r} : Open(k)' <=> Open(k)
    BY <2>3 DEF Open
  <2>7. RouterOfInv'
    <3>1. ASSUME NEW j \in Room, routerOf'[j] # None
          PROVE  /\ router'[routerOf'[j]].state = "open" /\ router'[routerOf'[j]].room = j
                 /\ router'[routerOf'[j]].worker \in DOMAIN load' /\ room'[j].open
      <4>1. j # i /\ routerOf'[j] = routerOf[j] /\ routerOf[j] \in Router
        BY <3>1, <1>2, RoomFacts
      <4>2. /\ Open(routerOf[j]) /\ router[routerOf[j]].room = j
            /\ router[routerOf[j]].worker \in DOMAIN load /\ room[j].open
        BY <3>1, <4>1 DEF RoomInv, RouterInv, RouterOfInv
      <4>3. routerOf[j] # r
        BY <4>1, <4>2, <2>1
      <4> QED
        BY <4>1, <4>2, <4>3, <2>3, <2>4, <1>1 DEF Open
    <3>2. ASSUME NEW k \in Router, Open(k)'
          PROVE  router'[k].room \in Room /\ routerOf'[router'[k].room] = k
      <4>1. k # r /\ Open(k) /\ router'[k] = router[k]
        BY <3>2, <2>3, <2>6
      <4>2. router[k].room \in Room /\ routerOf[router[k].room] = k
        BY <4>1 DEF RoomInv, RouterInv, RouterOfInv
      <4> QED
        BY <4>1, <4>2, <1>2
    <3> QED
      BY <3>1, <3>2 DEF RouterOfInv, Open
  <2>8. LoadInv'
    <3>1. OpenRouters' = OpenRouters \ {r}
      BY <2>6 DEF OpenRouters
    <3>2. IsFiniteSet(OpenRouters) /\ IsFiniteSet(OpenRouters')
      BY <3>1, FS_RemoveElement DEF RoomInv, RouterInv, LoadInv
    <3>3. ASSUME NEW v \in DOMAIN load, v # w PROVE OpenOn({v})' = OpenOn({v})
      <4>1. \A k \in Router : k \in OpenOn({v})' <=> k \in OpenOn({v})
        BY <3>3, <2>3, <2>6 DEF OpenOn
      <4>2. OpenOn({v})' \subseteq Router /\ OpenOn({v}) \subseteq Router
        BY DEF OpenOn
      <4> QED
        BY <4>1, <4>2
    <3>4. OpenOn({w})' = OpenOn({w}) \ {r} /\ r \in OpenOn({w})
      <4>1. \A k \in Router : k \in OpenOn({w})' <=> k \in OpenOn({w}) /\ k # r
        BY <2>3, <2>6 DEF OpenOn
      <4>2. OpenOn({w})' \subseteq Router /\ OpenOn({w}) \subseteq Router /\ r \in OpenOn({w})
        BY <2>1 DEF OpenOn
      <4> QED
        BY <4>1, <4>2
    <3>5. IsFiniteSet(OpenOn({w}))
      BY <3>2, FS_Subset DEF OpenOn, OpenRouters
    <3>6. Cardinality(OpenOn({w})') = Cardinality(OpenOn({w})) - 1
      BY ZenonT(60), <3>4, <3>5, FS_RemoveElement
    <3>7. Cardinality(OpenOn({w})) \in Nat /\ Cardinality(OpenOn({w})) # 0
      BY <3>4, <3>5, FS_EmptySet, FS_CardinalityType
    <3>8. \A v \in DOMAIN load : load[v] = Cardinality(OpenOn({v}))
      BY DEF RoomInv, RouterInv, LoadInv
    <3>9. ASSUME NEW v \in DOMAIN load' PROVE load'[v] = Cardinality(OpenOn({v})')
      BY ZenonT(60), <3>3, <3>6, <3>7, <3>8, <2>4
    <3> QED
      BY <3>2, <3>9 DEF LoadInv
  <2> QED
    BY <1>4, <2>5, <2>7, <2>8 DEF RoomInv, RouterInv
<1> QED
  BY <1>5, <1>6

\* Every step keeps the invariant of rooms, routers and loads.
LEMMA RoomStep ==
    ASSUME RoomInv, Next
    PROVE  RoomInv'
<1>1. ASSUME UNCHANGED <<load, roomVars>> PROVE RoomInv'
  BY <1>1 DEF RoomInv, LoadTyping, RoomTyping, RouterInv, CreationInv, RouterOfInv, LoadInv,
              UnusedInv, OpenRouters, OpenOn, Open, roomVars
<1>2. CASE InitReturns \/ InitSpawns \/ SpawnFailsAtStart \/ RespawnFails
  BY <1>1, <1>2 DEF InitReturns, InitSpawns, SpawnFailsAtStart, RespawnFails
<1>3. CASE CloseAll
  <2>1. LoseWorkers(DOMAIN load) /\ UNCHANGED room
        /\ load' = [v \in DOMAIN load \ DOMAIN load |-> load[v]]
    BY <1>3 DEF CloseAll
  <2> QED
    BY <2>1, LoseWorkersRoom
<1>4. ASSUME NEW w \in Worker, SpawnedAtStart(w) \/ Respawned(w) PROVE RoomInv'
  BY <1>4, SpawnRoom DEF SpawnedAtStart, Respawned
<1>5. ASSUME NEW w \in Worker, WorkerDies(w) PROVE RoomInv'
  BY <1>5, LoseWorkersRoom DEF WorkerDies
<1>6. ASSUME NEW i \in Room, CreationTooLate(i) PROVE RoomInv'
  <2>1. /\ creation' = [creation EXCEPT ![i] = None]
        /\ UNCHANGED <<load, room, routerOf, router>>
    BY <1>6 DEF CreationTooLate, poolVars
  <2> QED
    BY <2>1 DEF RoomInv, LoadTyping, RoomTyping, RouterInv, CreationInv, RouterOfInv, LoadInv,
                UnusedInv, OpenRouters, OpenOn, Open
<1>7. ASSUME NEW i \in Room, RoomOpens(i) PROVE RoomInv'
  <2>1. room' = [room EXCEPT ![i].open = TRUE] /\ UNCHANGED <<load, creation, routerOf, router>>
    BY <1>7 DEF RoomOpens, poolVars
  <2>2. room' \in [Room -> RoomState] /\ \A j \in Room : room[j].open => room'[j].open
    BY <2>1 DEF RoomInv, RoomTyping, RoomState
  <2> QED
    BY <2>1, <2>2 DEF RoomInv, LoadTyping, RoomTyping, RouterInv, CreationInv, RouterOfInv,
                LoadInv, UnusedInv, OpenRouters, OpenOn, Open
<1>8. ASSUME NEW i \in Room, NEW n \in Peer, PeerJoins(i, n) \/ PeerLeaves(i, n) PROVE RoomInv'
  <2>1. /\ \E P \in SUBSET Peer : room' = [room EXCEPT ![i].peers = P]
        /\ UNCHANGED <<load, creation, routerOf, router>>
    BY <1>8 DEF PeerJoins, PeerLeaves, poolVars, RoomInv, RoomTyping, RoomState
  <2>2. room' \in [Room -> RoomState] /\ \A j \in Room : room'[j].open = room[j].open
    BY <2>1 DEF RoomInv, RoomTyping, RoomState
  <2> QED
    BY <2>1, <2>2 DEF RoomInv, LoadTyping, RoomTyping, RouterInv, CreationInv, RouterOfInv,
                LoadInv, UnusedInv, OpenRouters, OpenOn, Open
<1>9. ASSUME NEW i \in Room, NEW w \in Worker, AttachRoom(i, w) PROVE RoomInv'
  <2>1. /\ creation' = [creation EXCEPT ![i] = [worker |-> w, closed |-> FALSE]]
        /\ UNCHANGED <<load, room, routerOf, router>>
        /\ w \in DOMAIN load /\ room[i].open /\ routerOf[i] = None
    BY <1>9 DEF AttachRoom, poolVars
  <2>2. CreationInv' /\ RoomTyping'
    BY <2>1 DEF RoomInv, RoomTyping, RouterInv, CreationInv
  <2> QED
    BY <2>1, <2>2 DEF RoomInv, LoadTyping, RouterInv, RouterOfInv, LoadInv, UnusedInv,
                OpenRouters, OpenOn, Open
<1>10. ASSUME NEW r \in Router, NEW n \in Peer, Dispatch(r, n) PROVE RoomInv'
  BY <1>1, <1>10 DEF Dispatch, CreateWebRtcTransport, Produce, Consume, poolVars
<1>11. CASE \/ \E t \in Transport : TransportCreated(t) \/ TransportLimited(t)
            \/ \E p \in Producer : Produced(p) \/ CloseProducer(p)
            \/ \E c \in Consumer : Consumed(c) \/ ProducerCloseArrives(c) \/ CloseConsumer(c)
            \/ RequestFails
  BY <1>1, <1>11 DEF TransportCreated, TransportLimited, Produced, CloseProducer, Consumed,
        ProducerCloseArrives, CloseConsumer, RequestFails, poolVars
<1> QED
  BY <1>2, <1>3, <1>4, <1>5, <1>6, <1>7, <1>8, <1>9, <1>10, <1>11, CreatedRoom, ClosedRoom DEF Next

-----------------------------------------------------------------------------
(* Transports, producers and consumers.                                    *)

\* What a step of rooms and routers leaves alone: created routers stay created, no
\* router that was created opens again, and those that are still open keep their room
\* and the peers in it.
RoutersKept(R) ==
    \A r \in Router :
        /\ router[r].state # "none" => router'[r].state # "none"
        /\ router[r].state # "none" /\ Open(r)' => Open(r) /\ r \notin R
        /\ Open(r) /\ r \notin R => Open(r)'
        /\ Open(r) /\ Open(r)' =>
              room[router[r].room].peers \subseteq room'[router'[r].room].peers

\* A step that touches no media keeps its invariant.
LEMMA MediaFrame ==
    ASSUME IndInv, UNCHANGED mediaVars, RoutersKept({})
    PROVE  MediaTyping' /\ MediaInv'
<1>1. transport' = transport /\ producer' = producer /\ consumer' = consumer
  BY DEF mediaVars
<1>2. ASSUME NEW t \in Transport PROVE TransportInv(t)'
  <2>1. TransportInv(t) /\ transport'[t] = transport[t] /\ transport[t] \in TransportState
    BY <1>1 DEF IndInv, Typing, MediaTyping, MediaInv
  <2>2. CASE transport[t].at = "none"
    BY <2>1, <2>2 DEF TransportInv
  <2>3. CASE transport[t].at # "none"
    <3>1. transport[t].router \in Router /\ router[transport[t].router].state # "none"
      BY <2>1, <2>3 DEF TransportInv
    <3> QED
      BY <2>1, <3>1 DEF TransportInv, RoutersKept
  <2> QED
    BY <2>2, <2>3
<1>3. (\A p \in Producer : ProducerInv(p)') /\ (\A c \in Consumer : ConsumerInv(c)')
  BY <1>1 DEF IndInv, MediaInv, ProducerInv, ConsumerInv
<1> QED
  BY <1>1, <1>2, <1>3 DEF IndInv, Typing, MediaTyping, MediaInv

\* Closing the entities on the transports T, and no other transport, keeps the
\* invariants of producers and consumers: a consumer elsewhere is told.
LEMMA CloseEntitiesInv ==
    ASSUME IndInv, NEW T \in SUBSET Transport, CloseEntities(T),
           \A t \in Transport \ T : transport[t].live => transport'[t].live
    PROVE  /\ producer' \in [Producer -> ProducerState] /\ consumer' \in [Consumer -> ConsumerState]
           /\ (\A p \in Producer : ProducerInv(p)') /\ (\A c \in Consumer : ConsumerInv(c)')
<1>T. /\ \A p \in Producer : producer[p] \in ProducerState /\ ProducerInv(p)
      /\ \A c \in Consumer : consumer[c] \in ConsumerState /\ ConsumerInv(c)
  BY DEF IndInv, Typing, MediaTyping, MediaInv
<1> DEFINE Gone(p) == producer[p].live /\ producer[p].t \in T
<1>1. ASSUME NEW p \in Producer
      PROVE  /\ producer'[p] \in ProducerState
             /\ producer'[p].at = producer[p].at /\ producer'[p].t = producer[p].t
             /\ Gone(p) => ~ producer'[p].live /\ ~ producer'[p].held
             /\ ~ Gone(p) => producer'[p] = producer[p]
  BY <1>T DEF CloseEntities, ProducerState
<1>2. ASSUME NEW c \in Consumer
      PROVE  /\ consumer'[c] \in ConsumerState
             /\ consumer'[c].at = consumer[c].at /\ consumer'[c].t = consumer[c].t
             /\ consumer'[c].source = consumer[c].source
             /\ consumer'[c].live => consumer[c].live /\ consumer[c].t \notin T
             /\ consumer'[c].live /\ consumer[c].notice => consumer'[c].notice
             /\ consumer'[c].live /\ consumer[c].source \in Producer /\ Gone(consumer[c].source)
                   => consumer'[c].notice
  BY <1>T DEF CloseEntities, ConsumerState
<1>3. producer' \in [Producer -> ProducerState]
  BY <1>1 DEF CloseEntities
<1>4. consumer' \in [Consumer -> ConsumerState]
  <2>1. consumer' = [c \in Consumer |-> consumer'[c]]
    BY DEF CloseEntities
  <2> QED
    BY <1>2, <2>1
<1>5. ASSUME NEW p \in Producer PROVE ProducerInv(p)'
  <2>1. ProducerInv(p)
    BY <1>T
  <2>2. producer'[p].live => /\ ~ Gone(p) /\ producer[p].live /\ producer[p].t \in Transport
    BY <1>1, <1>T DEF ProducerInv
  <2> QED
    BY <1>1, <2>1, <2>2 DEF ProducerInv
<1>6. ASSUME NEW c \in Consumer PROVE ConsumerInv(c)'
  <2>1. ConsumerInv(c)
    BY <1>T
  <2>2. consumer'[c].at # "none" =>
            /\ consumer'[c].t \in Transport /\ consumer'[c].source \in Producer
            /\ producer'[consumer'[c].source].at = "done"
    BY <1>1, <1>2, <2>1 DEF ConsumerInv
  <2>3. ASSUME consumer'[c].live
        PROVE  /\ consumer'[c].at = "done" /\ transport'[consumer'[c].t].live
               /\ producer'[consumer'[c].source].held \/ consumer'[c].notice
    <3>1. /\ consumer[c].live /\ consumer[c].t \in Transport \ T /\ consumer[c].source \in Producer
          /\ consumer[c].at = "done"
      BY <1>2, <2>1, <2>3 DEF ConsumerInv
    <3>2. transport[consumer[c].t].live /\ (producer[consumer[c].source].held \/ consumer[c].notice)
      BY <2>1, <3>1 DEF ConsumerInv
    <3> HIDE DEF Gone
    <3> QED
      BY <1>1, <1>2, <2>3, <3>1, <3>2
  <2> QED
    BY <2>2, <2>3 DEF ConsumerInv
<1> QED
  BY <1>3, <1>4, <1>5, <1>6

\* Closing routers with all their transports, those under way included, keeps the
\* invariants of media.
LEMMA CloseTransportsInv ==
    ASSUME IndInv, NEW R \in SUBSET Router, CloseTransports(TransportsOf(R)), RoutersKept(R)
    PROVE  MediaTyping' /\ MediaInv'
<1> DEFINE T == TransportsOf(R)
<1>1. T \in SUBSET Transport /\ CloseEntities(T)
  BY DEF TransportsOf, CloseTransports
<1>2. ASSUME NEW t \in Transport
      PROVE  /\ transport'[t] \in TransportState
             /\ \A f \in {"at", "router", "peer", "orphan"} : transport'[t][f] = transport[t][f]
             /\ t \in T => ~ transport'[t].live /\ ~ transport'[t].held
             /\ t \notin T => transport'[t] = transport[t]
  BY ZenonT(60) DEF CloseTransports, TransportState, IndInv, Typing, MediaTyping
<1>3. transport' \in [Transport -> TransportState]
  BY <1>2 DEF CloseTransports
<1>4. ASSUME NEW t \in Transport PROVE TransportInv(t)'
  <2>1. TransportInv(t)
    BY DEF IndInv, MediaInv
  <2>2. CASE transport[t].at = "none"
    BY <1>2, <2>1, <2>2 DEF TransportInv
  <2>3. CASE transport[t].at # "none"
    <3>1. transport[t].router \in Router /\ router[transport[t].router].state # "none"
      BY <2>1, <2>3 DEF TransportInv
    <3>2. t \in T <=> transport[t].router \in R
      BY DEF TransportsOf
    <3>3. CASE t \in T
      <4>1. router'[transport[t].router].state # "open"
        BY <3>1, <3>2, <3>3 DEF RoutersKept, Open
      <4> QED
        BY <1>2, <2>1, <3>1, <3>3, <4>1 DEF TransportInv, RoutersKept, Open
    <3>4. CASE t \notin T
      BY <1>2, <2>1, <3>1, <3>2, <3>4 DEF TransportInv, RoutersKept
    <3> QED
      BY <3>3, <3>4
  <2> QED
    BY <2>2, <2>3
<1> HIDE DEF T
<1>5. /\ producer' \in [Producer -> ProducerState] /\ consumer' \in [Consumer -> ConsumerState]
      /\ (\A p \in Producer : ProducerInv(p)') /\ (\A c \in Consumer : ConsumerInv(c)')
  BY <1>1, <1>2, CloseEntitiesInv
<1> QED
  BY <1>3, <1>4, <1>5 DEF MediaTyping, MediaInv

\* Lost workers close the media of their routers.
LEMMA LoseWorkersMedia ==
    ASSUME IndInv, NEW W \in SUBSET DOMAIN load, LoseWorkers(W), UNCHANGED room
    PROVE  MediaTyping' /\ MediaInv'
<1>1. OpenOn(W) \in SUBSET Router /\ CloseTransports(TransportsOf(OpenOn(W)))
  BY DEF LoseWorkers, OpenOn
<1>2. RoutersKept(OpenOn(W))
  <2> SUFFICES ASSUME NEW r \in Router
               PROVE  /\ router[r].state # "none" => router'[r].state # "none"
                      /\ Open(r)' => Open(r) /\ r \notin OpenOn(W)
                      /\ Open(r) /\ r \notin OpenOn(W) => Open(r)'
                      /\ Open(r) /\ Open(r)' => router'[r] = router[r]
    BY DEF RoutersKept
  <2>1. router'[r] = IF router[r].worker \in W THEN [router[r] EXCEPT !.state = "dead"]
                     ELSE router[r]
    BY DEF LoseWorkers
  <2>2. router[r] \in RouterState
    BY DEF IndInv, Typing, RoomTyping
  <2> QED
    BY <2>1, <2>2 DEF OpenOn, Open, RouterState
<1> QED
  BY <1>1, <1>2, CloseTransportsInv

\* A room that closes takes the media of its router along, and leaves no peer behind
\* on another.
LEMMA RoomClosesMedia ==
    ASSUME IndInv, NEW i \in Room, RoomCloses(i)
    PROVE  MediaTyping' /\ MediaInv'
<1>R. RoomInv
  BY DEF IndInv, Typing, RoomInv
<1>1. \A j \in Room \ {i} : room'[j] = room[j]
  BY <1>R DEF RoomCloses, RoomInv, RoomTyping
<1>2. \A r \in Router : Open(r) => router[r].room \in Room /\ routerOf[router[r].room] = r
  BY DEF IndInv, RouterInv, RouterOfInv
<1>3. CASE routerOf[i] = None
  <2>1. UNCHANGED <<router, mediaVars>>
    BY <1>3 DEF RoomCloses
  <2>2. \A r \in Router : Open(r) => router[r].room # i
    BY <1>2, <1>3, <1>R, RoomFacts
  <2>3. RoutersKept({})
    BY <2>1, <2>2, <1>1, <1>2 DEF RoutersKept, Open
  <2> QED
    BY <2>1, <2>3, MediaFrame
<1>4. CASE routerOf[i] # None
  <2> PICK r \in Router : r = routerOf[i]
    BY <1>4, <1>R, RoomFacts
  <2>1. router' = [router EXCEPT ![r].state = "closed"] /\ CloseTransports(TransportsOf({r}))
    BY <1>4 DEF RoomCloses, CloseRouter
  <2>2. router'[r].state = "closed" /\ \A k \in Router \ {r} : router'[k] = router[k]
    BY <2>1, <1>R DEF RoomInv, RoomTyping, RouterState
  <2>3. \A k \in Router \ {r} : Open(k) => router[k].room # i
    BY <1>2
  <2>4. RoutersKept({r})
    BY <2>2, <2>3, <1>1, <1>2 DEF RoutersKept, Open
  <2> QED
    BY <2>1, <2>4, CloseTransportsInv
<1> QED
  BY <1>3, <1>4

\* A peer that leaves takes its registered transports along and marks those that are
\* being created.
LEMMA PeerLeavesMedia ==
    ASSUME IndInv, NEW i \in Room, NEW n \in Peer, PeerLeaves(i, n)
    PROVE  MediaTyping' /\ MediaInv'
<1> DEFINE T == PeerTransports(routerOf[i], n)
           Marked(t) == /\ transport[t].at \in {"asked", "limiting"} /\ transport[t].peer = n
                        /\ transport[t].router = routerOf[i]
<1>0. transport' = [t \in Transport |->
             IF t \in T THEN [transport[t] EXCEPT !.live = FALSE, !.held = FALSE]
             ELSE IF Marked(t) THEN [transport[t] EXCEPT !.orphan = TRUE] ELSE transport[t]]
  BY DEF PeerLeaves
<1>1. T \in SUBSET Transport /\ CloseEntities(T) /\ UNCHANGED router
  BY DEF PeerTransports, PeerLeaves
<1>2. ASSUME NEW t \in Transport
      PROVE  /\ transport'[t] \in TransportState
             /\ \A f \in {"at", "router", "peer"} : transport'[t][f] = transport[t][f]
             /\ t \in T => ~ transport'[t].live /\ ~ transport'[t].held
             /\ t \notin T => /\ transport'[t].live = transport[t].live
                              /\ transport'[t].held = transport[t].held
             /\ ~ transport'[t].orphan => ~ transport[t].orphan
             /\ ~ transport'[t].orphan /\ t \notin T => ~ Marked(t)
  <2>0. transport[t] \in TransportState
    BY DEF IndInv, Typing, MediaTyping
  <2> HIDE DEF T, Marked
  <2>1. CASE t \in T
    <3>1. transport'[t] = [transport[t] EXCEPT !.live = FALSE, !.held = FALSE]
      BY <2>1, <1>0
    <3> QED
      BY <2>0, <2>1, <3>1 DEF TransportState
  <2>2. CASE t \notin T /\ Marked(t)
    <3>1. transport'[t] = [transport[t] EXCEPT !.orphan = TRUE]
      BY <2>2, <1>0
    <3> QED
      BY <2>0, <2>2, <3>1 DEF TransportState
  <2>3. CASE t \notin T /\ ~ Marked(t)
    <3>1. transport'[t] = transport[t]
      BY <2>3, <1>0
    <3> QED
      BY <2>0, <2>3, <3>1 DEF TransportState
  <2> QED
    BY <2>1, <2>2, <2>3
<1>3. transport' \in [Transport -> TransportState]
  <2> HIDE DEF T, Marked
  <2>1. transport' = [t \in Transport |-> transport'[t]]
    BY <1>0
  <2> QED
    BY <1>2, <2>1
<1>4. /\ \A j \in Room \ {i} : room'[j] = room[j]
      /\ room'[i].peers = room[i].peers \ {n}
  BY DEF PeerLeaves, IndInv, Typing, RoomTyping, RoomState
<1>5. ASSUME NEW t \in Transport PROVE TransportInv(t)'
  <2>1. TransportInv(t)
    BY DEF IndInv, MediaInv
  <2>2. /\ transport'[t].at # "none" =>
              transport'[t].router \in Router /\ router'[transport'[t].router].state # "none"
        /\ transport'[t].held => transport'[t].at = "done"
        /\ transport'[t].live => /\ transport'[t].at \in {"limiting", "done"}
                                 /\ router'[transport'[t].router].state = "open"
    BY <1>1, <1>2, <2>1 DEF TransportInv, Open
  <2>3. ASSUME transport'[t].at \in {"asked", "limiting"} \/ transport'[t].held,
               ~ transport'[t].orphan, router'[transport'[t].router].state = "open"
        PROVE  transport'[t].peer \in room'[router'[transport'[t].router].room].peers
    <3> DEFINE r == transport[t].router
    <3>1. /\ transport[t].at \in {"asked", "limiting"} \/ transport[t].held
          /\ ~ transport[t].orphan /\ t \notin T /\ ~ Marked(t) /\ Open(r)
          /\ transport'[t].peer = transport[t].peer
          /\ router'[transport'[t].router] = router[r]
      <4> HIDE DEF T, Marked
      <4>1. /\ transport'[t].at = transport[t].at /\ transport'[t].peer = transport[t].peer
            /\ transport'[t].router = r
        BY <1>2
      <4>2. t \notin T
        <5>1. CASE transport[t].at \in {"asked", "limiting"}
          BY <5>1, <2>1 DEF T, PeerTransports, TransportInv
        <5>2. CASE transport'[t].held
          BY <5>2, <1>2
        <5> QED
          BY <5>1, <5>2, <4>1, <2>3
      <4>3. ~ transport[t].orphan /\ ~ Marked(t)
        BY <1>2, <2>3, <4>2
      <4>4. transport[t].at \in {"asked", "limiting"} \/ transport[t].held
        BY <1>2, <2>3, <4>1, <4>2
      <4> QED
        BY <1>1, <2>3, <4>1, <4>2, <4>3, <4>4 DEF Open
    <3>2. transport[t].peer \in room[router[r].room].peers /\ r \in Router
      BY <2>1, <3>1 DEF TransportInv
    <3>3. router[r].room \in Room /\ routerOf[router[r].room] = r
      BY <3>1, <3>2 DEF IndInv, RouterInv, RouterOfInv
    <3>4. router[r].room = i => transport[t].peer # n
      BY <3>1, <3>3 DEF PeerTransports
    <3> QED
      BY <3>1, <3>2, <3>3, <3>4, <1>4
  <2> QED
    BY <2>2, <2>3 DEF TransportInv, Open
<1> HIDE DEF T
<1>6. /\ producer' \in [Producer -> ProducerState] /\ consumer' \in [Consumer -> ConsumerState]
      /\ (\A p \in Producer : ProducerInv(p)') /\ (\A c \in Consumer : ConsumerInv(c)')
  BY <1>1, <1>2, CloseEntitiesInv
<1> QED
  BY <1>3, <1>5, <1>6 DEF MediaTyping, MediaInv

\* A step of one transport t that keeps the routers, leaves no entity on a transport
\* that was not live before, and gives t its invariant, keeps those of all.
LEMMA OneTransport ==
    ASSUME IndInv, NEW t \in Transport, NEW x \in TransportState,
           transport' = [transport EXCEPT ![t] = x],
           UNCHANGED <<room, router, producer, consumer>>,
           transport[t].live => x.live,
           /\ x.at # "none" => x.router \in Router /\ router[x.router].state # "none"
           /\ x.held => x.at = "done"
           /\ x.live => x.at \in {"limiting", "done"} /\ Open(x.router)
           /\ (x.at \in {"asked", "limiting"} \/ x.held) /\ ~ x.orphan /\ Open(x.router)
                 => x.peer \in room[router[x.router].room].peers
    PROVE  MediaTyping' /\ MediaInv'
<1>1. transport'[t] = x /\ \A k \in Transport \ {t} : transport'[k] = transport[k]
  BY DEF IndInv, Typing, MediaTyping
<1>2. MediaTyping'
  BY DEF IndInv, Typing, MediaTyping
<1>3. ASSUME NEW k \in Transport PROVE TransportInv(k)'
  <2>1. CASE k = t
    BY <1>1, <2>1 DEF TransportInv, Open
  <2>2. CASE k # t
    BY <1>1, <2>2 DEF IndInv, MediaInv, TransportInv, Open
  <2> QED
    BY <2>1, <2>2
<1>4. ASSUME NEW p \in Producer PROVE ProducerInv(p)'
  BY <1>1 DEF IndInv, MediaInv, ProducerInv
<1>5. ASSUME NEW c \in Consumer PROVE ConsumerInv(c)'
  BY <1>1 DEF IndInv, MediaInv, ConsumerInv
<1> QED
  BY <1>2, <1>3, <1>4, <1>5 DEF MediaInv

\* A step of one producer, which is registered no longer only when its consumers are told.
LEMMA OneProducer ==
    ASSUME IndInv, NEW p \in Producer, NEW x \in ProducerState,
           producer' = [producer EXCEPT ![p] = x],
           UNCHANGED <<room, router, transport>>,
           consumer' \in [Consumer -> ConsumerState],
           /\ x.at # "none" => x.t \in Transport
           /\ x.held => x.at = "done"
           /\ x.live => x.held /\ transport[x.t].live,
           producer[p].at = "done" => x.at = "done",
           \A c \in Consumer :
              /\ consumer'[c].at = consumer[c].at /\ consumer'[c].t = consumer[c].t
              /\ consumer'[c].source = consumer[c].source /\ consumer'[c].live = consumer[c].live
              /\ consumer[c].notice => consumer'[c].notice
              /\ consumer[c].live /\ consumer[c].source = p => x.held \/ consumer'[c].notice
    PROVE  MediaTyping' /\ MediaInv'
<1>1. producer'[p] = x /\ \A k \in Producer \ {p} : producer'[k] = producer[k]
  BY DEF IndInv, Typing, MediaTyping
<1>2. MediaTyping'
  BY DEF IndInv, Typing, MediaTyping
<1>3. ASSUME NEW t \in Transport PROVE TransportInv(t)'
  BY DEF IndInv, MediaInv, TransportInv, Open
<1>4. ASSUME NEW k \in Producer PROVE ProducerInv(k)'
  <2>1. CASE k = p
    BY <1>1, <2>1 DEF ProducerInv
  <2>2. CASE k # p
    BY <1>1, <2>2 DEF IndInv, MediaInv, ProducerInv
  <2> QED
    BY <2>1, <2>2
<1>5. ASSUME NEW c \in Consumer PROVE ConsumerInv(c)'
  <2>1. ConsumerInv(c) /\ consumer[c] \in ConsumerState
    BY DEF IndInv, Typing, MediaTyping, MediaInv
  <2>2. CASE consumer[c].at = "none"
    BY <2>1, <2>2 DEF ConsumerInv
  <2>3. CASE consumer[c].at # "none"
    <3>1. consumer[c].source \in Producer /\ consumer[c].t \in Transport
          /\ producer[consumer[c].source].at = "done"
      BY <2>1, <2>3 DEF ConsumerInv
    <3>2. CASE consumer[c].source = p
      BY <1>1, <2>1, <3>1, <3>2 DEF ConsumerInv
    <3>3. CASE consumer[c].source # p
      BY <1>1, <2>1, <3>1, <3>3 DEF ConsumerInv
    <3> QED
      BY <3>2, <3>3
  <2> QED
    BY <2>2, <2>3
<1> QED
  BY <1>2, <1>3, <1>4, <1>5 DEF MediaInv

\* A step of one consumer.
LEMMA OneConsumer ==
    ASSUME IndInv, NEW c \in Consumer, NEW x \in ConsumerState,
           consumer' = [consumer EXCEPT ![c] = x],
           UNCHANGED <<room, router, transport, producer>>,
           /\ x.at # "none" => /\ x.t \in Transport /\ x.source \in Producer
                               /\ producer[x.source].at = "done"
           /\ x.live => /\ x.at = "done" /\ transport[x.t].live
                        /\ producer[x.source].held \/ x.notice
    PROVE  MediaTyping' /\ MediaInv'
<1>1. consumer'[c] = x /\ \A k \in Consumer \ {c} : consumer'[k] = consumer[k]
  BY DEF IndInv, Typing, MediaTyping
<1>2. MediaTyping'
  BY DEF IndInv, Typing, MediaTyping
<1>3. (\A t \in Transport : TransportInv(t)') /\ (\A p \in Producer : ProducerInv(p)')
  BY DEF IndInv, MediaInv, TransportInv, ProducerInv, Open
<1>4. ASSUME NEW k \in Consumer PROVE ConsumerInv(k)'
  <2>1. CASE k = c
    BY <1>1, <2>1 DEF ConsumerInv
  <2>2. CASE k # c
    BY <1>1, <2>2 DEF IndInv, MediaInv, ConsumerInv
  <2> QED
    BY <2>1, <2>2
<1> QED
  BY <1>2, <1>3, <1>4 DEF MediaInv

\* The requests of peers keep the invariants of media.
LEMMA DispatchMedia ==
    ASSUME IndInv, NEW r \in Router, NEW n \in Peer, Dispatch(r, n)
    PROVE  MediaTyping' /\ MediaInv'
<1>T. /\ \A t \in Transport : transport[t] \in TransportState /\ TransportInv(t)
      /\ \A p \in Producer : producer[p] \in ProducerState /\ ProducerInv(p)
      /\ \A c \in Consumer : consumer[c] \in ConsumerState /\ ConsumerInv(c)
  BY DEF IndInv, Typing, MediaTyping, MediaInv
<1>1. ASSUME NEW t \in Transport, NEW dir \in Direction, CreateWebRtcTransport(r, n, t, dir)
      PROVE  MediaTyping' /\ MediaInv'
  <2> DEFINE x == [NewTransport EXCEPT !.at = "asked", !.router = r, !.peer = n, !.dir = dir]
  <2>1. transport' = [transport EXCEPT ![t] = x] /\ UNCHANGED <<room, router, producer, consumer>>
    BY <1>1 DEF CreateWebRtcTransport, roomVars
  <2>2. /\ x \in TransportState /\ x.at = "asked" /\ x.router = r /\ x.peer = n
        /\ ~ x.live /\ ~ x.held
    BY DEF NewTransport, TransportState
  <2>3. Open(r) /\ ~ transport[t].live
    BY <1>1, <1>T DEF CreateWebRtcTransport, Fresh, TransportInv
  <2>4. PICK i \in Room : routerOf[i] = r /\ n \in room[i].peers
    BY <1>1 DEF CreateWebRtcTransport, Serves
  <2>5. router[r].room = i
    BY <2>4, MediaAssumption DEF IndInv, RouterInv, RouterOfInv
  <2> HIDE DEF x
  <2> QED
    BY <2>1, <2>2, <2>3, <2>4, <2>5, OneTransport DEF Open
<1>2. ASSUME NEW t \in Transport, NEW p \in Producer, Produce(r, n, t, p)
      PROVE  MediaTyping' /\ MediaInv'
  <2> DEFINE x == [NewProducer EXCEPT !.at = "asked", !.t = t]
  <2>1. /\ producer' = [producer EXCEPT ![p] = x] /\ UNCHANGED <<room, router, transport, consumer>>
        /\ producer[p].at = "none"
    BY <1>2 DEF Produce, roomVars, Fresh
  <2>2. x \in ProducerState /\ x.at = "asked" /\ x.t = t /\ ~ x.live /\ ~ x.held
    BY DEF NewProducer, ProducerState
  <2>3. consumer \in [Consumer -> ConsumerState]
    BY DEF IndInv, Typing, MediaTyping
  <2>4. \A c \in Consumer : ~ (consumer[c].live /\ consumer[c].source = p)
    BY <1>T, <2>1 DEF ConsumerInv
  <2> HIDE DEF x
  <2> QED
    BY <2>1, <2>2, <2>3, <2>4, OneProducer
<1>3. ASSUME NEW t \in Transport, NEW p \in Producer, NEW c \in Consumer, Consume(r, n, t, p, c)
      PROVE  MediaTyping' /\ MediaInv'
  <2> DEFINE x == [NewConsumer EXCEPT !.at = "asked", !.t = t, !.source = p]
  <2>1. consumer' = [consumer EXCEPT ![c] = x] /\ UNCHANGED <<room, router, transport, producer>>
    BY <1>3 DEF Consume, roomVars
  <2>2. x \in ConsumerState /\ x.t = t /\ x.source = p /\ ~ x.live
    BY DEF NewConsumer, ConsumerState
  <2>3. producer[p].at = "done"
    BY <1>3, <1>T DEF Consume, ProducerInv
  <2> HIDE DEF x
  <2> QED
    BY <2>1, <2>2, <2>3, OneConsumer
<1> QED
  BY <1>1, <1>2, <1>3 DEF Dispatch

\* The answers of mediasoup, its failures and the closing of single entities keep the
\* invariants of media.
LEMMA AnswerMedia ==
    ASSUME IndInv,
           \/ \E t \in Transport : TransportCreated(t) \/ TransportLimited(t)
           \/ \E p \in Producer : Produced(p) \/ CloseProducer(p)
           \/ \E c \in Consumer : Consumed(c) \/ ProducerCloseArrives(c) \/ CloseConsumer(c)
           \/ RequestFails
    PROVE  MediaTyping' /\ MediaInv'
<1>T. /\ \A t \in Transport : transport[t] \in TransportState /\ TransportInv(t)
      /\ \A p \in Producer : producer[p] \in ProducerState /\ ProducerInv(p)
      /\ \A c \in Consumer : consumer[c] \in ConsumerState /\ ConsumerInv(c)
      /\ consumer \in [Consumer -> ConsumerState]
  BY DEF IndInv, Typing, MediaTyping, MediaInv
<1>1. ASSUME NEW t \in Transport, TransportCreated(t) PROVE MediaTyping' /\ MediaInv'
  <2> PICK lb \in BOOLEAN : lb = LimitBitrate
    BY MediaAssumption
  <2> PICK live \in BOOLEAN : live = Open(transport[t].router)
    BY DEF Open
  <2> DEFINE x == [transport[t] EXCEPT !.live = live, !.at = IF lb THEN "limiting" ELSE "done",
                                       !.held = ~ lb]
  <2>1. transport' = [transport EXCEPT ![t] = x] /\ UNCHANGED <<room, router, producer, consumer>>
    BY <1>1 DEF TransportCreated, roomVars
  <2>2. /\ x \in TransportState /\ x.router = transport[t].router /\ x.peer = transport[t].peer
        /\ x.orphan = transport[t].orphan /\ x.live = live /\ x.at \in {"limiting", "done"}
        /\ x.held => x.at = "done"
    BY <1>T DEF TransportState
  <2>3. /\ transport[t].at = "asked" /\ TransportInv(t) /\ ~ transport[t].live
    BY <1>1, <1>T DEF TransportCreated, TransportInv
  <2> HIDE DEF x
  <2>4. /\ x.router \in Router /\ router[x.router].state # "none"
        /\ x.live => Open(x.router)
        /\ ~ x.orphan /\ Open(x.router) => x.peer \in room[router[x.router].room].peers
    BY <2>2, <2>3 DEF TransportInv
  <2> QED
    BY <2>1, <2>2, <2>3, <2>4, OneTransport
<1>2. ASSUME NEW t \in Transport, TransportLimited(t) PROVE MediaTyping' /\ MediaInv'
  <2> DEFINE x == [transport[t] EXCEPT !.at = "done", !.held = TRUE]
  <2>1. transport' = [transport EXCEPT ![t] = x] /\ UNCHANGED <<room, router, producer, consumer>>
    BY <1>2 DEF TransportLimited, roomVars
  <2>2. /\ x \in TransportState /\ x.router = transport[t].router /\ x.peer = transport[t].peer
        /\ x.orphan = transport[t].orphan /\ x.live = transport[t].live /\ x.at = "done"
    BY <1>T DEF TransportState
  <2>3. transport[t].at = "limiting" /\ TransportInv(t)
    BY <1>2, <1>T DEF TransportLimited
  <2> HIDE DEF x
  <2>4. /\ x.router \in Router /\ router[x.router].state # "none"
        /\ x.live => Open(x.router)
        /\ ~ x.orphan /\ Open(x.router) => x.peer \in room[router[x.router].room].peers
    BY <2>2, <2>3 DEF TransportInv
  <2> QED
    BY <2>1, <2>2, <2>4, OneTransport
<1>3. ASSUME NEW p \in Producer, Produced(p) PROVE MediaTyping' /\ MediaInv'
  <2> DEFINE x == [producer[p] EXCEPT !.at = "done", !.held = TRUE,
                                      !.live = transport[producer[p].t].live]
  <2>1. producer' = [producer EXCEPT ![p] = x] /\ UNCHANGED <<room, router, transport, consumer>>
    BY <1>3 DEF Produced, roomVars
  <2>2. producer[p].t \in Transport /\ transport[producer[p].t].live \in BOOLEAN
    BY <1>3, <1>T DEF Produced, ProducerInv, TransportState
  <2>3. /\ x \in ProducerState /\ x.at = "done" /\ x.t = producer[p].t /\ x.held
        /\ x.live = transport[producer[p].t].live
    BY <1>T, <2>2 DEF ProducerState
  <2> HIDE DEF x
  <2>4. \A c \in Consumer :
          /\ consumer'[c].at = consumer[c].at /\ consumer'[c].t = consumer[c].t
          /\ consumer'[c].source = consumer[c].source /\ consumer'[c].live = consumer[c].live
          /\ consumer[c].notice => consumer'[c].notice
    BY <2>1
  <2>5. consumer' \in [Consumer -> ConsumerState]
    BY <1>T, <2>1
  <2>6. x.live => transport[x.t].live
    BY <2>3
  <2> QED
    BY <2>1, <2>2, <2>3, <2>4, <2>5, <2>6, OneProducer
<1>4. ASSUME NEW p \in Producer, CloseProducer(p) PROVE MediaTyping' /\ MediaInv'
  <2> DEFINE x == [producer[p] EXCEPT !.live = FALSE, !.held = FALSE]
  <2>1. producer' = [producer EXCEPT ![p] = x] /\ UNCHANGED <<room, router, transport>>
    BY <1>4 DEF CloseProducer, roomVars
  <2>2. /\ x \in ProducerState /\ x.at = producer[p].at /\ x.t = producer[p].t
        /\ ~ x.held /\ ~ x.live
    BY <1>T DEF ProducerState
  <2>3. ASSUME NEW c \in Consumer
        PROVE  /\ consumer'[c] \in ConsumerState
               /\ consumer'[c].at = consumer[c].at /\ consumer'[c].t = consumer[c].t
               /\ consumer'[c].source = consumer[c].source /\ consumer'[c].live = consumer[c].live
               /\ consumer[c].notice => consumer'[c].notice
               /\ consumer[c].live /\ consumer[c].source = p => consumer'[c].notice
    BY <1>4, <1>T DEF CloseProducer, ConsumerState
  <2>4. consumer' \in [Consumer -> ConsumerState]
    BY <1>4, <2>3 DEF CloseProducer
  <2>5. x.at # "none" => x.t \in Transport
    BY <1>T, <2>2 DEF ProducerInv
  <2>6. \A c \in Consumer :
          /\ consumer'[c].at = consumer[c].at /\ consumer'[c].t = consumer[c].t
          /\ consumer'[c].source = consumer[c].source /\ consumer'[c].live = consumer[c].live
          /\ consumer[c].notice => consumer'[c].notice
          /\ consumer[c].live /\ consumer[c].source = p => x.held \/ consumer'[c].notice
    BY <2>3
  <2> HIDE DEF x
  <2> QED
    BY ZenonT(60), <2>1, <2>2, <2>4, <2>5, <2>6, OneProducer
<1>5. ASSUME NEW c \in Consumer, Consumed(c) PROVE MediaTyping' /\ MediaInv'
  <2>1. /\ consumer[c].at = "asked" /\ consumer[c].t \in Transport /\ consumer[c].source \in Producer
        /\ producer[consumer[c].source].at = "done"
    BY <1>5, <1>T DEF Consumed, ConsumerInv
  <2> PICK live \in BOOLEAN : live = transport[consumer[c].t].live
    BY <1>T, <2>1 DEF TransportState
  <2> PICK notice \in BOOLEAN : notice = (live /\ ~ producer[consumer[c].source].live)
    BY <1>T, <2>1 DEF ProducerState
  <2> DEFINE x == [consumer[c] EXCEPT !.at = "done", !.held = TRUE, !.live = live,
                                      !.notice = notice]
  <2>2. consumer' = [consumer EXCEPT ![c] = x] /\ UNCHANGED <<room, router, transport, producer>>
    BY <1>5 DEF Consumed, roomVars
  <2>3. /\ x \in ConsumerState /\ x.at = "done" /\ x.t = consumer[c].t
        /\ x.source = consumer[c].source /\ x.live = live /\ x.notice = notice
    BY <1>T DEF ConsumerState
  <2>4. live => producer[consumer[c].source].held \/ notice
    BY <1>T, <2>1 DEF ProducerInv
  <2> HIDE DEF x
  <2>5. x.live => transport[x.t].live /\ (producer[x.source].held \/ x.notice)
    BY <2>3, <2>4
  <2>6. x.t \in Transport /\ x.source \in Producer /\ producer[x.source].at = "done"
    BY <2>1, <2>3
  <2> QED
    BY <2>2, <2>3, <2>5, <2>6, OneConsumer
<1>6. ASSUME NEW c \in Consumer, ProducerCloseArrives(c) \/ CloseConsumer(c)
      PROVE  MediaTyping' /\ MediaInv'
  <2> DEFINE x == [consumer[c] EXCEPT !.live = FALSE, !.held = FALSE, !.notice = FALSE]
  <2>1. consumer' = [consumer EXCEPT ![c] = x] /\ UNCHANGED <<room, router, transport, producer>>
    BY <1>6 DEF ProducerCloseArrives, CloseConsumer, roomVars
  <2>2. /\ x \in ConsumerState /\ x.at = consumer[c].at /\ x.t = consumer[c].t
        /\ x.source = consumer[c].source /\ ~ x.live
    BY <1>T DEF ConsumerState
  <2>3. ConsumerInv(c)
    BY <1>T
  <2> HIDE DEF x
  <2> QED
    BY <2>1, <2>2, <2>3, OneConsumer DEF ConsumerInv
<1>7. CASE RequestFails
  <2>U. UNCHANGED <<room, router>>
    BY <1>7 DEF RequestFails, roomVars
  <2>1. ASSUME NEW t \in Transport, transport[t].at = "asked",
               transport' = [transport EXCEPT ![t].at = "failed"], UNCHANGED <<producer, consumer>>
        PROVE  MediaTyping' /\ MediaInv'
    <3> DEFINE x == [transport[t] EXCEPT !.at = "failed"]
    <3>1. /\ x \in TransportState /\ x.at = "failed" /\ x.router = transport[t].router
          /\ x.held = transport[t].held /\ x.live = transport[t].live
      BY <1>T DEF TransportState
    <3>2. TransportInv(t) /\ transport' = [transport EXCEPT ![t] = x]
      BY <1>T, <2>1
    <3> HIDE DEF x
    <3> QED
      BY <2>1, <2>U, <3>1, <3>2, OneTransport DEF TransportInv
  <2>2. ASSUME NEW p \in Producer, producer[p].at = "asked",
               producer' = [producer EXCEPT ![p].at = "failed"], UNCHANGED <<transport, consumer>>
        PROVE  MediaTyping' /\ MediaInv'
    <3> DEFINE x == [producer[p] EXCEPT !.at = "failed"]
    <3>1. /\ x \in ProducerState /\ x.at = "failed" /\ x.t = producer[p].t
          /\ x.held = producer[p].held /\ x.live = producer[p].live
      BY <1>T DEF ProducerState
    <3>2. ProducerInv(p) /\ producer' = [producer EXCEPT ![p] = x]
      BY <1>T, <2>2
    <3>3. \A c \in Consumer : ~ (consumer[c].live /\ consumer[c].source = p)
      BY <1>T, <2>2 DEF ConsumerInv
    <3> HIDE DEF x
    <3>4. \A c \in Consumer :
            /\ consumer'[c].at = consumer[c].at /\ consumer'[c].t = consumer[c].t
            /\ consumer'[c].source = consumer[c].source /\ consumer'[c].live = consumer[c].live
            /\ consumer[c].notice => consumer'[c].notice
      BY <2>2
    <3>5. consumer' \in [Consumer -> ConsumerState]
      BY <1>T, <2>2
    <3>6. x.t \in Transport /\ ~ x.held /\ ~ x.live
      BY <2>2, <3>1, <3>2 DEF ProducerInv
    <3> QED
      BY ZenonT(60), <2>2, <2>U, <3>1, <3>2, <3>3, <3>4, <3>5, <3>6, OneProducer
  <2>3. ASSUME NEW c \in Consumer, consumer[c].at = "asked",
               consumer' = [consumer EXCEPT ![c].at = "failed"], UNCHANGED <<transport, producer>>
        PROVE  MediaTyping' /\ MediaInv'
    <3> DEFINE x == [consumer[c] EXCEPT !.at = "failed"]
    <3>1. /\ x \in ConsumerState /\ x.at = "failed" /\ x.t = consumer[c].t
          /\ x.source = consumer[c].source /\ x.live = consumer[c].live
      BY <1>T DEF ConsumerState
    <3>2. ConsumerInv(c) /\ consumer' = [consumer EXCEPT ![c] = x]
      BY <1>T, <2>3
    <3> HIDE DEF x
    <3> QED
      BY ZenonT(60), <2>3, <2>U, <3>1, <3>2, OneConsumer DEF ConsumerInv
  <2> QED
    BY <1>7, <2>1, <2>2, <2>3 DEF RequestFails
<1> QED
  BY <1>1, <1>2, <1>3, <1>4, <1>5, <1>6, <1>7

\* Every step keeps the invariants of transports, producers and consumers.
LEMMA MediaStep ==
    ASSUME IndInv, Next
    PROVE  MediaTyping' /\ MediaInv'
<1>1. ASSUME UNCHANGED <<room, router, mediaVars>> PROVE MediaTyping' /\ MediaInv'
  <2>1. RoutersKept({})
    BY <1>1 DEF RoutersKept, Open
  <2> QED
    BY <1>1, <2>1, MediaFrame
<1>2. CASE InitReturns \/ InitSpawns \/ SpawnFailsAtStart \/ RespawnFails
  BY <1>1, <1>2 DEF InitReturns, InitSpawns, SpawnFailsAtStart, RespawnFails, roomVars
<1>3. CASE CloseAll
  BY <1>3, LoseWorkersMedia DEF CloseAll
<1>4. ASSUME NEW w \in Worker, SpawnedAtStart(w) \/ Respawned(w) PROVE MediaTyping' /\ MediaInv'
  BY <1>1, <1>4 DEF SpawnedAtStart, Respawned, roomVars
<1>5. ASSUME NEW w \in Worker, WorkerDies(w) PROVE MediaTyping' /\ MediaInv'
  BY <1>5, LoseWorkersMedia DEF WorkerDies
<1>6. ASSUME NEW i \in Room, CreationTooLate(i) \/ \E w \in Worker : AttachRoom(i, w)
      PROVE  MediaTyping' /\ MediaInv'
  BY <1>1, <1>6 DEF CreationTooLate, AttachRoom
<1>7. ASSUME NEW i \in Room, NEW r \in Router, RouterCreated(i, r) PROVE MediaTyping' /\ MediaInv'
  <2>1. /\ router[r].state = "none" /\ \A k \in Router \ {r} : router'[k] = router[k]
        /\ router'[r].state = "open" /\ UNCHANGED <<room, mediaVars>>
    BY <1>7 DEF RouterCreated, IndInv, Typing, RoomTyping
  <2>2. RoutersKept({})
    BY <2>1 DEF RoutersKept, Open
  <2> QED
    BY <2>1, <2>2, MediaFrame
<1>8. ASSUME NEW i \in Room, RoomOpens(i) \/ \E n \in Peer : PeerJoins(i, n)
      PROVE  MediaTyping' /\ MediaInv'
  <2>1. UNCHANGED <<router, mediaVars>> /\ \A j \in Room : room[j].peers \subseteq room'[j].peers
    BY <1>8 DEF RoomOpens, PeerJoins, IndInv, Typing, RoomTyping, RoomState
  <2>2. \A r \in Router : Open(r) => router[r].room \in Room
    BY DEF IndInv, RouterInv, RouterOfInv
  <2>3. RoutersKept({})
    BY <2>1, <2>2 DEF RoutersKept, Open
  <2> QED
    BY <2>1, <2>3, MediaFrame
<1> QED
  BY <1>2, <1>3, <1>4, <1>5, <1>6, <1>7, <1>8, RoomClosesMedia, PeerLeavesMedia, DispatchMedia,
     AnswerMedia DEF Next

\* The conjunction of shape, router and media invariants is an invariant.
THEOREM Invariance == Spec => []IndInv
<1>1. IndInv /\ [Next]_vars => IndInv'
  <2> SUFFICES ASSUME IndInv, [Next]_vars PROVE IndInv'
    OBVIOUS
  <2>1. CASE Next
    <3>1. PoolTyping'
      BY <2>1, PoolStep DEF IndInv, Typing
    <3>2. RoomInv'
      BY <2>1, RoomStep DEF IndInv, Typing, RoomInv
    <3> QED
      BY <2>1, <3>1, <3>2, MediaStep DEF IndInv, Typing, RoomInv
  <2>2. CASE UNCHANGED vars
    BY <2>2 DEF vars, poolVars, roomVars, mediaVars, IndInv, Typing, PoolTyping, LoadTyping,
        RoomTyping, MediaTyping, RouterInv, MediaInv, CreationInv, RouterOfInv, LoadInv,
        UnusedInv, OpenRouters, OpenOn, Open, TransportInv, ProducerInv, ConsumerInv
  <2> QED
    BY <2>1, <2>2
<1> QED
  BY InitInv, <1>1, PTL DEF Spec

-----------------------------------------------------------------------------
(* The theorems.                                                           *)

\* The state of the pool, rooms, routers and media has its shape; a creation under way
\* names a worker of the pool, and WorkerPool is starting exactly while start() awaits
\* spawns.
THEOREM TypeCorrect == Spec => []TypeOK
BY Invariance, TypingImpliesTypeOK, PTL DEF IndInv

\* Whatever closes or dies, and whenever: MediaService hands out only open routers on
\* live workers of open rooms, no other router runs, and the load of a worker is the
\* number of its open routers (MediaService.attachRoom, WorkerPool.createRouter).
THEOREM RoutersFollow == Spec => []RoutersFollowRooms
<1>1. IndInv => RoutersFollowRooms
  BY DEF IndInv, RouterInv, RouterOfInv, LoadInv, RoutersFollowRooms
<1> QED
  BY Invariance, <1>1, PTL

\* A peer that has left holds no transport but one that was being created when it left;
\* a live producer or consumer runs on a live transport; and a live consumer has a
\* registered source or is about to hear that it closed (MediaRouter, MediaEntity).
THEOREM MediaFollows == Spec => []MediaFollowsPeers
<1>1. IndInv => MediaFollowsPeers
  <2> SUFFICES ASSUME IndInv PROVE MediaFollowsPeers
    OBVIOUS
  <2>1. ASSUME NEW t \in Transport, transport[t].held, transport[t].live, ~ transport[t].orphan
        PROVE  transport[t].peer \in room[RouterOn(t).room].peers
    BY <2>1 DEF IndInv, MediaInv, TransportInv, RouterOn
  <2>2. ASSUME NEW p \in Producer, producer[p].live PROVE transport[producer[p].t].live
    BY <2>2 DEF IndInv, MediaInv, ProducerInv
  <2>3. ASSUME NEW c \in Consumer, consumer[c].live
        PROVE  /\ transport[consumer[c].t].live
               /\ producer[consumer[c].source].held \/ consumer[c].notice
    BY <2>3 DEF IndInv, MediaInv, ConsumerInv
  <2> QED
    BY <2>1, <2>2, <2>3 DEF MediaFollowsPeers
<1> QED
  BY Invariance, <1>1, PTL
=============================================================================
