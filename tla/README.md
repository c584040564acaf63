# RTCForge: TLA+ models, checks and proofs

This directory holds the TLA+ specifications of RTCForge, the TLC configurations
that model-check them on small instances, and TLAPS proofs of the properties that
matter most. `PROJECT.json` is the index: components, runs, the line-by-line map
from definitions to source, mutants, findings, hazards and theorems.

    tlc -workers 2 -config ServerRoom.cfg MCSignalingServer
    tlapm SignalingServerProofs.tla        # and the other ...Proofs modules

## 1. The system

RTCForge is a TypeScript monorepo. Everything runs on Node.js or browser event
loops: one callback at a time, no threads; concurrency comes from awaits, socket
events, timers and several processes talking over WebSockets, WebRTC data channels
and UDP.

| Part | State it keeps | Operations | What is hard |
|---|---|---|---|
| **signaling server** (`SignalingServer`, `RoomRegistry`, `Room`, `Peer`, `HeartbeatMonitor`, `Authenticator`) | connection counter; rooms by id; each room's peers, state and two timers; each peer's socket, buffer and last pong | accept, authenticate, resolve the room, admit, relay, kick, expire, prune, stop | a handshake awaits twice while rooms close, ids are reused, peers are replaced and the server stops |
| **room router** (`RoomRouter`, `HashRing`, `MembershipReconciler`) | ring of node ids | follow membership, name a room's owner | re-entrant snapshots, late initial list |
| **client** (`RTCForgeClient`, `JoinHandshake`, `Room`) | connection state, current transport, handshake, room, listeners | joinRoom, leave, react to transport events | leave and join inside the await of an earlier join; events of abandoned transports |
| **client transport** (`WebSocketTransport`, `ReconnectStrategy`, `SendQueue`) | socket, two timers, attempt count, token refresh, queue | connect, send, retry, give up | timers, refreshes and closes racing each other; what happens to queued frames |
| **file transfer** (`FileTransferManager`, `SendTransfer`, `ReceiveTransfer`, sinks, sources, framing) | transfer state machines, chunk sets, channels, digest | offer, accept, send chunks, pause, resume, interrupt, complete | channel loss in every state, pause against completion, re-offers against timeouts |
| **call** (`Call`, `PeerConnection`, `LocalTrackRegistry`) | one RTCPeerConnection per peer, negotiation timers, ICE restart budget | offer, answer, rollback, candidates, restart | glare, restarts on both sides, peers leaving meanwhile |
| **media server** (`MediaService`, `MediaRouter`, `MediaEntity`, `WorkerPool`, `SfuSignalHandler`) | workers, routers, transports, producers, consumers per peer | create, connect, produce, consume, close, respawn | ownership across peers, worker death between two awaits |
| **SFU cluster** (`SfuCluster`, `HealthChecker`, `SfuNode`, `PlacementStrategy`) | nodes, health streaks, probes in flight | add, remove, drain, probe, select | a probe answers for a node that was replaced |
| **cascading router** (`CascadingRouter`, `NodeFailureTracker`, `CascadeTree`, bridges) | room-to-node assignments, relay tree | place, migrate, repair the tree | node failure between placement and use |
| **gossip** (`GossipMembership`, `UdpGossipTransport`, `MemoryMembership`) | member records with incarnations, tombstones | gossip round, merge, refute, sweep | lost, reordered and duplicated messages, revival of the dead |
| **core** (`Lock`, `StateStore`, `MessageBus`, `Clock`, `EventEmitter`, ids) | in-process maps | acquire/release with TTL, get/set, publish | expiry against release |

How they interact: the client's transport opens a WebSocket to the signaling
server, which authenticates it, asks the room router whether the room is local, and
admits it into a `Room`; the client's handshake waits for `room-joined`. Signals
relayed by rooms carry the offers, answers and candidates of `Call` and the
requests of `SfuSignalHandler`. File transfers run over data channels of a call's
peer connection. Nodes of a cluster know each other through a `Membership` (gossip
or in memory) reconciled into the router's ring and the SFU cluster.

What makes each part correct:

* *server*: the registry holds exactly the live rooms; an open admitted socket is
  its room's current peer; rejected sockets close; limits hold over the awaits;
  timers die with their room; everybody present is announced to everybody; silent
  peers are pruned; stop() ends every connection.
* *client*: no connection outlives its owner; the state the application sees is
  that of the socket; no frame is lost, duplicated or reordered; every join
  settles; a connection that will not come back is reported.
* *file transfer*: the receiver completes exactly when every chunk has been written
  and verified; both sides reach a terminal state; a resumable transfer survives
  channel loss.
* *call*: glare resolves with one offer answered; timers and restart budgets end
  every negotiation.
* *cluster*: views converge; a dead node is not revived; a failed node loses its
  assignments; health decisions are about the node that was probed.

The hazards behind these properties are listed with their source lines in
`PROJECT.json`.

## 2. Modules

| Module | Models |
|---|---|
| `SignalingServer` | server, registry, rooms, peers and heartbeat of one node |
| `RoomSeats` | abstract: what a node promises of its rooms; `SignalingServer` implements it (`ImplementsSeats`) |
| `SignalingServerProofs` | inductive invariant of the server and its theorems; on top of it rosters, limits and the refinement of `RoomSeats` |
| `SignalingClient` | client, handshake, transport, backoff and queue of one application |
| `SignalingClientProofs` | its theorems |
| `FileTransfer` | one transfer: `SendTransfer`, `ReceiveTransfer`, both managers, control links, data channels, the Node sink |
| `FileTransferProofs` | its theorems about the file that arrives |
| `TransferEndsProofs` | on top of them: no transfer is left waiting |
| `Call` | two `Call`s of one room with their `PeerConnection`s, track registries and timers |
| `CallProofs` | its theorems |
| `Gossip` | a cluster of `GossipMembership` nodes, each with `MembershipReconciler`, `RoomRouter` and its ring |
| `GossipProofs` | its theorems |
| `CascadePlan` | `planCascadeTree` as operators |
| `SfuCluster` | cluster, nodes, health checks, failure tracker, cascading router and broadcast tree; uses `CascadePlan` |
| `SfuClusterProofs` | its theorems |
| `MediaServer` | `MediaService`, `WorkerPool`, the `MediaRouter`s with their transports, producers and consumers, and the requests of `SfuSignalHandler` |
| `MediaServerProofs` | its theorems |
| `MC...` | the constants and symmetry sets of the instances TLC checks |

Definitions marked "Mutant" are plausible bugs of the definition that follows. They are
used by no specification; put in its place they must make the property named in
`PROJECT.json` fail.

### SignalingServer

`handleConnection` is cut at its two awaits. `phase[c]` says where a socket's
handler is: `auth` (awaiting the authenticator), `hook` (awaiting `iceServersHook`,
the room already resolved and maybe created), `joined` (admitted), `over` (ended),
`refused` (turned away before counting). Everything else may happen between.

| Variable | Code |
|---|---|
| `server`, `connections` | listening or stopping, `_connections` |
| `ws`, `congested`, `silent` | `readyState`; `bufferedAmount` over the limit; `lastPong` too old |
| `rid`, `pid`, `inst`, `creators` | locals of the handler: room id, peer id, Room object, `isNew` |
| `registry`, `state`, `peers`, `idle`, `duration` | `_rooms`; a room's `_state`, `_peers` and two timers |
| `roster`, `delivered` | history: which peers a socket was told of; frames relayed by the last step |

Actions: `AcceptConnection`/`RefuseConnection` (connection event), `AuthFails`,
`WrongNode`, `RejectRoomCap`, `Resolve` (up to the second await), `HookFailed`,
`RejectClosing`, `RejectFull`, `Join`, `JoinThrows` (`Room.addPeer` and its caller),
`CloseUnadmitted`/`CloseAdmitted` (close events), `Pong`, `Signal`, `Broadcast`
(frames), `KickPeer`, `RoomBroadcast`, `IdleTimeout`, `DurationTimeout`,
`HeartbeatTick`, `Start`, `Stop`, `FinishStop`. Clients are the environment: they
may leave, stop reading (`SlowConn`) or stop answering (`MuteConn`). Each action
includes what the callback does to other connections: a broadcast that overflows a
slow consumer disconnects it in the same step. A socket or Room identity is used
again when the program holds no reference to the old one. `JoinThrows` covers a
`room-joined` that cannot be sent for whatever reason. In `ForceClose` the ROOM_EXPIRED
broadcast counts as activity like any other (`ResetIdle`), in the state the room has
by then.

### SignalingClient

`joinRoom()` is cut at `await handshake.run()`: `JoinRoom` is the part before,
`JoinSucceeds` and `JoinFails` the parts after. They are microtasks, so between the
settling of the handshake and them no timer or new socket event runs (the guards
`~ Microtask`), but the application's microtasks (`JoinRoom`, `Leave`), further
frames of the same batch and the close that directly follows an error do.

| Variable | Code |
|---|---|
| `opts` | which options are configured: reconnect, connectTimeoutMs, joinTimeoutMs, tokenRefresh; chosen in `Init` |
| `client` | `_connectionState`, `transport`, `_handshake`, `_room`; `wired` and `steady` are the transports whose lifecycle and message listeners are attached; `view` the frames the room applied since its snapshot |
| `conn[t]` | a `WebSocketTransport`: `_closed`, `_exhausted`, `_connecting`, the socket with its closure (`first`: it has `onError`; `settled`; connect timer), the reconnect timer, a pending refresh, the attempt count, the queue; `wire`, `sent`, `bad`, `reported` record what became of the frames handed to it |
| `join[t]` | its `JoinHandshake` and the `joinRoom()` awaiting it |

Actions follow the code's callbacks: `SocketCreated`/`SocketUnavailable`
(`getWsClass` settles), `ConnectTimeout`, `OnOpen`, `OnError`, `OnClose`,
`ReconnectTimer`, `TokenRefreshed`, `TokenRefreshFails`, `OnRoomJoined`, `OnFrame`,
`OnErrorFrame`, `JoinTimeout`, `RoomSend`, `Leave`. Emitting an event runs the
application's listener inside the transport's callback; a `leave()` from there is
modelled where it differs from one after the callback (in `OnClose` after the Close
event, in `Retry` before the timer is armed). A joinRoom() from a Terminated
listener equals one right after the callback. The pong that answers a ping is left
out; one that comes while the socket is closing would take a slot of the queue
(WebSocketTransport.ts:211-213).

### RoomSeats

A table of seats, one for each room id and peer id. A step seats one connection that
has no seat, within `maxPeers` and `maxRooms`, or vacates any number of seats. The
mapping `SeatsOf` takes, for every room id, the peers of the Room object the registry
holds under it; Room objects that were closed, rolled back or abandoned are not seen.
That every step of the server maps to such a step says in one formula that the
identity of Room objects, reused ids, overlapping handshakes and replaced connections
do not show outside.

### FileTransfer

One transfer between two managers. `snd` is the `SendTransfer` (state, `_interrupted`,
the armed timer, the generation of channels, the set of chunks the receiver has, and
for each worker where in its loop it awaits), `rcv` the `ReceiveTransfer` with its
write chain and the progress of `_tryComplete`, `sink` the `NodeFileSink`, `chan` the
data channels of each offer with the frames on the wire, `toS`/`toR` the control
messages, `up` whether the control channel lives, `source` the version of the file.
A worker is cut at each await: `WorkerOpens` (waitForOpen), `WorkerReads` (pause gate
and `slice`), `WorkerSends` (awaitDrain). The receiver is cut at the opening of the
sink, the hash and the write of each chunk, and the four awaits of `_tryComplete`.
Faults are `SourceFails`, `FrameInvalid`, `WriteFails`, `SinkOpenFails`,
`SinkCloseFails`, `ChannelDrops`, `ConnectionDrops`, `SourceEdited`. A digest stands
for the contents hashed, by chunk; its finalize() is taken with the end of the run.
`opts.timed` says whether `offerTimeoutMs` arms the timers of an offer and a re-offer;
0 does not. Assumed: accept() is called once (a second call fails the receiver without a
word to the sender, ReceiveTransfer.ts:152-161); a control send does not throw once its
link exists; the data channels of one offer are not reused.

### Call

Each side's `Call`, one connection to the other side, the negotiation timer and the
ordered signals the room relays. Of the browser's RTCPeerConnection the model has the
signalling state, the chain of asynchronous operations (`ops`, `Settles`, `Rejects`)
and the negotiation-needed flag. `of` names the offer a message belongs to. Handlers
of a connection dropped meanwhile are kept as `stale`. Candidates are counted. A
replacement of a track is under way in `swap` until the browser has made it
(`SwapSettles`) or refused it (`SwapRejects`, then it is in `refused`); the registry
has the new track from the start. Assumed: the application adds a track once and to a
call that is not closed; `room.sendSignal` does not throw while an offer is answered
(Call.ts:435-439 drops a new connection then).

### Gossip

Per node: the process status, `_members` as rows of incarnation, alive, old (a record
whose timeout has passed) and capacity (the metadata that weights the ring), `_seeds`,
and the reconciler with the weights on the ring; `Score` gives HashRing's score of a
room for every node and weight. `edited` is history: nodes whose own host gave them
another capacity or deregistered them. Datagrams are a set: `Sends` may leave out any target (fan-out, loss), `Receive`
may leave the datagram in place (duplication) and takes any of them (reordering). A
crashed node boots again from incarnation 0; a stopped one may also start() again. A
datagram that arrives at a node that does not run is lost: start() sets the handler and
stop() closes the transport.

### SfuCluster

`Obj` are SfuNode objects, `IdOf` their ids: a replacement is another object with the
same id, which is what probes in flight, streaks (by id) and listeners (by id) can
confuse. `plane` holds the nodes' flags and room sets, the router's assignments and
cascades and the trees. The router and the tree have a `NodeFailureTracker` each;
both hear the same events, so `tracker` is one with the set of those not disposed.
`own`, `since` and `left` are history: failures reported of an object and of an id in
a row, and nodes removed while draining. An object that was removed may be added again,
and one that is in the cluster be added once more (`again`). A room is used by the router
or by the tree. Assumed: the host builds a tree at a registered, active origin, which
`build` does not check; `onResult` does not throw (HealthChecker.ts:70-72 would report a
second, failing result).
`CascadePlan` describes a plan by the sequence of its nodes, since tiers are filled
from the left. The rooms that a lost node was in are rebuilt in one step: rebuilding
one of them tracks and untracks that room alone, and changes neither which nodes are
active nor the tree of another room. (Their order could matter only to the drain of a
node that is the origin of one of the trees without tracking its room.)

### MediaServer

`pool` and `load` are the `WorkerPool` (spawns that `start()` awaits and spawns nobody
awaits are counted apart), `creation`, `routerOf` the two maps of `MediaService`,
`router` the MediaRouters. A transport, producer or consumer carries the request that
makes it (`at`), whether mediasoup's object is `live` and whether the router has it in
its map (`held`). `createWebRtcTransport` is cut at both its awaits, `produce`,
`consume` and the creation of a router at theirs. Assumed of mediasoup: requests to a
worker are answered in order and rejected when it dies or closes; a request sent before
its transport or router closed may still succeed; a transport, router or worker that
closes takes what runs on it along in the same callback; consumers of a closed producer
are told by a later notification. `orphan` is history: it excludes from
`MediaFollowsPeers` the transports of section 5; `pool.closed` is history too. Every
router, transport, producer and consumer identity is used once. Assumed: the host
attaches open rooms only, and a transport is created for one direction, which the
signalling schema requires (MediaRouter itself also takes none, for both).

## 3. Runs

| Run | Instance | States | Shows |
|---|---|---|---|
| `server_room` | 3 sockets, 3 ids, one room id, room limit 2, both timers, one slow and one mute client | 180k | types, membership, roster, timers, the refinement of `RoomSeats` |
| `server_live` | 2 sockets, 3 room ids, room cap 2, one mute client, fairness | 80k | registry, rejected sockets, relayed frames come from known peers; silent peers leave, stop() completes |
| `server_rollback` | | violation | a failing creator disposes somebody else's room |
| `server_empty_room` | | violation | a failed replacement leaves an empty active room |
| `client` | 2 transports, 3 outgoing and 2 incoming frames, queue of 2, every option set | 2.0M | all client safety properties |
| `client_join` | 2 transports, 2 attempts, no frames, fairness | 180k | joins settle, retries end |
| `client_stalled` | | violation | a timed-out reconnect attempt leaves the client stuck |
| `filetransfer` | 2 chunks on 2 channels, one re-offer, 2 events (drops, pauses, edits), every option set | 5.4M | types, completed files are whole, mismatches real, nobody waits for ever |
| `call` | 2 tracks, timer set, one ICE restart, candidate buffer of 1, 2 connections a side, 2 events | 1.3M | glare, answers, timers, candidates, tracks |
| `gossip` | 3 nodes of capacities 1 and 2, 2 with a router, one datagram in flight, 2 events | 1.7M | saturated views agree, one owner per room |
| `sfu` | 2 ids with 3 objects, one router room, one tree room, thresholds 2, 3 calls | 2.3M | assignments, tracking, failure evidence |
| `media` | 2 rooms, 2 peers, 2 workers (3 identities), 2 routers, 2 transports, one producer and consumer, 5 events | 1.2M | routers and load, media of leaving peers and closed sources |

`TransferEnds` is liveness put as an invariant: `Quiet` says that no timer, message,
frame, promise or runnable worker is left. Each conjunct of `Quiet` negates the guards of
some of the code's own steps (`Progress`), and each of these steps uses up a message, a
frame, a timer, a promise or a chunk, so every fair behaviour in which the environment
rests gets to a quiet state. `GlareSettles` is of the same kind, with `Settled`.

The violations are described in section 5.

**Bounds.** Three sockets are the fewest in which a connection fails while a second
one replaces a third; a room limit of 2 with 3 ids makes the limit bite. Room objects
are not the limit: with one room id 3 Room identities give the same state count as 4;
in `server_live` two suffice, except for a Room left over by a failing `addPeer`,
which `server_room` covers with three. Two transports cover one current and one
abandoned; a third (checked once with shorter frame sequences, 5.1M states) adds no
violation. Three frames and a queue of two reach a full queue and a frame behind one
that cannot be serialised. Two chunks on two channels let one channel drop while the
other has delivered; two batches give one re-offer. Two events are one for each side:
both restart ICE, both change tracks, or a drop meets a pause. In `Gossip` an
incarnation of 3 is needed for a refutation to happen (start, death, refutation) and
`MaxTick` keeps ticks below it; one datagram in flight that may be delivered twice
and arbitrarily late is a stale digest. The two weights are scored so that a change of
weight changes the owner. Three calls of `sfu` are a tree, its removal and the
re-addition of a node.
`MaxOut`, `MaxIn`, `MaxBatches`, `MaxEdits`, `MaxEvents`, `MaxConns`, `MaxInc`,
`MaxTick`, `MaxNet`, the identities of `MediaServer` and `MaxCalls` are bounds of the models; the other
constants are options of the code (an unlimited number of attempts is not
instantiated).

**Deadlock** is checked in the server and client runs. A transfer ends, a call settles, and
in the other models the bounded environment runs out, so those runs may stop.

**Fairness.** Server: the heartbeat is an interval timer; a closing socket is closed
by its peer or by the ws library's close timeout; `wss.close` calls back once the
last socket has closed. Client: microtasks and due timers run (strong fairness for
the join timer, which microtasks may postpone), a connection attempt succeeds or
fails, a closing socket closes, and `tokenRefresh()` settles. Nothing is assumed of
remote peers, of hooks, or of the application.

## 4. Proofs

Each proof module states and proves one inductive invariant of its component,
`Init => IndInv` and `IndInv /\ [Next]_vars => IndInv'`, with one lemma per action or
per group of actions, and derives the theorems from it. The theorems hold for every
value of the constants that satisfies the assumptions; the bounds of section 3 are
among the constants. The properties were checked by TLC on the instances of section 3
before they were proved.

| Module | Theorem | States |
|---|---|---|
| `SignalingServerProofs` | `TypeCorrect` | `TypeOK`; in particular the counter never goes below zero |
| | `RegistryIsConsistent` | `RegistryConsistent` |
| | `OpenPeersAreMembers` | `OpenPeerIsMember` |
| | `RejectedSocketsClose` | `RejectedIsClosing` |
| | `NoAbandonedRoom` | `CreatingRoomHasCreator` |
| | `TimersAreConsistent` | `TimersMatchState` |
| | `SendersAreKnown` | `SenderIsKnown` |
| | `CounterIsExact` | `connections = Cardinality(Counted)` |
| | `NobodyIsMissing` | `NoMissingPeers` |
| | `LimitsHold` | `WithinLimits`: `maxRooms` and `maxPeersPerRoom` |
| | `SeatsImplemented` | `ImplementsSeats`: the refinement of `RoomSeats` |
| `SignalingClientProofs` | `TypeCorrect` | `TypeOK` |
| | `ConnectionsDoNotLeak` | `NoLeakedConnection` |
| | `TerminalStaysFinal` | `TerminalIsFinal` |
| | `RoomViewIsComplete` | `ViewIsComplete` |
| | `NeverStalls` | `UntimedNeverStalls` |
| | `FramesAreKept` | `FramesKept` |
| `FileTransferProofs` | `TypeCorrect` | `TypeOK` |
| | `CompletedWhole` | `CompletedIsWhole` |
| | `MismatchIsReal` | `NoFalseMismatch` |
| `TransferEndsProofs` | `TransfersEnd` | `TransferEnds` |
| `CallProofs` | `TypeCorrect` | `TypeOK` |
| | `TimersAreNeeded` | `TimerMeansWaiting` |
| | `CandidatesAreApplied` | `CandidatesDrained` |
| | `SendersFollow` | `SendersFollowRegistry` |
| | `AnswersMatch` | `AnswerMatchesOffer` |
| | `GlareIsSettled` | `GlareSettles` |
| `GossipProofs` | `TypeCorrect` | `TypeOK` |
| | `SaturatedNodesAgree` | `SaturatedAgree` |
| | `RoomsHaveOneOwner` | `RoomHasOneOwner` |
| `MediaServerProofs` | `TypeCorrect` | `TypeOK` |
| | `RoutersFollow` | `RoutersFollowRooms` |
| | `MediaFollows` | `MediaFollowsPeers` |
| `SfuClusterProofs` | `TypeCorrect` | `TypeOK` |
| | `RoomsAreServed` | `AssignmentsServed` |
| | `NodesTrackTheirRooms` | `TrackingMatches` |
| | `FailuresNeedEvidence` | `FailureNeedsEvidence` (an action property) |

**Assumptions.** Server: the sentinels are not members of their sets, the limits are
positive, `Conn` is finite (sockets are counted), slow and mute clients are sockets,
the timer options are Booleans. Client: `Null` is no transport, the bounds are naturals.
File transfer: at least one channel and one offer; the number of chunks may be zero.
Call: `NegTimeout` is a Boolean and at least one connection may be made. Gossip: seeds
are nodes, capacities are positive, and no two nodes score the same whatever their
weights. Media server: `None` is no
identity and the pool has at least one worker. SFU cluster: `None` is no node, no room
is used by the router and by a tree, fan-out, viewers per node and thresholds are
positive; the ids are arbitrary, so any number of objects may share one.

**Server.** The properties are not inductive one by one. That an open socket is its
room's peer needs that the handler's room id, peer id and Room object belong to its
phase (`HandlerInv`); that a joiner enters a registered room needs
`RegistryConsistent`; that rolling back an empty room never strands a peer needs that
an unjoined room still has its creator (`CreatingRoomHasCreator`), which in turn needs
the registry's uniqueness of ids. The invariant is therefore their conjunction

    IndInv == Typing /\ HandlerInv /\ RegistryConsistent /\ OpenPeerIsMember
              /\ RejectedIsClosing /\ CreatingRoomHasCreator /\ TimersMatchState

`Typing` leaves out the bound of the counter; `CounterIsExact` proves it with the
finite-set theorems and `TypeCorrect` follows from both. `SendersAreKnown` rests on
`NoMissingPeers` and `OpenPeerIsMember`: whom a frame reaches is in the room the sender
was admitted to, so knows the sender if the room still lists it, and otherwise the
sender's socket is closing.

**Seats.** All steps but two only take away: `Leaving` says that no room is registered,
nobody is seated and a peer that stays connected forgets only ids that left its room,
and it implies a step that vacates seats. `Resolve` may register an empty room, which
seats nobody. `Join` is the interesting one: the joiner has no seat because an open
socket is only in the room its handler captured, and the limits hold because the room
is registered already and `RejectFull` is checked in the step that seats.

**Client.** A step touches one transport, or two when `joinRoom()` abandons one, so the
invariant is a conjunction over transports of a predicate on the records of client,
transport and handshake (`TransportInv`): a transport does one thing at a time
(`ConnInv`), the handshake follows the first socket and buffers every frame until the
rest of `joinRoom()` runs (`JoinInv`), and the present transport is the one whose state
the application sees (`OwnInv`). Lemmas about the operations on one record (close,
retry, send, drain) then give every action. A second invariant, `LogsInv`, partitions
the frames handed to a transport into wire, queue and reported ones; that a drain of
the queue keeps it is proved with the position of the first frame that cannot be
serialised (the least-number principle of `WellFoundedInduction`).

**File transfer.** A worker's chunks are a lane (`LaneInv`): with a checksum, a live run
has read every chunk its workers are past, so `Sent` carries a full digest. `SinkBase`
and `SinkLive` say that each chunk received is in the sink or in the write chain until
the sink is final. The rest is about messages on their way: `Sent` goes out once and
after the last run, and a receiver that failed has told the sender before any
`Complete`, so that a `Complete` the sender acts upon comes from a sink that was
closed. The proof found the arms of `OnMessage`'s CASE overlapping, which left its
outcome to TLC's choice; it is now a chain of IFs in the order of the code.

**No transfer is left waiting.** `TransferEnds` speaks of quiet states, and what makes a
quiet state an end is that whoever waits is owed something that exists. `EndInv` says
so, on top of `IndInv` and as long as nobody pauses: an offer and a re-offer have their
timer unless it is disabled, and while the control channel lives their answer is due, that
is the offer is on its way, the application or the opening sink has it, or the answer is
on its way (`Pledged`); an Active transfer has its run (`Waits`); a side that ended has told the other one,
unless the offer was never taken up (`ToldInv`, `RefusedInv`); a sender that is completing
has its Sent on the way or received (`SentAll`), and a receiver with Sent and every chunk
has claimed completion (`ClaimInv`); while nothing was lost, every chunk a worker is past
was received or is on the wire of a bound channel (`Delivery`), and the chunks it skips
were received (`Haves`). Two things make these inductive: what cannot have happened before
the receiver is active (`EarlyInv`: no run, no frame, at most one offer), and that no
offer is behind a Cancel (`OffersFirst`), so that a Cancel taken before the offer leaves
no transfer behind. A channel that never opens holds up a worker only if the manager
closed before the offer, and then no run has started. `SenderCalm` and `ReceiverCalm`
reduce each action to what the side that moves has to respect; there is one lemma per
action. A pause is excluded by the property, not by the proof: a call of pause() or
resume() leaves nothing to show.

**Call.** `IndInv` is about each side alone: its chain of operations, its timer, its
candidates and its tracks, where one replacement at most is under way or was refused as
long as no call overlapped it. Answers need both sides and the messages between them.
`Glare` says that the impolite side's negotiation has exactly one trace while it
waits (its offer on its way, a handler of the polite side, the answer on its way, or
the handler that applies it) and none otherwise, and that each offer on its way to the
impolite side will be ignored or is the last one and awaited. Like the two properties,
it claims this while nothing was lost and no connection was replaced
(`FirstConnections`); candidates, tracks and ICE restarts are unrestricted.

**Gossip.** That two saturated nodes agree follows from `Merge` alone, given that a
liveness is never recorded without an incarnation (`LivenessIsKnown`). That their
routers name the same owner needs that the reconciler tracks the live nodes of its
node's view, except between start() and the answer of list() (`RoutersTrack`), and that
records, datagrams and rings carry the capacity with which an unedited node was built
(`CapsKept`).

**Media server.** `RouterInv` relates rooms, routers, creations and loads (the loads
with the cardinality theorems); `MediaInv` follows a transport, a producer and a
consumer through its request: what is live runs on something live, and a transport of
an open router belongs to a peer of the room unless the peer left during its creation.

**SFU cluster.** `RouterServed`, `TreeServed` and `Tracked` are the two room properties
for any set of registered nodes and any plane. They survive the loss of a node only if
it is heard of: a watched cluster is listened to at exactly its nodes (`Listened`), and
a node that serves is never among the ids already reported (`GoneAreLost`), so that
`FireGone` is skipped only for a node whose rooms are gone. The argument is one lemma
about `FireGone` with the rooms of the lost node exempted (`PlaneBut`), used for
failures and for removals. A new object starts without rooms; one that is added again may
bring rooms of trees along, which `Tracked` allows it, but none of the router's: the
router holds objects, not ids, and `Tracked` has its rooms fit at removed nodes as well.
`Streaks` gives the evidence: a streak of an id is at most what was reported of it since
its node was added, at most one ahead of what that node failed itself, and zero as long
as a probe of the former node is in flight. `Keeping` and `Grown` are recursive
functions: that such a function exists and what `Keeping` returns is shown with the
least number at which it would fail (`Recursion`, from `WellFoundedInduction`).

**Only model-checked.** Liveness (`SilentPeerLeaves`, `StopCompletes`,
`JoinSettles`, `RetriesEnd`) is out of the provers' reach. Every other invariant and
action property of the passing runs is a theorem. The violations of section 5 are counterexamples of TLC.

## 5. Findings

1. `RoomRegistry.rollbackIfEmpty` looks the room up by id without the identity
   check its neighbour makes: a failing creator whose own room has closed meanwhile
   disposes the fresh room of another connection (`server_rollback`).
2. `Room.addPeer` removes an id whose `room-joined` could not be sent without
   `removePeer`; when it had replaced a connection, an empty room stays active and
   other peers keep a ghost (`server_empty_room`).
3. A connect timeout on a *re*connect attempt marks the transport exhausted; nobody
   awaits that attempt and `onclose` returns early, so neither `Terminated` nor
   another attempt follows and the client keeps a dead transport
   (`client_stalled`). `UntimedNeverStalls` shows that, with
   reconnect on, it is the only way to stall.

Further disagreements met while modelling. The first ten are definitions of their
modules that TLC refutes when they are added to a run's cfg as an INVARIANT (the first
with the server runs, `ShortfallMeansFull` with the four nodes of `MCSfuCluster`, of
capacity 1 and two viewers per node); the properties of the runs are stated so as to leave these cases
out.

* `SignalingServer.StopDisconnectsEveryPeer` (SignalingServer.ts:260, stop() "disconnects
  every peer"): the sweep takes the peers of registered rooms, but a handshake in flight
  never looks at `_stopped`; it is admitted afterwards and stop() waits for it.
* `MediaServer.LeftPeersHoldNothing` (media/src/types.ts:22, "tears down a peer's media on
  `peerLeft`"): `createWebRtcTransport` registers its transport after two awaits without
  looking whether the peer has left, and `closeTransportsForPeer` closes registered ones
  only, so the transport stays open until the room closes.
* `MediaServer.ClosedPoolIsEmpty` (WorkerPool.ts:109, "Closes all workers and empties the
  pool. Respawning is disabled once closed."): a spawn that is in flight when the pool
  closes adds its worker afterwards, and the process keeps running.
* `MediaServer.StartReturnsReady` (WorkerPool.ts:72, "safe against concurrent calls;
  returns once all workers are ready"): `start()` returns at once while another call is
  spawning, so a concurrent `init()` marks the service started too early.
* `FileTransfer.CompletionIsTerminal` (ReceiveTransfer.ts:347-349, "Every path past
  here is terminal"): a receiver that is paused when the last chunk has come closes
  the sink and stays Paused, since Completing and Completed are illegal from there;
  likewise a paused sender sends Sent and then ignores Complete.
* `FileTransfer.EndReleasesSink` (ReceiveTransfer.ts:114-116): a transfer cancelled
  while the sink opens, or between the hash and the write of a chunk, leaves an open
  handle: abort() finds none, and write() opens the file again.
* `Call.RenegotiationIsTimed` (media/src/types.ts:104): an impolite side that ignores
  a colliding offer clears the timer of its own one (Call.ts:411), so a lost answer
  then leaves it waiting without a timeout.
* `Gossip.ConvergedViewsRouteAlike` (Gossip.test.ts:294, "two nodes with the converged
  view route every room to the same owner"; Membership.ts:46, watch calls back "whenever
  membership changes"): `_merge` takes over the capacity of a live node without notifying
  it (Gossip.ts:350), so two routers of nodes with the same view may weight the ring
  differently and name different owners. `RoomHasOneOwner` shows that without such a
  change they agree.
* `SfuCluster.DetachUntracksAll` (CascadeTree.ts:359, "untracking every participating
  node"): the tree untracks the nodes it finds in the cluster, from which a lost node is
  already deleted (CascadeTree.ts:299, 315, 370). The object keeps the room and, when it
  is added again (sfu.test.ts:152), tracks it without a tree; a drain waits for it.
  `TrackingMatches` shows that nothing else is tracked.
* `SfuCluster.ShortfallMeansFull` (CascadeTree.ts:62, unmetViewers "could not be seated due
  to insufficient capacity", on which line 219 adds nodes): `planCascadeTree` grows by
  viewersPerNode (default 1000) but seats by capacity (default 100), so viewers are left
  unserved while nodes are spare, and more nodes do not help.
* File transfer: `_interrupt` records a channel loss only in Active, so a loss while
  paused leaves the sender neither interrupted nor failed; resume() of an interrupted
  transfer makes it Active without workers; a loss after Sent is not noticed; a
  ControlLink whose channel died is never replaced, so after a reconnect the re-offer
  is queued for ever and the transfer ends by its timeout; a re-offer for a receive
  that has ended shows up as a new offer.
* Call: an offer that arrives while an answer is being applied counts as a collision;
  after ConnectionFailed a late signal creates a new connection with a fresh restart
  budget; when the browser refuses a replacement, the registry and later connections have
  the new track and the connection keeps the old one (Call.ts:169 before
  PeerConnection.ts:217), and removing or replacing a track then, or while a replacement
  is pending, leaves the connection with a track the registry no longer has; a rejected handler of a dropped
  connection clears the timer of its successor.
* Gossip: a node that deregisters itself is revived by the
  echo of its own death (298-304); forgetting a tombstone deletes a configured seed
  (370); dispose() with list() in flight still adds ids (MembershipReconciler.ts:46).
* SFU: a node removed while draining keeps its assignments (NodeFailureTracker.ts:34),
  although CascadingRouter.ts:25-27 says they are cleared; a probe of a replaced node
  counts once for its successor; a room id used by both router and tree is untracked by
  either.

* Media server: a producer or consumer whose transport closes while it is being created
  is registered and stays in the router's map; several routers created at once all go to
  the worker that was least loaded before; a worker that dies before `start()` returns,
  or whose respawn fails, is not replaced; a room reopened under its id while the router
  of its predecessor is being created gets the predecessor's error.

## 6. Not modelled

*Server*: roles and metadata (payload), audit log, metrics, logging, the health
endpoint, a failing bind, the rate limiter (it only drops frames a client may also not
send), the RoomCreated event. *Client*: the peer map of `Room`, delay values. *File
transfer*: byte formats, file names, browser sinks and sources, several transfers over
one control link. *Call*: media, statistics, simulcast, data channels, meshes of three
(each pair is independent but for the registry). *Gossip*: regions and metadata
other than the capacity, re-entrant snapshots, the UDP transport's framing and authentication. *SFU*:
the bridges, which start and stop media pipes in answer to events, loads and overload
events, statistics, bandwidth estimation. *Media server*: connecting transports, pausing
and resuming, pipes between routers (what is hard there is inside mediasoup). *Lock,
stores, bus* and the rate limiter are not modelled at all; schemas, types and re-exports keep no state.

## 7. Plan

Done: `SignalingServer`, `SignalingClient`, `FileTransfer`, `Call`, `Gossip`,
`SfuCluster`, `MediaServer`, the refinement of `RoomSeats`, and the theorems of section 4
for all of them. Left, most important first:

1. That `HashRing` moves only the keys of a node that comes or goes: a lemma about `Get`.
2. Models: client with server, for frames flushed before admission; the rate limiter's
   window and the lock with its TTL.

The modules are written without RECURSIVE operators so that they can be proved about.
Liveness stays with TLC: the provers do not handle fairness.
