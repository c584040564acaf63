--------------------------- MODULE SignalingServer ---------------------------
(* The signaling node of rtcforge-signaling: SignalingServer, RoomRegistry,  *)
(* Room, Peer and HeartbeatMonitor, composed as they run in one process.      *)
(*                                                                            *)
(* Node.js runs one callback at a time, so an action is the code between two  *)
(* awaits: handleConnection is cut at `await authenticator.resolve` and at    *)
(* `await iceServersHook`, and everything else - socket events, timers, API   *)
(* calls, stop() - may run in between.  A server without the hook has the     *)
(* subset of these behaviours in which nothing runs between Resolve and Join. *)
(*                                                                            *)
(* Conn and Room are identities of sockets and Room objects.  An identity is  *)
(* used again once the program holds no reference to the previous one.        *)
EXTENDS Naturals, FiniteSets

CONSTANTS
    Conn,            \* WebSocket objects (with their Peer, once it exists)
    Room,            \* Room objects
    RoomId, PeerId,  \* ids carried by the auth payload
    NoConn, NoRoom, NoRoomId, NoPeerId,
    MaxPeers, MaxRooms, MaxConnections,   \* SignalingServerOptions limits
    SlowConn,        \* sockets whose client may stop draining its receive side
    MuteConn,        \* sockets whose client may stop answering pings
    HasIdle, HasDuration   \* idleTimeoutMs / maxDurationMs configured

ASSUME SentinelAssumption ==
    /\ NoConn \notin Conn /\ NoRoom \notin Room
    /\ NoRoomId \notin RoomId /\ NoPeerId \notin PeerId
ASSUME LimitAssumption ==
    /\ MaxPeers \in Nat \ {0} /\ MaxRooms \in Nat \ {0}
    /\ MaxConnections \in Nat \ {0}
ASSUME ConnAssumption == IsFiniteSet(Conn)
ASSUME ClientAssumption == SlowConn \subseteq Conn /\ MuteConn \subseteq Conn
ASSUME OptionAssumption == HasIdle \in BOOLEAN /\ HasDuration \in BOOLEAN

VARIABLES
    server,       \* "down" | "listening" | "stopping" (stop() awaits wss.close)
    connections,  \* SignalingServer._connections
    ws,           \* readyState of every socket
    phase,        \* where handleConnection is for every socket
    rid, pid,     \* roomId and peerId captured by the handler
    inst,         \* the Room object captured by the handler
    creators,     \* sockets whose getOrCreate returned isNew = true
    congested,    \* sockets with bufferedAmount > maxBufferedBytes
    silent,       \* peers whose lastPong is older than pongTimeoutMs
    roster,       \* peers the server has announced over each open socket
    registry,     \* RoomRegistry._rooms
    state,        \* Room._state; Closing never outlives one callback
    peers,        \* Room._peers
    idle,         \* rooms with an armed _idleTimer
    duration,     \* rooms with an armed _durationTimer
    delivered     \* <<sender, receiver>> of the frames relayed by the last step

handlerVars == <<phase, rid, pid, inst, creators>>
roomVars    == <<registry, state, idle, duration>>
vars == <<server, connections, ws, phase, rid, pid, inst, creators, congested,
          silent, roster, registry, state, peers, idle, duration, delivered>>

TypeOK ==
    /\ server \in {"down", "listening", "stopping"}
    /\ connections \in Nat
    /\ ws \in [Conn -> {"open", "closing", "closed"}]
    /\ phase \in [Conn -> {"auth", "hook", "joined", "over", "refused"}]
    /\ rid \in [Conn -> RoomId \cup {NoRoomId}]
    /\ pid \in [Conn -> PeerId \cup {NoPeerId}]
    /\ inst \in [Conn -> Room \cup {NoRoom}]
    /\ creators \subseteq Conn /\ congested \subseteq Conn /\ silent \subseteq Conn
    /\ roster \in [Conn -> SUBSET PeerId]
    /\ registry \in [RoomId -> Room \cup {NoRoom}]
    /\ state \in [Room -> {"creating", "active", "closed"}]
    /\ peers \in [Room -> [PeerId -> Conn \cup {NoConn}]]
    /\ idle \subseteq Room /\ duration \subseteq Room
    /\ delivered \subseteq Conn \X Conn

Init ==
    /\ server = "down" /\ connections = 0
    /\ ws = [c \in Conn |-> "closed"]
    /\ phase = [c \in Conn |-> "over"]
    /\ rid = [c \in Conn |-> NoRoomId]
    /\ pid = [c \in Conn |-> NoPeerId]
    /\ inst = [c \in Conn |-> NoRoom]
    /\ creators = {} /\ congested = {} /\ silent = {}
    /\ roster = [c \in Conn |-> {}]
    /\ registry = [i \in RoomId |-> NoRoom]
    /\ state = [r \in Room |-> "closed"]
    /\ peers = [r \in Room |-> [p \in PeerId |-> NoConn]]
    /\ idle = {} /\ duration = {}
    /\ delivered = {}

-----------------------------------------------------------------------------
(* Room, RoomRegistry and Peer helpers *)

\* Room.getPeers: the sockets of a room's current peers.
Members(r) == {peers[r][p] : p \in PeerId} \ {NoConn}

\* Room.getPeerIds
MemberIds(r) == {p \in PeerId : peers[r][p] # NoConn}

\* RoomRegistry.size
RegistrySize == Cardinality({i \in RoomId : registry[i] # NoRoom})

\* Peer.disconnect on every socket of D: close() is a no-op unless open.
Disconnect(w, D) ==
    [c \in Conn |-> IF c \in D /\ w[c] = "open" THEN "closing" ELSE w[c]]

\* Peer.send over D fails quietly on a socket that is not open, disconnects
\* one whose buffer is over the limit, and reaches the others.
Overflow(D) == D \cap congested
Reached(D)  == {c \in D : ws[c] = "open"} \ congested

\* What a client knows is only followed while its socket is open.
SeenOver(w, view) == [c \in Conn |-> IF w[c] = "open" THEN view[c] ELSE {}]

\* Mutant of ResetIdle: any activity arms the timer.
ResetIdleAnyState(r, s, T) == IF HasIdle THEN T \cup {r} ELSE T

\* Room._resetIdleTimer in state s, T being the rooms with an armed timer.
ResetIdle(r, s, T) == IF HasIdle /\ s = "active" THEN T \cup {r} ELSE T

\* _clearTimers, _transitionTo(Closed) and the registry's removal of the room.
\* The registry deletes the entry only where it still holds this very object.
Discard(R) ==
    /\ state' = [r \in Room |-> IF r \in R THEN "closed" ELSE state[r]]
    /\ registry' = [i \in RoomId |-> IF registry[i] \in R THEN NoRoom ELSE registry[i]]
    /\ idle' = idle \ R
    /\ duration' = duration \ R

\* Mutant of RollbackIfEmpty: a failed join leaves the new room behind.
NoRollback(c, ps) == UNCHANGED roomVars

\* RoomRegistry.rollbackIfEmpty(roomId, isNew), looking at room contents ps:
\* it disposes whatever room is registered under the id at that moment.
RollbackIfEmpty(c, ps) ==
    Discard({r \in Room : /\ c \in creators
                          /\ registry[rid[c]] = r
                          /\ \A p \in PeerId : ps[r][p] = NoConn})

\* Room.removePeer for the ids gone[r] of every room r, the sockets being as w
\* says: the last leaver closes the room, otherwise the rest hear peer-left.
RemovePeers(gone, w) ==
    LET left(r)  == MemberIds(r) \ gone[r]
        emptied  == {r \in Room : gone[r] # {} /\ left(r) = {}}
        notified == {c \in Conn : \E r \in Room : /\ gone[r] # {}
                                                  /\ \E p \in left(r) : peers[r][p] = c}
    IN  /\ peers' = [r \in Room |-> [p \in PeerId |->
                        IF p \in gone[r] THEN NoConn ELSE peers[r][p]]]
        /\ ws' = Disconnect(w, Overflow(notified))
        /\ roster' = SeenOver(ws', [c \in Conn |->
                        IF c \in notified THEN roster[c] \ gone[inst[c]] ELSE roster[c]])
        /\ Discard(emptied)

\* Only the peer p of room r leaves.
Leaver(r, p) == [x \in Room |-> IF x = r THEN {p} ELSE {}]

\* Mutant of IsMember: the identity check on the Peer object is dropped.
IsAdmitted(c) == phase[c] = "joined"

\* Does the room still list this very Peer object under its id?
IsMember(c) == phase[c] = "joined" /\ peers[inst[c]][pid[c]] = c

\* handleConnection of c has returned: nothing refers to its locals any more.
EndHandler(c) ==
    /\ phase' = [phase EXCEPT ![c] = "over"]
    /\ rid' = [rid EXCEPT ![c] = NoRoomId]
    /\ pid' = [pid EXCEPT ![c] = NoPeerId]
    /\ inst' = [inst EXCEPT ![c] = NoRoom]
    /\ creators' = creators \ {c}

-----------------------------------------------------------------------------
(* SignalingServer.start / stop *)

Start ==
    /\ server = "down"
    /\ server' = "listening"
    /\ delivered' = {}
    /\ UNCHANGED <<connections, ws, handlerVars, congested, silent, roster,
                   roomVars, peers>>

\* Mutant of Stop: the rooms are disposed but their sockets stay open.
StopWithoutDisconnect ==
    LET open == {registry[i] : i \in RoomId} \ {NoRoom}
    IN  /\ server = "listening"
        /\ server' = "stopping"
        /\ peers' = [r \in Room |-> IF r \in open THEN [p \in PeerId |-> NoConn]
                                                  ELSE peers[r]]
        /\ Discard(open)
        /\ delivered' = {}
        /\ UNCHANGED <<connections, ws, handlerVars, congested, silent, roster>>

\* stop() up to `await wss.close`: the heartbeat ends, every peer of every
\* registered room is disconnected and the rooms are disposed.
Stop ==
    LET open == {registry[i] : i \in RoomId} \ {NoRoom}
    IN  /\ server = "listening"
        /\ server' = "stopping"
        /\ ws' = Disconnect(ws, UNION {Members(r) : r \in open})
        /\ roster' = SeenOver(ws', roster)
        /\ peers' = [r \in Room |-> IF r \in open THEN [p \in PeerId |-> NoConn]
                                                  ELSE peers[r]]
        /\ Discard(open)
        /\ delivered' = {}
        /\ UNCHANGED <<connections, handlerVars, congested, silent>>

\* wss.close reports back once every client socket has closed.
FinishStop ==
    /\ server = "stopping"
    /\ \A c \in Conn : ws[c] = "closed"
    /\ server' = "down"
    /\ delivered' = {}
    /\ UNCHANGED <<connections, ws, handlerVars, congested, silent, roster,
                   roomVars, peers>>

-----------------------------------------------------------------------------
(* The 'connection' callback and handleConnection *)

\* A socket identity no earlier connection is still using.
Free(c) == phase[c] = "over" /\ ws[c] = "closed"

\* Origin not allowed, or server at capacity: closed without being counted.
RefuseConnection(c) ==
    /\ server = "listening" /\ Free(c)
    /\ ws' = [ws EXCEPT ![c] = "closing"]
    /\ phase' = [phase EXCEPT ![c] = "refused"]
    /\ delivered' = {}
    /\ UNCHANGED <<server, connections, rid, pid, inst, creators, congested,
                   silent, roster, roomVars, peers>>

AcceptConnection(c) ==
    /\ server = "listening" /\ Free(c)
    /\ connections < MaxConnections
    /\ connections' = connections + 1
    /\ ws' = [ws EXCEPT ![c] = "open"]
    /\ phase' = [phase EXCEPT ![c] = "auth"]
    /\ delivered' = {}
    /\ UNCHANGED <<server, rid, pid, inst, creators, congested, silent, roster,
                   roomVars, peers>>

\* Mutant of RejectHandshake: the early return forgets ws.close.
RejectWithoutClose(c) ==
    /\ phase[c] = "auth"
    /\ phase' = [phase EXCEPT ![c] = "over"]
    /\ delivered' = {}
    /\ UNCHANGED <<server, connections, ws, rid, pid, inst, creators, congested,
                   silent, roster, roomVars, peers>>

\* An early return of the handshake: the socket is closed, nothing was built.
RejectHandshake(c) ==
    /\ phase[c] = "auth"
    /\ phase' = [phase EXCEPT ![c] = "over"]
    /\ ws' = Disconnect(ws, {c})
    /\ delivered' = {}
    /\ UNCHANGED <<server, connections, rid, pid, inst, creators, congested,
                   silent, roster, roomVars, peers>>

\* The authenticator rejects: the host's callback throws, or its payload or the
\* query parameters are not valid.
AuthFails(c) == RejectHandshake(c)

\* The RoomRouter assigns the room to another node.
WrongNode(c) == RejectHandshake(c)

\* A new room would exceed maxRooms.
RejectRoomCap(c, i) ==
    /\ registry[i] = NoRoom /\ RegistrySize >= MaxRooms
    /\ RejectHandshake(c)

\* RoomRegistry.getOrCreate for connection c: the registered room, or a fresh
\* Room object whose duration timer starts at once.
GetOrCreate(c, i) ==
    \/ /\ registry[i] # NoRoom
       /\ inst' = [inst EXCEPT ![c] = registry[i]]
       /\ UNCHANGED <<creators, roomVars>>
    \/ /\ registry[i] = NoRoom
       /\ \E r \in Room :
             /\ state[r] = "closed" /\ \A d \in Conn : inst[d] # r
             /\ inst' = [inst EXCEPT ![c] = r]
             /\ registry' = [registry EXCEPT ![i] = r]
             /\ state' = [state EXCEPT ![r] = "creating"]
             /\ duration' = IF HasDuration THEN duration \cup {r} ELSE duration
       /\ creators' = creators \cup {c}
       /\ UNCHANGED idle

\* The payload is accepted and the room is within maxRooms: the Peer is built on
\* the socket and the handler awaits iceServersHook.
Resolve(c, i, p) ==
    /\ phase[c] = "auth"
    /\ registry[i] = NoRoom => RegistrySize < MaxRooms
    /\ phase' = [phase EXCEPT ![c] = "hook"]
    /\ rid' = [rid EXCEPT ![c] = i]
    /\ pid' = [pid EXCEPT ![c] = p]
    /\ GetOrCreate(c, i)
    /\ delivered' = {}
    /\ UNCHANGED <<server, connections, ws, congested, silent, roster, peers>>

\* The handler gives the connection up: the socket is closed and a room this
\* connection created is rolled back.
Abandon(c) ==
    /\ ws' = Disconnect(ws, {c})
    /\ EndHandler(c)
    /\ silent' = silent \ {c}
    /\ RollbackIfEmpty(c, peers)
    /\ delivered' = {}
    /\ UNCHANGED <<server, connections, congested, roster, peers>>

\* iceServersHook rejected.
HookFailed(c) ==
    /\ phase[c] = "hook"
    /\ Abandon(c)

\* addPeer on a room that closed while the hook was pending.
RejectClosing(c) ==
    /\ phase[c] = "hook" /\ state[inst[c]] = "closed"
    /\ Abandon(c)

\* addPeer on a full room; a reconnecting peer id is exempt from the limit.
RejectFull(c) ==
    /\ phase[c] = "hook" /\ state[inst[c]] # "closed"
    /\ peers[inst[c]][pid[c]] = NoConn
    /\ Cardinality(MemberIds(inst[c])) >= MaxPeers
    /\ Abandon(c)

\* Mutant of MayEnter: the capacity check is off by one.
MayEnterOneOver(c) ==
    /\ phase[c] = "hook" /\ state[inst[c]] # "closed"
    /\ \/ peers[inst[c]][pid[c]] # NoConn
       \/ Cardinality(MemberIds(inst[c])) <= MaxPeers

\* Mutant of MayEnter: a room that closed during the hook still admits.
MayEnterClosed(c) ==
    /\ phase[c] = "hook"
    /\ \/ peers[inst[c]][pid[c]] # NoConn
       \/ Cardinality(MemberIds(inst[c])) < MaxPeers

\* addPeer gets past its early returns.
MayEnter(c) ==
    /\ phase[c] = "hook" /\ state[inst[c]] # "closed"
    /\ \/ peers[inst[c]][pid[c]] # NoConn
       \/ Cardinality(MemberIds(inst[c])) < MaxPeers

\* Mutant of Audience: only reconnections are announced.
AudienceSwapped(r, p) ==
    IF peers[r][p] = NoConn THEN {} ELSE Members(r)

\* The sockets addPeer tells of a newcomer p: nobody when p only reconnects.
Audience(r, p) ==
    IF peers[r][p] = NoConn THEN Members(r) ELSE {}

\* addPeer succeeds: an older connection of the same peer id is replaced, the
\* newcomer receives room-joined, and a genuinely new id is announced.
Join(c) ==
    LET r        == inst[c]
        previous == peers[r][pid[c]]
        told     == Audience(r, pid[c])
    IN  /\ MayEnter(c) /\ ws[c] = "open"
        /\ peers' = [peers EXCEPT ![r][pid[c]] = c]
        /\ ws' = Disconnect(ws, {previous} \cup Overflow(told))
        /\ roster' = SeenOver(ws', [d \in Conn |->
                        IF d = c THEN MemberIds(r) \ {pid[c]}
                        ELSE IF d \in told THEN roster[d] \cup {pid[c]} ELSE roster[d]])
        /\ state' = [state EXCEPT ![r] = "active"]
        /\ idle' = ResetIdle(r, "active", idle)
        /\ creators' = creators \ {c}
        /\ phase' = [phase EXCEPT ![c] = "joined"]
        /\ delivered' = {}
        /\ UNCHANGED <<server, connections, rid, pid, inst, congested, silent,
                       registry, duration>>

\* addPeer throws because room-joined cannot be sent, the socket having gone away
\* during the hook or its send failing: the older connection is already
\* disconnected, and the id is deleted without a word to the other peers.
JoinThrows(c) ==
    LET r == inst[c]
    IN  /\ MayEnter(c)
        /\ ws' = Disconnect(ws, {c, peers[r][pid[c]]})
        /\ roster' = SeenOver(ws', roster)
        /\ peers' = [peers EXCEPT ![r][pid[c]] = NoConn]
        /\ EndHandler(c)
        /\ silent' = silent \ {c}
        /\ RollbackIfEmpty(c, peers')
        /\ delivered' = {}
        /\ UNCHANGED <<server, connections, congested>>

-----------------------------------------------------------------------------
(* Socket events *)

\* The client closes or loses its connection; the 'close' event comes later.
ClientLeaves(c) ==
    /\ ws[c] = "open"
    /\ ws' = Disconnect(ws, {c})
    /\ roster' = SeenOver(ws', roster)
    /\ delivered' = {}
    /\ UNCHANGED <<server, connections, handlerVars, congested, silent,
                   roomVars, peers>>

\* Mutant of CloseUnadmitted: a refused socket is subtracted although it was
\* never counted.
CloseUncounted(c) ==
    /\ ws[c] = "closing" /\ phase[c] # "joined"
    /\ ws' = [ws EXCEPT ![c] = "closed"]
    /\ connections' = connections - 1
    /\ phase' = [phase EXCEPT ![c] = IF @ = "refused" THEN "over" ELSE @]
    /\ delivered' = {}
    /\ UNCHANGED <<server, rid, pid, inst, creators, congested, silent, roster,
                   roomVars, peers>>

\* 'close' of a socket that was never admitted.
CloseUnadmitted(c) ==
    /\ ws[c] = "closing" /\ phase[c] # "joined"
    /\ ws' = [ws EXCEPT ![c] = "closed"]
    /\ connections' = IF phase[c] = "refused" THEN connections ELSE connections - 1
    /\ phase' = [phase EXCEPT ![c] = IF @ = "refused" THEN "over" ELSE @]
    /\ delivered' = {}
    /\ UNCHANGED <<server, rid, pid, inst, creators, congested, silent, roster,
                   roomVars, peers>>

\* 'close' of an admitted socket: Disconnected removes the peer, provided the
\* room still lists this very Peer.
CloseAdmitted(c) ==
    /\ ws[c] = "closing" /\ phase[c] = "joined"
    /\ connections' = connections - 1
    /\ RemovePeers(IF IsMember(c) THEN Leaver(inst[c], pid[c])
                                  ELSE [r \in Room |-> {}],
                   [ws EXCEPT ![c] = "closed"])
    /\ EndHandler(c)
    /\ congested' = congested \ {c}
    /\ silent' = silent \ {c}
    /\ delivered' = {}
    /\ UNCHANGED server

\* Only an admitted peer is ever sent enough to fill its socket buffer.
Congest(c) ==
    /\ c \in SlowConn \ congested /\ phase[c] = "joined" /\ ws[c] = "open"
    /\ congested' = congested \cup {c}
    /\ delivered' = {}
    /\ UNCHANGED <<server, connections, ws, handlerVars, silent, roster,
                   roomVars, peers>>

Drain(c) ==
    /\ c \in congested
    /\ congested' = congested \ {c}
    /\ delivered' = {}
    /\ UNCHANGED <<server, connections, ws, handlerVars, silent, roster,
                   roomVars, peers>>

\* pongTimeoutMs passes without an accepted frame from the client.
FallSilent(c) ==
    /\ c \in MuteConn \ silent /\ phase[c] \in {"hook", "joined"}
    /\ silent' = silent \cup {c}
    /\ delivered' = {}
    /\ UNCHANGED <<server, connections, ws, handlerVars, congested, roster,
                   roomVars, peers>>

\* Frames still arrive while the closing handshake runs.
MayReceive(c) == phase[c] \in {"hook", "joined"} /\ ws[c] # "closed"

\* A pong, or a signal or broadcast frame of a peer not admitted yet: it only
\* counts as a sign of life.
Pong(c) ==
    /\ MayReceive(c)
    /\ silent' = silent \ {c}
    /\ delivered' = {}
    /\ UNCHANGED <<server, connections, ws, handlerVars, congested, roster,
                   roomVars, peers>>

\* Mutant of MayRelay: frames are relayed before the peer is admitted.
MayRelayEarly(c) == phase[c] \in {"hook", "joined"}

\* Peer.handleMessage relays frames of admitted peers only.
MayRelay(c) == phase[c] = "joined"

\* The frame of c is sent to the sockets of D by the room c captured.
Forward(c, D) ==
    /\ MayReceive(c) /\ MayRelay(c)
    /\ silent' = silent \ {c}
    /\ delivered' = {c} \X Reached(D)
    /\ ws' = Disconnect(ws, Overflow(D))
    /\ roster' = SeenOver(ws', roster)
    /\ UNCHANGED <<server, connections, handlerVars, congested, roomVars, peers>>

Signal(c, to) == Forward(c, {peers[inst[c]][to]} \ {NoConn})

Broadcast(c) ==
    Forward(c, {peers[inst[c]][p] : p \in PeerId \ {pid[c]}} \ {NoConn})

-----------------------------------------------------------------------------
(* Calls of the host application, timers and the heartbeat *)

\* Room.broadcast / Room.setPeerRole: a frame to every peer of the room.
RoomBroadcast(r) ==
    /\ Members(r) # {}
    /\ ws' = Disconnect(ws, Overflow(Members(r)))
    /\ roster' = SeenOver(ws', roster)
    /\ delivered' = {}
    /\ UNCHANGED <<server, connections, handlerVars, congested, silent,
                   roomVars, peers>>

KickPeer(r, p) ==
    /\ peers[r][p] # NoConn
    /\ RemovePeers(Leaver(r, p), Disconnect(ws, {peers[r][p]}))
    /\ delivered' = {}
    /\ UNCHANGED <<server, connections, handlerVars, congested, silent>>

\* _forceClose: the room enters Closing and clears its timers, the ROOM_EXPIRED
\* broadcast counts as activity, and the room closes without its peers.
ForceClose(r) ==
    /\ state[r] # "closed"
    /\ idle' = ResetIdle(r, "closing", idle \ {r})
    /\ duration' = duration \ {r}
    /\ ws' = Disconnect(ws, Members(r))
    /\ roster' = SeenOver(ws', roster)
    /\ peers' = [peers EXCEPT ![r] = [p \in PeerId |-> NoConn]]
    /\ state' = [state EXCEPT ![r] = "closed"]
    /\ registry' = [i \in RoomId |-> IF registry[i] = r THEN NoRoom ELSE registry[i]]
    /\ delivered' = {}
    /\ UNCHANGED <<server, connections, handlerVars, congested, silent>>

IdleTimeout(r) == r \in idle /\ ForceClose(r)
DurationTimeout(r) == r \in duration /\ ForceClose(r)

\* Mutant of HeartbeatTick: every peer is pinged and none is pruned.
PingOnlyTick ==
    /\ server = "listening"
    /\ ws' = Disconnect(ws, Overflow(UNION {Members(r) : r \in Room}))
    /\ roster' = SeenOver(ws', roster)
    /\ delivered' = {}
    /\ UNCHANGED <<server, connections, handlerVars, congested, silent, roomVars, peers>>

\* HeartbeatMonitor._tick: prune the silent peers of every registered room and
\* ping the others.
HeartbeatTick ==
    LET rooms == {registry[i] : i \in RoomId} \ {NoRoom}
        dead  == [r \in Room |-> IF r \in rooms
                     THEN {p \in MemberIds(r) : peers[r][p] \in silent} ELSE {}]
        all   == UNION {Members(r) : r \in rooms}
    IN  /\ server = "listening"
        /\ RemovePeers(dead, Disconnect(ws, (all \cap silent) \cup Overflow(all)))
        /\ delivered' = {}
        /\ UNCHANGED <<server, connections, handlerVars, congested, silent>>

-----------------------------------------------------------------------------
ServerStep == Start \/ Stop \/ FinishStop \/ HeartbeatTick

HandshakeStep(c) ==
    \/ AuthFails(c) \/ WrongNode(c)
    \/ \E i \in RoomId : RejectRoomCap(c, i)
    \/ \E i \in RoomId, p \in PeerId : Resolve(c, i, p)
    \/ HookFailed(c) \/ RejectClosing(c) \/ RejectFull(c)
    \/ Join(c) \/ JoinThrows(c)

ClientStep(c) ==
    \/ RefuseConnection(c) \/ AcceptConnection(c) \/ ClientLeaves(c)
    \/ Congest(c) \/ Drain(c) \/ FallSilent(c)

CloseStep(c) == CloseUnadmitted(c) \/ CloseAdmitted(c)

RoomStep(r) ==
    \/ RoomBroadcast(r) \/ IdleTimeout(r) \/ DurationTimeout(r)
    \/ \E p \in PeerId : KickPeer(r, p)

FrameStep(c) == Pong(c) \/ Broadcast(c) \/ \E p \in PeerId : Signal(c, p)

Next ==
    \/ ServerStep
    \/ \E c \in Conn : HandshakeStep(c) \/ ClientStep(c) \/ CloseStep(c) \/ FrameStep(c)
    \/ \E r \in Room : RoomStep(r)

Spec == Init /\ [][Next]_vars

\* The process keeps running its callbacks: a closing socket is closed by the
\* other end or by the close timeout of the ws library, the heartbeat is an
\* interval timer, and wss.close calls back once the last socket is closed.
\* Nothing is assumed of clients or of the promises the host's hooks return.
Fairness ==
    /\ WF_vars(HeartbeatTick)
    /\ WF_vars(FinishStop)
    /\ \A c \in Conn : WF_vars(CloseStep(c))

FairSpec == Spec /\ Fairness

-----------------------------------------------------------------------------
(* Safety *)

\* A room is live exactly while the registry holds it, under one id and the id
\* its connections asked for; only a live room that admitted someone has peers.
RegistryConsistent ==
    /\ \A i \in RoomId : registry[i] # NoRoom => state[registry[i]] # "closed"
    /\ \A r \in Room : state[r] # "closed" => \E i \in RoomId : registry[i] = r
    /\ \A i, j \in RoomId : registry[i] = registry[j] /\ registry[i] # NoRoom => i = j
    /\ \A c \in Conn : phase[c] \in {"hook", "joined"} =>
          state[inst[c]] = "closed" \/ registry[rid[c]] = inst[c]
    /\ \A r \in Room : MemberIds(r) # {} => state[r] = "active"

\* An admitted connection whose socket is open is the one its room lists under
\* its id - so a replaced, kicked, pruned or expired connection is never left
\* open - and a room lists only admitted connections that have not closed.
OpenPeerIsMember ==
    /\ \A c \in Conn : phase[c] = "joined" /\ ws[c] = "open" =>
          peers[inst[c]][pid[c]] = c
    /\ \A r \in Room, p \in PeerId : peers[r][p] # NoConn =>
          LET c == peers[r][p]
          IN  phase[c] = "joined" /\ ws[c] # "closed" /\ inst[c] = r /\ pid[c] = p

\* A connection the server turned away is never left open: no path through
\* handleConnection that ends without an admission forgets the socket.
RejectedIsClosing ==
    \A c \in Conn : phase[c] \in {"over", "refused"} => ws[c] # "open"

\* A room that nobody has joined yet still has its creator in the handshake, so
\* a failed handshake never leaves an empty room behind.
CreatingRoomHasCreator ==
    \A r \in Room : state[r] = "creating" =>
        \E c \in creators : phase[c] = "hook" /\ inst[c] = r

\* Every peer connected to a room has been told of all the others in it: no
\* order of joins, replacements, removals and failed joins loses a peer-joined.
NoMissingPeers ==
    \A r \in Room, p \in PeerId :
        LET c == peers[r][p]
        IN  c # NoConn /\ ws[c] = "open" => MemberIds(r) \ {p} \subseteq roster[c]

\* The sockets _connections stands for: accepted and not closed yet.
Counted == {c \in Conn : ws[c] # "closed" /\ phase[c] # "refused"}

\* A room that is gone holds no armed timer, and an active room always has its
\* idle timer armed when one is configured.
TimersMatchState ==
    /\ \A r \in idle \cup duration : state[r] # "closed"
    /\ HasIdle => \A r \in Room : state[r] = "active" => r \in idle

\* A client is introduced to a peer before it hears from it: a relayed frame
\* reaches only clients that have been told of its sender, whatever joins,
\* replacements and frames sent during the admission window came before.  The
\* one exception is a sender that its room has removed and whose socket is still
\* closing: its last frames follow its peer-left (Peer.handleMessage, Room.relay).
SenderIsKnown ==
    \A m \in delivered : m[1] # m[2] =>
        \/ pid[m[1]] \in roster[m[2]]
        \/ phase[m[1]] = "joined" /\ ~IsMember(m[1]) /\ ws[m[1]] # "open"

-----------------------------------------------------------------------------
(* The abstract specification that the server implements *)

\* The peers of the Room object that the registry holds under each id.
SeatsOf ==
    [i \in RoomId |-> IF registry[i] = NoRoom THEN [p \in PeerId |-> NoConn]
                                             ELSE peers[registry[i]]]

Seats == INSTANCE RoomSeats WITH seats <- SeatsOf

\* Whatever Room objects come and go under an id, and however handshakes overlap,
\* each step seats one unseated connection within maxPeers and maxRooms, or only
\* vacates seats (Room.addPeer, removePeer, dispose; RoomRegistry).
ImplementsSeats == Seats!Spec

-----------------------------------------------------------------------------
(* Liveness *)

\* While the server listens, a peer that stopped answering is pruned (or speaks
\* again): it does not keep its place in the room.
SilentPeerLeaves ==
    \A c \in Conn :
        server = "listening" /\ IsMember(c) /\ c \in silent
            ~> server # "listening" \/ ~IsMember(c) \/ c \notin silent

\* stop() completes when no handshake is in flight while it runs.
StopCompletes ==
    [](server = "stopping" => \A c \in Conn : phase[c] \notin {"auth", "hook"})
        => (server = "stopping" ~> server = "down")

-----------------------------------------------------------------------------
(* What the documentation says and the code does not keep *)

\* RoomRegistry: a connection that fails rolls back the room it created, never
\* a fresh room that reused the id.
RollbackOwnRoomOnly ==
    [][\A c \in Conn, r \in Room :
          /\ server = "listening" /\ server' = "listening"
          /\ phase[c] = "hook" /\ phase'[c] = "over"
          /\ state[r] # "closed" /\ state'[r] = "closed"
          => r = inst[c]]_vars

\* Room: it "closes automatically when its last peer leaves", and a peer whose
\* room-joined cannot be sent "is rolled back out of the room": an active room
\* has peers, and a connected peer counts only peers of the room as present.
RoomTracksItsPeers ==
    /\ \A r \in Room : state[r] = "active" => Members(r) # {}
    /\ \A r \in Room : \A p \in MemberIds(r) :
          ws[peers[r][p]] = "open" => roster[peers[r][p]] \subseteq MemberIds(r)

\* stop() "disconnects every peer": none is connected once it has run.
StopDisconnectsEveryPeer ==
    server = "stopping" => \A c \in Conn : phase[c] = "joined" => ws[c] # "open"
=============================================================================
