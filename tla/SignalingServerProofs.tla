------------------------ MODULE SignalingServerProofs ------------------------
(* Invariance proofs for SignalingServer, for every number of sockets, rooms, *)
(* room ids and peer ids and every configuration of limits and timers; then   *)
(* what the rooms promise on top of them: every connected peer knows the      *)
(* others of its room, and the node implements RoomSeats.                     *)
(*                                                                            *)
(* Seen from the rooms there are only three kinds of steps: a handshake that  *)
(* looks its room up (Resolve), an admission (Join), and all the others, in   *)
(* which peers can only leave (Leaving).                                      *)
EXTENDS SignalingServer, FiniteSetTheorems, TLAPS

\* TypeOK without the counter, whose type depends on what it counts.
Typing ==
    /\ server \in {"down", "listening", "stopping"}
    /\ ws \in [Conn -> {"open", "closing", "closed"}]
    /\ phase \in [Conn -> {"auth", "hook", "joined", "over", "refused"}]
    /\ rid \in [Conn -> RoomId \cup {NoRoomId}]
    /\ pid \in [Conn -> PeerId \cup {NoPeerId}]
    /\ inst \in [Conn -> Room \cup {NoRoom}]
    /\ creators \subseteq Conn /\ congested \subseteq Conn /\ silent \subseteq Conn
    /\ roster \in [Conn -> SUBSET PeerId]
    /\ registry \in [RoomId -> Room \cup {NoRoom}]
    /\ state \in [Room -> {"creating", "active", "closed"}]
    /\ peers \in [Room -> [PeerId -> Conn \cup {NoConn}]]
    /\ idle \subseteq Room /\ duration \subseteq Room
    /\ delivered \subseteq Conn \X Conn

\* The locals of a handler exist exactly while something refers to them.
HandlerInv ==
    /\ \A c \in Conn :
          IF phase[c] \in {"hook", "joined"}
          THEN inst[c] \in Room /\ rid[c] \in RoomId /\ pid[c] \in PeerId
          ELSE inst[c] = NoRoom
    /\ \A c \in creators : phase[c] = "hook"

\* The inductive invariant: none of the safety properties below is inductive
\* without the others.
IndInv ==
    /\ Typing
    /\ HandlerInv
    /\ RegistryConsistent
    /\ OpenPeerIsMember
    /\ RejectedIsClosing
    /\ CreatingRoomHasCreator
    /\ TimersMatchState

-----------------------------------------------------------------------------
(* Facts about the helpers *)

\* Disconnect keeps closed sockets closed and opens none.
LEMMA DisconnectFacts ==
    ASSUME NEW w \in [Conn -> {"open", "closing", "closed"}], NEW D
    PROVE  /\ Disconnect(w, D) \in [Conn -> {"open", "closing", "closed"}]
           /\ \A c \in Conn :
                 /\ Disconnect(w, D)[c] = "closed" <=> w[c] = "closed"
                 /\ Disconnect(w, D)[c] = "open" <=> w[c] = "open" /\ c \notin D
BY DEF Disconnect

\* Hiding the rosters of closed sockets keeps them sets of peer ids.
LEMMA SeenOverType ==
    ASSUME NEW w, NEW view \in [Conn -> SUBSET PeerId]
    PROVE  SeenOver(w, view) \in [Conn -> SUBSET PeerId]
BY DEF SeenOver

\* Discard keeps the types of what it changes.
LEMMA DiscardType ==
    ASSUME Typing, NEW R \in SUBSET Room, Discard(R)
    PROVE  /\ registry' \in [RoomId -> Room \cup {NoRoom}]
           /\ state' \in [Room -> {"creating", "active", "closed"}]
           /\ idle' \subseteq Room /\ duration' \subseteq Room
BY DEF Typing, Discard

\* Closing a room at once discards it: the broadcast that goes before does not arm
\* its idle timer again (Room._forceClose, _resetIdleTimer).
LEMMA ForceCloseDiscards ==
    ASSUME Typing, NEW r \in Room, ForceClose(r)
    PROVE  Discard({r})
BY SentinelAssumption DEF Typing, ForceClose, Discard, ResetIdle

\* So does RemovePeers, whatever it removes.
LEMMA RemovePeersType ==
    ASSUME Typing, NEW gone \in [Room -> SUBSET PeerId],
           NEW w \in [Conn -> {"open", "closing", "closed"}],
           RemovePeers(gone, w)
    PROVE  /\ registry' \in [RoomId -> Room \cup {NoRoom}]
           /\ state' \in [Room -> {"creating", "active", "closed"}]
           /\ idle' \subseteq Room /\ duration' \subseteq Room
           /\ ws' \in [Conn -> {"open", "closing", "closed"}]
           /\ roster' \in [Conn -> SUBSET PeerId]
           /\ peers' \in [Room -> [PeerId -> Conn \cup {NoConn}]]
<1> DEFINE left(r)  == MemberIds(r) \ gone[r]
           emptied  == {r \in Room : gone[r] # {} /\ left(r) = {}}
           notified == {c \in Conn : \E r \in Room : /\ gone[r] # {}
                                                     /\ \E p \in left(r) : peers[r][p] = c}
           view == [c \in Conn |->
                        IF c \in notified THEN roster[c] \ gone[inst[c]] ELSE roster[c]]
<1>1. /\ peers' = [r \in Room |-> [p \in PeerId |->
                      IF p \in gone[r] THEN NoConn ELSE peers[r][p]]]
      /\ ws' = Disconnect(w, Overflow(notified))
      /\ roster' = SeenOver(ws', view)
      /\ Discard(emptied)
  BY DEF RemovePeers
<1> HIDE DEF notified, emptied
<1>2. peers' \in [Room -> [PeerId -> Conn \cup {NoConn}]]
  BY <1>1 DEF Typing
<1>3. ws' \in [Conn -> {"open", "closing", "closed"}]
  BY <1>1, DisconnectFacts
<1>4. view \in [Conn -> SUBSET PeerId]
  BY DEF Typing
<1>5. roster' \in [Conn -> SUBSET PeerId]
  BY <1>1, <1>4, SeenOverType
<1>6. emptied \in SUBSET Room
  BY DEF emptied
<1> QED
  BY <1>1, <1>2, <1>3, <1>5, <1>6, DiscardType

-----------------------------------------------------------------------------
(* Typing *)

\* RollbackIfEmpty keeps the types of what it changes.
LEMMA RollbackType ==
    ASSUME Typing, NEW c, NEW ps, RollbackIfEmpty(c, ps)
    PROVE  /\ registry' \in [RoomId -> Room \cup {NoRoom}]
           /\ state' \in [Room -> {"creating", "active", "closed"}]
           /\ idle' \subseteq Room /\ duration' \subseteq Room
<1> DEFINE R == {r \in Room : /\ c \in creators
                              /\ registry[rid[c]] = r
                              /\ \A p \in PeerId : ps[r][p] = NoConn}
<1>1. R \in SUBSET Room
  OBVIOUS
<1>2. Discard(R)
  BY DEF RollbackIfEmpty
<1> QED
  BY <1>1, <1>2, DiscardType

\* Every step keeps the types.
LEMMA TypingStep ==
    ASSUME Typing, HandlerInv, [Next]_vars
    PROVE  Typing'
<1> USE DEF Typing
<1>1. CASE Start
  BY <1>1 DEF Start, handlerVars, roomVars
<1>2. CASE Stop
  <2> DEFINE open == {registry[i] : i \in RoomId} \ {NoRoom}
  <2>1. /\ server' = "stopping" /\ Discard(open) /\ delivered' = {}
        /\ ws' = Disconnect(ws, UNION {Members(r) : r \in open})
        /\ roster' = SeenOver(ws', roster)
        /\ peers' = [r \in Room |-> IF r \in open THEN [p \in PeerId |-> NoConn]
                                                  ELSE peers[r]]
        /\ UNCHANGED <<handlerVars, congested, silent>>
    BY <1>2 DEF Stop
  <2>2. open \in SUBSET Room
    OBVIOUS
  <2> HIDE DEF open
  <2>3. ws' \in [Conn -> {"open", "closing", "closed"}]
    BY <2>1, DisconnectFacts
  <2>4. roster' \in [Conn -> SUBSET PeerId]
    BY <2>1, SeenOverType
  <2>5. peers' \in [Room -> [PeerId -> Conn \cup {NoConn}]]
    BY <2>1
  <2> QED
    BY <2>1, <2>2, <2>3, <2>4, <2>5, DiscardType DEF handlerVars
<1>3. CASE FinishStop
  BY <1>3 DEF FinishStop, handlerVars, roomVars
<1>4. CASE HeartbeatTick
  <2> DEFINE rooms == {registry[i] : i \in RoomId} \ {NoRoom}
             dead == [r \in Room |-> IF r \in rooms
                        THEN {p \in MemberIds(r) : peers[r][p] \in silent} ELSE {}]
             all  == UNION {Members(r) : r \in rooms}
             w    == Disconnect(ws, (all \cap silent) \cup Overflow(all))
  <2>1. /\ RemovePeers(dead, w) /\ delivered' = {}
        /\ UNCHANGED <<server, handlerVars, congested, silent>>
    BY <1>4 DEF HeartbeatTick
  <2>2. dead \in [Room -> SUBSET PeerId]
    BY DEF MemberIds
  <2>3. w \in [Conn -> {"open", "closing", "closed"}]
    BY DisconnectFacts
  <2> HIDE DEF dead, w
  <2> QED
    BY <2>1, <2>2, <2>3, RemovePeersType DEF handlerVars
<1>5. ASSUME NEW c \in Conn, HandshakeStep(c) PROVE Typing'
  <2>1. CASE RejectHandshake(c)
    BY <2>1, DisconnectFacts DEF RejectHandshake, roomVars
  <2>2. ASSUME NEW i \in RoomId, NEW p \in PeerId, Resolve(c, i, p) PROVE Typing'
    <3>1. /\ phase' = [phase EXCEPT ![c] = "hook"]
          /\ rid' = [rid EXCEPT ![c] = i]
          /\ pid' = [pid EXCEPT ![c] = p]
          /\ delivered' = {}
          /\ UNCHANGED <<server, ws, congested, silent, roster, peers>>
      BY <2>2 DEF Resolve
    <3>2. CASE /\ inst' = [inst EXCEPT ![c] = registry[i]]
               /\ UNCHANGED <<creators, roomVars>>
      BY <3>1, <3>2 DEF roomVars
    <3>3. CASE \E r \in Room :
                  /\ inst' = [inst EXCEPT ![c] = r]
                  /\ registry' = [registry EXCEPT ![i] = r]
                  /\ state' = [state EXCEPT ![r] = "creating"]
                  /\ duration' = IF HasDuration THEN duration \cup {r} ELSE duration
                  /\ creators' = creators \cup {c}
                  /\ UNCHANGED idle
      BY <3>1, <3>3
    <3> QED
      BY <2>2, <3>2, <3>3 DEF Resolve, GetOrCreate
  <2>3. CASE HookFailed(c) \/ RejectClosing(c) \/ RejectFull(c)
    <3>1. Abandon(c)
      BY <2>3 DEF HookFailed, RejectClosing, RejectFull
    <3> QED
      BY <3>1, DisconnectFacts, RollbackType DEF Abandon, EndHandler
  <2>4. CASE Join(c)
    <3> DEFINE view == [d \in Conn |->
                          IF d = c THEN MemberIds(inst[c]) \ {pid[c]}
                          ELSE IF d \in Audience(inst[c], pid[c])
                               THEN roster[d] \cup {pid[c]} ELSE roster[d]]
               gone == {peers[inst[c]][pid[c]]} \cup Overflow(Audience(inst[c], pid[c]))
    <3>1. /\ ws' = Disconnect(ws, gone)
          /\ roster' = SeenOver(ws', view)
      BY <2>4 DEF Join
    <3>2. ws' \in [Conn -> {"open", "closing", "closed"}]
      BY <3>1, DisconnectFacts
    <3>3. roster' \in [Conn -> SUBSET PeerId]
      <4>1. pid[c] \in PeerId
        BY <2>4 DEF Join, MayEnter, HandlerInv, ResetIdle
      <4>2. view \in [Conn -> SUBSET PeerId]
        BY <4>1 DEF MemberIds
      <4> QED
        BY <3>1, <4>2, SeenOverType
    <3>4. peers' \in [Room -> [PeerId -> Conn \cup {NoConn}]]
      BY <2>4 DEF Join
    <3>5. /\ phase' = [phase EXCEPT ![c] = "joined"]
          /\ creators' = creators \ {c}
          /\ state' = [state EXCEPT ![inst[c]] = "active"]
          /\ idle' = IF HasIdle THEN idle \cup {inst[c]} ELSE idle
          /\ delivered' = {} /\ inst[c] \in Room
          /\ UNCHANGED <<server, rid, pid, inst, congested, silent, registry, duration>>
      BY <2>4 DEF Join, MayEnter, HandlerInv, ResetIdle
    <3> QED
      BY <3>2, <3>3, <3>4, <3>5
  <2>5. CASE JoinThrows(c)
    <3>1. /\ ws' = Disconnect(ws, {c, peers[inst[c]][pid[c]]})
          /\ roster' = SeenOver(ws', roster)
          /\ RollbackIfEmpty(c, peers')
          /\ delivered' = {} /\ silent' = silent \ {c}
          /\ peers' = [peers EXCEPT ![inst[c]][pid[c]] = NoConn]
          /\ EndHandler(c) /\ UNCHANGED <<server, congested>>
      BY <2>5 DEF JoinThrows
    <3>2. ws' \in [Conn -> {"open", "closing", "closed"}]
      BY <3>1, DisconnectFacts
    <3>3. roster' \in [Conn -> SUBSET PeerId]
      BY <3>1, SeenOverType
    <3>4. peers' \in [Room -> [PeerId -> Conn \cup {NoConn}]]
      BY <3>1
    <3> QED
      BY <3>1, <3>2, <3>3, <3>4, RollbackType DEF EndHandler
  <2> QED
    BY <1>5, <2>1, <2>2, <2>3, <2>4, <2>5 DEF HandshakeStep, AuthFails, WrongNode, RejectRoomCap
<1>6. ASSUME NEW c \in Conn, ClientStep(c) PROVE Typing'
  <2>1. CASE RefuseConnection(c) \/ AcceptConnection(c)
    BY <2>1 DEF RefuseConnection, AcceptConnection, roomVars
  <2>2. CASE ClientLeaves(c)
    BY <2>2, DisconnectFacts, SeenOverType DEF ClientLeaves, handlerVars, roomVars
  <2>3. CASE Congest(c) \/ Drain(c) \/ FallSilent(c)
    BY <2>3, ClientAssumption DEF Congest, Drain, FallSilent, handlerVars, roomVars
  <2> QED
    BY <1>6, <2>1, <2>2, <2>3 DEF ClientStep
<1>7. ASSUME NEW c \in Conn, CloseStep(c) PROVE Typing'
  <2>1. CASE CloseUnadmitted(c)
    BY <2>1 DEF CloseUnadmitted, roomVars
  <2>2. CASE CloseAdmitted(c)
    <3> DEFINE gone == IF IsMember(c) THEN Leaver(inst[c], pid[c]) ELSE [r \in Room |-> {}]
               w == [ws EXCEPT ![c] = "closed"]
    <3>1. RemovePeers(gone, w)
      BY <2>2 DEF CloseAdmitted
    <3>2. w \in [Conn -> {"open", "closing", "closed"}]
      OBVIOUS
    <3>3. gone \in [Room -> SUBSET PeerId]
      BY <2>2 DEF CloseAdmitted, Leaver, HandlerInv
    <3> HIDE DEF gone, w
    <3> QED
      BY <2>2, <3>1, <3>2, <3>3, RemovePeersType DEF CloseAdmitted, EndHandler
  <2> QED
    BY <1>7, <2>1, <2>2 DEF CloseStep
<1>8. ASSUME NEW c \in Conn, FrameStep(c) PROVE Typing'
  <2>1. CASE Pong(c)
    BY <2>1 DEF Pong, handlerVars, roomVars
  <2>2. ASSUME NEW D, Forward(c, D), D \subseteq Conn PROVE Typing'
    BY <2>2, DisconnectFacts, SeenOverType DEF Forward, Reached, handlerVars, roomVars
  <2>3. ASSUME MayReceive(c), NEW p \in PeerId PROVE peers[inst[c]][p] \in Conn \cup {NoConn}
    BY <2>3 DEF MayReceive, HandlerInv
  <2>4. ASSUME NEW p \in PeerId, Signal(c, p) PROVE Typing'
    <3> DEFINE D == {peers[inst[c]][p]} \ {NoConn}
    <3>1. Forward(c, D) /\ MayReceive(c)
      BY <2>4 DEF Signal, Forward
    <3>2. D \subseteq Conn
      BY <2>3, <3>1
    <3> QED
      BY <2>2, <3>1, <3>2
  <2>5. CASE Broadcast(c)
    <3> DEFINE D == {peers[inst[c]][p] : p \in PeerId \ {pid[c]}} \ {NoConn}
    <3>1. Forward(c, D) /\ MayReceive(c)
      BY <2>5 DEF Broadcast, Forward
    <3>2. D \subseteq Conn
      BY <2>3, <3>1
    <3> QED
      BY <2>2, <3>1, <3>2
  <2> QED
    BY <1>8, <2>1, <2>4, <2>5 DEF FrameStep
<1>9. ASSUME NEW r \in Room, RoomStep(r) PROVE Typing'
  <2>1. CASE RoomBroadcast(r)
    BY <2>1, DisconnectFacts, SeenOverType DEF RoomBroadcast, handlerVars, roomVars
  <2>2. CASE ForceClose(r)
    <3>1. Discard({r}) /\ {r} \in SUBSET Room
      BY <2>2, ForceCloseDiscards
    <3>2. /\ registry' \in [RoomId -> Room \cup {NoRoom}]
          /\ state' \in [Room -> {"creating", "active", "closed"}]
          /\ idle' \subseteq Room /\ duration' \subseteq Room
      BY <3>1, DiscardType
    <3>3. /\ ws' \in [Conn -> {"open", "closing", "closed"}]
          /\ roster' \in [Conn -> SUBSET PeerId]
      BY <2>2, DisconnectFacts, SeenOverType DEF ForceClose
    <3> QED
      BY <2>2, <3>2, <3>3 DEF ForceClose, handlerVars
  <2>3. ASSUME NEW p \in PeerId, KickPeer(r, p) PROVE Typing'
    <3>1. Leaver(r, p) \in [Room -> SUBSET PeerId]
      BY DEF Leaver
    <3>2. Disconnect(ws, {peers[r][p]}) \in [Conn -> {"open", "closing", "closed"}]
      BY DisconnectFacts
    <3> QED
      BY <2>3, <3>1, <3>2, RemovePeersType DEF KickPeer, handlerVars
  <2> QED
    BY <1>9, <2>1, <2>2, <2>3 DEF RoomStep, IdleTimeout, DurationTimeout
<1>10. CASE UNCHANGED vars
  BY <1>10 DEF vars
<1> QED
  BY <1>1, <1>2, <1>3, <1>4, <1>5, <1>6, <1>7, <1>8, <1>9, <1>10 DEF Next, ServerStep

-----------------------------------------------------------------------------
(* The inductive step, one lemma per kind of step *)

\* What IndInv says beyond the types.
CoreInv ==
    /\ HandlerInv
    /\ RegistryConsistent
    /\ OpenPeerIsMember
    /\ RejectedIsClosing
    /\ CreatingRoomHasCreator
    /\ TimersMatchState

\* Steps that at most start closing some sockets: frames, broadcasts, clients
\* that leave, clogged or silent clients.
LEMMA SocketsOnly ==
    ASSUME IndInv, Typing',
           \A c \in Conn : /\ ws'[c] = "closed" <=> ws[c] = "closed"
                           /\ ws'[c] = "open" => ws[c] = "open",
           UNCHANGED <<handlerVars, roomVars, peers>>
    PROVE  CoreInv'
<1> USE DEF handlerVars, roomVars
<1>1. HandlerInv'
  BY DEF IndInv, HandlerInv
<1>2. RegistryConsistent'
  BY DEF IndInv, RegistryConsistent, MemberIds
<1>3. OpenPeerIsMember'
  BY DEF IndInv, OpenPeerIsMember, Typing
<1>4. RejectedIsClosing'
  BY DEF IndInv, RejectedIsClosing
<1>5. CreatingRoomHasCreator'
  BY DEF IndInv, CreatingRoomHasCreator
<1>6. TimersMatchState'
  BY DEF IndInv, TimersMatchState
<1> QED
  BY <1>1, <1>2, <1>3, <1>4, <1>5, <1>6 DEF CoreInv

\* Steps of a connection that has no Room yet, or whose close is not the close
\* of an admitted peer.
LEMMA OutsideRooms ==
    ASSUME IndInv, Typing', NEW c \in Conn,
           phase[c] # "joined",
           phase' = [phase EXCEPT ![c] = phase'[c]],
           \/ phase'[c] = phase[c]
           \/ phase[c] # "hook" /\ phase'[c] \notin {"hook", "joined"},
           \A d \in Conn \ {c} : ws'[d] = ws[d],
           phase'[c] \in {"over", "refused"} => ws'[c] # "open",
           UNCHANGED <<rid, pid, inst, creators, roomVars, peers>>
    PROVE  CoreInv'
<1> USE DEF roomVars
<1>0. \A d \in Conn \ {c} : phase'[d] = phase[d]
  BY DEF IndInv, Typing
<1>1. HandlerInv'
  BY <1>0 DEF IndInv, HandlerInv, Typing
<1>2. RegistryConsistent'
  BY <1>0 DEF IndInv, RegistryConsistent, MemberIds
<1>3. OpenPeerIsMember'
  BY <1>0 DEF IndInv, OpenPeerIsMember, Typing
<1>4. RejectedIsClosing'
  BY <1>0 DEF IndInv, RejectedIsClosing
<1>5. CreatingRoomHasCreator'
  BY <1>0 DEF IndInv, CreatingRoomHasCreator, Typing
<1>6. TimersMatchState'
  BY DEF IndInv, TimersMatchState
<1> QED
  BY <1>1, <1>2, <1>3, <1>4, <1>5, <1>6 DEF CoreInv

\* Discarding rooms R that end up without peers and of which no member's socket
\* stays open: the registry, the timers and the creators still agree.
LEMMA DiscardFacts ==
    ASSUME IndInv, NEW R \in SUBSET Room, Discard(R)
    PROVE  /\ \A i \in RoomId : registry'[i] # NoRoom => state'[registry'[i]] # "closed"
           /\ \A r \in Room : state'[r] # "closed" => \E i \in RoomId : registry'[i] = r
           /\ \A i, j \in RoomId : registry'[i] = registry'[j] /\ registry'[i] # NoRoom => i = j
           /\ \A r \in Room : IF r \in R THEN state'[r] = "closed" ELSE state'[r] = state[r]
           /\ \A i \in RoomId : registry[i] \notin R => registry'[i] = registry[i]
           /\ TimersMatchState'
<1> USE DEF Discard
<1>1. \A r \in Room : IF r \in R THEN state'[r] = "closed" ELSE state'[r] = state[r]
  OBVIOUS
<1>2. \A i \in RoomId : registry'[i] = IF registry[i] \in R THEN NoRoom ELSE registry[i]
  OBVIOUS
<1>3. \A i \in RoomId : registry[i] \in Room \cup {NoRoom}
  BY DEF IndInv, Typing
<1>4. \A i \in RoomId : registry'[i] # NoRoom => state'[registry'[i]] # "closed"
  BY <1>1, <1>2, <1>3 DEF IndInv, RegistryConsistent
<1>5. \A r \in Room : state'[r] # "closed" => \E i \in RoomId : registry'[i] = r
  BY <1>1, <1>2 DEF IndInv, RegistryConsistent
<1>6. \A i, j \in RoomId : registry'[i] = registry'[j] /\ registry'[i] # NoRoom => i = j
  BY <1>2 DEF IndInv, RegistryConsistent
<1>7. TimersMatchState'
  BY <1>1 DEF IndInv, TimersMatchState, Typing
<1> QED
  BY <1>1, <1>2, <1>4, <1>5, <1>6, <1>7, SentinelAssumption

\* Peers leave and the rooms R that became empty are discarded, no handler being
\* affected: kicks, heartbeat ticks, timers and stop().
LEMMA Removal ==
    ASSUME IndInv, Typing', NEW R \in SUBSET Room, Discard(R), UNCHANGED handlerVars,
           \A r \in Room, p \in PeerId : peers'[r][p] \in {peers[r][p], NoConn},
           \A r \in R, p \in PeerId : peers'[r][p] = NoConn,
           \A c \in Conn : ws'[c] = "open" => ws[c] = "open",
           \A c \in Conn : ws'[c] = "closed" => ws[c] = "closed",
           \A r \in Room, p \in PeerId :
              peers[r][p] # NoConn /\ peers'[r][p] = NoConn => ws'[peers[r][p]] # "open"
    PROVE  CoreInv'
<1> USE DEF handlerVars
<1>1. HandlerInv'
  BY DEF IndInv, HandlerInv
<1>2. RegistryConsistent'
  <2>1. \A c \in Conn : phase'[c] \in {"hook", "joined"} =>
            state'[inst'[c]] = "closed" \/ registry'[rid'[c]] = inst'[c]
    BY DiscardFacts DEF IndInv, RegistryConsistent, HandlerInv
  <2>2. \A r \in Room : MemberIds(r)' # {} => state'[r] = "active"
    BY DiscardFacts DEF IndInv, RegistryConsistent, MemberIds
  <2> QED
    BY <2>1, <2>2, DiscardFacts DEF RegistryConsistent
<1>3. OpenPeerIsMember'
  BY DEF IndInv, OpenPeerIsMember, HandlerInv, Typing
<1>4. RejectedIsClosing'
  BY DEF IndInv, RejectedIsClosing
<1>5. CreatingRoomHasCreator'
  BY DiscardFacts DEF IndInv, CreatingRoomHasCreator
<1>6. TimersMatchState'
  BY DiscardFacts
<1> QED
  BY <1>1, <1>2, <1>3, <1>4, <1>5, <1>6 DEF CoreInv

\* The same together with the end of the handler of c, whose socket is not open
\* any more: failed handshakes and closes of admitted peers.
LEMMA RemovalAndEnd ==
    ASSUME IndInv, Typing', NEW R \in SUBSET Room, Discard(R),
           NEW c \in Conn, EndHandler(c), ws'[c] # "open",
           \A r \in Room, p \in PeerId : peers'[r][p] \in {peers[r][p], NoConn} \ {c},
           \A r \in R, p \in PeerId : peers'[r][p] = NoConn,
           \A d \in Conn : ws'[d] = "open" => ws[d] = "open",
           \A d \in Conn \ {c} : ws'[d] = "closed" => ws[d] = "closed",
           \A r \in Room, p \in PeerId :
              peers[r][p] # NoConn /\ peers'[r][p] = NoConn => ws'[peers[r][p]] # "open",
           c \in creators /\ state[inst[c]] = "creating" => inst[c] \in R
    PROVE  CoreInv'
<1> USE DEF EndHandler
<1>0. /\ phase'[c] = "over" /\ inst'[c] = NoRoom /\ c \notin creators'
      /\ \A d \in Conn \ {c} : /\ phase'[d] = phase[d] /\ inst'[d] = inst[d]
                               /\ rid'[d] = rid[d] /\ pid'[d] = pid[d]
                               /\ d \in creators' <=> d \in creators
  BY DEF IndInv, Typing
<1>1. HandlerInv'
  BY <1>0 DEF IndInv, HandlerInv, Typing
<1>2. RegistryConsistent'
  <2>1. \A d \in Conn : phase'[d] \in {"hook", "joined"} =>
            state'[inst'[d]] = "closed" \/ registry'[rid'[d]] = inst'[d]
    BY <1>0, DiscardFacts DEF IndInv, RegistryConsistent, HandlerInv
  <2>2. \A r \in Room : MemberIds(r)' # {} => state'[r] = "active"
    BY DiscardFacts DEF IndInv, RegistryConsistent, MemberIds
  <2> QED
    BY <2>1, <2>2, DiscardFacts DEF RegistryConsistent
<1>3. OpenPeerIsMember'
  BY <1>0 DEF IndInv, OpenPeerIsMember, HandlerInv, Typing
<1>4. RejectedIsClosing'
  BY <1>0 DEF IndInv, RejectedIsClosing
<1>5. CreatingRoomHasCreator'
  <2> SUFFICES ASSUME NEW r \in Room, state'[r] = "creating"
               PROVE  \E d \in creators' : phase'[d] = "hook" /\ inst'[d] = r
    BY DEF CreatingRoomHasCreator
  <2>1. state[r] = "creating" /\ r \notin R
    BY DiscardFacts
  <2>2. PICK d \in creators : phase[d] = "hook" /\ inst[d] = r
    BY <2>1 DEF IndInv, CreatingRoomHasCreator
  <2>3. d # c
    BY <2>1, <2>2
  <2> QED
    BY <1>0, <2>2, <2>3 DEF IndInv, Typing
<1>6. TimersMatchState'
  BY DiscardFacts
<1> QED
  BY <1>1, <1>2, <1>3, <1>4, <1>5, <1>6 DEF CoreInv

\* What RemovePeers does to rooms and sockets, in the terms of the two lemmas
\* above.
LEMMA RemovePeersFacts ==
    ASSUME IndInv, NEW gone \in [Room -> SUBSET PeerId],
           NEW w \in [Conn -> {"open", "closing", "closed"}],
           RemovePeers(gone, w)
    PROVE  \E R \in SUBSET Room :
              /\ Discard(R)
              /\ \A r \in Room, p \in PeerId :
                    peers'[r][p] = IF p \in gone[r] THEN NoConn ELSE peers[r][p]
              /\ \A r \in R, p \in PeerId : peers'[r][p] = NoConn
              /\ \A c \in Conn : /\ ws'[c] = "closed" <=> w[c] = "closed"
                                 /\ ws'[c] = "open" => w[c] = "open"
<1> DEFINE left(r)  == MemberIds(r) \ gone[r]
           emptied  == {r \in Room : gone[r] # {} /\ left(r) = {}}
           notified == {c \in Conn : \E r \in Room : /\ gone[r] # {}
                                                     /\ \E p \in left(r) : peers[r][p] = c}
<1>1. /\ peers' = [r \in Room |-> [p \in PeerId |->
                      IF p \in gone[r] THEN NoConn ELSE peers[r][p]]]
      /\ ws' = Disconnect(w, Overflow(notified))
      /\ Discard(emptied)
  BY DEF RemovePeers
<1>2. \A r \in Room, p \in PeerId :
         peers'[r][p] = IF p \in gone[r] THEN NoConn ELSE peers[r][p]
  BY <1>1
<1>3. \A r \in emptied, p \in PeerId : peers'[r][p] = NoConn
  BY <1>2 DEF MemberIds
<1>4. \A c \in Conn : /\ ws'[c] = "closed" <=> w[c] = "closed"
                      /\ ws'[c] = "open" => w[c] = "open"
  BY <1>1, DisconnectFacts
<1>5. emptied \in SUBSET Room
  OBVIOUS
<1> HIDE DEF emptied
<1> QED
  BY <1>1, <1>2, <1>3, <1>4, <1>5

\* Kick and heartbeat: the sockets of those who leave are closing by then.
LEMMA PruneStep ==
    ASSUME IndInv, Typing', NEW gone \in [Room -> SUBSET PeerId], NEW D,
           RemovePeers(gone, Disconnect(ws, D)), UNCHANGED handlerVars,
           \A r \in Room : \A p \in gone[r] : peers[r][p] # NoConn => peers[r][p] \in D
    PROVE  CoreInv'
<1> DEFINE w == Disconnect(ws, D)
<1>1. /\ w \in [Conn -> {"open", "closing", "closed"}]
      /\ \A c \in Conn : /\ w[c] = "closed" <=> ws[c] = "closed"
                         /\ w[c] = "open" => ws[c] = "open" /\ c \notin D
  BY DisconnectFacts DEF IndInv, Typing
<1>2. RemovePeers(gone, w)
  OBVIOUS
<1> HIDE DEF w
<1>3. PICK R \in SUBSET Room :
         /\ Discard(R)
         /\ \A r \in Room, p \in PeerId :
               peers'[r][p] = IF p \in gone[r] THEN NoConn ELSE peers[r][p]
         /\ \A r \in R, p \in PeerId : peers'[r][p] = NoConn
         /\ \A c \in Conn : /\ ws'[c] = "closed" <=> w[c] = "closed"
                            /\ ws'[c] = "open" => w[c] = "open"
  BY <1>1, <1>2, RemovePeersFacts
<1>4. \A r \in Room, p \in PeerId :
         peers[r][p] # NoConn /\ peers'[r][p] = NoConn => ws'[peers[r][p]] # "open"
  BY <1>1, <1>3 DEF IndInv, Typing
<1> QED
  BY <1>1, <1>3, <1>4, Removal

\* The heartbeat keeps the invariant.
LEMMA HeartbeatStep ==
    ASSUME IndInv, Typing', HeartbeatTick
    PROVE  CoreInv'
<1> DEFINE rooms == {registry[i] : i \in RoomId} \ {NoRoom}
           dead == [r \in Room |-> IF r \in rooms
                      THEN {p \in MemberIds(r) : peers[r][p] \in silent} ELSE {}]
           all  == UNION {Members(r) : r \in rooms}
           D    == (all \cap silent) \cup Overflow(all)
<1>1. RemovePeers(dead, Disconnect(ws, D)) /\ UNCHANGED handlerVars
  BY DEF HeartbeatTick
<1>2. dead \in [Room -> SUBSET PeerId]
  BY DEF MemberIds
<1>3. ASSUME NEW r \in Room, NEW p \in dead[r], peers[r][p] # NoConn
      PROVE  peers[r][p] \in D
  <2>1. r \in rooms /\ p \in PeerId /\ peers[r][p] \in silent
    BY <1>3 DEF MemberIds
  <2>2. peers[r][p] \in Members(r)
    BY <1>3, <2>1 DEF Members
  <2> QED
    BY <2>1, <2>2
<1> HIDE DEF dead, D
<1> QED
  BY <1>1, <1>2, <1>3, PruneStep

\* kick() and ban() keep the invariant.
LEMMA KickStep ==
    ASSUME IndInv, Typing', NEW r \in Room, NEW p \in PeerId, KickPeer(r, p)
    PROVE  CoreInv'
<1>1. Leaver(r, p) \in [Room -> SUBSET PeerId]
  BY DEF Leaver
<1>2. \A x \in Room : \A q \in Leaver(r, p)[x] : peers[x][q] # NoConn => peers[x][q] \in {peers[r][p]}
  BY DEF Leaver
<1>3. RemovePeers(Leaver(r, p), Disconnect(ws, {peers[r][p]})) /\ UNCHANGED handlerVars
  BY DEF KickPeer
<1> QED
  BY <1>1, <1>2, <1>3, PruneStep

\* Closing a room at once keeps the invariant.
LEMMA ForceCloseStep ==
    ASSUME IndInv, Typing', NEW r \in Room, ForceClose(r)
    PROVE  CoreInv'
<1>1. /\ Discard({r}) /\ UNCHANGED handlerVars
      /\ ws' = Disconnect(ws, Members(r))
      /\ peers' = [peers EXCEPT ![r] = [p \in PeerId |-> NoConn]]
  BY ForceCloseDiscards DEF ForceClose, IndInv
<1>2. \A c \in Conn : /\ ws'[c] = "closed" <=> ws[c] = "closed"
                      /\ ws'[c] = "open" => ws[c] = "open" /\ c \notin Members(r)
  <2>1. ws \in [Conn -> {"open", "closing", "closed"}]
    BY DEF IndInv, Typing
  <2> QED
    BY <1>1, <2>1, DisconnectFacts
<1>3. \A x \in Room, p \in PeerId :
         peers'[x][p] = IF x = r THEN NoConn ELSE peers[x][p]
  BY <1>1 DEF IndInv, Typing
<1>4. \A p \in PeerId : peers[r][p] # NoConn => peers[r][p] \in Members(r) \cap Conn
  BY DEF IndInv, Typing, Members
<1> QED
  BY <1>1, <1>2, <1>3, <1>4, Removal

\* stop() keeps the invariant.
LEMMA StopStep ==
    ASSUME IndInv, Typing', Stop
    PROVE  CoreInv'
<1> DEFINE open == {registry[i] : i \in RoomId} \ {NoRoom}
           D == UNION {Members(r) : r \in open}
<1>1. /\ Discard(open) /\ UNCHANGED handlerVars
      /\ ws' = Disconnect(ws, D)
      /\ peers' = [r \in Room |-> IF r \in open THEN [p \in PeerId |-> NoConn]
                                                ELSE peers[r]]
  BY DEF Stop
<1>2. open \in SUBSET Room
  BY DEF IndInv, Typing
<1>3. \A c \in Conn : /\ ws'[c] = "closed" <=> ws[c] = "closed"
                      /\ ws'[c] = "open" => ws[c] = "open" /\ c \notin D
  <2>1. ws \in [Conn -> {"open", "closing", "closed"}]
    BY DEF IndInv, Typing
  <2> QED
    BY <1>1, <2>1, DisconnectFacts
<1>4. \A r \in open, p \in PeerId : peers[r][p] # NoConn => peers[r][p] \in D \cap Conn
  <2> SUFFICES ASSUME NEW r \in open, NEW p \in PeerId, peers[r][p] # NoConn
               PROVE  peers[r][p] \in D \cap Conn
    OBVIOUS
  <2>1. peers[r][p] \in Conn
    BY <1>2 DEF IndInv, Typing
  <2>2. peers[r][p] \in Members(r)
    BY DEF Members
  <2> QED
    BY <2>1, <2>2
<1>5. \A x \in Room, p \in PeerId :
         peers'[x][p] = IF x \in open THEN NoConn ELSE peers[x][p]
  BY <1>1
<1> HIDE DEF open, D
<1> QED
  BY <1>1, <1>2, <1>3, <1>4, <1>5, Removal

\* A failed handshake: if the room is still being created, its creator rolls it
\* back, because the registry still maps the captured id to it.
LEMMA AbandonStep ==
    ASSUME IndInv, Typing', NEW c \in Conn, phase[c] = "hook", Abandon(c)
    PROVE  CoreInv'
<1> DEFINE R == {r \in Room : /\ c \in creators
                              /\ registry[rid[c]] = r
                              /\ \A p \in PeerId : peers[r][p] = NoConn}
<1>1. /\ Discard(R) /\ EndHandler(c) /\ peers' = peers
      /\ ws' = Disconnect(ws, {c})
  BY DEF Abandon, RollbackIfEmpty
<1>2. \A d \in Conn : /\ ws'[d] = "closed" <=> ws[d] = "closed"
                      /\ ws'[d] = "open" => ws[d] = "open" /\ d # c
  <2>1. ws \in [Conn -> {"open", "closing", "closed"}]
    BY DEF IndInv, Typing
  <2> QED
    BY <1>1, <2>1, DisconnectFacts
<1>3. \A r \in Room, p \in PeerId : peers[r][p] # c
  BY SentinelAssumption DEF IndInv, OpenPeerIsMember
<1>4. ASSUME c \in creators, state[inst[c]] = "creating" PROVE inst[c] \in R
  <2>1. inst[c] \in Room
    BY DEF IndInv, HandlerInv
  <2>2. registry[rid[c]] = inst[c]
    BY <1>4 DEF IndInv, RegistryConsistent
  <2>3. MemberIds(inst[c]) = {}
    BY <1>4, <2>1 DEF IndInv, RegistryConsistent
  <2> QED
    BY <1>4, <2>1, <2>2, <2>3 DEF MemberIds
<1>5. R \in SUBSET Room /\ \A r \in R, p \in PeerId : peers'[r][p] = NoConn
  BY <1>1
<1> HIDE DEF R
<1> QED
  BY <1>1, <1>2, <1>3, <1>4, <1>5, RemovalAndEnd

\* A join that throws keeps the invariant.
LEMMA JoinThrowsStep ==
    ASSUME IndInv, Typing', NEW c \in Conn, JoinThrows(c)
    PROVE  CoreInv'
<1> DEFINE R == {r \in Room : /\ c \in creators
                              /\ registry[rid[c]] = r
                              /\ \A p \in PeerId : peers'[r][p] = NoConn}
<1>1. /\ Discard(R) /\ EndHandler(c)
      /\ peers' = [peers EXCEPT ![inst[c]][pid[c]] = NoConn]
      /\ ws' = Disconnect(ws, {c, peers[inst[c]][pid[c]]})
      /\ phase[c] = "hook"
  BY DEF JoinThrows, RollbackIfEmpty, MayEnter
<1>2. \A d \in Conn : /\ ws'[d] = "closed" <=> ws[d] = "closed"
                      /\ ws'[d] = "open" => ws[d] = "open" /\ d \notin {c, peers[inst[c]][pid[c]]}
  <2>1. ws \in [Conn -> {"open", "closing", "closed"}]
    BY DEF IndInv, Typing
  <2> QED
    BY <1>1, <2>1, DisconnectFacts
<1>3. \A r \in Room, p \in PeerId : peers[r][p] # c
  BY <1>1, SentinelAssumption DEF IndInv, OpenPeerIsMember
<1>4. inst[c] \in Room /\ pid[c] \in PeerId
  BY <1>1 DEF IndInv, HandlerInv
<1>5. \A r \in Room, p \in PeerId :
         peers'[r][p] = IF r = inst[c] /\ p = pid[c] THEN NoConn ELSE peers[r][p]
  BY <1>1, <1>4 DEF IndInv, Typing
<1>6. ASSUME c \in creators, state[inst[c]] = "creating" PROVE inst[c] \in R
  <2>1. registry[rid[c]] = inst[c]
    BY <1>1, <1>6 DEF IndInv, RegistryConsistent
  <2>2. MemberIds(inst[c]) = {}
    BY <1>4, <1>6 DEF IndInv, RegistryConsistent
  <2> QED
    BY <1>4, <1>5, <1>6, <2>1, <2>2 DEF MemberIds
<1>7. R \in SUBSET Room /\ \A r \in R, p \in PeerId : peers'[r][p] = NoConn
  OBVIOUS
<1>8. \A r \in Room, p \in PeerId : peers'[r][p] \in {peers[r][p], NoConn} \ {c}
  BY <1>3, <1>5, SentinelAssumption
<1>9. \A r \in Room, p \in PeerId :
         peers[r][p] # NoConn /\ peers'[r][p] = NoConn => ws'[peers[r][p]] # "open"
  <2>1. \A r \in Room, p \in PeerId : peers[r][p] \in Conn \cup {NoConn}
    BY DEF IndInv, Typing
  <2> QED
    BY <1>2, <1>5, <2>1
<1> HIDE DEF R
<1> QED
  BY <1>1, <1>2, <1>6, <1>7, <1>8, <1>9, RemovalAndEnd

\* The close of an admitted socket: its entry, if it still has one, goes too.
LEMMA CloseAdmittedStep ==
    ASSUME IndInv, Typing', NEW c \in Conn, CloseAdmitted(c)
    PROVE  CoreInv'
<1> DEFINE gone == IF IsMember(c) THEN Leaver(inst[c], pid[c]) ELSE [r \in Room |-> {}]
           w == [ws EXCEPT ![c] = "closed"]
<1>1. /\ RemovePeers(gone, w) /\ EndHandler(c)
      /\ phase[c] = "joined" /\ ws[c] = "closing"
  BY DEF CloseAdmitted
<1>2. inst[c] \in Room /\ pid[c] \in PeerId
  BY <1>1 DEF IndInv, HandlerInv
<1>3. gone \in [Room -> SUBSET PeerId]
  BY <1>2 DEF Leaver
<1>4. /\ w \in [Conn -> {"open", "closing", "closed"}]
      /\ w[c] = "closed" /\ \A d \in Conn \ {c} : w[d] = ws[d]
  BY DEF IndInv, Typing
<1>5. \A r \in Room, p \in PeerId :
         /\ p \in gone[r] => peers[r][p] = c
         /\ peers[r][p] = c => p \in gone[r]
  BY <1>1, <1>2, SentinelAssumption DEF IndInv, OpenPeerIsMember, IsMember, Leaver
<1> HIDE DEF gone, w
<1>6. PICK R \in SUBSET Room :
         /\ Discard(R)
         /\ \A r \in Room, p \in PeerId :
               peers'[r][p] = IF p \in gone[r] THEN NoConn ELSE peers[r][p]
         /\ \A r \in R, p \in PeerId : peers'[r][p] = NoConn
         /\ \A d \in Conn : /\ ws'[d] = "closed" <=> w[d] = "closed"
                            /\ ws'[d] = "open" => w[d] = "open"
  BY <1>1, <1>3, <1>4, RemovePeersFacts
<1>7. c \notin creators
  BY <1>1 DEF IndInv, HandlerInv
<1>8. \A r \in Room, p \in PeerId : peers'[r][p] \in {peers[r][p], NoConn} \ {c}
  BY <1>5, <1>6, SentinelAssumption
<1>9. \A r \in Room, p \in PeerId :
         peers[r][p] # NoConn /\ peers'[r][p] = NoConn => ws'[peers[r][p]] # "open"
  BY <1>4, <1>5, <1>6
<1> QED
  BY <1>1, <1>4, <1>6, <1>7, <1>8, <1>9, RemovalAndEnd

\* A handshake that is resolved to a room the registry holds.
LEMMA ResolveStep ==
    ASSUME IndInv, Typing', NEW c \in Conn, NEW i \in RoomId, NEW q \in PeerId,
           Resolve(c, i, q)
    PROVE  CoreInv'
<1>0. /\ phase[c] = "auth" /\ phase'[c] = "hook" /\ rid'[c] = i /\ pid'[c] = q
      /\ \A d \in Conn \ {c} : phase'[d] = phase[d] /\ rid'[d] = rid[d] /\ pid'[d] = pid[d]
      /\ UNCHANGED <<ws, peers>>
  BY DEF Resolve, IndInv, Typing
<1>1. CASE /\ registry[i] # NoRoom
           /\ inst' = [inst EXCEPT ![c] = registry[i]]
           /\ UNCHANGED <<creators, roomVars>>
  <2> USE DEF roomVars
  <2>0. /\ inst'[c] = registry[i] /\ registry[i] \in Room
        /\ \A d \in Conn \ {c} : inst'[d] = inst[d]
    BY <1>1 DEF IndInv, Typing
  <2>1. HandlerInv'
    BY <1>0, <1>1, <2>0 DEF IndInv, HandlerInv, Typing
  <2>2. RegistryConsistent'
    BY <1>0, <1>1, <2>0 DEF IndInv, RegistryConsistent, MemberIds
  <2>3. OpenPeerIsMember'
    BY <1>0, <2>0 DEF IndInv, OpenPeerIsMember, Typing
  <2>4. RejectedIsClosing'
    BY <1>0 DEF IndInv, RejectedIsClosing
  <2>5. CreatingRoomHasCreator'
    BY <1>0, <1>1, <2>0 DEF IndInv, CreatingRoomHasCreator, HandlerInv, Typing
  <2>6. TimersMatchState'
    BY <1>1 DEF IndInv, TimersMatchState
  <2> QED
    BY <2>1, <2>2, <2>3, <2>4, <2>5, <2>6 DEF CoreInv
<1>2. ASSUME NEW r \in Room, registry[i] = NoRoom, state[r] = "closed",
             \A d \in Conn : inst[d] # r,
             inst' = [inst EXCEPT ![c] = r],
             registry' = [registry EXCEPT ![i] = r],
             state' = [state EXCEPT ![r] = "creating"],
             duration' = IF HasDuration THEN duration \cup {r} ELSE duration,
             creators' = creators \cup {c}, UNCHANGED idle
      PROVE  CoreInv'
  <2>0. /\ inst'[c] = r /\ \A d \in Conn \ {c} : inst'[d] = inst[d]
        /\ registry'[i] = r /\ \A j \in RoomId \ {i} : registry'[j] = registry[j]
        /\ state'[r] = "creating" /\ \A x \in Room \ {r} : state'[x] = state[x]
    BY <1>2 DEF IndInv, Typing
  <2>1. \A j \in RoomId : registry[j] # r
    BY <1>2, SentinelAssumption DEF IndInv, RegistryConsistent
  <2>2. MemberIds(r) = {}
    BY <1>2 DEF IndInv, RegistryConsistent
  <2>3. HandlerInv'
    BY <1>0, <1>2, <2>0 DEF IndInv, HandlerInv, Typing
  <2>4. RegistryConsistent'
    <3>1. \A j \in RoomId : registry'[j] # NoRoom => state'[registry'[j]] # "closed"
      BY <2>0, <2>1 DEF IndInv, RegistryConsistent, Typing
    <3>2. \A x \in Room : state'[x] # "closed" => \E j \in RoomId : registry'[j] = x
      BY <1>2, <2>0, SentinelAssumption DEF IndInv, RegistryConsistent
    <3>3. \A j, k \in RoomId : registry'[j] = registry'[k] /\ registry'[j] # NoRoom => j = k
      BY <2>0, <2>1 DEF IndInv, RegistryConsistent
    <3>4. \A d \in Conn : phase'[d] \in {"hook", "joined"} =>
              state'[inst'[d]] = "closed" \/ registry'[rid'[d]] = inst'[d]
      BY <1>0, <1>2, <2>0, SentinelAssumption DEF IndInv, RegistryConsistent, HandlerInv
    <3>5. \A x \in Room : MemberIds(x)' # {} => state'[x] = "active"
      BY <1>0, <2>0, <2>2 DEF IndInv, RegistryConsistent, MemberIds
    <3> QED
      BY <3>1, <3>2, <3>3, <3>4, <3>5 DEF RegistryConsistent
  <2>5. OpenPeerIsMember'
    BY <1>0, <2>0 DEF IndInv, OpenPeerIsMember, Typing
  <2>6. RejectedIsClosing'
    BY <1>0 DEF IndInv, RejectedIsClosing
  <2>7. CreatingRoomHasCreator'
    BY <1>0, <1>2, <2>0 DEF IndInv, CreatingRoomHasCreator, HandlerInv, Typing
  <2>8. TimersMatchState'
    BY <1>2, <2>0 DEF IndInv, TimersMatchState, Typing
  <2> QED
    BY <2>3, <2>4, <2>5, <2>6, <2>7, <2>8 DEF CoreInv
<1> QED
  BY <1>1, <1>2 DEF Resolve, GetOrCreate

\* An admission: the newcomer takes its id's place, and a connection it
\* replaces is closing by then.
LEMMA JoinStep ==
    ASSUME IndInv, Typing', NEW c \in Conn, Join(c)
    PROVE  CoreInv'
<1> DEFINE r == inst[c]
           p == pid[c]
           D == {peers[r][p]} \cup Overflow(Audience(r, p))
<1>0. /\ phase[c] = "hook" /\ ws[c] = "open" /\ state[r] # "closed"
      /\ peers' = [peers EXCEPT ![r][p] = c]
      /\ ws' = Disconnect(ws, D)
      /\ state' = [state EXCEPT ![r] = "active"]
      /\ idle' = IF HasIdle THEN idle \cup {r} ELSE idle
      /\ creators' = creators \ {c}
      /\ phase' = [phase EXCEPT ![c] = "joined"]
      /\ UNCHANGED <<rid, pid, inst, registry, duration>>
  BY DEF Join, MayEnter, ResetIdle
<1>1. r \in Room /\ p \in PeerId
  BY <1>0 DEF IndInv, HandlerInv
<1>2. \A x \in Room, q \in PeerId :
         peers'[x][q] = IF x = r /\ q = p THEN c ELSE peers[x][q]
  BY <1>0, <1>1 DEF IndInv, Typing
<1>3. /\ phase'[c] = "joined" /\ \A d \in Conn \ {c} : phase'[d] = phase[d]
      /\ state'[r] = "active" /\ \A x \in Room \ {r} : state'[x] = state[x]
  BY <1>0, <1>1 DEF IndInv, Typing
<1>4. \A d \in Conn : /\ ws'[d] = "closed" <=> ws[d] = "closed"
                      /\ ws'[d] = "open" <=> ws[d] = "open" /\ d \notin D
  <2>1. ws \in [Conn -> {"open", "closing", "closed"}]
    BY DEF IndInv, Typing
  <2> QED
    BY <1>0, <2>1, DisconnectFacts
<1>5. peers[r][p] \in D
  OBVIOUS
<1>6. \A x \in Room, q \in PeerId : peers[x][q] # c
  BY <1>0, SentinelAssumption DEF IndInv, OpenPeerIsMember
<1> HIDE DEF D
<1>7. HandlerInv'
  BY <1>0, <1>1, <1>3 DEF IndInv, HandlerInv, Typing
<1>8. RegistryConsistent'
  <2>1. \A j \in RoomId : registry'[j] # NoRoom => state'[registry'[j]] # "closed"
    BY <1>0, <1>3 DEF IndInv, RegistryConsistent, Typing
  <2>2. \A x \in Room : state'[x] # "closed" => \E j \in RoomId : registry'[j] = x
    BY <1>0, <1>1, <1>3 DEF IndInv, RegistryConsistent
  <2>3. \A j, k \in RoomId : registry'[j] = registry'[k] /\ registry'[j] # NoRoom => j = k
    BY <1>0 DEF IndInv, RegistryConsistent
  <2>4. \A d \in Conn : phase'[d] \in {"hook", "joined"} =>
            state'[inst'[d]] = "closed" \/ registry'[rid'[d]] = inst'[d]
    BY <1>0, <1>1, <1>3 DEF IndInv, RegistryConsistent, HandlerInv
  <2>5. \A x \in Room : MemberIds(x)' # {} => state'[x] = "active"
    BY <1>1, <1>2, <1>3 DEF IndInv, RegistryConsistent, MemberIds
  <2> QED
    BY <2>1, <2>2, <2>3, <2>4, <2>5 DEF RegistryConsistent
<1>9. OpenPeerIsMember'
  <2>1. \A d \in Conn : phase'[d] = "joined" /\ ws'[d] = "open" =>
            peers'[inst'[d]][pid'[d]] = d
    BY <1>0, <1>1, <1>2, <1>3, <1>4, <1>5 DEF IndInv, OpenPeerIsMember, HandlerInv
  <2>2. \A x \in Room, q \in PeerId : peers'[x][q] # NoConn =>
            /\ phase'[peers'[x][q]] = "joined" /\ ws'[peers'[x][q]] # "closed"
            /\ inst'[peers'[x][q]] = x /\ pid'[peers'[x][q]] = q
    <3>1. \A x \in Room, q \in PeerId : peers[x][q] \in Conn \cup {NoConn}
      BY DEF IndInv, Typing
    <3> QED
      BY <1>0, <1>1, <1>2, <1>3, <1>4, <1>6, <3>1 DEF IndInv, OpenPeerIsMember
  <2> QED
    BY <2>1, <2>2 DEF OpenPeerIsMember
<1>10. RejectedIsClosing'
  BY <1>3, <1>4 DEF IndInv, RejectedIsClosing
<1>11. CreatingRoomHasCreator'
  BY <1>0, <1>1, <1>3 DEF IndInv, CreatingRoomHasCreator, Typing
<1>12. TimersMatchState'
  BY <1>0, <1>1, <1>3 DEF IndInv, TimersMatchState, Typing
<1> QED
  BY <1>7, <1>8, <1>9, <1>10, <1>11, <1>12 DEF CoreInv

-----------------------------------------------------------------------------
(* The invariant *)

\* The invariant holds at the start.
LEMMA IndInvInit ==
    ASSUME Init PROVE IndInv
BY SentinelAssumption DEF Init, IndInv, Typing, HandlerInv, RegistryConsistent,
   OpenPeerIsMember, RejectedIsClosing, CreatingRoomHasCreator, TimersMatchState,
   MemberIds

\* Every step keeps the invariant.
LEMMA IndInvStep ==
    ASSUME IndInv, [Next]_vars
    PROVE  IndInv'
<1> USE DEF IndInv
<1>0. Typing'
  BY TypingStep
<1> SUFFICES CoreInv'
  BY <1>0 DEF CoreInv
<1>1. ASSUME UNCHANGED <<ws, handlerVars, roomVars, peers>> PROVE CoreInv'
  BY <1>0, <1>1, SocketsOnly
<1>2. ASSUME NEW D, ws' = Disconnect(ws, D), UNCHANGED <<handlerVars, roomVars, peers>>
      PROVE  CoreInv'
  <2>1. \A c \in Conn : /\ ws'[c] = "closed" <=> ws[c] = "closed"
                        /\ ws'[c] = "open" => ws[c] = "open"
    <3>1. ws \in [Conn -> {"open", "closing", "closed"}]
      BY DEF Typing
    <3> QED
      BY <1>2, <3>1, DisconnectFacts
  <2> QED
    BY <1>0, <1>2, <2>1, SocketsOnly
<1>3. CASE ServerStep
  <2>1. CASE Start \/ FinishStop
    BY <1>1, <2>1 DEF Start, FinishStop
  <2> QED
    BY <1>0, <1>3, <2>1, StopStep, HeartbeatStep DEF ServerStep
<1>4. ASSUME NEW c \in Conn, HandshakeStep(c) PROVE CoreInv'
  <2>1. ASSUME RejectHandshake(c) PROVE CoreInv'
    <3>1. /\ phase[c] = "auth" /\ phase' = [phase EXCEPT ![c] = "over"]
          /\ ws' = Disconnect(ws, {c})
          /\ UNCHANGED <<rid, pid, inst, creators, roomVars, peers>>
      BY <2>1 DEF RejectHandshake
    <3>2. ws'[c] # "open" /\ \A d \in Conn \ {c} : ws'[d] = ws[d]
      BY <3>1 DEF Disconnect, Typing
    <3>3. phase'[c] = "over" /\ phase' = [phase EXCEPT ![c] = phase'[c]]
      BY <3>1 DEF Typing
    <3> QED
      BY <1>0, <3>1, <3>2, <3>3, OutsideRooms
  <2>2. CASE HookFailed(c) \/ RejectClosing(c) \/ RejectFull(c)
    BY <1>0, <2>2, AbandonStep DEF HookFailed, RejectClosing, RejectFull
  <2>3. CASE \E i \in RoomId, p \in PeerId : Resolve(c, i, p)
    BY <1>0, <2>3, ResolveStep
  <2> QED
    BY <1>0, <1>4, <2>1, <2>2, <2>3, JoinStep, JoinThrowsStep
    DEF HandshakeStep, AuthFails, WrongNode, RejectRoomCap
<1>5. ASSUME NEW c \in Conn, ClientStep(c) PROVE CoreInv'
  <2>1. CASE RefuseConnection(c) \/ AcceptConnection(c)
    <3>1. /\ phase[c] = "over" /\ phase'[c] \in {"refused", "auth"}
          /\ phase' = [phase EXCEPT ![c] = phase'[c]]
          /\ phase'[c] = "refused" => ws'[c] # "open"
          /\ \A d \in Conn \ {c} : ws'[d] = ws[d]
          /\ UNCHANGED <<rid, pid, inst, creators, roomVars, peers>>
      BY <2>1 DEF RefuseConnection, AcceptConnection, Free, Typing
    <3> QED
      BY <1>0, <3>1, OutsideRooms
  <2>2. CASE ClientLeaves(c)
    BY <1>2, <2>2 DEF ClientLeaves
  <2>3. CASE Congest(c) \/ Drain(c) \/ FallSilent(c)
    BY <1>1, <2>3 DEF Congest, Drain, FallSilent
  <2> QED
    BY <1>5, <2>1, <2>2, <2>3 DEF ClientStep
<1>6. ASSUME NEW c \in Conn, CloseStep(c) PROVE CoreInv'
  <2>1. CASE CloseUnadmitted(c)
    <3>1. /\ phase[c] # "joined"
          /\ phase'[c] = IF phase[c] = "refused" THEN "over" ELSE phase[c]
          /\ phase' = [phase EXCEPT ![c] = phase'[c]]
          /\ ws'[c] = "closed"
          /\ \A d \in Conn \ {c} : ws'[d] = ws[d]
          /\ UNCHANGED <<rid, pid, inst, creators, roomVars, peers>>
      BY <2>1 DEF CloseUnadmitted, Typing
    <3> QED
      BY <1>0, <3>1, OutsideRooms
  <2> QED
    BY <1>0, <1>6, <2>1, CloseAdmittedStep DEF CloseStep
<1>7. ASSUME NEW c \in Conn, FrameStep(c) PROVE CoreInv'
  <2>1. CASE Pong(c)
    BY <1>1, <2>1 DEF Pong
  <2>2. ASSUME NEW D, Forward(c, D) PROVE CoreInv'
    BY <1>2, <2>2 DEF Forward
  <2> QED
    BY <1>7, <2>1, <2>2 DEF FrameStep, Signal, Broadcast
<1>8. ASSUME NEW r \in Room, RoomStep(r) PROVE CoreInv'
  <2>1. CASE RoomBroadcast(r)
    BY <1>2, <2>1 DEF RoomBroadcast
  <2> QED
    BY <1>0, <1>8, <2>1, ForceCloseStep, KickStep DEF RoomStep, IdleTimeout, DurationTimeout
<1>9. CASE UNCHANGED vars
  BY <1>1, <1>9 DEF vars, handlerVars, roomVars
<1> QED
  BY <1>3, <1>4, <1>5, <1>6, <1>7, <1>8, <1>9 DEF Next

\* The inductive invariant holds in every reachable state.
THEOREM Invariance == Spec => []IndInv
<1>1. Init => IndInv
  BY IndInvInit
<1>2. IndInv /\ [Next]_vars => IndInv'
  BY IndInvStep
<1> QED
  BY <1>1, <1>2, PTL DEF Spec

\* The registry holds exactly the live rooms, each under one id, whatever the
\* handshakes, closes, timers and stops in flight.
THEOREM RegistryIsConsistent == Spec => []RegistryConsistent
<1>1. IndInv => RegistryConsistent
  BY DEF IndInv
<1> QED
  BY <1>1, Invariance, PTL

\* An open admitted connection is the one its room lists: a replaced, kicked,
\* pruned or expired connection is never left open.
THEOREM OpenPeersAreMembers == Spec => []OpenPeerIsMember
<1>1. IndInv => OpenPeerIsMember
  BY DEF IndInv
<1> QED
  BY <1>1, Invariance, PTL

\* A connection the server turned away is never left open.
THEOREM RejectedSocketsClose == Spec => []RejectedIsClosing
<1>1. IndInv => RejectedIsClosing
  BY DEF IndInv
<1> QED
  BY <1>1, Invariance, PTL

\* A room nobody has joined still has its creator in the handshake.
THEOREM NoAbandonedRoom == Spec => []CreatingRoomHasCreator
<1>1. IndInv => CreatingRoomHasCreator
  BY DEF IndInv
<1> QED
  BY <1>1, Invariance, PTL

\* Timers are armed for live rooms only, and the idle timer for all active ones.
THEOREM TimersAreConsistent == Spec => []TimersMatchState
<1>1. IndInv => TimersMatchState
  BY DEF IndInv
<1> QED
  BY <1>1, Invariance, PTL

-----------------------------------------------------------------------------
(* The connection counter *)

CounterExact == connections = Cardinality(Counted)

\* Sockets stay counted or uncounted unless they open, close or are refused.
LEMMA CountedUnchanged ==
    ASSUME UNCHANGED connections, CounterExact,
           \A c \in Conn : /\ ws'[c] = "closed" <=> ws[c] = "closed"
                           /\ phase'[c] = "refused" <=> phase[c] = "refused"
    PROVE  CounterExact'
<1>1. Counted' = Counted
  BY DEF Counted
<1> QED
  BY <1>1 DEF CounterExact

\* The sockets the server counts are finitely many.
LEMMA CountedFinite == IsFiniteSet(Counted) /\ Cardinality(Counted) \in Nat
<1>1. Counted \subseteq Conn
  BY DEF Counted
<1>2. IsFiniteSet(Counted)
  BY <1>1, ConnAssumption, FS_Subset
<1> QED
  BY <1>2, FS_CardinalityType

\* The close of a counted socket: the counter follows.
LEMMA CountedClose ==
    ASSUME CounterExact, NEW c \in Conn, c \in Counted,
           connections' = connections - 1,
           ws'[c] = "closed",
           \A d \in Conn \ {c} : /\ ws'[d] = "closed" <=> ws[d] = "closed"
                                 /\ phase'[d] = "refused" <=> phase[d] = "refused"
    PROVE  CounterExact'
<1>1. Counted' = Counted \ {c}
  BY DEF Counted
<1>2. Cardinality(Counted \ {c}) = Cardinality(Counted) - 1
  BY CountedFinite, FS_RemoveElement
<1> QED
  BY <1>1, <1>2 DEF CounterExact

\* Every step keeps the counter exact.
LEMMA CounterStep ==
    ASSUME IndInv, CounterExact, [Next]_vars
    PROVE  CounterExact'
<1> USE DEF handlerVars
<1>0. /\ ws \in [Conn -> {"open", "closing", "closed"}]
      /\ phase \in [Conn -> {"auth", "hook", "joined", "over", "refused"}]
  BY DEF IndInv, Typing
<1>1. ASSUME NEW D, ws' = Disconnect(ws, D) \/ ws' = ws, UNCHANGED connections,
             \A c \in Conn : phase'[c] = "refused" <=> phase[c] = "refused"
      PROVE  CounterExact'
  BY <1>0, <1>1, CountedUnchanged, DisconnectFacts
<1>2. ASSUME NEW D, NEW gone \in [Room -> SUBSET PeerId], UNCHANGED <<connections, phase>>,
             RemovePeers(gone, Disconnect(ws, D))
      PROVE  CounterExact'
  <2> DEFINE w == Disconnect(ws, D)
  <2>1. /\ w \in [Conn -> {"open", "closing", "closed"}]
        /\ \A c \in Conn : w[c] = "closed" <=> ws[c] = "closed"
    BY <1>0, DisconnectFacts
  <2>2. RemovePeers(gone, w)
    BY <1>2
  <2> HIDE DEF w
  <2>3. \A c \in Conn : ws'[c] = "closed" <=> w[c] = "closed"
    BY <2>1, <2>2, RemovePeersFacts
  <2> QED
    BY <1>2, <2>1, <2>3, CountedUnchanged
<1>3. CASE ServerStep
  <2>1. CASE Start \/ FinishStop
    BY <1>1, <2>1 DEF Start, FinishStop
  <2>2. CASE Stop
    BY <1>1, <2>2 DEF Stop
  <2>3. CASE HeartbeatTick
    <3> DEFINE rooms == {registry[i] : i \in RoomId} \ {NoRoom}
               dead == [r \in Room |-> IF r \in rooms
                          THEN {p \in MemberIds(r) : peers[r][p] \in silent} ELSE {}]
               all  == UNION {Members(r) : r \in rooms}
               D    == (all \cap silent) \cup Overflow(all)
    <3>1. RemovePeers(dead, Disconnect(ws, D)) /\ UNCHANGED <<connections, phase>>
      BY <2>3 DEF HeartbeatTick
    <3>2. dead \in [Room -> SUBSET PeerId]
      BY DEF MemberIds
    <3> HIDE DEF dead, D
    <3> QED
      BY <1>2, <3>1, <3>2
  <2> QED
    BY <1>3, <2>1, <2>2, <2>3 DEF ServerStep
<1>4. ASSUME NEW c \in Conn, HandshakeStep(c) PROVE CounterExact'
  <2>1. ASSUME NEW x, x # "refused", phase[c] # "refused", phase' = [phase EXCEPT ![c] = x]
        PROVE  \A d \in Conn : phase'[d] = "refused" <=> phase[d] = "refused"
    BY <1>0, <2>1
  <2>2. CASE RejectHandshake(c)
    BY <1>1, <2>1, <2>2 DEF RejectHandshake
  <2>3. CASE \E i \in RoomId, p \in PeerId : Resolve(c, i, p)
    BY <1>1, <2>1, <2>3 DEF Resolve
  <2>4. CASE HookFailed(c) \/ RejectClosing(c) \/ RejectFull(c)
    BY <1>1, <2>1, <2>4 DEF HookFailed, RejectClosing, RejectFull, Abandon, EndHandler
  <2>5. CASE Join(c)
    BY <1>1, <2>1, <2>5 DEF Join, MayEnter
  <2>6. CASE JoinThrows(c)
    BY <1>1, <2>1, <2>6 DEF JoinThrows, MayEnter, EndHandler
  <2> QED
    BY <1>4, <2>2, <2>3, <2>4, <2>5, <2>6
    DEF HandshakeStep, AuthFails, WrongNode, RejectRoomCap
<1>5. ASSUME NEW c \in Conn, ClientStep(c) PROVE CounterExact'
  <2>1. CASE RefuseConnection(c)
    <3>1. Counted' = Counted
      BY <1>0, <2>1 DEF RefuseConnection, Free, Counted
    <3> QED
      BY <2>1, <3>1 DEF RefuseConnection, CounterExact
  <2>2. CASE AcceptConnection(c)
    <3>1. c \notin Counted /\ Counted' = Counted \cup {c}
      BY <1>0, <2>2 DEF AcceptConnection, Free, Counted
    <3>2. Cardinality(Counted \cup {c}) = Cardinality(Counted) + 1
      BY <3>1, CountedFinite, FS_AddElement
    <3> QED
      BY <2>2, <3>1, <3>2 DEF AcceptConnection, CounterExact
  <2>3. CASE ClientLeaves(c)
    BY <1>1, <2>3 DEF ClientLeaves
  <2>4. CASE Congest(c) \/ Drain(c) \/ FallSilent(c)
    BY <1>1, <2>4 DEF Congest, Drain, FallSilent
  <2> QED
    BY <1>5, <2>1, <2>2, <2>3, <2>4 DEF ClientStep
<1>6. ASSUME NEW c \in Conn, CloseUnadmitted(c) PROVE CounterExact'
  <2>1. /\ ws[c] = "closing" /\ ws'[c] = "closed"
        /\ \A d \in Conn \ {c} : ws'[d] = ws[d] /\ phase'[d] = phase[d]
        /\ connections' = IF phase[c] = "refused" THEN connections ELSE connections - 1
    BY <1>0, <1>6 DEF CloseUnadmitted
  <2>2. CASE phase[c] = "refused"
    <3>1. Counted' = Counted
      BY <2>1, <2>2 DEF Counted
    <3> QED
      BY <2>1, <2>2, <3>1 DEF CounterExact
  <2>3. CASE phase[c] # "refused"
    BY <2>1, <2>3, CountedClose DEF Counted
  <2> QED
    BY <2>2, <2>3
<1>7. ASSUME NEW c \in Conn, CloseAdmitted(c) PROVE CounterExact'
  <2> DEFINE gone == IF IsMember(c) THEN Leaver(inst[c], pid[c]) ELSE [r \in Room |-> {}]
             w == [ws EXCEPT ![c] = "closed"]
  <2>1. /\ RemovePeers(gone, w) /\ EndHandler(c) /\ connections' = connections - 1
        /\ phase[c] = "joined" /\ ws[c] = "closing"
    BY <1>7 DEF CloseAdmitted
  <2>2. gone \in [Room -> SUBSET PeerId]
    BY <2>1 DEF Leaver, IndInv, HandlerInv
  <2>3. /\ w \in [Conn -> {"open", "closing", "closed"}]
        /\ w[c] = "closed" /\ \A d \in Conn \ {c} : w[d] = ws[d]
    BY <1>0
  <2> HIDE DEF gone, w
  <2>4. \A d \in Conn : ws'[d] = "closed" <=> w[d] = "closed"
    BY <2>1, <2>2, <2>3, RemovePeersFacts
  <2>5. \A d \in Conn \ {c} : phase'[d] = phase[d]
    BY <1>0, <2>1 DEF EndHandler
  <2> QED
    BY <2>1, <2>3, <2>4, <2>5, CountedClose DEF Counted
<1>8. ASSUME NEW c \in Conn, FrameStep(c) PROVE CounterExact'
  <2>1. ASSUME NEW D, Forward(c, D) PROVE CounterExact'
    BY <1>1, <2>1 DEF Forward
  <2>2. CASE Pong(c)
    BY <1>1, <2>2 DEF Pong
  <2> QED
    BY <1>8, <2>1, <2>2 DEF FrameStep, Signal, Broadcast
<1>9. ASSUME NEW r \in Room, RoomStep(r) PROVE CounterExact'
  <2>1. CASE RoomBroadcast(r) \/ ForceClose(r)
    BY <1>1, <2>1 DEF RoomBroadcast, ForceClose
  <2>2. ASSUME NEW p \in PeerId, KickPeer(r, p) PROVE CounterExact'
    <3>1. Leaver(r, p) \in [Room -> SUBSET PeerId]
      BY DEF Leaver
    <3> QED
      BY <1>2, <2>2, <3>1 DEF KickPeer
  <2> QED
    BY <1>9, <2>1, <2>2 DEF RoomStep, IdleTimeout, DurationTimeout
<1>10. CASE UNCHANGED vars
  BY <1>1, <1>10 DEF vars
<1> QED
  BY <1>3, <1>4, <1>5, <1>6, <1>7, <1>8, <1>9, <1>10 DEF Next, CloseStep

\* _connections always equals the number of accepted sockets not closed yet: no
\* early return, refusal or order of close events loses or repeats a decrement.
THEOREM CounterIsExact == Spec => []CounterExact
<1>1. Init => CounterExact
  <2> SUFFICES ASSUME Init PROVE Counted = {} /\ connections = 0
    BY FS_EmptySet DEF CounterExact
  <2> QED
    BY DEF Init, Counted
<1>2. IndInv /\ CounterExact /\ [Next]_vars => CounterExact'
  BY CounterStep
<1> QED
  BY <1>1, <1>2, Invariance, PTL DEF Spec

\* Type correctness: in particular the connection counter never goes negative.
THEOREM TypeCorrect == Spec => []TypeOK
<1>1. IndInv /\ CounterExact => TypeOK
  BY CountedFinite DEF IndInv, Typing, TypeOK, CounterExact
<1> QED
  BY <1>1, Invariance, CounterIsExact, PTL

-----------------------------------------------------------------------------
(* What the rooms promise *)

\* A step that registers no room and seats nobody; a peer that stays connected
\* forgets only ids that left its room.
Leaving ==
    /\ \A i \in RoomId : registry'[i] \in {registry[i], NoRoom}
    /\ \A r \in Room, p \in PeerId : peers'[r][p] \in {peers[r][p], NoConn}
    /\ \A r \in Room, p \in PeerId :
          peers'[r][p] # NoConn /\ ws'[peers[r][p]] = "open" =>
             /\ ws[peers[r][p]] = "open"
             /\ \A q \in roster[peers[r][p]] :
                   q \in roster'[peers[r][p]] \/ peers'[r][q] = NoConn

\* The part of a room's state that Leaving is about stays, and the socket of a
\* member that is open still was so before, with the same roster.
LEMMA NobodyLeaves ==
    ASSUME IndInv, UNCHANGED <<registry, peers>>,
           \A r \in Room, p \in PeerId :
              peers[r][p] # NoConn /\ ws'[peers[r][p]] = "open" =>
                 /\ ws[peers[r][p]] = "open"
                 /\ roster'[peers[r][p]] = roster[peers[r][p]]
    PROVE  Leaving
BY DEF Leaving

\* Frames and departures of clients: sockets start closing, and the rosters of
\* those that stay open stay.
LEMMA SocketsLeave ==
    ASSUME IndInv, UNCHANGED <<registry, peers>>, NEW D,
           ws' = Disconnect(ws, D), roster' = SeenOver(ws', roster) \/ roster' = roster
    PROVE  Leaving
<1>1. \A r \in Room, p \in PeerId : peers[r][p] \in Conn \cup {NoConn}
  BY DEF IndInv, Typing
<1>2. \A c \in Conn : ws'[c] = "open" => ws[c] = "open"
  BY DisconnectFacts DEF IndInv, Typing
<1>3. \A c \in Conn : ws'[c] = "open" => roster'[c] = roster[c]
  BY DEF SeenOver
<1> QED
  BY <1>1, <1>2, <1>3, NobodyLeaves

\* Discarding rooms unregisters them and registers none.
LEMMA DiscardLeaves ==
    ASSUME IndInv, NEW R, Discard(R)
    PROVE  \A i \in RoomId : registry'[i] \in {registry[i], NoRoom}
BY DEF Discard

\* Peers leave without a word to the others, their sockets closing: the rosters
\* of those that stay are not touched.
LEMMA SilentRemoval ==
    ASSUME IndInv, NEW R, Discard(R), NEW D, ws' = Disconnect(ws, D),
           roster' = SeenOver(ws', roster),
           \A r \in Room, p \in PeerId : peers'[r][p] \in {peers[r][p], NoConn}
    PROVE  Leaving
<1>1. \A r \in Room, p \in PeerId : peers[r][p] \in Conn \cup {NoConn}
  BY DEF IndInv, Typing
<1>2. \A c \in Conn : ws'[c] = "open" => ws[c] = "open"
  BY DisconnectFacts DEF IndInv, Typing
<1>3. \A c \in Conn : ws'[c] = "open" => roster'[c] = roster[c]
  BY DEF SeenOver
<1> QED
  BY <1>1, <1>2, <1>3, DiscardLeaves DEF Leaving

\* Room.removePeer: those that hear peer-left strike exactly the ids that left
\* their own room from their rosters.
LEMMA RemovePeersLeaves ==
    ASSUME IndInv, NEW gone \in [Room -> SUBSET PeerId],
           NEW w \in [Conn -> {"open", "closing", "closed"}],
           \A c \in Conn : w[c] = "open" => ws[c] = "open",
           RemovePeers(gone, w)
    PROVE  Leaving
<1> DEFINE left(r)  == MemberIds(r) \ gone[r]
           emptied  == {r \in Room : gone[r] # {} /\ left(r) = {}}
           notified == {c \in Conn : \E r \in Room : /\ gone[r] # {}
                                                     /\ \E p \in left(r) : peers[r][p] = c}
           view == [c \in Conn |->
                        IF c \in notified THEN roster[c] \ gone[inst[c]] ELSE roster[c]]
<1>1. /\ peers' = [r \in Room |-> [p \in PeerId |->
                      IF p \in gone[r] THEN NoConn ELSE peers[r][p]]]
      /\ ws' = Disconnect(w, Overflow(notified))
      /\ roster' = SeenOver(ws', view)
      /\ Discard(emptied)
  BY DEF RemovePeers
<1>2. \A c \in Conn : ws'[c] = "open" => roster'[c] = view[c]
  BY <1>1 DEF SeenOver
<1>3. \A c \in Conn : view[c] = roster[c] \/ view[c] = roster[c] \ gone[inst[c]]
  OBVIOUS
<1>4. \A i \in RoomId : registry'[i] \in {registry[i], NoRoom}
  BY <1>1, DiscardLeaves
<1>5. \A c \in Conn : ws'[c] = "open" => ws[c] = "open"
  BY <1>1, DisconnectFacts
<1> HIDE DEF view, notified, emptied
<1>6. \A r \in Room, p \in PeerId :
         peers'[r][p] = IF p \in gone[r] THEN NoConn ELSE peers[r][p]
  BY <1>1
<1>7. ASSUME NEW r \in Room, NEW p \in PeerId, peers'[r][p] # NoConn,
             ws'[peers[r][p]] = "open"
      PROVE  /\ ws[peers[r][p]] = "open"
             /\ \A q \in roster[peers[r][p]] :
                   q \in roster'[peers[r][p]] \/ peers'[r][q] = NoConn
  <2>1. PICK c \in Conn : peers[r][p] = c
    BY <1>6, <1>7 DEF IndInv, Typing
  <2>2. inst[c] = r /\ roster[c] \subseteq PeerId
    BY <1>6, <1>7, <2>1 DEF IndInv, OpenPeerIsMember, Typing
  <2>3. ws[c] = "open" /\ roster'[c] = view[c]
    BY <1>2, <1>5, <1>7, <2>1
  <2>4. \A q \in roster[c] : q \in view[c] \/ q \in gone[r]
    BY <1>3, <2>2
  <2> QED
    BY <1>6, <2>1, <2>2, <2>3, <2>4
<1> QED
  BY <1>4, <1>6, <1>7 DEF Leaving

-----------------------------------------------------------------------------
(* Every step is of one of the three kinds *)

\* Seen from the rooms, a step looks a room up, admits a peer, or only lets
\* peers leave.
LEMMA KindsOfSteps ==
    ASSUME IndInv, [Next]_vars
    PROVE  \/ Leaving
           \/ \E c \in Conn : Join(c)
           \/ \E c \in Conn, i \in RoomId, p \in PeerId : Resolve(c, i, p)
<1> USE DEF roomVars
<1>0. /\ ws \in [Conn -> {"open", "closing", "closed"}]
      /\ \A r \in Room, p \in PeerId : peers[r][p] \in Conn \cup {NoConn}
  BY DEF IndInv, Typing
<1>1. ASSUME UNCHANGED <<registry, peers, ws, roster>> PROVE Leaving
  BY <1>1, NobodyLeaves
<1>2. ASSUME NEW gone \in [Room -> SUBSET PeerId], NEW D,
             RemovePeers(gone, Disconnect(ws, D))
      PROVE  Leaving
  <2> DEFINE w == Disconnect(ws, D)
  <2>1. /\ w \in [Conn -> {"open", "closing", "closed"}]
        /\ \A c \in Conn : w[c] = "open" => ws[c] = "open"
    BY <1>0, DisconnectFacts
  <2>2. RemovePeers(gone, w)
    BY <1>2
  <2> HIDE DEF w
  <2> QED
    BY <2>1, <2>2, RemovePeersLeaves
<1>3. CASE ServerStep
  <2>1. CASE Start \/ FinishStop
    BY <1>1, <2>1 DEF Start, FinishStop
  <2>2. CASE Stop
    <3> DEFINE open == {registry[i] : i \in RoomId} \ {NoRoom}
               D == UNION {Members(r) : r \in open}
    <3>1. /\ Discard(open) /\ ws' = Disconnect(ws, D) /\ roster' = SeenOver(ws', roster)
          /\ peers' = [r \in Room |-> IF r \in open THEN [p \in PeerId |-> NoConn]
                                                    ELSE peers[r]]
      BY <2>2 DEF Stop
    <3>2. \A r \in Room, p \in PeerId : peers'[r][p] \in {peers[r][p], NoConn}
      BY <3>1
    <3> HIDE DEF open, D
    <3> QED
      BY <3>1, <3>2, SilentRemoval
  <2>3. CASE HeartbeatTick
    <3> DEFINE rooms == {registry[i] : i \in RoomId} \ {NoRoom}
               dead == [r \in Room |-> IF r \in rooms
                          THEN {p \in MemberIds(r) : peers[r][p] \in silent} ELSE {}]
               all  == UNION {Members(r) : r \in rooms}
               D    == (all \cap silent) \cup Overflow(all)
    <3>1. RemovePeers(dead, Disconnect(ws, D))
      BY <2>3 DEF HeartbeatTick
    <3>2. dead \in [Room -> SUBSET PeerId]
      BY DEF MemberIds
    <3> HIDE DEF dead, D
    <3> QED
      BY <1>2, <3>1, <3>2
  <2> QED
    BY <1>3, <2>1, <2>2, <2>3 DEF ServerStep
<1>4. ASSUME NEW c \in Conn, HandshakeStep(c), ~ Join(c),
             ~ \E i \in RoomId, p \in PeerId : Resolve(c, i, p)
      PROVE  Leaving
  <2>1. CASE RejectHandshake(c)
    BY <2>1, SocketsLeave DEF RejectHandshake
  <2>2. CASE HookFailed(c) \/ RejectClosing(c) \/ RejectFull(c)
    <3>1. /\ ws' = Disconnect(ws, {c}) /\ RollbackIfEmpty(c, peers)
          /\ UNCHANGED <<roster, peers>>
      BY <2>2 DEF HookFailed, RejectClosing, RejectFull, Abandon
    <3>2. \A i \in RoomId : registry'[i] \in {registry[i], NoRoom}
      BY <3>1, DiscardLeaves DEF RollbackIfEmpty
    <3>3. \A d \in Conn : ws'[d] = "open" => ws[d] = "open"
      BY <1>0, <3>1, DisconnectFacts
    <3> QED
      BY <1>0, <3>1, <3>2, <3>3 DEF Leaving
  <2>3. CASE JoinThrows(c)
    <3> DEFINE R == {r \in Room : /\ c \in creators
                                  /\ registry[rid[c]] = r
                                  /\ \A p \in PeerId : peers'[r][p] = NoConn}
               D == {c, peers[inst[c]][pid[c]]}
    <3>1. /\ Discard(R) /\ ws' = Disconnect(ws, D) /\ roster' = SeenOver(ws', roster)
          /\ peers' = [peers EXCEPT ![inst[c]][pid[c]] = NoConn]
          /\ phase[c] = "hook"
      BY <2>3 DEF JoinThrows, RollbackIfEmpty, MayEnter
    <3>2. inst[c] \in Room /\ pid[c] \in PeerId
      BY <3>1 DEF IndInv, HandlerInv
    <3>3. \A r \in Room, p \in PeerId : peers'[r][p] \in {peers[r][p], NoConn}
      BY <3>1, <3>2 DEF IndInv, Typing
    <3> HIDE DEF R, D
    <3> QED
      BY <3>1, <3>3, SilentRemoval
  <2> QED
    BY <1>4, <2>1, <2>2, <2>3 DEF HandshakeStep, AuthFails, WrongNode, RejectRoomCap
<1>5. ASSUME NEW c \in Conn, ClientStep(c) PROVE Leaving
  <2>1. CASE RefuseConnection(c) \/ AcceptConnection(c)
    <3>1. /\ phase[c] = "over" /\ UNCHANGED <<registry, peers, roster>>
          /\ \A d \in Conn \ {c} : ws'[d] = ws[d]
      BY <1>0, <2>1 DEF RefuseConnection, AcceptConnection, Free
    <3>2. \A r \in Room, p \in PeerId : peers[r][p] # c
      BY <3>1, SentinelAssumption DEF IndInv, OpenPeerIsMember
    <3> QED
      BY <1>0, <3>1, <3>2, NobodyLeaves
  <2>2. CASE ClientLeaves(c)
    BY <2>2, SocketsLeave DEF ClientLeaves
  <2>3. CASE Congest(c) \/ Drain(c) \/ FallSilent(c)
    BY <1>1, <2>3 DEF Congest, Drain, FallSilent
  <2> QED
    BY <1>5, <2>1, <2>2, <2>3 DEF ClientStep
<1>6. ASSUME NEW c \in Conn, CloseStep(c) PROVE Leaving
  <2>1. CASE CloseUnadmitted(c)
    <3>1. /\ UNCHANGED <<registry, peers, roster>>
          /\ \A d \in Conn : ws'[d] = "open" => ws[d] = "open"
      BY <1>0, <2>1 DEF CloseUnadmitted
    <3> QED
      BY <1>0, <3>1, NobodyLeaves
  <2>2. CASE CloseAdmitted(c)
    <3> DEFINE gone == IF IsMember(c) THEN Leaver(inst[c], pid[c]) ELSE [r \in Room |-> {}]
               w == [ws EXCEPT ![c] = "closed"]
    <3>1. RemovePeers(gone, w) /\ phase[c] = "joined"
      BY <2>2 DEF CloseAdmitted
    <3>2. gone \in [Room -> SUBSET PeerId]
      BY <3>1 DEF Leaver, IndInv, HandlerInv
    <3>3. /\ w \in [Conn -> {"open", "closing", "closed"}]
          /\ \A d \in Conn : w[d] = "open" => ws[d] = "open"
      BY <1>0
    <3> HIDE DEF gone, w
    <3> QED
      BY <3>1, <3>2, <3>3, RemovePeersLeaves
  <2> QED
    BY <1>6, <2>1, <2>2 DEF CloseStep
<1>7. ASSUME NEW c \in Conn, FrameStep(c) PROVE Leaving
  <2>1. ASSUME NEW D, Forward(c, D) PROVE Leaving
    BY <2>1, SocketsLeave DEF Forward
  <2>2. CASE Pong(c)
    BY <1>1, <2>2 DEF Pong
  <2> QED
    BY <1>7, <2>1, <2>2 DEF FrameStep, Signal, Broadcast
<1>8. ASSUME NEW r \in Room, RoomStep(r) PROVE Leaving
  <2>1. CASE RoomBroadcast(r)
    BY <2>1, SocketsLeave DEF RoomBroadcast
  <2>2. CASE ForceClose(r)
    <3>1. /\ Discard({r}) /\ ws' = Disconnect(ws, Members(r))
          /\ roster' = SeenOver(ws', roster)
          /\ peers' = [peers EXCEPT ![r] = [p \in PeerId |-> NoConn]]
      BY <2>2, ForceCloseDiscards DEF ForceClose, IndInv
    <3>2. \A x \in Room, p \in PeerId : peers'[x][p] \in {peers[x][p], NoConn}
      BY <3>1 DEF IndInv, Typing
    <3> QED
      BY <3>1, <3>2, SilentRemoval
  <2>3. ASSUME NEW p \in PeerId, KickPeer(r, p) PROVE Leaving
    <3>1. Leaver(r, p) \in [Room -> SUBSET PeerId]
      BY DEF Leaver
    <3> QED
      BY <1>2, <2>3, <3>1 DEF KickPeer
  <2> QED
    BY <1>8, <2>1, <2>2, <2>3 DEF RoomStep, IdleTimeout, DurationTimeout
<1>9. CASE UNCHANGED vars
  BY <1>1, <1>9 DEF vars
<1> QED
  BY <1>3, <1>4, <1>5, <1>6, <1>7, <1>8, <1>9 DEF Next

\* What an admission does to the rooms: the newcomer, who has no seat, takes the
\* one of its id in the room the registry holds under the id it asked for.
LEMMA JoinFacts ==
    ASSUME IndInv, NEW c \in Conn, Join(c)
    PROVE  /\ inst[c] \in Room /\ pid[c] \in PeerId /\ rid[c] \in RoomId
           /\ registry[rid[c]] = inst[c] /\ registry' = registry
           /\ \A r \in Room, p \in PeerId :
                 /\ peers[r][p] # c
                 /\ peers'[r][p] = IF r = inst[c] /\ p = pid[c] THEN c ELSE peers[r][p]
           /\ \/ peers[inst[c]][pid[c]] # NoConn
              \/ Cardinality(MemberIds(inst[c])) < MaxPeers
<1>1. /\ phase[c] = "hook" /\ state[inst[c]] # "closed" /\ registry' = registry
      /\ peers' = [peers EXCEPT ![inst[c]][pid[c]] = c]
      /\ \/ peers[inst[c]][pid[c]] # NoConn
         \/ Cardinality(MemberIds(inst[c])) < MaxPeers
  BY DEF Join, MayEnter
<1>2. inst[c] \in Room /\ pid[c] \in PeerId /\ rid[c] \in RoomId
  BY <1>1 DEF IndInv, HandlerInv
<1>3. registry[rid[c]] = inst[c]
  BY <1>1 DEF IndInv, RegistryConsistent
<1>4. \A r \in Room, p \in PeerId : peers[r][p] # c
  BY <1>1, SentinelAssumption DEF IndInv, OpenPeerIsMember
<1>5. \A r \in Room, p \in PeerId :
         peers'[r][p] = IF r = inst[c] /\ p = pid[c] THEN c ELSE peers[r][p]
  BY <1>1, <1>2 DEF IndInv, Typing
<1> QED
  BY <1>1, <1>2, <1>3, <1>4, <1>5

-----------------------------------------------------------------------------
(* The rosters *)

\* Removals cannot make a roster miss anyone.
LEMMA LeavingKeepsRosters ==
    ASSUME IndInv, NoMissingPeers, Leaving
    PROVE  NoMissingPeers'
<1> SUFFICES ASSUME NEW r \in Room, NEW p \in PeerId, peers'[r][p] # NoConn,
                    ws'[peers'[r][p]] = "open",
                    NEW q \in PeerId, q # p, peers'[r][q] # NoConn
             PROVE  q \in roster'[peers'[r][p]]
  BY DEF NoMissingPeers, MemberIds
<1>1. peers'[r][p] = peers[r][p] /\ peers[r][q] # NoConn /\ peers[r][p] # NoConn
  BY DEF Leaving
<1>2. ws[peers[r][p]] = "open"
  BY <1>1 DEF Leaving
<1>3. q \in roster[peers[r][p]]
  BY <1>1, <1>2 DEF NoMissingPeers, MemberIds
<1> QED
  BY <1>1, <1>3 DEF Leaving

\* An admission tells the newcomer of the others and, when its id is new, the
\* others of it; a replaced connection's id was known already.
LEMMA JoinKeepsRosters ==
    ASSUME IndInv, NoMissingPeers, NEW c \in Conn, Join(c)
    PROVE  NoMissingPeers'
<1> DEFINE room == inst[c]
           id   == pid[c]
           told == Audience(room, id)
           view == [d \in Conn |->
                      IF d = c THEN MemberIds(room) \ {id}
                      ELSE IF d \in told THEN roster[d] \cup {id} ELSE roster[d]]
<1>0. /\ ws \in [Conn -> {"open", "closing", "closed"}]
      /\ \A r \in Room, p \in PeerId : peers[r][p] \in Conn \cup {NoConn}
  BY DEF IndInv, Typing
<1>1. /\ ws' = Disconnect(ws, {peers[room][id]} \cup Overflow(told))
      /\ roster' = SeenOver(ws', view)
  BY DEF Join
<1>2. \A d \in Conn : ws'[d] = "open" => ws[d] = "open"
  BY <1>0, <1>1, DisconnectFacts
<1>3. \A d \in Conn : ws'[d] = "open" => roster'[d] = view[d]
  BY <1>1 DEF SeenOver
<1>4. view[c] = MemberIds(room) \ {id}
  OBVIOUS
<1>5. \A d \in Conn \ {c} : view[d] = IF d \in told THEN roster[d] \cup {id} ELSE roster[d]
  OBVIOUS
<1>6. \A d \in told : d \in Members(room)
  BY DEF Audience
<1>7. peers[room][id] = NoConn => told = Members(room)
  BY DEF Audience
<1> HIDE DEF view, told
<1>8. SUFFICES ASSUME NEW r \in Room, NEW p \in PeerId, peers'[r][p] # NoConn,
                      ws'[peers'[r][p]] = "open",
                      NEW q \in PeerId, q # p, peers'[r][q] # NoConn
               PROVE  q \in roster'[peers'[r][p]]
  BY DEF NoMissingPeers, MemberIds
<1>9. CASE r = room /\ p = id
  <2>1. peers'[r][p] = c /\ peers[room][q] # NoConn
    BY <1>8, <1>9, JoinFacts
  <2> QED
    BY <1>3, <1>4, <1>8, <1>9, <2>1 DEF MemberIds
<1>10. CASE ~ (r = room /\ p = id)
  <2>1. PICK d \in Conn : d = peers[r][p] /\ d = peers'[r][p]
    BY <1>0, <1>8, <1>10, JoinFacts
  <2>2. d # c /\ ws[d] = "open"
    <3>1. peers[r][p] # c
      BY JoinFacts
    <3> QED
      BY <1>2, <1>8, <2>1, <3>1
  <2>3. roster[d] \subseteq roster'[d]
    BY <1>3, <1>5, <1>8, <2>1, <2>2
  <2>4. CASE peers[r][q] # NoConn
    <3>1. q \in roster[d]
      BY <1>8, <2>1, <2>2, <2>4, SentinelAssumption DEF NoMissingPeers, MemberIds
    <3> QED
      BY <2>1, <2>3, <3>1
  <2>5. CASE peers[r][q] = NoConn
    <3>1. r = room /\ q = id
      BY <1>8, <2>5, JoinFacts
    <3>2. d \in told
      BY <1>7, <2>1, <2>5, <3>1, SentinelAssumption DEF Members
    <3> QED
      BY <1>3, <1>5, <1>8, <2>1, <2>2, <3>1, <3>2
  <2> QED
    BY <2>4, <2>5
<1> QED
  BY <1>9, <1>10

\* Every peer connected to a room has been told of all the others in it: no
\* order of joins, replacements, removals and failed joins loses a peer-joined.
THEOREM NobodyIsMissing == Spec => []NoMissingPeers
<1>1. Init => NoMissingPeers
  BY DEF Init, NoMissingPeers
<1>2. IndInv /\ NoMissingPeers /\ [Next]_vars => NoMissingPeers'
  <2> SUFFICES ASSUME IndInv, NoMissingPeers, [Next]_vars PROVE NoMissingPeers'
    OBVIOUS
  <2>1. ASSUME NEW c \in Conn, NEW i \in RoomId, NEW p \in PeerId, Resolve(c, i, p)
        PROVE  NoMissingPeers'
    BY <2>1 DEF Resolve, NoMissingPeers, MemberIds
  <2> QED
    BY <2>1, KindsOfSteps, LeavingKeepsRosters, JoinKeepsRosters
<1> QED
  BY <1>1, <1>2, Invariance, PTL DEF Spec

\* A relayed frame reaches only clients that have been told of its sender, or comes
\* from a sender its room has removed and whose socket is closing.
THEOREM SendersAreKnown == Spec => []SenderIsKnown
<1>1. Init => SenderIsKnown
  BY DEF Init, SenderIsKnown
<1>2. IndInv /\ NoMissingPeers /\ SenderIsKnown /\ [Next]_vars => SenderIsKnown'
  <2> SUFFICES ASSUME IndInv, NoMissingPeers, SenderIsKnown, [Next]_vars PROVE SenderIsKnown'
    OBVIOUS
  <2>1. CASE UNCHANGED vars
    BY <2>1 DEF vars, SenderIsKnown, IsMember
  <2>2. CASE delivered' = {}
    BY <2>2 DEF SenderIsKnown
  <2>3. ASSUME NEW c \in Conn, NEW D, Forward(c, D), D \subseteq Members(inst[c])
        PROVE  SenderIsKnown'
    <3>1. /\ phase[c] = "joined" /\ UNCHANGED <<phase, pid, inst, peers>>
          /\ delivered' = {c} \X Reached(D)
          /\ ws' = Disconnect(ws, Overflow(D)) /\ roster' = SeenOver(ws', roster)
      BY <2>3 DEF Forward, MayRelay, handlerVars
    <3>2. inst[c] \in Room /\ pid[c] \in PeerId
      BY <3>1 DEF IndInv, HandlerInv
    <3>3. ws \in [Conn -> {"open", "closing", "closed"}]
      BY DEF IndInv, Typing
    <3>4. \A d \in Conn : ws'[d] = "open" <=> ws[d] = "open" /\ d \notin Overflow(D)
      BY <3>1, <3>3, DisconnectFacts
    <3>5. ASSUME NEW d \in Reached(D), d # c
          PROVE  \/ pid[c] \in roster'[d]
                 \/ ~ IsMember(c) /\ ws'[c] # "open"
      <4>1. PICK p \in PeerId : d = peers[inst[c]][p]
        BY <2>3, <3>5 DEF Reached, Members
      <4>2. d \in Conn /\ ws[d] = "open" /\ d # NoConn /\ d \notin congested
        BY <2>3, <3>2, <3>5, <4>1 DEF Reached, Members, IndInv, Typing
      <4>3. roster'[d] = roster[d]
        BY <3>1, <3>4, <4>2 DEF SeenOver, Overflow
      <4>4. CASE peers[inst[c]][pid[c]] = c
        <5>1. pid[c] \in MemberIds(inst[c]) \ {p}
          BY <3>2, <3>5, <4>1, <4>4, SentinelAssumption DEF MemberIds
        <5>2. MemberIds(inst[c]) \ {p} \subseteq roster[d]
          BY <3>2, <4>1, <4>2 DEF NoMissingPeers
        <5> QED
          BY <4>3, <5>1, <5>2
      <4>5. CASE peers[inst[c]][pid[c]] # c
        BY <3>1, <3>4, <4>5 DEF IndInv, OpenPeerIsMember, IsMember
      <4> QED
        BY <4>4, <4>5
    <3>6. \A m \in delivered' : m[1] = c /\ m[2] \in Reached(D)
      BY <3>1
    <3>7. phase'[c] = "joined" /\ pid'[c] = pid[c] /\ (IsMember(c)' <=> IsMember(c))
      BY <3>1 DEF IsMember
    <3> QED
      BY <3>5, <3>6, <3>7 DEF SenderIsKnown
  <2>4. ASSUME NEW c \in Conn, FrameStep(c) PROVE SenderIsKnown'
    BY <2>2, <2>3, <2>4 DEF FrameStep, Signal, Broadcast, Pong, Members
  <2>5. CASE ServerStep
    BY <2>2, <2>5 DEF ServerStep, Start, Stop, FinishStop, HeartbeatTick
  <2>6. ASSUME NEW c \in Conn, HandshakeStep(c) PROVE SenderIsKnown'
    BY <2>2, <2>6 DEF HandshakeStep, AuthFails, WrongNode, RejectHandshake, RejectRoomCap, Resolve,
       HookFailed, RejectClosing, RejectFull, Abandon, Join, JoinThrows
  <2>7. ASSUME NEW c \in Conn, ClientStep(c) \/ CloseStep(c) PROVE SenderIsKnown'
    BY <2>2, <2>7 DEF ClientStep, CloseStep, RefuseConnection, AcceptConnection,
       ClientLeaves, Congest, Drain, FallSilent, CloseUnadmitted, CloseAdmitted
  <2>8. ASSUME NEW r \in Room, RoomStep(r) PROVE SenderIsKnown'
    BY <2>2, <2>8 DEF RoomStep, RoomBroadcast, IdleTimeout, DurationTimeout,
       ForceClose, KickPeer
  <2> QED
    BY <2>1, <2>4, <2>5, <2>6, <2>7, <2>8 DEF Next
<1> QED
  BY <1>1, <1>2, Invariance, NobodyIsMissing, PTL DEF Spec

-----------------------------------------------------------------------------
(* The limits *)

Registered == {i \in RoomId : registry[i] # NoRoom}

\* The registry is within maxRooms and every room within maxPeers.  Both sets
\* are finite, whatever the sets of ids are: nodes start with none.
WithinLimits ==
    /\ IsFiniteSet(Registered) /\ Cardinality(Registered) <= MaxRooms
    /\ \A r \in Room : IsFiniteSet(MemberIds(r)) /\ Cardinality(MemberIds(r)) <= MaxPeers

\* A subset of a set within a limit is within that limit.
LEMMA SubsetWithin ==
    ASSUME NEW S, IsFiniteSet(S), NEW T \in SUBSET S, NEW n \in Nat, Cardinality(S) <= n
    PROVE  IsFiniteSet(T) /\ Cardinality(T) <= n
<1>1. IsFiniteSet(T) /\ Cardinality(T) <= Cardinality(S)
  BY FS_Subset
<1>2. Cardinality(S) \in Nat /\ Cardinality(T) \in Nat
  BY <1>1, FS_CardinalityType
<1> QED
  BY <1>1, <1>2

\* A set below a limit may get one more element.
LEMMA OneMoreWithin ==
    ASSUME NEW S, IsFiniteSet(S), NEW x, NEW n \in Nat, Cardinality(S) <= n,
           x \in S \/ Cardinality(S) < n
    PROVE  IsFiniteSet(S \cup {x}) /\ Cardinality(S \cup {x}) <= n
<1>1. /\ IsFiniteSet(S \cup {x})
      /\ Cardinality(S \cup {x}) = IF x \in S THEN Cardinality(S) ELSE Cardinality(S) + 1
  BY FS_AddElement
<1>2. Cardinality(S) \in Nat
  BY FS_CardinalityType
<1> QED
  BY <1>1, <1>2

\* Every step keeps the limits: Resolve creates a room only below maxRooms, Join
\* takes a seat only below maxPeers or that of its own id.
LEMMA LimitsStep ==
    ASSUME IndInv, WithinLimits, [Next]_vars
    PROVE  WithinLimits'
<1>0. MaxRooms \in Nat /\ MaxPeers \in Nat
  BY LimitAssumption
<1>1. ASSUME Leaving PROVE WithinLimits'
  <2>1. Registered' \in SUBSET Registered
    BY <1>1 DEF Leaving, Registered
  <2>2. ASSUME NEW r \in Room PROVE MemberIds(r)' \in SUBSET MemberIds(r)
    BY <1>1 DEF Leaving, MemberIds
  <2> QED
    BY <1>0, <2>1, <2>2, SubsetWithin DEF WithinLimits
<1>2. ASSUME NEW c \in Conn, Join(c) PROVE WithinLimits'
  <2>1. Registered' = Registered
    BY <1>2, JoinFacts DEF Registered
  <2>0. /\ pid[c] \in PeerId
        /\ \A r \in Room, p \in PeerId :
              peers'[r][p] = IF r = inst[c] /\ p = pid[c] THEN c ELSE peers[r][p]
    BY <1>2, JoinFacts
  <2>2. ASSUME NEW r \in Room
        PROVE  IsFiniteSet(MemberIds(r)') /\ Cardinality(MemberIds(r)') <= MaxPeers
    <3>1. CASE r = inst[c]
      <4>1. MemberIds(r)' = MemberIds(r) \cup {pid[c]}
        BY <2>0, <3>1, SentinelAssumption DEF MemberIds
      <4>2. pid[c] \in MemberIds(r) \/ Cardinality(MemberIds(r)) < MaxPeers
        BY <1>2, <3>1, JoinFacts DEF MemberIds
      <4> QED
        BY <1>0, <4>1, <4>2, OneMoreWithin DEF WithinLimits
    <3>2. CASE r # inst[c]
      <4>1. MemberIds(r)' = MemberIds(r)
        BY <2>0, <3>2 DEF MemberIds
      <4> QED
        BY <4>1 DEF WithinLimits
    <3> QED
      BY <3>1, <3>2
  <2> QED
    BY <2>1, <2>2 DEF WithinLimits
<1>3. ASSUME NEW c \in Conn, NEW i \in RoomId, NEW p \in PeerId, Resolve(c, i, p)
      PROVE  WithinLimits'
  <2>1. ASSUME NEW r \in Room PROVE MemberIds(r)' = MemberIds(r)
    BY <1>3 DEF Resolve, MemberIds
  <2>2. Registered' \in SUBSET (Registered \cup {i})
    BY <1>3 DEF Resolve, GetOrCreate, Registered, roomVars, IndInv, Typing
  <2>3. i \in Registered \/ Cardinality(Registered) < MaxRooms
    BY <1>3 DEF Resolve, Registered, RegistrySize
  <2>4. IsFiniteSet(Registered \cup {i}) /\ Cardinality(Registered \cup {i}) <= MaxRooms
    BY <1>0, <2>3, OneMoreWithin DEF WithinLimits
  <2> QED
    BY <1>0, <2>1, <2>2, <2>4, SubsetWithin DEF WithinLimits
<1> QED
  BY <1>1, <1>2, <1>3, KindsOfSteps

\* No interleaving of handshakes exceeds maxRooms or maxPeersPerRoom, although
\* the check of maxRooms and that of maxPeers are an await apart.
THEOREM LimitsHold == Spec => []WithinLimits
<1>1. Init => WithinLimits
  <2> SUFFICES ASSUME Init PROVE WithinLimits
    OBVIOUS
  <2>1. Registered = {} /\ \A r \in Room : MemberIds(r) = {}
    BY DEF Init, Registered, MemberIds
  <2> QED
    BY <2>1, FS_EmptySet, LimitAssumption DEF WithinLimits
<1>2. IndInv /\ WithinLimits /\ [Next]_vars => WithinLimits'
  BY LimitsStep
<1> QED
  BY <1>1, <1>2, Invariance, PTL DEF Spec

-----------------------------------------------------------------------------
(* The refinement *)

\* Only peers of registered rooms are seated.
LEMMA SeatsFacts ==
    ASSUME IndInv
    PROVE  /\ SeatsOf \in [RoomId -> [PeerId -> Conn \cup {NoConn}]]
           /\ \A i \in RoomId, p \in PeerId :
                 SeatsOf[i][p] = IF registry[i] = NoRoom THEN NoConn ELSE peers[registry[i]][p]
BY DEF SeatsOf, IndInv, Typing

\* A step in which peers only leave vacates seats.
LEMMA LeavingVacates ==
    ASSUME IndInv, IndInv', Leaving
    PROVE  \E L \in SUBSET (RoomId \X PeerId) : Seats!Vacate(L)
<1>1. PICK L \in SUBSET (RoomId \X PeerId) :
         \A i \in RoomId, p \in PeerId : <<i, p>> \in L <=> SeatsOf'[i][p] = NoConn
  <2> DEFINE K == {x \in RoomId \X PeerId : SeatsOf'[x[1]][x[2]] = NoConn}
  <2>1. /\ K \in SUBSET (RoomId \X PeerId)
        /\ \A i \in RoomId, p \in PeerId : <<i, p>> \in K <=> SeatsOf'[i][p] = NoConn
    OBVIOUS
  <2> QED
    BY <2>1
<1>2. /\ SeatsOf' \in [RoomId -> [PeerId -> Conn \cup {NoConn}]]
      /\ \A i \in RoomId, p \in PeerId :
            SeatsOf'[i][p] = IF registry'[i] = NoRoom THEN NoConn ELSE peers'[registry'[i]][p]
  BY DEF SeatsOf, IndInv, Typing
<1>3. \A i \in RoomId, p \in PeerId : SeatsOf'[i][p] \in {SeatsOf[i][p], NoConn}
  BY <1>2, SeatsFacts DEF Leaving, IndInv, Typing
<1>4. SeatsOf' = [i \in RoomId |-> [p \in PeerId |->
                    IF <<i, p>> \in L THEN NoConn ELSE SeatsOf[i][p]]]
  <2>1. ASSUME NEW i \in RoomId
        PROVE  SeatsOf'[i] = [p \in PeerId |->
                    IF <<i, p>> \in L THEN NoConn ELSE SeatsOf[i][p]]
    BY <1>1, <1>2, <1>3
  <2> QED
    BY <1>2, <2>1
<1> QED
  BY <1>4 DEF Seats!Vacate

\* A handshake that looks its room up changes no seat: the room it may register
\* is new, and empty.
LEMMA ResolveSeatsNobody ==
    ASSUME IndInv, NEW c \in Conn, NEW i \in RoomId, NEW p \in PeerId, Resolve(c, i, p)
    PROVE  SeatsOf' = SeatsOf
<1>1. peers' = peers
  BY DEF Resolve
<1>2. CASE registry' = registry
  BY <1>1, <1>2 DEF SeatsOf
<1>3. CASE registry' # registry
  <2>1. PICK r \in Room : /\ state[r] = "closed" /\ registry[i] = NoRoom
                          /\ registry' = [registry EXCEPT ![i] = r]
    BY <1>3 DEF Resolve, GetOrCreate, roomVars
  <2>2. peers[r] = [q \in PeerId |-> NoConn]
    <3>1. MemberIds(r) = {}
      BY <2>1 DEF IndInv, RegistryConsistent
    <3> QED
      BY <3>1 DEF MemberIds, IndInv, Typing
  <2>3. \A j \in RoomId : registry'[j] = IF j = i THEN r ELSE registry[j]
    BY <2>1 DEF IndInv, Typing
  <2> QED
    BY <1>1, <2>1, <2>2, <2>3, SentinelAssumption DEF SeatsOf
<1> QED
  BY <1>2, <1>3

\* RoomSeats counts as the server does.
LEMMA SameCardinality ==
    ASSUME NEW S
    PROVE  Seats!Cardinality(S) = Cardinality(S)
BY DEF Seats!Cardinality, Cardinality

\* An admission takes a seat, within the limits.
LEMMA JoinTakesSeat ==
    ASSUME IndInv, WithinLimits, IndInv', WithinLimits', NEW c \in Conn, Join(c)
    PROVE  \E i \in RoomId, p \in PeerId : Seats!TakeSeat(c, i, p)
<1>1. PICK i \in RoomId : i = rid[c]
  BY JoinFacts
<1>2. PICK p \in PeerId : p = pid[c]
  BY JoinFacts
<1>3. PICK r \in Room : r = inst[c] /\ registry[i] = r
  BY <1>1, JoinFacts
<1>4. /\ registry' = registry
      /\ \A x \in Room, q \in PeerId :
            /\ peers[x][q] # c
            /\ peers'[x][q] = IF x = r /\ q = p THEN c ELSE peers[x][q]
  BY <1>2, <1>3, JoinFacts
<1>5. /\ SeatsOf' \in [RoomId -> [PeerId -> Conn \cup {NoConn}]]
      /\ \A j \in RoomId, q \in PeerId :
            SeatsOf'[j][q] = IF registry[j] = NoRoom THEN NoConn ELSE peers'[registry[j]][q]
  BY <1>4 DEF SeatsOf, IndInv, Typing
<1>6. \A j \in RoomId : registry[j] \in Room \cup {NoRoom}
  BY DEF IndInv, Typing
<1>7. \A j \in RoomId : registry[j] = r => j = i
  BY <1>3, SentinelAssumption DEF IndInv, RegistryConsistent
<1>8. ~ Seats!Seated(c)
  BY <1>4, <1>6, SeatsFacts, SentinelAssumption DEF Seats!Seated
<1>9. SeatsOf' = [SeatsOf EXCEPT ![i][p] = c]
  <2>1. \A j \in RoomId, q \in PeerId :
           SeatsOf'[j][q] = IF j = i /\ q = p THEN c ELSE SeatsOf[j][q]
    BY <1>3, <1>4, <1>5, <1>6, <1>7, SeatsFacts, SentinelAssumption
  <2> DEFINE new == [SeatsOf EXCEPT ![i][p] = c]
  <2>2. new \in [RoomId -> [PeerId -> Conn \cup {NoConn}]]
    BY SeatsFacts
  <2>3. \A j \in RoomId, q \in PeerId :
           new[j][q] = IF j = i /\ q = p THEN c ELSE SeatsOf[j][q]
    BY SeatsFacts
  <2> HIDE DEF new
  <2>4. ASSUME NEW j \in RoomId PROVE SeatsOf'[j] = new[j]
    BY <1>5, <2>1, <2>2, <2>3
  <2> QED
    BY <1>5, <2>2, <2>4 DEF new
<1>10. Cardinality(Seats!Occupied(i)') <= MaxPeers
  <2>1. Seats!Occupied(i)' = MemberIds(r)'
    BY <1>3, <1>5, SentinelAssumption DEF Seats!Occupied, MemberIds
  <2> QED
    BY <2>1 DEF WithinLimits
<1>11. Cardinality({j \in RoomId : Seats!Occupied(j)' # {}}) <= MaxRooms
  <2> DEFINE T == {j \in RoomId : Seats!Occupied(j)' # {}}
  <2>1. T \in SUBSET (Registered')
    BY <1>4, <1>5 DEF Seats!Occupied, Registered
  <2> HIDE DEF T
  <2>2. Cardinality(T) <= MaxRooms
    BY <2>1, SubsetWithin, LimitAssumption DEF WithinLimits
  <2> QED
    BY <2>2 DEF T
<1>12. Seats!TakeSeat(c, i, p)
  BY <1>8, <1>9, <1>10, <1>11, SameCardinality DEF Seats!TakeSeat
<1> QED
  BY <1>12

\* The node implements RoomSeats: whatever Room objects come and go under an id,
\* and however handshakes overlap, each step seats one unseated connection within
\* the limits, or only vacates seats.
THEOREM SeatsImplemented == Spec => ImplementsSeats
<1>1. Init => Seats!Init
  <2> SUFFICES ASSUME Init PROVE SeatsOf = [i \in RoomId |-> [p \in PeerId |-> NoConn]]
    BY DEF Seats!Init
  <2> QED
    BY DEF Init, SeatsOf
<1>2. IndInv /\ IndInv' /\ WithinLimits /\ WithinLimits' /\ [Next]_vars
         => [Seats!Next]_SeatsOf
  <2> SUFFICES ASSUME IndInv, IndInv', WithinLimits, WithinLimits', [Next]_vars
               PROVE  Seats!Next \/ SeatsOf' = SeatsOf
    OBVIOUS
  <2>1. CASE Leaving
    BY <2>1, LeavingVacates DEF Seats!Next
  <2>2. ASSUME NEW c \in Conn, Join(c) PROVE Seats!Next
    BY <2>2, JoinTakesSeat DEF Seats!Next
  <2> QED
    BY <2>1, <2>2, ResolveSeatsNobody, KindsOfSteps
<1> QED
  BY <1>1, <1>2, Invariance, LimitsHold, PTL DEF Spec, ImplementsSeats, Seats!Spec
=============================================================================
