--------------------------- MODULE SignalingClient ---------------------------
(* The client side of rtcforge-sdk: RTCForgeClient with its JoinHandshake,    *)
(* WebSocketTransport, ReconnectStrategy and SendQueue.                       *)
(*                                                                            *)
(* joinRoom() makes a transport, connects it and awaits the handshake; the    *)
(* rest of joinRoom() is a microtask of its own (JoinSucceeds, JoinFails).    *)
(* Between the settling of the handshake and that microtask no timer or new   *)
(* socket event runs, but the application's own microtasks, the remaining     *)
(* frames of the same batch and the close that follows an error do.           *)
(*                                                                            *)
(* A member of Transport is a WebSocketTransport with its JoinHandshake; the  *)
(* identity is used again when nothing of the previous one is pending.        *)
EXTENDS Naturals, Sequences

CONSTANTS
    Transport, Null,
    MaxAttempts,     \* maxReconnectAttempts
    QueueSize,       \* maxQueueSize
    MaxOut, MaxIn    \* bounds: frames sent per transport, received per socket

ASSUME TransportAssumption == Null \notin Transport
ASSUME BoundAssumption ==
    {MaxAttempts, QueueSize, MaxOut, MaxIn} \subseteq Nat

VARIABLES
    opts,    \* which of the client's options are on
    client,  \* the fields of RTCForgeClient; wired and steady are the
             \* transports whose listeners _cleanups would remove, view the
             \* frames the Room has applied since its last snapshot
    conn,    \* every WebSocketTransport with its current socket
    join     \* every JoinHandshake and the joinRoom() call awaiting it

vars == <<opts, client, conn, join>>

Options == {"reconnect", "connectTimeout", "joinTimeout", "tokenRefresh"}

\* readyState of the socket: aborting is close() before it opened, errored is
\* between onerror and onclose.
SockState == {"none", "connecting", "aborting", "open", "closing", "errored", "closed"}

TypeOK ==
    /\ opts \subseteq Options
    /\ client \in [state : {"disconnected", "connecting", "connected", "reconnecting"},
                   transport : Transport \cup {Null},
                   handshake : Transport \cup {Null},
                   room : Transport \cup {Null},
                   wired : SUBSET Transport, steady : SUBSET Transport,
                   view : Seq(1..MaxIn)]
    /\ conn \in [Transport ->
           [closed : BOOLEAN, exhausted : BOOLEAN, connecting : BOOLEAN,
            first : BOOLEAN, sock : SockState, settled : BOOLEAN,
            connectTimer : BOOLEAN, reconnectTimer : BOOLEAN,
            refreshing : BOOLEAN, attempt : 0..MaxAttempts,
            joined : BOOLEAN, received : 0..MaxIn,
            queue : Seq(1..MaxOut), wire : Seq(1..MaxOut),
            sent : 0..MaxOut, bad : SUBSET (1..MaxOut), reported : SUBSET (1..MaxOut)]]
    /\ \A t \in Transport : Len(conn[t].queue) <= QueueSize
    /\ join \in [Transport ->
           [phase : {"none", "waiting", "resolved", "rejected", "done"},
            listening : BOOLEAN, timer : BOOLEAN, buffer : Seq(1..MaxIn)]]

\* A transport that exists only as an identity.
NewConn == [closed |-> FALSE, exhausted |-> FALSE, connecting |-> FALSE,
            first |-> TRUE, sock |-> "none", settled |-> FALSE,
            connectTimer |-> FALSE, reconnectTimer |-> FALSE,
            refreshing |-> FALSE, attempt |-> 0, joined |-> FALSE, received |-> 0,
            queue |-> << >>, wire |-> << >>, sent |-> 0,
            bad |-> {}, reported |-> {}]
NewJoin == [phase |-> "none", listening |-> FALSE, timer |-> FALSE, buffer |-> << >>]

Init ==
    /\ opts \in SUBSET Options
    /\ client = [state |-> "disconnected", transport |-> Null, handshake |-> Null,
                 room |-> Null, wired |-> {}, steady |-> {}, view |-> << >>]
    /\ conn = [t \in Transport |-> NewConn]
    /\ join = [t \in Transport |-> NewJoin]

-----------------------------------------------------------------------------
(* SendQueue and the transport's own operations, on one transport's record *)

\* SendQueue.drain through ws.send: the frames before the first one that throws
\* go out, that one and the rest are queued again.  No-op unless open.
Flush(c) ==
    LET blocked == {i \in 1..Len(c.queue) : c.queue[i] \in c.bad}
        stop == IF blocked = {} THEN Len(c.queue) + 1
                ELSE CHOOSE i \in blocked : \A j \in blocked : i <= j
    IN  IF c.sock # "open" THEN c
        ELSE [c EXCEPT !.wire = @ \o SubSeq(c.queue, 1, stop - 1),
                       !.queue = SubSeq(@, stop, Len(@))]

\* Mutants of Enqueue: no bound, eviction of the oldest.
EnqueueUnbounded(c, f) == [c EXCEPT !.queue = Append(@, f)]
EnqueueEvicts(c, f) ==
    [c EXCEPT !.queue = Append(IF Len(@) < QueueSize THEN @ ELSE Tail(@), f)]

\* SendQueue.enqueue; a full queue refuses the frame, which send() reports.
Enqueue(c, f) ==
    IF Len(c.queue) < QueueSize THEN [c EXCEPT !.queue = Append(@, f)]
    ELSE [c EXCEPT !.reported = @ \cup {f}]

\* WebSocketTransport.isTerminal
Terminal(c) == c.closed \/ c.exhausted

\* send(): what is queued goes first; a frame that cannot be serialised is
\* reported through an error event.
Send(c, f) ==
    IF c.sock = "open"
    THEN LET d == Flush(c)
         IN  IF f \in c.bad THEN [d EXCEPT !.reported = @ \cup {f}]
             ELSE [d EXCEPT !.wire = Append(@, f)]
    ELSE Enqueue(c, f)

\* ws.close(): a socket that has not opened fails, an open one starts closing.
Closing(sock) ==
    CASE sock = "connecting" -> "aborting"
      [] sock = "open" -> "closing"
      [] OTHER -> sock

\* A terminal transport sends nothing more; its queue and the history of what
\* it sent are not followed further.
Forget(c) == [c EXCEPT !.queue = << >>, !.wire = << >>, !.sent = 0, !.bad = {},
                       !.reported = {}]

\* WebSocketTransport.close()
Close(c) == [Forget(c) EXCEPT !.closed = TRUE, !.reconnectTimer = FALSE,
                              !.sock = Closing(@)]

\* initSocket(): a call while one is in progress is refused.
InitSocket(c, first) ==
    IF c.connecting THEN c ELSE [c EXCEPT !.connecting = TRUE, !.first = first]

\* ReconnectStrategy.isExhausted
Exhausted(c) == c.attempt >= MaxAttempts

\* Mutant of ScheduleReconnect: the attempt is not counted.
ScheduleUncounted(c) == [c EXCEPT !.reconnectTimer = TRUE]

\* scheduleReconnect with the nextDelay() it takes.
ScheduleReconnect(c) == [c EXCEPT !.attempt = @ + 1, !.reconnectTimer = TRUE]

\* JoinHandshake._settle with a rejection.
Reject(h) ==
    IF h.phase # "waiting" THEN h
    ELSE [h EXCEPT !.phase = "rejected", !.timer = FALSE, !.listening = FALSE]

-----------------------------------------------------------------------------
(* RTCForgeClient's state and its lifecycle listeners *)

\* LEGAL_TRANSITIONS
Legal == [disconnected |-> {"connecting", "reconnecting"},
          connecting   |-> {"connected", "disconnected", "reconnecting"},
          connected    |-> {"reconnecting", "disconnected"},
          reconnecting |-> {"connected", "disconnected"}]

\* _setState: an illegal transition is ignored.
SetState(c, next) == IF next \in Legal[c.state] THEN [c EXCEPT !.state = next] ELSE c

\* Running and emptying _cleanups.
Unwired(c) == [c EXCEPT !.wired = {}, !.steady = {}]

\* What leave() and a Terminated event leave of the client.
Reset(c) == [Unwired(SetState(c, "disconnected")) EXCEPT
                 !.handshake = Null, !.room = Null, !.transport = Null,
                 !.view = << >>]

\* JoinHandshake.cancel on the handshake the client refers to, if any.
Cancel(h, c) == [t \in Transport |-> IF t = c.handshake THEN Reject(h[t]) ELSE h[t]]

\* leave(), called when the client is c and the transports are cs.
LeaveWith(c, cs) ==
    /\ client' = Reset(c)
    /\ conn' = [t \in Transport |-> IF t = c.transport THEN Close(cs[t]) ELSE cs[t]]
    /\ join' = Cancel(join, c)

\* A handshake has settled and the rest of its joinRoom() has yet to run.
Microtask == \E t \in Transport : join[t].phase \in {"resolved", "rejected"}

-----------------------------------------------------------------------------
(* The application's calls *)

Unused(t) ==
    /\ join[t].phase \in {"none", "done"}
    /\ conn[t].sock \in {"none", "closed"}
    /\ ~ (conn[t].connecting \/ conn[t].refreshing \/ conn[t].reconnectTimer)

\* Mutant of NewHandshake: no timer is armed.
UntimedHandshake == [phase |-> "waiting", listening |-> TRUE, timer |-> FALSE,
                     buffer |-> << >>]

\* JoinHandshake.run(): listener and timer.
NewHandshake == [phase |-> "waiting", listening |-> TRUE,
                 timer |-> "joinTimeout" \in opts, buffer |-> << >>]

\* joinRoom() up to its await: transport, listeners, handshake, connect().
JoinRoom(t) ==
    /\ client.state # "connecting" /\ client.transport = Null
    /\ Unused(t)
    /\ client' = [SetState(client, "connecting") EXCEPT
                      !.transport = t, !.handshake = t, !.wired = @ \cup {t}]
    /\ conn' = [conn EXCEPT ![t] = InitSocket(NewConn, TRUE)]
    /\ join' = [join EXCEPT ![t] = NewHandshake]
    /\ UNCHANGED opts

Leave ==
    /\ client.transport # Null
    /\ LeaveWith(client, conn)
    /\ UNCHANGED opts

\* Room.sendSignal and Room.broadcast, on the room the client is in.
\* JSON.stringify throws on a frame whose data it cannot represent.
RoomSend(t, serialisable) ==
    LET f == conn[t].sent + 1
        d == [conn[t] EXCEPT !.sent = f,
                             !.bad = IF serialisable THEN @ ELSE @ \cup {f}]
    IN  /\ client.room = t /\ f <= MaxOut
        /\ ~ Terminal(conn[t])
        /\ conn' = [conn EXCEPT ![t] = Send(d, f)]
        /\ UNCHANGED <<opts, client, join>>

-----------------------------------------------------------------------------
(* The rest of joinRoom(), once the handshake has settled *)

\* Mutant of Overtaken: the check is missing.
NeverOvertaken(t) == FALSE

\* leave() or Terminated, and perhaps another joinRoom(), came in between.
Overtaken(t) == client.transport # t

\* Mutant of Drained: the frames are dropped.
NotDrained(t) == << >>

\* JoinHandshake.drain: the frames replayed to the room.
Drained(t) == join[t].buffer

\* A join overtaken by leave() disposes of the handshake and closes; otherwise
\* the room is made, its listener attached and the buffered frames replayed.
JoinSucceeds(t) ==
    /\ join[t].phase = "resolved"
    /\ join' = [join EXCEPT ![t] = [NewJoin EXCEPT !.phase = "done"]]
    /\ IF Overtaken(t)
       THEN /\ client' = [client EXCEPT !.handshake = Null]
            /\ conn' = [conn EXCEPT ![t] = Close(@)]
       ELSE /\ client' = [SetState(client, "connected") EXCEPT
                              !.room = t, !.handshake = Null, !.steady = @ \cup {t},
                              !.view = Drained(t)]
            /\ conn' = [conn EXCEPT ![t] = Flush(@)]
    /\ UNCHANGED opts

\* The catch of joinRoom(); the client is reset only if this join still owns it.
JoinFails(t) ==
    /\ join[t].phase = "rejected"
    /\ join' = [join EXCEPT ![t] = [NewJoin EXCEPT !.phase = "done"]]
    /\ conn' = [conn EXCEPT ![t] = Close(@)]
    /\ client' = IF Overtaken(t) THEN client
                 ELSE [Unwired(SetState(client, "disconnected")) EXCEPT
                           !.handshake = Null, !.transport = Null]
    /\ UNCHANGED opts

JoinTimeout(t) ==
    /\ join[t].timer /\ ~ Microtask
    /\ join' = [join EXCEPT ![t] = Reject(@)]
    /\ UNCHANGED <<opts, client, conn>>

-----------------------------------------------------------------------------
(* The transport's socket events and timers *)

\* Mutant of SocketCreated: close() during getWsClass() is not noticed.
SocketAlwaysCreated(t) ==
    /\ conn[t].connecting
    /\ conn' = [conn EXCEPT ![t] =
           [@ EXCEPT !.connecting = FALSE, !.sock = "connecting", !.settled = FALSE,
                     !.joined = FALSE, !.received = 0,
                     !.connectTimer = "connectTimeout" \in opts]]
    /\ UNCHANGED <<opts, client, join>>

\* getWsClass() has resolved: the rest of initSocket().
SocketCreated(t) ==
    /\ conn[t].connecting
    /\ conn' = [conn EXCEPT ![t] =
           IF @.closed THEN [@ EXCEPT !.connecting = FALSE]
           ELSE [@ EXCEPT !.connecting = FALSE, !.sock = "connecting", !.settled = FALSE,
                          !.joined = FALSE, !.received = 0,
                          !.connectTimer = "connectTimeout" \in opts]]
    /\ UNCHANGED <<opts, client, join>>

\* No WebSocket class, or a URL it does not take: only the first time.
SocketUnavailable(t) ==
    /\ conn[t].connecting /\ conn[t].first
    /\ conn' = [conn EXCEPT ![t].connecting = FALSE]
    /\ join' = [join EXCEPT ![t] = Reject(@)]
    /\ UNCHANGED <<opts, client>>

ConnectTimeout(t) ==
    /\ conn[t].connectTimer /\ ~ Microtask
    /\ conn' = [conn EXCEPT ![t] =
           [@ EXCEPT !.connectTimer = FALSE, !.settled = TRUE, !.exhausted = TRUE,
                     !.sock = Closing(conn[t].sock)]]
    /\ join' = IF conn[t].first THEN [join EXCEPT ![t] = Reject(@)] ELSE join
    /\ UNCHANGED <<opts, client>>

OnOpen(t) ==
    /\ conn[t].sock = "connecting" /\ ~ Microtask
    /\ conn' = [conn EXCEPT ![t] =
           Flush([@ EXCEPT !.sock = "open", !.connectTimer = FALSE, !.settled = TRUE,
                           !.attempt = 0])]
    /\ UNCHANGED <<opts, client, join>>

\* The server's close frame: the socket is closing before onclose runs.
CloseFrame(t) ==
    /\ conn[t].sock = "open" /\ ~ Microtask
    /\ conn' = [conn EXCEPT ![t].sock = "closing"]
    /\ UNCHANGED <<opts, client, join>>

OnError(t) ==
    /\ conn[t].sock \in {"connecting", "aborting", "open"} /\ ~ Microtask
    /\ conn' = [conn EXCEPT ![t] =
           [@ EXCEPT !.sock = "errored", !.connectTimer = FALSE, !.settled = TRUE]]
    /\ join' = IF conn[t].first /\ ~ conn[t].settled
               THEN [join EXCEPT ![t] = Reject(@)] ELSE join
    /\ UNCHANGED <<opts, client>>

\* The transport gives up: Terminated resets a client still wired to it, and
\* the handshake of a first connect that had not settled is rejected.
GiveUp(t, c, d) ==
    /\ conn' = [conn EXCEPT ![t] = [Forget(d) EXCEPT !.exhausted = TRUE, !.settled = TRUE]]
    /\ client' = IF t \in c.wired THEN Reset(c) ELSE c
    /\ join' = LET h == IF t \in c.wired THEN Cancel(join, c) ELSE join
               IN  IF d.first /\ ~ d.settled THEN [h EXCEPT ![t] = Reject(@)] ELSE h

\* scheduleReconnect: the Reconnecting event precedes the arming of the timer,
\* and its listener may call leave().
Retry(t, c, d) ==
    LET c2 == IF t \in c.wired THEN SetState(c, "reconnecting") ELSE c
    IN  \/ /\ client' = c2 /\ UNCHANGED join
           /\ conn' = [conn EXCEPT ![t] = ScheduleReconnect(d)]
        \/ /\ t \in c.wired
           /\ client' = Reset(c2) /\ join' = Cancel(join, c2)
           /\ conn' = [conn EXCEPT ![t] = ScheduleReconnect(Close(d))]

\* The client after its listener of Close.
ClosedClient(t) ==
    IF t \in client.wired THEN SetState(client, "disconnected") ELSE client

\* onclose, fatal being a code of _nonRetryable (an error closes with 1006).
\* The listener of Close may call leave(), which makes the transport terminal.
OnClose(t, fatal) ==
    LET d == [conn[t] EXCEPT !.sock = "closed", !.connectTimer = FALSE,
                             !.joined = FALSE, !.received = 0]
        c == ClosedClient(t)
    IN  /\ conn[t].sock \in {"open", "closing", "errored"}
        /\ fatal => conn[t].sock # "errored"
        /\ ~ Microtask \/ conn[t].sock = "errored"
        /\ \/ /\ t \in client.wired
              /\ LeaveWith(c, [conn EXCEPT ![t] = d])
           \/ IF Terminal(d) \/ "reconnect" \notin opts
              THEN /\ client' = c /\ conn' = [conn EXCEPT ![t] = d]
                   /\ UNCHANGED join
              ELSE IF fatal \/ Exhausted(d) THEN GiveUp(t, c, d) ELSE Retry(t, c, d)
        /\ UNCHANGED opts

ReconnectTimer(t) ==
    /\ conn[t].reconnectTimer /\ ~ Microtask
    /\ conn' = [conn EXCEPT ![t] =
           IF Terminal(@) THEN [@ EXCEPT !.reconnectTimer = FALSE]
           ELSE IF @.connecting THEN @
           ELSE IF "tokenRefresh" \in opts
                THEN [@ EXCEPT !.reconnectTimer = FALSE, !.refreshing = TRUE]
                ELSE InitSocket([@ EXCEPT !.reconnectTimer = FALSE], FALSE)]
    /\ UNCHANGED <<opts, client, join>>

TokenRefreshed(t) ==
    /\ conn[t].refreshing
    /\ conn' = [conn EXCEPT ![t] = InitSocket([@ EXCEPT !.refreshing = FALSE], FALSE)]
    /\ UNCHANGED <<opts, client, join>>

\* Mutant of TokenRefreshFails: the attempt is not repeated.
RefreshFailsSilently(t) ==
    /\ conn[t].refreshing
    /\ conn' = [conn EXCEPT ![t].refreshing = FALSE]
    /\ UNCHANGED <<opts, client, join>>

TokenRefreshFails(t) ==
    LET d == [conn[t] EXCEPT !.refreshing = FALSE]
    IN  /\ conn[t].refreshing
        /\ IF Terminal(d)
           THEN conn' = [conn EXCEPT ![t] = d] /\ UNCHANGED <<client, join>>
           ELSE IF Exhausted(d) THEN GiveUp(t, client, d) ELSE Retry(t, client, d)
        /\ UNCHANGED opts

-----------------------------------------------------------------------------
(* Frames from the server.  On every socket room-joined is the first of them; *)
(* ping is answered by a pong that never meets a queue it could drain.        *)

\* Frames that arrive between settling and its microtask are of the same batch.
Readable(t) ==
    /\ conn[t].sock \in {"open", "closing"}
    /\ Microtask => join[t].phase = "resolved"

\* The handshake resolves; in steady state the room takes the new snapshot.
OnRoomJoined(t) ==
    /\ Readable(t) /\ ~ conn[t].joined
    /\ LET c == SetState(client, "connected")
           refreshed == t \in client.steady /\ c.state = "connected"
       IN  /\ client' = IF refreshed THEN [c EXCEPT !.view = << >>] ELSE client
           /\ conn' = [conn EXCEPT ![t] =
                  LET d == [@ EXCEPT !.joined = TRUE]
                  IN  IF refreshed THEN Flush(d) ELSE d]
    /\ join' = [join EXCEPT ![t] =
           IF @.phase = "waiting" THEN [@ EXCEPT !.phase = "resolved", !.timer = FALSE]
           ELSE @]
    /\ UNCHANGED opts

\* Any other frame: buffered by a settled handshake that still listens, applied
\* by the room once its listener is attached.
OnFrame(t) ==
    /\ Readable(t) /\ conn[t].joined /\ conn[t].received < MaxIn
    /\ LET f == conn[t].received + 1
       IN  /\ conn' = [conn EXCEPT ![t].received = f]
           /\ join' = [join EXCEPT ![t] =
                  IF @.listening /\ @.phase = "resolved"
                  THEN [@ EXCEPT !.buffer = Append(join[t].buffer, f)] ELSE @]
           /\ client' = IF t \in client.steady
                        THEN [client EXCEPT !.view = Append(@, f)] ELSE client
    /\ UNCHANGED opts

\* An error frame ends a join that is still waiting.
OnErrorFrame(t) ==
    /\ Readable(t) /\ ~ conn[t].joined /\ join[t].phase = "waiting"
    /\ join' = [join EXCEPT ![t] = Reject(@)]
    /\ UNCHANGED <<opts, client, conn>>

-----------------------------------------------------------------------------

Next ==
    \/ Leave
    \/ \E t \in Transport :
        \/ JoinRoom(t) \/ \E serialisable \in BOOLEAN : RoomSend(t, serialisable)
        \/ JoinSucceeds(t) \/ JoinFails(t) \/ JoinTimeout(t)
        \/ SocketCreated(t) \/ SocketUnavailable(t) \/ ConnectTimeout(t)
        \/ OnOpen(t) \/ CloseFrame(t) \/ OnError(t)
        \/ \E fatal \in BOOLEAN : OnClose(t, fatal)
        \/ ReconnectTimer(t) \/ TokenRefreshed(t) \/ TokenRefreshFails(t)
        \/ OnRoomJoined(t) \/ OnFrame(t) \/ OnErrorFrame(t)

Spec == Init /\ [][Next]_vars

\* A connection attempt ends, and a socket that is closing closes.
AttemptEnds(t) ==
    conn[t].sock \in {"connecting", "aborting"} /\ (OnOpen(t) \/ OnError(t))
SocketCloses(t) ==
    conn[t].sock \in {"closing", "errored"} /\ \E fatal \in BOOLEAN : OnClose(t, fatal)

\* The event loop runs every microtask and due timer, sockets report what
\* becomes of them, and tokenRefresh() settles.  Nothing is assumed of the
\* server, of open sockets or of the application's calls.
Fairness == \A t \in Transport :
    /\ WF_vars(JoinSucceeds(t)) /\ WF_vars(JoinFails(t))
    /\ SF_vars(JoinTimeout(t)) /\ WF_vars(ReconnectTimer(t))
    /\ WF_vars(SocketCreated(t)) /\ WF_vars(AttemptEnds(t))
    /\ WF_vars(SocketCloses(t))
    /\ WF_vars(TokenRefreshed(t) \/ TokenRefreshFails(t))

FairSpec == Spec /\ Fairness

-----------------------------------------------------------------------------
(* Properties *)

\* A connection the client has let go of - by leave(), a failed join or
\* Terminated - is closed for good, or its joinRoom() is about to close it; and
\* its listeners went with it, so no late event of it moves the client's state.
NoLeakedConnection ==
    /\ \A t \in Transport \ {client.transport} :
          join[t].phase \in {"waiting", "done"} => Terminal(conn[t])
    /\ client.wired = {client.transport} \ {Null}
    /\ client.steady = {client.room} \ {Null}
    /\ client.room \in {Null, client.transport}

\* A transport that was closed or gave up neither has nor opens a socket,
\* whatever connect, token refresh or timer was pending at the time.
TerminalIsFinal == \A t \in Transport :
    Terminal(conn[t]) => conn[t].sock \notin {"connecting", "open"}

\* In a room, the state is Connected exactly when the current socket has delivered
\* its room-joined, also across reconnects; and then the room has applied every
\* frame that followed, once and in order, those that arrived before its listener
\* was attached included.
ViewIsComplete == client.room # Null =>
    LET d == conn[client.room] IN
    /\ client.state = "connected" <=> d.sock \in {"open", "closing", "errored"} /\ d.joined
    /\ client.state = "connected" => client.view = [i \in 1..d.received |-> i]

Elements(s) == {s[i] : i \in 1..Len(s)}

\* While the transport lives, every frame handed to it is on the wire, queued
\* or reported by an error, and only one of them, once; and as long as every frame
\* can be serialised, they leave in the order they were sent, whichever of them
\* waited for a reconnect.
FramesKept == \A t \in Transport :
    LET d == conn[t]
        kept == d.wire \o d.queue
    IN  /\ Elements(kept) \cup d.reported = 1..d.sent
        /\ Elements(kept) \cap d.reported = {}
        /\ \A i, j \in 1..Len(kept) : kept[i] = kept[j] => i = j
        /\ d.bad = {} => \A i, j \in 1..Len(kept) : i < j => kept[i] < kept[j]

\* Something is still under way on the transport: a socket, a timer, a token
\* refresh, or the rest of a settled join.
Active(t) ==
    \/ conn[t].connecting \/ conn[t].refreshing \/ conn[t].reconnectTimer
    \/ conn[t].sock \notin {"none", "closed"}
    \/ join[t].phase \in {"resolved", "rejected"}

\* "The transport gave up permanently ... Reset the client so a fresh joinRoom
\* works without a leave() first": with reconnect on, the client never keeps a
\* transport on which nothing will ever happen again.
NeverStalled ==
    "reconnect" \in opts /\ client.transport # Null => Active(client.transport)

\* The same for connections without a connect timeout.
UntimedNeverStalls == "connectTimeout" \notin opts => NeverStalled

\* With joinTimeoutMs set, every joinRoom() settles, whatever the server, the
\* network and calls of leave() and joinRoom() do meanwhile.
JoinSettles == \A t \in Transport :
    "joinTimeout" \in opts /\ join[t].phase = "waiting" ~> join[t].phase = "done"

\* If from some point on no connection attempt succeeds, the client does not
\* stay in Reconnecting: maxReconnectAttempts ends the retries.
RetriesEnd ==
    <>[](\A t \in Transport : conn[t].sock # "open") =>
        (client.state = "reconnecting" ~> client.state # "reconnecting")

=============================================================================
