------------------------------ MODULE RoomSeats ------------------------------
(* What a signaling node promises of its rooms, without sockets, handshakes,  *)
(* Room objects or timers: a room id has seats, one for a peer id, taken one   *)
(* at a time and within the limits.                                           *)
EXTENDS Naturals, FiniteSets

CONSTANTS Conn, RoomId, PeerId, NoConn, MaxPeers, MaxRooms

VARIABLE seats   \* the connection seated under every room id and peer id

Occupied(i) == {p \in PeerId : seats[i][p] # NoConn}
Seated(c) == \E i \in RoomId, p \in PeerId : seats[i][p] = c

Init == seats = [i \in RoomId |-> [p \in PeerId |-> NoConn]]

\* A connection that has no seat gets one, be it from an older connection of the
\* same peer id; no other seat changes.
TakeSeat(c, i, p) ==
    /\ ~ Seated(c)
    /\ seats' = [seats EXCEPT ![i][p] = c]
    /\ Cardinality(Occupied(i)') <= MaxPeers
    /\ Cardinality({j \in RoomId : Occupied(j)' # {}}) <= MaxRooms

\* Any number of peers leave together: a room is closed, the node stops.
Vacate(L) ==
    seats' = [i \in RoomId |-> [p \in PeerId |->
                 IF <<i, p>> \in L THEN NoConn ELSE seats[i][p]]]

Next ==
    \/ \E c \in Conn, i \in RoomId, p \in PeerId : TakeSeat(c, i, p)
    \/ \E L \in SUBSET (RoomId \X PeerId) : Vacate(L)

Spec == Init /\ [][Next]_seats
=============================================================================
