--------------------------- MODULE MCMediaServer ---------------------------
(* The rooms, peers, workers, routers and transports are interchangeable.  *)
EXTENDS MediaServer, TLC

ObjectSymmetry ==
    Permutations(Room) \cup Permutations(Peer) \cup Permutations(Worker)
    \cup Permutations(Router) \cup Permutations(Transport)
=============================================================================
