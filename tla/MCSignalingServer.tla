-------------------------- MODULE MCSignalingServer --------------------------
(* Model-checking instance of SignalingServer: the constants are model values *)
(* given in the .cfg files; Room objects and peer ids are interchangeable.    *)
EXTENDS SignalingServer, TLC

Symmetry == Permutations(Room) \cup Permutations(PeerId)
=============================================================================
