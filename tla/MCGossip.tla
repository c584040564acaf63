------------------------------ MODULE MCGossip ------------------------------
(* Three nodes with different capacities; the third is everyone's seed.  A *)
(* node with the larger weight outranks every node with the smaller one.   *)
EXTENDS Gossip

Nodes == 1 .. 3
SeedOfAll == [n \in Nodes |-> {3} \ {n}]
Weights == {1, 2}
Capacities == [n \in Nodes |-> IF n = 2 THEN 1 ELSE 2]
Scores == [n \in Nodes |-> [w \in Weights |-> 10 * w - n]]
=============================================================================
