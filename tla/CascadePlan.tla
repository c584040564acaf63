----------------------------- MODULE CascadePlan -----------------------------
(***************************************************************************)
(* planCascadeTree (sfu/src/CascadeTree.ts): which nodes of a pool a        *)
(* fan-out tree takes, and how many viewers it cannot seat.                 *)
(*                                                                         *)
(* Tiers are filled from the left, each but the last one completely, so a  *)
(* plan is the sequence of its nodes: the origin at place 0 and the parent *)
(* of place k at place (k - 1) \div Fanout.                                 *)
(***************************************************************************)
EXTENDS Naturals, Sequences, FiniteSetsExt

CONSTANTS
    Fanout,         \* opts.fanout
    ViewersPerNode, \* opts.viewersPerNode
    Capacity        \* capacity of every node id

ASSUME PlanAssumption == {Fanout, ViewersPerNode} \subseteq Nat \ {0}

\* The loop over tiers: how many of a pool of that size the plan takes.
Grown(size, viewers) ==
    LET grown[t \in 0 .. size] ==
            IF t = 0 THEN [used |-> 0, width |-> 1]
            ELSE LET g == grown[t - 1] IN
                 IF g.width * ViewersPerNode < viewers /\ g.used < size
                 THEN LET n == Min({g.width * Fanout, size - g.used}) IN
                      [used |-> g.used + n, width |-> n]
                 ELSE g
    IN  grown[size].used

CapFor(origin, id) == IF id = origin THEN ViewersPerNode ELSE Capacity[id]

\* What the nodes at these places take together.
Seats(origin, ids, places) == MapThenSumSet(LAMBDA k : CapFor(origin, ids[k + 1]), places)

\* Leaves take viewers up to their capacity; spare is what the plan left in the pool.
Plan(origin, viewers, pool) ==
    LET used == Grown(Len(pool), viewers)
        ids == <<origin>> \o SubSeq(pool, 1, used)
        leaves == {k \in 0 .. used : k * Fanout + 1 > used}
        seats == Seats(origin, ids, leaves)
    IN  [ids |-> ids, viewers |-> viewers, spare |-> Len(pool) - used,
         unmet |-> IF seats < viewers THEN viewers - seats ELSE 0]
=============================================================================
