---------------------------- MODULE MCSfuCluster ----------------------------
(* Two node ids, one of them with a replacement object; or four nodes, each *)
(* of a capacity below ViewersPerNode.                                      *)
EXTENDS SfuCluster

Objects == 1 .. 3
Ids == [o \in Objects |-> IF o = 3 THEN 1 ELSE o]
Capacities == [i \in 1 .. 2 |-> 2 + (i % 2)]

FourObjects == 1 .. 4
OwnIds == [o \in FourObjects |-> o]
LowCapacities == [i \in FourObjects |-> 1]
=============================================================================
