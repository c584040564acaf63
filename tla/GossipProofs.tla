---------------------------- MODULE GossipProofs ----------------------------
(***************************************************************************)
(* Proofs about the gossiping cluster and its room routers, for every set  *)
(* of nodes, every seed list and every bound: the shape of the state, that *)
(* two nodes with no news for each other agree on the whole cluster, and   *)
(* that their routers then name the same owner of a room.                  *)
(***************************************************************************)
EXTENDS Gossip, TLAPS

Rec == [inc : -1 .. MaxInc, alive : BOOLEAN, old : BOOLEAN, cap : Weight]
Row == [Node -> Rec]
Entry == [inc : -1 .. MaxInc, alive : BOOLEAN, cap : Weight]
Weights0 == [Node -> Weight \cup {0}]
RouterState == [on : BOOLEAN, seen : BOOLEAN, ring : Weights0,
                list : Weights0, listing : BOOLEAN]
Status == {"new", "running", "stopped", "down"}

\* No node is alive without an incarnation: a digest entry of a node that the
\* sender does not know carries no liveness.
LivenessIsKnown == \A n, m \in Node : mem[n][m].alive => mem[n][m].inc >= 0

\* Records and digest entries carry the capacity that an unedited node was built with.
CapsFit(f, ed) == \A m \in Node : f[m].inc >= 0 /\ m \notin ed => f[m].cap = Capacity[m]
CapsKept ==
    /\ \A n \in Node : CapsFit(mem[n], edited)
    /\ \A d \in net : CapsFit(d.digest, edited)

\* A node that its host has not edited is alive to itself until it stops.
SelfAlive(n) == status[n] \in {"new", "running"} /\ n \notin edited => mem[n][n].alive

\* The weights f on node n are those of the live nodes of row, up to n itself, which
\* is always among them; unedited nodes have the weight they were built with.
Fits(n, f, row, ed) ==
    /\ \A m \in Node \ {n} : f[m] # 0 <=> row[m].alive
    /\ \A m \in Node \ ed : f[m] # 0 => f[m] = Capacity[m]
    /\ n \notin ed => f[n] = Capacity[n]

\* The ring on node n fits its view, but for the time between start() and the answer
\* of list(), when n is alone on the ring and the pending answer is still current.
Tracks(n, r, row, ed) ==
    r.on => /\ r.ring[n] # 0
            /\ IF r.seen \/ ~ r.listing THEN Fits(n, r.ring, row, ed)
               ELSE Fits(n, r.list, row, ed) /\ \A m \in Node \ {n} : r.ring[m] = 0

TracksView(n) == Tracks(n, router[n], mem[n], edited)

RoutersTrack == \A n \in Node : SelfAlive(n) /\ TracksView(n)

IndInv == TypeOK /\ LivenessIsKnown /\ CapsKept /\ RoutersTrack

-----------------------------------------------------------------------------
(* The operators.                                                          *)

\* A merged record is a record, one that is alive is known, and an unknown entry
\* changes nothing (_merge).
LEMMA MergeType ==
    ASSUME NEW n \in Node, NEW m \in Node, NEW k \in Rec, NEW e \in Entry,
           k.alive => k.inc >= 0
    PROVE  /\ Merge(n, m, k, e) \in [inc : -1 .. (MaxInc + 1), alive : BOOLEAN, old : BOOLEAN, cap : Weight]
           /\ Merge(n, m, k, e).alive => Merge(n, m, k, e).inc >= 0
           /\ Merge(n, m, k, e).inc >= k.inc
           /\ m = n /\ k.alive => Merge(n, m, k, e).alive
BY GossipAssumption, WeightAssumption DEF Merge, Refutes, Record, Rec, Entry

\* The capacity of a merged record is the record's own or, with the higher
\* incarnation, the entry's (_merge).
LEMMA MergeCap ==
    ASSUME NEW n \in Node, NEW m \in Node, NEW k \in Rec, NEW e \in Entry, NEW c \in Weight,
           k.inc >= 0 => k.cap = c, e.inc >= 0 => e.cap = c,
           m = n => k.inc >= 0, Merge(n, m, k, e).inc >= 0
    PROVE  Merge(n, m, k, e).cap = c
BY GossipAssumption, WeightAssumption DEF Merge, Refutes, Record, Rec, Entry

\* The entry of a digest for a record, and what is compared of it.
Said(k) == [inc |-> k.inc, alive |-> k.alive, cap |-> k.cap]
Seen(k) == [inc |-> k.inc, alive |-> k.alive]

\* What it means that a node n learns nothing about m from the record l of another
\* node: l is not of a higher incarnation and brings no death; and if m is n itself,
\* l does not even repeat a death (_merge).
LEMMA NoNews ==
    ASSUME NEW n \in Node, NEW m \in Node, NEW k \in Rec, NEW l \in Rec, l.inc >= 0,
           Seen(Merge(n, m, k, Said(l))) = Seen(k)
    PROVE  /\ ~ (l.inc > k.inc)
           /\ l.inc = k.inc /\ (m = n \/ k.alive) => l.alive
<1>1. k.inc \in Int /\ l.inc \in Int /\ k.alive \in BOOLEAN /\ l.alive \in BOOLEAN
  BY GossipAssumption DEF Rec
<1>2. Said(l).inc = l.inc /\ Said(l).alive = l.alive /\ ~ (Said(l).inc < 0)
  BY <1>1 DEF Said
<1>3. Merge(n, m, k, Said(l)).inc = k.inc /\ Merge(n, m, k, Said(l)).alive = k.alive
  BY DEF Seen
<1>4. CASE m = n /\ Refutes(k, Said(l))
  <2>1. Merge(n, m, k, Said(l)) = Record(l.inc + 1, TRUE, k.cap)
    BY <1>2, <1>4 DEF Merge, Record
  <2>2. k.inc = l.inc + 1
    BY <2>1, <1>3 DEF Record
  <2> QED
    BY <1>1, <1>2, <1>4, <2>2 DEF Refutes
<1>5. CASE m = n /\ ~ Refutes(k, Said(l))
  BY <1>1, <1>2, <1>5 DEF Refutes
<1>6. CASE m # n /\ l.inc > k.inc
  <2>1. m # n /\ Said(l).inc > k.inc
    BY <1>1, <1>2, <1>6
  <2>3. Merge(n, m, k, Said(l)).inc = l.inc
    BY <1>2, <2>1 DEF Merge, Record
  <2>2. k.inc = l.inc
    BY <2>3, <1>3
  <2> QED
    BY <1>1, <1>6, <2>2
<1>7. CASE m # n /\ l.inc = k.inc /\ k.alive /\ ~ l.alive
  <2>1. /\ m # n /\ ~ (Said(l).inc > k.inc)
        /\ Said(l).inc = k.inc /\ k.alive /\ ~ Said(l).alive
    BY <1>1, <1>2, <1>7
  <2>2. ~ Merge(n, m, k, Said(l)).alive
    BY <1>2, <2>1 DEF Merge, Record
  <2> QED
    BY <1>3, <1>7, <2>2
<1>8. CASE m # n /\ ~ (l.inc > k.inc) /\ ~ (l.inc = k.inc /\ k.alive /\ ~ l.alive)
  BY <1>1, <1>8
<1> QED
  BY <1>4, <1>5, <1>6, <1>7, <1>8

\* Two nodes, neither the subject m, that learn nothing about m from each other's
\* records of it hold the same one (_merge).
LEMMA NoNewsOfOther ==
    ASSUME NEW a \in Node, NEW b \in Node, NEW m \in Node, NEW k \in Rec, NEW l \in Rec,
           k.alive => k.inc >= 0, l.alive => l.inc >= 0,
           Seen(Merge(a, m, k, Said(l))) = Seen(k), Seen(Merge(b, m, l, Said(k))) = Seen(l)
    PROVE  k.inc = l.inc /\ k.alive = l.alive
<1>1. /\ k.inc \in Int /\ l.inc \in Int /\ k.inc >= -1 /\ l.inc >= -1
      /\ k.alive \in BOOLEAN /\ l.alive \in BOOLEAN
  BY GossipAssumption DEF Rec
<1>2. k.inc = l.inc
  BY <1>1, NoNews
<1>3. k.alive <=> l.alive
  BY <1>1, <1>2, NoNews
<1> QED
  BY <1>1, <1>2, <1>3

\* A node a, whose record of itself is k, that is not provoked by b's record l of a,
\* while b learns nothing from k: both say that a is alive, at the same incarnation.
LEMMA NoNewsOfSelf ==
    ASSUME NEW a \in Node, NEW b \in Node, NEW k \in Rec, NEW l \in Rec, k.inc >= 0,
           Seen(Merge(a, a, k, Said(l))) = Seen(k), Seen(Merge(b, a, l, Said(k))) = Seen(l)
    PROVE  k.inc = l.inc /\ k.alive = l.alive /\ k.alive
<1>1. k.inc \in Int /\ l.inc \in Int /\ k.alive \in BOOLEAN /\ l.alive \in BOOLEAN
  BY GossipAssumption DEF Rec
<1>2. ~ (k.inc > l.inc) /\ (k.inc = l.inc /\ l.alive => k.alive)
  BY NoNews
<1>3. l.inc >= 0
  BY <1>1, <1>2
<1>4. ~ (l.inc > k.inc) /\ (l.inc = k.inc => l.alive)
  BY <1>3, NoNews
<1> QED
  BY <1>1, <1>2, <1>4

\* Swept records are records, the node's own record is not swept (_sweep).
LEMMA SweptType ==
    ASSUME TypeOK, LivenessIsKnown, NEW n \in Node
    PROVE  /\ Swept(n) \in [Node -> [inc : -1 .. (MaxInc + 1), alive : BOOLEAN, old : BOOLEAN, cap : Weight]]
           /\ \A m \in Node : Swept(n)[m].alive => Swept(n)[m].inc >= 0
           /\ Swept(n)[n] = mem[n][n]
           /\ \A m \in Node : Swept(n)[m].inc >= 0
                 => mem[n][m].inc >= 0 /\ Swept(n)[m].cap = mem[n][m].cap
BY GossipAssumption, WeightAssumption DEF Swept, Forgotten, Unknown, Record, TypeOK, LivenessIsKnown

\* A row within the bound is a row of the type.
LEMMA BoundedRow ==
    ASSUME NEW row \in [Node -> [inc : -1 .. (MaxInc + 1), alive : BOOLEAN, old : BOOLEAN, cap : Weight]],
           \A m \in Node : row[m].inc <= MaxInc
    PROVE  row \in Row
<1>1. ASSUME NEW m \in Node PROVE row[m] \in Rec
  BY GossipAssumption DEF Rec
<1> QED
  BY <1>1 DEF Row

\* What is sent is a well-typed datagram with the capacities of the row (_gossip).
LEMMA SendsType ==
    ASSUME TypeOK, CapsKept, NEW n \in Node, NEW row \in Row, NEW known \in SUBSET Node,
           NEW ed, edited \subseteq ed, CapsFit(row, ed), Sends(n, row, known)
    PROVE  /\ net' \subseteq [to : Node, digest : [Node -> Entry]]
           /\ \A d \in net' : CapsFit(d.digest, ed)
<1>1. Digest(row) \in [Node -> Entry] /\ CapsFit(Digest(row), ed)
  BY DEF Digest, Row, Rec, Entry, CapsFit
<1>2. Targets(n, row, known) \subseteq Node
  BY DEF Targets, Alive
<1>3. net \subseteq [to : Node, digest : [Node -> Entry]]
  BY DEF TypeOK, Entry
<1>4. \A d \in net : CapsFit(d.digest, ed)
  BY DEF CapsKept, CapsFit
<1>5. PICK T \in SUBSET Targets(n, row, known) : net' = net \cup [to : T, digest : {Digest(row)}]
  BY DEF Sends
<1>6. \A d \in [to : T, digest : {Digest(row)}] : d.digest = Digest(row) /\ d \in [to : Node, digest : [Node -> Entry]]
  BY <1>1, <1>2
<1> QED
  BY <1>1, <1>3, <1>4, <1>5, <1>6

\* The weights in a snapshot fit its row (_aliveInfos).
LEMMA SnapshotFits ==
    ASSUME NEW n \in Node, NEW row \in Row, NEW ed, CapsFit(row, ed),
           \A m \in Node : row[m].alive => row[m].inc >= 0,
           n \notin ed => row[n].alive
    PROVE  Snapshot(row) \in Weights0 /\ Fits(n, Snapshot(row), row, ed)
<1>1. ASSUME NEW m \in Node
      PROVE  /\ Snapshot(row)[m] = IF row[m].alive THEN row[m].cap ELSE 0
             /\ row[m].cap \in Weight /\ row[m].cap # 0
             /\ row[m].alive /\ m \notin ed => row[m].cap = Capacity[m]
  BY WeightAssumption DEF Snapshot, Row, Rec, CapsFit
<1>2. Snapshot(row) \in Weights0
  BY <1>1 DEF Snapshot, Weights0
<1> QED
  BY <1>1, <1>2 DEF Fits

\* A ring that is synchronised with weights that fit, others leaving, fits, and its
\* own node stays on it (_sync, _upsert).
LEMMA SyncedFits ==
    ASSUME NEW n \in Node, NEW ring \in Weights0, NEW f \in Weights0, NEW row, NEW ed,
           NEW allow \in BOOLEAN, Fits(n, f, row, ed), ring[n] # 0,
           allow \/ \A m \in Node \ {n} : ring[m] = 0
    PROVE  /\ Synced(n, ring, f, allow) \in Weights0
           /\ Synced(n, ring, f, allow)[n] # 0
           /\ Fits(n, Synced(n, ring, f, allow), row, ed)
<1> DEFINE g == Synced(n, ring, f, allow)
<1>1. g \in Weights0
  BY DEF Synced, Weights0
<1>2. ASSUME NEW m \in Node \ {n} PROVE g[m] = f[m]
  BY DEF Synced, Weights0
<1>3. g[n] = IF f[n] # 0 THEN f[n] ELSE ring[n]
  BY DEF Synced, Weights0
<1>4. \A m \in Node : Capacity[m] # 0
  BY WeightAssumption
<1> HIDE DEF g
<1>5. Fits(n, g, row, ed)
  BY <1>2, <1>3, <1>4 DEF Fits
<1> QED
  BY <1>1, <1>3, <1>5 DEF g

\* A notification leaves the router well-typed and in step with the row (_notify).
LEMMA NotifiedTracks ==
    ASSUME NEW n \in Node, NEW r \in RouterState, NEW row \in Row, NEW ed, CapsFit(row, ed),
           \A m \in Node : row[m].alive => row[m].inc >= 0,
           n \notin ed => row[n].alive,
           r.on => r.ring[n] # 0
    PROVE  /\ Notified(n, r, row) \in RouterState
           /\ Tracks(n, Notified(n, r, row), row, ed)
           /\ r.on => Notified(n, r, row).on /\ Notified(n, r, row).seen
<1>1. CASE ~ r.on
  BY <1>1 DEF Notified, Tracks
<1>2. CASE r.on
  <2> DEFINE g == Synced(n, r.ring, Snapshot(row), TRUE)
  <2>1. g \in Weights0 /\ g[n] # 0 /\ Fits(n, g, row, ed)
    BY <1>2, SnapshotFits, SyncedFits DEF RouterState
  <2>2. Notified(n, r, row) = [r EXCEPT !.seen = TRUE, !.ring = g]
    BY <1>2 DEF Notified
  <2> HIDE DEF g
  <2>3. /\ Notified(n, r, row) \in RouterState /\ Notified(n, r, row).ring = g
        /\ Notified(n, r, row).seen /\ Notified(n, r, row).on
    BY <1>2, <2>1, <2>2 DEF RouterState
  <2> QED
    BY <2>1, <2>3 DEF Tracks
<1> QED
  BY <1>1, <1>2

\* A router in step with a row is in step with one that has the same other nodes
\* alive, also when more nodes count as edited.
LEMMA StillTracks ==
    ASSUME NEW n \in Node, NEW r, NEW row \in Row, NEW new \in Row, NEW ed, NEW more,
           Tracks(n, r, row, ed), ed \subseteq more,
           Alive(new) \ {n} = Alive(row) \ {n}
    PROVE  Tracks(n, r, new, more)
<1>1. \A m \in Node \ {n} : new[m].alive <=> row[m].alive
  BY DEF Alive
<1>2. ASSUME NEW f, Fits(n, f, row, ed) PROVE Fits(n, f, new, more)
  BY <1>1, <1>2 DEF Fits
<1> QED
  BY <1>2 DEF Tracks

-----------------------------------------------------------------------------
(* The inductive invariant.                                                *)

\* The initial state satisfies the inductive invariant.
LEMMA InitInv == Init => IndInv
<1> SUFFICES ASSUME Init PROVE IndInv
  OBVIOUS
<1> USE GossipAssumption, WeightAssumption DEF Init
<1>1. TypeOK
  BY DEF TypeOK, Booted, Record, Unknown, NoRouter, NoNodes
<1>2. LivenessIsKnown
  BY DEF LivenessIsKnown, Booted, Record, Unknown
<1>3. CapsKept
  BY DEF CapsKept, CapsFit, Booted, Record, Unknown
<1>4. RoutersTrack
  BY DEF RoutersTrack, SelfAlive, TracksView, Tracks, NoRouter, Booted, Record, Unknown
<1> QED
  BY <1>1, <1>2, <1>3, <1>4 DEF IndInv

\* A step that gives n a well-typed row that knows n, and its router a state in
\* step with that row, keeps the invariant, whatever datagrams it sends.
LEMMA RowStep ==
    ASSUME IndInv, NEW n \in Node, NEW row \in Row, NEW r \in RouterState,
           row[n].inc >= 0,
           \A m \in Node : row[m].alive => row[m].inc >= 0,
           mem' = [mem EXCEPT ![n] = row],
           router' = [router EXCEPT ![n] = r],
           status' \in [Node -> Status], \A k \in Node \ {n} : status'[k] = status[k],
           seeds' \in [Node -> SUBSET Node],
           net' \subseteq [to : Node, digest : [Node -> Entry]],
           \A d \in net' : CapsFit(d.digest, edited'),
           edited \subseteq edited', edited' \subseteq Node,
           events' \in 0 .. MaxEvents,
           CapsFit(row, edited'),
           status'[n] \in {"new", "running"} /\ n \notin edited' => row[n].alive,
           Tracks(n, r, row, edited')
    PROVE  IndInv'
<1>1. TypeOK'
  BY DEF IndInv, TypeOK, Row, Rec, Entry, RouterState, Weights0, Status
<1>2. LivenessIsKnown'
  BY DEF IndInv, LivenessIsKnown, TypeOK, Row, Rec
<1>3. mem'[n] = row /\ router'[n] = r
  BY DEF IndInv, TypeOK
<1>4. \A k \in Node \ {n} : mem'[k] = mem[k] /\ router'[k] = router[k] /\ mem[k] \in Row
  BY DEF IndInv, TypeOK, Row, Rec
<1>5. CapsKept'
  BY <1>3, <1>4 DEF IndInv, CapsKept, CapsFit
<1>6. RoutersTrack'
  <2> SUFFICES ASSUME NEW k \in Node PROVE SelfAlive(k)' /\ TracksView(k)'
    BY DEF RoutersTrack
  <2>1. CASE k = n
    BY <2>1, <1>3 DEF SelfAlive, TracksView
  <2>2. CASE k # n
    <3>1. SelfAlive(k) /\ Tracks(k, router[k], mem[k], edited)
      BY DEF IndInv, RoutersTrack, TracksView
    <3>2. Tracks(k, router[k], mem[k], edited')
      BY <2>2, <3>1, <1>4, StillTracks
    <3> QED
      BY <2>2, <3>1, <3>2, <1>4 DEF SelfAlive, TracksView
  <2> QED BY <2>1, <2>2
<1> QED
  BY <1>1, <1>2, <1>5, <1>6 DEF IndInv

\* What the inductive invariant says of one node.
LEMMA OfNode ==
    ASSUME IndInv, NEW n \in Node
    PROVE  /\ TypeOK /\ LivenessIsKnown /\ CapsKept
           /\ mem[n] \in Row /\ mem[n][n].inc >= 0 /\ CapsFit(mem[n], edited)
           /\ \A m \in Node : mem[n][m].alive => mem[n][m].inc >= 0
           /\ router[n] \in RouterState
           /\ SelfAlive(n) /\ Tracks(n, router[n], mem[n], edited)
           /\ router[n].on => router[n].ring[n] # 0
           /\ status \in [Node -> Status]
           /\ seeds \in [Node -> SUBSET Node]
           /\ net \subseteq [to : Node, digest : [Node -> Entry]]
           /\ \A d \in net : CapsFit(d.digest, edited)
           /\ edited \subseteq Node
           /\ events \in 0 .. MaxEvents
           /\ Node = DOMAIN mem /\ Node = DOMAIN router
           /\ mem = [mem EXCEPT ![n] = mem[n]] /\ router = [router EXCEPT ![n] = router[n]]
BY DEF IndInv, TypeOK, LivenessIsKnown, CapsKept, RoutersTrack, TracksView, Tracks, Row, Rec,
       RouterState, Weights0, Entry, Status

\* A row in which the record of m was bumped to rec.
LEMMA BumpedRow ==
    ASSUME IndInv, NEW n \in Node, NEW m \in Node, NEW rec, NEW row,
           rec \in [inc : Nat, alive : BOOLEAN, old : BOOLEAN, cap : Weight],
           row = [k \in Node |-> IF k = m THEN rec ELSE mem[n][k]], Becomes(n, row),
           edited \subseteq edited', m \notin edited' => rec.cap = Capacity[m]
    PROVE  /\ row \in Row /\ mem' = [mem EXCEPT ![n] = row] /\ mem'[n] = row
           /\ row[n].inc >= 0 /\ (\A k \in Node : row[k].alive => row[k].inc >= 0)
           /\ CapsFit(row, edited')
           /\ (\A k \in Node \ {m} : row[k] = mem[n][k]) /\ row[m] = rec
<1>1. /\ mem[n] \in Row /\ mem[n][n].inc >= 0 /\ CapsFit(mem[n], edited)
      /\ \A k \in Node : mem[n][k].alive => mem[n][k].inc >= 0
      /\ Node = DOMAIN mem
  BY OfNode
<1>2. DOMAIN mem[n] = Node /\ \A k \in Node : mem[n][k] \in Rec
  BY <1>1 DEF Row
<1>3. row[m] = rec /\ \A k \in Node \ {m} : row[k] = mem[n][k]
  BY <1>2
<1>4. mem' = [mem EXCEPT ![n] = row] /\ mem'[n] = row /\ \A k \in Node : row[k].inc <= MaxInc
  BY <1>1 DEF Becomes
<1>5. \A k \in Node : row[k] \in Rec
  <2>1. rec \in Rec
    BY <1>3, <1>4, GossipAssumption DEF Rec
  <2> QED
    BY <2>1, <1>2, <1>3
<1>6. row \in Row
  BY <1>2, <1>5 DEF Row
<1>7. CapsFit(row, edited')
  BY <1>1, <1>3 DEF CapsFit
<1>8. row[n].inc >= 0 /\ \A k \in Node : row[k].alive => row[k].inc >= 0
  BY <1>1, <1>3
<1> QED
  BY <1>3, <1>4, <1>6, <1>7, <1>8

\* Every step of a node keeps the inductive invariant.
LEMMA NodeStepInv ==
    ASSUME IndInv, NEW n \in Node, NodeStep(n)
    PROVE  IndInv'
<1> DEFINE Wide == [inc : -1 .. (MaxInc + 1), alive : BOOLEAN, old : BOOLEAN, cap : Weight]
<1>T. /\ TypeOK /\ LivenessIsKnown /\ CapsKept
      /\ mem[n] \in Row /\ mem[n][n].inc >= 0 /\ CapsFit(mem[n], edited)
      /\ \A m \in Node : mem[n][m].alive => mem[n][m].inc >= 0
      /\ router[n] \in RouterState
      /\ SelfAlive(n) /\ Tracks(n, router[n], mem[n], edited)
      /\ router[n].on => router[n].ring[n] # 0
      /\ status \in [Node -> Status]
      /\ seeds \in [Node -> SUBSET Node]
      /\ net \subseteq [to : Node, digest : [Node -> Entry]]
      /\ \A d \in net : CapsFit(d.digest, edited)
      /\ edited \subseteq Node
      /\ events \in 0 .. MaxEvents
      /\ Node = DOMAIN mem /\ Node = DOMAIN router
  BY OfNode
<1>R. router = [router EXCEPT ![n] = router[n]] /\ mem = [mem EXCEPT ![n] = mem[n]]
  BY OfNode
<1>E. Event => events' \in 0 .. MaxEvents
  BY <1>T, GossipAssumption DEF Event
<1>C. /\ \A m \in Node : mem[n][m].cap \in Weight
      /\ \A m \in Node : mem[n][m].inc >= 0 /\ m \notin edited => mem[n][m].cap = Capacity[m]
  BY <1>T DEF Row, Rec, CapsFit
<1>1. CASE Start(n)
  <2> DEFINE rec == Record(mem[n][n].inc + 1, TRUE, mem[n][n].cap)
             row == Bumped(n, mem[n], TRUE, mem[n][n].cap)
  <2>0. /\ Becomes(n, row) /\ edited' = edited /\ row = [k \in Node |-> IF k = n THEN rec ELSE mem[n][k]]
        /\ n \notin edited => rec.cap = Capacity[n]
    BY <1>1, <1>C, <1>T DEF Start, Bumped, Record, Row
  <2>a. rec \in [inc : Nat, alive : BOOLEAN, old : BOOLEAN, cap : Weight]
    BY <1>C, <1>T, GossipAssumption DEF Record, Row, Rec
  <2>b. rec.alive
    BY DEF Record
  <2> HIDE DEF rec, row
  <2>c. edited \subseteq edited' /\ (n \notin edited' => rec.cap = Capacity[n])
    BY <2>0
  <2>d. /\ row \in Row /\ mem' = [mem EXCEPT ![n] = row] /\ mem'[n] = row
        /\ row[n].inc >= 0 /\ (\A k \in Node : row[k].alive => row[k].inc >= 0)
        /\ CapsFit(row, edited')
        /\ (\A k \in Node \ {n} : row[k] = mem[n][k]) /\ row[n] = rec
    BY <2>0, <2>a, <2>c, BumpedRow
  <2>1. /\ row \in Row /\ mem' = [mem EXCEPT ![n] = row] /\ mem'[n] = row
        /\ row[n].inc >= 0 /\ (\A m \in Node : row[m].alive => row[m].inc >= 0)
        /\ CapsFit(row, edited) /\ row[n].alive
    BY <2>0, <2>d, <2>b
  <2>2. router' = [router EXCEPT ![n] = Notified(n, router[n], row)]
    BY <1>1, <2>1, <1>T DEF Start, row
  <2>3. /\ UNCHANGED <<seeds, net, edited, events>> /\ status' \in [Node -> Status]
        /\ \A k \in Node \ {n} : status'[k] = status[k]
    BY <1>1, <1>T DEF Start, Status
  <2> HIDE DEF row
  <2>4. /\ Notified(n, router[n], row) \in RouterState
        /\ Tracks(n, Notified(n, router[n], row), row, edited)
    BY <2>1, <1>T, NotifiedTracks
  <2> QED
    BY <2>1, <2>2, <2>3, <2>4, <1>T, RowStep
<1>2. CASE Stop(n)
  <2> DEFINE rec == Record(mem[n][n].inc + 1, FALSE, mem[n][n].cap)
             row == Bumped(n, mem[n], FALSE, mem[n][n].cap)
  <2>0. /\ Becomes(n, row) /\ edited' = edited /\ row = [k \in Node |-> IF k = n THEN rec ELSE mem[n][k]]
        /\ n \notin edited => rec.cap = Capacity[n]
    BY <1>2, <1>C, <1>T DEF Stop, Bumped, Record, Row
  <2>a. rec \in [inc : Nat, alive : BOOLEAN, old : BOOLEAN, cap : Weight]
    BY <1>C, <1>T, GossipAssumption DEF Record, Row, Rec
  <2> HIDE DEF rec, row
  <2>c. edited \subseteq edited' /\ (n \notin edited' => rec.cap = Capacity[n])
    BY <2>0
  <2>d. /\ row \in Row /\ mem' = [mem EXCEPT ![n] = row] /\ mem'[n] = row
        /\ row[n].inc >= 0 /\ (\A k \in Node : row[k].alive => row[k].inc >= 0)
        /\ CapsFit(row, edited')
        /\ (\A k \in Node \ {n} : row[k] = mem[n][k]) /\ row[n] = rec
    BY <2>0, <2>a, <2>c, BumpedRow
  <2>1. /\ row \in Row /\ mem' = [mem EXCEPT ![n] = row] /\ mem'[n] = row
        /\ row[n].inc >= 0 /\ (\A m \in Node : row[m].alive => row[m].inc >= 0)
        /\ CapsFit(row, edited) /\ \A k \in Node \ {n} : row[k] = mem[n][k]
    BY <2>0, <2>d
  <2>2. router' = [router EXCEPT ![n] = router[n]]
    BY <1>2, <1>R DEF Stop
  <2>3. /\ UNCHANGED <<seeds, edited>> /\ events' \in 0 .. MaxEvents
        /\ status' \in [Node -> Status] /\ status'[n] = "stopped"
        /\ \A k \in Node \ {n} : status'[k] = status[k]
    BY <1>2, <1>T, <1>E DEF Stop, Status
  <2>4. /\ net' \subseteq [to : Node, digest : [Node -> Entry]]
        /\ \A d \in net' : CapsFit(d.digest, edited)
    BY <1>2, <2>1, <1>T, SendsType DEF Stop, row
  <2> HIDE DEF row
  <2>5. Alive(row) \ {n} = Alive(mem[n]) \ {n}
    BY <2>1 DEF Alive
  <2>6. Tracks(n, router[n], row, edited)
    BY <2>1, <2>5, <1>T, StillTracks
  <2> QED
    BY <2>1, <2>2, <2>3, <2>4, <2>6, <1>T, RowStep
<1>3. CASE Crash(n)
  <2>1. /\ UNCHANGED <<mem, seeds, net, router, edited>> /\ events' \in 0 .. MaxEvents
        /\ status' \in [Node -> Status] /\ status'[n] = "down"
        /\ \A k \in Node \ {n} : status'[k] = status[k]
    BY <1>3, <1>T, <1>E DEF Crash, Status
  <2> QED
    BY <2>1, <1>T, <1>R, RowStep
<1>4. CASE Boot(n)
  <2>1. /\ Booted(n) \in Row /\ Booted(n)[n].inc >= 0 /\ Booted(n)[n].alive
        /\ \A m \in Node : Booted(n)[m].alive => Booted(n)[m].inc >= 0
        /\ CapsFit(Booted(n), edited)
    BY GossipAssumption, WeightAssumption DEF Booted, Record, Unknown, Row, Rec, CapsFit
  <2>2. NoRouter \in RouterState /\ ~ NoRouter.on
    BY DEF NoRouter, RouterState, NoNodes, Weights0
  <2>3. /\ mem' = [mem EXCEPT ![n] = Booted(n)] /\ router' = [router EXCEPT ![n] = NoRouter]
        /\ UNCHANGED <<net, edited, events>> /\ seeds' \in [Node -> SUBSET Node]
        /\ status' \in [Node -> Status] /\ \A k \in Node \ {n} : status'[k] = status[k]
    BY <1>4, <1>T, GossipAssumption DEF Boot, Status
  <2>4. Tracks(n, NoRouter, Booted(n), edited)
    BY <2>2 DEF Tracks
  <2> QED
    BY <2>1, <2>2, <2>3, <2>4, <1>T, RowStep
<1>5. ASSUME NEW cap \in Weight, Register(n, cap) PROVE IndInv'
  <2> DEFINE rec == Record(mem[n][n].inc + 1, TRUE, cap)
             row == Bumped(n, mem[n], TRUE, cap)
  <2>0. /\ edited \subseteq edited' /\ edited' \subseteq Node /\ (n \notin edited' => cap = Capacity[n])
        /\ Becomes(n, row) /\ row = [k \in Node |-> IF k = n THEN rec ELSE mem[n][k]] /\ rec.cap = cap
    BY <1>5, <1>T DEF Register, Bumped, Record, Row
  <2>a. rec \in [inc : Nat, alive : BOOLEAN, old : BOOLEAN, cap : Weight]
    BY <1>5, <1>T, GossipAssumption DEF Record, Row, Rec
  <2>b. rec.alive
    BY DEF Record
  <2> HIDE DEF rec, row
  <2>c. edited \subseteq edited' /\ (n \notin edited' => rec.cap = Capacity[n])
    BY <2>0
  <2>d. /\ row \in Row /\ mem' = [mem EXCEPT ![n] = row] /\ mem'[n] = row
        /\ row[n].inc >= 0 /\ (\A k \in Node : row[k].alive => row[k].inc >= 0)
        /\ CapsFit(row, edited')
        /\ (\A k \in Node \ {n} : row[k] = mem[n][k]) /\ row[n] = rec
    BY <2>0, <2>a, <2>c, BumpedRow
  <2>1. /\ row \in Row /\ mem' = [mem EXCEPT ![n] = row] /\ mem'[n] = row
        /\ row[n].inc >= 0 /\ (\A m \in Node : row[m].alive => row[m].inc >= 0)
        /\ CapsFit(row, edited') /\ row[n].alive
    BY <2>0, <2>d, <2>b
  <2>2. router' = [router EXCEPT ![n] = Notified(n, router[n], row)]
    BY <1>5, <2>1, <1>T DEF Register, row
  <2>3. UNCHANGED <<seeds, status>> /\ events' \in 0 .. MaxEvents
    BY <1>5, <1>E DEF Register
  <2>4. /\ net' \subseteq [to : Node, digest : [Node -> Entry]]
        /\ \A d \in net' : CapsFit(d.digest, edited')
    BY <1>5, <2>0, <2>1, <1>T, SendsType DEF Register, row
  <2> HIDE DEF row
  <2>5. /\ Notified(n, router[n], row) \in RouterState
        /\ Tracks(n, Notified(n, router[n], row), row, edited')
    BY <2>1, <1>T, NotifiedTracks
  <2> QED
    BY <2>0, <2>1, <2>2, <2>3, <2>4, <2>5, <1>T, RowStep
<1>W. ASSUME NEW row \in Row, n \notin edited => row[n].alive, CapsFit(row, edited),
             \A m \in Node : row[m].alive => row[m].inc >= 0
      PROVE  Watched(n, row) \in RouterState /\ Tracks(n, Watched(n, row), row, edited)
  <2>1. CASE Alive(row) \ {n} # Alive(mem[n]) \ {n}
    BY <1>W, <2>1, <1>T, NotifiedTracks DEF Watched
  <2>2. CASE Alive(row) \ {n} = Alive(mem[n]) \ {n}
    BY <1>W, <2>2, <1>T, StillTracks DEF Watched
  <2> QED
    BY <2>1, <2>2
<1>6. CASE Tick(n)
  <2> DEFINE swept == Swept(n)
             own == [swept[n] EXCEPT !.inc = @ + 1]
             row == [swept EXCEPT ![n].inc = @ + 1]
  <2>1. /\ swept \in [Node -> Wide] /\ swept[n] = mem[n][n]
        /\ \A m \in Node : swept[m].alive => swept[m].inc >= 0
        /\ \A m \in Node : swept[m].inc >= 0 => mem[n][m].inc >= 0 /\ swept[m].cap = mem[n][m].cap
    BY <1>T, SweptType
  <2> HIDE DEF swept
  <2>0. /\ own \in Wide /\ own.inc >= 0 /\ own.alive = mem[n][n].alive /\ own.cap = mem[n][n].cap
    <3>1. mem[n][n] \in Rec /\ mem[n][n].inc >= 0
      BY <1>T DEF Row
    <3> QED
      BY <3>1, <2>1, GossipAssumption DEF Rec
  <2>2. /\ row \in [Node -> Wide] /\ row[n] = own
        /\ \A m \in Node \ {n} : row[m] = swept[m]
    <3>1. row = [swept EXCEPT ![n] = own]
      OBVIOUS
    <3> HIDE DEF Wide, own, row
    <3> QED
      BY <2>0, <2>1, <3>1
  <2> HIDE DEF own
  <2>3. row \in Row /\ mem' = [mem EXCEPT ![n] = row] /\ mem'[n] = row
    BY <1>6, <2>2, <1>T, BoundedRow DEF Tick, Becomes, swept
  <2>4. router' = [router EXCEPT ![n] = Watched(n, row)]
    BY <1>6 DEF Tick, swept
  <2>5. /\ seeds' \in [Node -> SUBSET Node] /\ UNCHANGED <<status, edited, events>>
    BY <1>6, <1>T DEF Tick
  <2>6. /\ row[n].inc >= 0 /\ (\A m \in Node : row[m].alive => row[m].inc >= 0)
        /\ CapsFit(row, edited) /\ row[n].alive = mem[n][n].alive
    <3> HIDE DEF row
    <3> QED
      BY <2>0, <2>1, <2>2, <1>C, <1>T DEF CapsFit
  <2>7. Sends(n, row, seeds[n] \ Forgotten(n)) /\ seeds[n] \ Forgotten(n) \in SUBSET Node
    BY <1>6, <1>T DEF Tick, swept
  <2> HIDE DEF row
  <2>8. /\ net' \subseteq [to : Node, digest : [Node -> Entry]]
        /\ \A d \in net' : CapsFit(d.digest, edited)
    BY <1>T, <2>3, <2>6, <2>7, SendsType
  <2>9. n \notin edited => row[n].alive
    BY <1>6, <1>T, <2>6 DEF Tick, SelfAlive
  <2>10. Watched(n, row) \in RouterState /\ Tracks(n, Watched(n, row), row, edited)
    BY <2>3, <2>6, <2>9, <1>W
  <2> QED
    BY <2>3, <2>4, <2>5, <2>6, <2>8, <2>9, <2>10, <1>T, RowStep
<1>7. CASE Receive(n)
  <2> PICK d \in net :
          /\ Becomes(n, Merged(n, d.digest))
          /\ seeds' = [seeds EXCEPT ![n] = @ \cup (Known(mem'[n]) \ Known(mem[n]))]
          /\ net' \in {net, net \ {d}}
    BY <1>7 DEF Receive
  <2> DEFINE row == Merged(n, d.digest)
  <2>1. \A m \in Node : mem[n][m] \in Rec /\ d.digest[m] \in Entry
    BY <1>T DEF Row
  <2>2. \A m \in Node : row[m] = Merge(n, m, mem[n][m], d.digest[m])
    BY DEF Merged
  <2>3. ASSUME NEW m \in Node
        PROVE  /\ row[m] \in Wide /\ row[m].inc >= mem[n][m].inc
               /\ row[m].alive => row[m].inc >= 0
               /\ m = n /\ mem[n][m].alive => row[m].alive
    <3>1. mem[n][m] \in Rec /\ d.digest[m] \in Entry /\ (mem[n][m].alive => mem[n][m].inc >= 0)
      BY <2>1, <1>T
    <3> QED
      BY <3>1, <2>2, MergeType
  <2>4. /\ row \in [Node -> Wide] /\ row[n].inc >= 0
        /\ \A m \in Node : row[m].alive => row[m].inc >= 0
    <3>1. row[n].inc \in Int /\ mem[n][n].inc \in Int
      BY <2>1, <2>3, GossipAssumption DEF Rec
    <3>2. row = [m \in Node |-> row[m]]
      BY DEF Merged
    <3> QED
      BY <2>3, <3>1, <3>2, <1>T
  <2>5. row \in Row /\ mem' = [mem EXCEPT ![n] = row] /\ mem'[n] = row
    BY <2>4, <1>T, BoundedRow DEF Becomes
  <2>6. router' = [router EXCEPT ![n] = Watched(n, row)]
    BY <1>7, <2>5 DEF Receive
  <2>7. /\ seeds' \in [Node -> SUBSET Node] /\ UNCHANGED <<status, edited, events>>
        /\ net' \subseteq [to : Node, digest : [Node -> Entry]]
        /\ \A e \in net' : CapsFit(e.digest, edited)
    BY <1>7, <1>T DEF Receive, Known
  <2>8. CapsFit(row, edited)
    <3> SUFFICES ASSUME NEW m \in Node, row[m].inc >= 0, m \notin edited
                 PROVE  row[m].cap = Capacity[m]
      BY DEF CapsFit
    <3>1. /\ mem[n][m].inc >= 0 => mem[n][m].cap = Capacity[m]
          /\ d.digest[m].inc >= 0 => d.digest[m].cap = Capacity[m]
          /\ Capacity[m] \in Weight /\ (m = n => mem[n][m].inc >= 0)
      BY <1>T, WeightAssumption DEF CapsFit
    <3> QED
      BY <2>1, <2>2, <3>1, MergeCap
  <2>9. n \notin edited => row[n].alive
    BY <1>7, <1>T, <2>3 DEF Receive, SelfAlive
  <2> HIDE DEF row
  <2>10. Watched(n, row) \in RouterState /\ Tracks(n, Watched(n, row), row, edited)
    BY <2>4, <2>5, <2>8, <2>9, <1>W
  <2>11. /\ edited \subseteq edited' /\ edited' \subseteq Node /\ status' = status
         /\ events' \in 0 .. MaxEvents /\ CapsFit(row, edited')
         /\ status'[n] \in {"new", "running"} /\ n \notin edited' => row[n].alive
         /\ Tracks(n, Watched(n, row), row, edited')
         /\ \A e \in net' : CapsFit(e.digest, edited')
    BY <2>7, <2>8, <2>9, <2>10, <1>T
  <2>12. /\ status' \in [Node -> Status] /\ \A k \in Node \ {n} : status'[k] = status[k]
         /\ seeds' \in [Node -> SUBSET Node]
         /\ net' \subseteq [to : Node, digest : [Node -> Entry]]
    BY <2>7, <2>11, <1>T
  <2> DEFINE r == Watched(n, row)
  <2>13. r \in RouterState /\ router' = [router EXCEPT ![n] = r] /\ Tracks(n, r, row, edited')
    BY <2>6, <2>10, <2>11
  <2> HIDE DEF r
  <2> QED
    BY <2>4, <2>5, <2>11, <2>12, <2>13, RowStep
<1>8. ASSUME NEW m \in Node, RegisterOther(n, m) PROVE IndInv'
  <2>1. /\ UNCHANGED <<status, mem, net, router, edited>> /\ events' \in 0 .. MaxEvents
        /\ seeds' \in [Node -> SUBSET Node]
    BY <1>8, <1>T, <1>E DEF RegisterOther
  <2> QED
    BY <2>1, <1>T, <1>R, RowStep DEF SelfAlive
<1>9. ASSUME NEW m \in Node, Deregister(n, m) PROVE IndInv'
  <2> DEFINE rec == Record(mem[n][m].inc + 1, FALSE, mem[n][m].cap)
             row == Bumped(m, mem[n], FALSE, mem[n][m].cap)
  <2>0. /\ mem[n][m].inc >= 0
        /\ edited \subseteq edited' /\ edited' \subseteq Node /\ (m = n => n \in edited')
        /\ Becomes(n, row) /\ row = [k \in Node |-> IF k = m THEN rec ELSE mem[n][k]] /\ rec.cap = mem[n][m].cap
    BY <1>9, <1>T DEF Deregister, Bumped, Record, Row
  <2>a. rec \in [inc : Nat, alive : BOOLEAN, old : BOOLEAN, cap : Weight]
    BY <1>C, <2>0, <1>T, GossipAssumption DEF Record, Row, Rec
  <2>b. m \notin edited' => rec.cap = Capacity[m]
    BY <1>C, <2>0
  <2> HIDE DEF rec, row
  <2>1. /\ row \in Row /\ mem' = [mem EXCEPT ![n] = row] /\ mem'[n] = row
        /\ row[n].inc >= 0 /\ (\A k \in Node : row[k].alive => row[k].inc >= 0)
        /\ CapsFit(row, edited') /\ \A k \in Node \ {m} : row[k] = mem[n][k]
    BY <2>0, <2>a, <2>b, BumpedRow
  <2>2. router' = [router EXCEPT ![n] = Notified(n, router[n], row)]
    BY <1>9, <2>1, <1>T DEF Deregister, row
  <2>3. UNCHANGED <<seeds, status>> /\ events' \in 0 .. MaxEvents /\ status[n] = "running"
    BY <1>9, <1>E DEF Deregister
  <2>4. /\ net' \subseteq [to : Node, digest : [Node -> Entry]]
        /\ \A d \in net' : CapsFit(d.digest, edited')
    BY <1>9, <2>0, <2>1, <1>T, SendsType DEF Deregister, row
  <2> HIDE DEF row
  <2>5. n \notin edited' => row[n].alive
    BY <2>0, <2>1, <2>3, <1>T DEF SelfAlive
  <2>6. /\ Notified(n, router[n], row) \in RouterState
        /\ Tracks(n, Notified(n, router[n], row), row, edited')
    BY <2>1, <2>5, <1>T, NotifiedTracks
  <2> QED
    BY <2>0, <2>1, <2>2, <2>3, <2>4, <2>5, <2>6, <1>T, RowStep
<1>10. ASSUME NEW m \in Node, Ages(n, m) PROVE IndInv'
  <2> DEFINE row == [mem[n] EXCEPT ![m] = [@ EXCEPT !.old = TRUE]]
  <2>1. row \in Row /\ mem' = [mem EXCEPT ![n] = row]
    BY <1>10, <1>T DEF Ages, Row, Rec
  <2>2. \A k \in Node : /\ row[k].inc = mem[n][k].inc /\ row[k].alive = mem[n][k].alive
                        /\ row[k].cap = mem[n][k].cap
    BY <1>T DEF Row, Rec
  <2>3. /\ UNCHANGED <<seeds, status, net, edited>> /\ events' \in 0 .. MaxEvents
        /\ router' = [router EXCEPT ![n] = router[n]]
    BY <1>10, <1>E, <1>R DEF Ages
  <2> HIDE DEF row
  <2>4. /\ row[n].inc >= 0 /\ (\A k \in Node : row[k].alive => row[k].inc >= 0)
        /\ CapsFit(row, edited) /\ Alive(row) \ {n} = Alive(mem[n]) \ {n}
    BY <2>2, <1>T DEF Alive, CapsFit
  <2>5. Tracks(n, router[n], row, edited)
    BY <2>1, <2>4, <1>T, StillTracks
  <2> QED
    BY <2>1, <2>2, <2>3, <2>4, <2>5, <1>T, RowStep DEF SelfAlive
<1> QED
  BY <1>1, <1>2, <1>3, <1>4, <1>5, <1>6, <1>7, <1>8, <1>9, <1>10 DEF NodeStep

\* Every step of a router keeps the inductive invariant: start() leaves either a
\* notified view or an answer of list() that is current, and the answer is applied
\* only when no notification came first.
LEMMA RouterStepInv ==
    ASSUME IndInv, NEW n \in Node, RouterStep(n)
    PROVE  IndInv'
<1>T. /\ TypeOK /\ LivenessIsKnown /\ CapsKept
      /\ mem[n] \in Row /\ mem[n][n].inc >= 0 /\ CapsFit(mem[n], edited)
      /\ \A m \in Node : mem[n][m].alive => mem[n][m].inc >= 0
      /\ router[n] \in RouterState
      /\ SelfAlive(n) /\ Tracks(n, router[n], mem[n], edited)
      /\ mem = [mem EXCEPT ![n] = mem[n]]
      /\ status \in [Node -> Status]
      /\ seeds \in [Node -> SUBSET Node]
      /\ net \subseteq [to : Node, digest : [Node -> Entry]]
      /\ \A d \in net : CapsFit(d.digest, edited)
      /\ edited \subseteq Node
      /\ events \in 0 .. MaxEvents
      /\ Node = DOMAIN mem /\ Node = DOMAIN router
  BY OfNode
<1>1. CASE RouterStarts(n)
  <2> DEFINE row == mem'[n]
             watching == [NoRouter EXCEPT !.on = TRUE, !.ring[n] = 1]
             told == IF Alive(row) # Alive(mem[n]) THEN Notified(n, watching, row) ELSE watching
             r == [told EXCEPT !.list = Snapshot(row), !.listing = TRUE]
  <2>0. Swept(n) \in Row /\ row = Swept(n) /\ mem' = [mem EXCEPT ![n] = Swept(n)]
    BY <1>1, <1>T, SweptType, BoundedRow DEF RouterStarts, Becomes
  <2>1. row \in Row /\ mem' = [mem EXCEPT ![n] = row]
    BY <2>0
  <2>2. /\ row[n].inc >= 0 /\ (\A k \in Node : row[k].alive => row[k].inc >= 0)
        /\ row[n] = mem[n][n]
    BY <2>0, <1>T, SweptType
  <2>3. router' = [router EXCEPT ![n] = r]
    BY <1>1 DEF RouterStarts
  <2>4. /\ seeds' \in [Node -> SUBSET Node] /\ UNCHANGED <<status, net, edited, events>>
        /\ status[n] = "running"
    BY <1>1, <1>T DEF RouterStarts
  <2>5. CapsFit(row, edited)
    BY <2>0, <1>T, SweptType DEF CapsFit
  <2>6. n \notin edited => row[n].alive
    BY <2>2, <2>4, <1>T DEF SelfAlive
  <2> HIDE DEF row
  <2>7. /\ watching \in RouterState /\ watching.on /\ watching.ring[n] = 1 /\ ~ watching.seen
        /\ \A m \in Node \ {n} : watching.ring[m] = 0
    BY WeightAssumption DEF NoRouter, NoNodes, RouterState, Weights0
  <2> HIDE DEF watching
  <2>8. Snapshot(row) \in Weights0 /\ Fits(n, Snapshot(row), row, edited)
    BY <2>1, <2>2, <2>5, <2>6, SnapshotFits
  <2>9. /\ told \in RouterState /\ told.on /\ told.ring[n] # 0
        /\ \/ told.seen /\ Fits(n, told.ring, row, edited)
           \/ ~ told.seen /\ \A m \in Node \ {n} : told.ring[m] = 0
    <3>1. CASE Alive(row) # Alive(mem[n])
      <4>1. /\ Notified(n, watching, row) \in RouterState
            /\ Tracks(n, Notified(n, watching, row), row, edited)
            /\ Notified(n, watching, row).on /\ Notified(n, watching, row).seen
        BY <2>1, <2>2, <2>5, <2>6, <2>7, NotifiedTracks
      <4> QED
        BY <3>1, <4>1 DEF Tracks
    <3>2. CASE Alive(row) = Alive(mem[n])
      BY <3>2, <2>7
    <3> QED
      BY <3>1, <3>2
  <2> HIDE DEF told
  <2>10. /\ r \in RouterState /\ r.on = told.on /\ r.seen = told.seen /\ r.ring = told.ring
         /\ r.listing /\ r.list = Snapshot(row)
    BY <2>8, <2>9 DEF RouterState
  <2> HIDE DEF r
  <2>11. Tracks(n, r, row, edited)
    BY <2>8, <2>9, <2>10 DEF Tracks
  <2> QED
    BY <2>1, <2>2, <2>3, <2>4, <2>5, <2>6, <2>10, <2>11, <1>T, RowStep
<1>2. CASE ListResolves(n)
  <2> DEFINE ring == IF router[n].seen THEN router[n].ring
                     ELSE Synced(n, router[n].ring, router[n].list, FALSE)
             r == [router[n] EXCEPT !.listing = FALSE, !.list = NoNodes, !.ring = ring]
  <2>1. router' = [router EXCEPT ![n] = r] /\ UNCHANGED <<status, mem, seeds, net, edited, events>>
    BY <1>2, <1>T DEF ListResolves
  <2>2. router[n].listing
    BY <1>2 DEF ListResolves
  <2>3. /\ ring \in Weights0
        /\ router[n].on => ring[n] # 0 /\ Fits(n, ring, mem[n], edited)
    <3>1. router[n].ring \in Weights0 /\ router[n].list \in Weights0
      BY <1>T DEF RouterState
    <3>2. CASE router[n].seen
      BY <3>1, <3>2, <1>T DEF Tracks
    <3>3. CASE ~ router[n].seen /\ ~ router[n].on
      BY <3>1, <3>3 DEF Synced, Weights0
    <3>4. CASE ~ router[n].seen /\ router[n].on
      <4>1. /\ router[n].ring[n] # 0 /\ Fits(n, router[n].list, mem[n], edited)
            /\ \A m \in Node \ {n} : router[n].ring[m] = 0
        BY <2>2, <3>4, <1>T DEF Tracks
      <4> QED
        BY <3>1, <3>4, <4>1, SyncedFits
    <3> QED
      BY <3>2, <3>3, <3>4
  <2> HIDE DEF ring
  <2>4. /\ r \in RouterState /\ r.on = router[n].on /\ ~ r.listing /\ r.ring = ring
    BY <2>3, <1>T DEF RouterState, NoNodes, Weights0
  <2> HIDE DEF r
  <2>5. Tracks(n, r, mem[n], edited)
    BY <2>3, <2>4 DEF Tracks
  <2> QED
    BY <2>1, <2>4, <2>5, <1>T, RowStep DEF SelfAlive
<1>3. CASE RouterDisposed(n)
  <2> DEFINE r == [router[n] EXCEPT !.on = FALSE]
  <2>1. /\ router' = [router EXCEPT ![n] = r] /\ UNCHANGED <<status, mem, seeds, net, edited>>
        /\ events' \in 0 .. MaxEvents
    BY <1>3, <1>T, GossipAssumption DEF RouterDisposed, Event
  <2>2. r \in RouterState /\ ~ r.on
    BY <1>T DEF RouterState
  <2> HIDE DEF r
  <2>3. Tracks(n, r, mem[n], edited)
    BY <2>2 DEF Tracks
  <2> QED
    BY <2>1, <2>2, <2>3, <1>T, RowStep DEF SelfAlive
<1> QED
  BY <1>1, <1>2, <1>3 DEF RouterStep

\* The conjunction of shape, known liveness and routers in step is an invariant.
THEOREM Invariance == Spec => []IndInv
<1>1. IndInv /\ [Next]_vars => IndInv'
  <2> SUFFICES ASSUME IndInv, [Next]_vars PROVE IndInv'
    OBVIOUS
  <2>1. CASE Next
    BY <2>1, NodeStepInv, RouterStepInv DEF Next
  <2>2. CASE UNCHANGED vars
    BY <2>2 DEF vars, IndInv, TypeOK, LivenessIsKnown, CapsKept, RoutersTrack, SelfAlive, TracksView
  <2> QED
    BY <2>1, <2>2
<1> QED
  BY InitInv, <1>1, PTL DEF Spec

-----------------------------------------------------------------------------
(* The theorems.                                                           *)

\* The state of every node, datagram and router has its shape, every incarnation
\* stays within the bound, and a node never loses its own record (Gossip.ts).
THEOREM TypeCorrect == Spec => []TypeOK
BY Invariance, PTL DEF IndInv

\* Two entries about m that neither side would take from the other are equal: the
\* heart of _merge, for any two nodes that do not refute on the same entry.
LEMMA NoNewsAgree ==
    ASSUME IndInv, NEW a \in Node, NEW b \in Node, Saturated(a, b)
    PROVE  /\ View(mem[a]) = View(mem[b])
           /\ mem[a][b].alive /\ mem[b][a].alive
           /\ mem[a][a].alive /\ mem[b][b].alive
<1>1. a # b
  BY DEF Saturated, Peers, Targets
<1>2. \A m \in Node : /\ mem[a][m] \in Rec /\ mem[b][m] \in Rec
                      /\ mem[a][m].alive => mem[a][m].inc >= 0
                      /\ mem[b][m].alive => mem[b][m].inc >= 0
  BY DEF IndInv, TypeOK, LivenessIsKnown, Rec
<1>3. mem[a][a].inc >= 0 /\ mem[b][b].inc >= 0
  BY DEF IndInv, TypeOK
<1>4. ASSUME NEW m \in Node
      PROVE  /\ Seen(Merge(a, m, mem[a][m], Said(mem[b][m]))) = Seen(mem[a][m])
             /\ Seen(Merge(b, m, mem[b][m], Said(mem[a][m]))) = Seen(mem[b][m])
  <2>1. /\ View(Merged(a, Digest(mem[b])))[m] = View(mem[a])[m]
        /\ View(Merged(b, Digest(mem[a])))[m] = View(mem[b])[m]
    BY DEF Saturated
  <2>2. ASSUME NEW row PROVE Digest(row)[m] = Said(row[m]) /\ View(row)[m] = Seen(row[m])
    BY DEF Digest, View, Said, Seen
  <2>3. ASSUME NEW n, NEW row PROVE Merged(n, row)[m] = Merge(n, m, mem[n][m], row[m])
    BY DEF Merged
  <2> QED
    BY <2>1, <2>2, <2>3
<1>5. /\ mem[a][a].inc = mem[b][a].inc /\ mem[a][a].alive = mem[b][a].alive /\ mem[a][a].alive
      /\ mem[b][b].inc = mem[a][b].inc /\ mem[b][b].alive = mem[a][b].alive /\ mem[b][b].alive
  <2>1. /\ mem[a][a] \in Rec /\ mem[b][a] \in Rec /\ mem[a][b] \in Rec /\ mem[b][b] \in Rec
    BY <1>2
  <2>2. /\ Seen(Merge(a, a, mem[a][a], Said(mem[b][a]))) = Seen(mem[a][a])
        /\ Seen(Merge(b, a, mem[b][a], Said(mem[a][a]))) = Seen(mem[b][a])
        /\ Seen(Merge(a, b, mem[a][b], Said(mem[b][b]))) = Seen(mem[a][b])
        /\ Seen(Merge(b, b, mem[b][b], Said(mem[a][b]))) = Seen(mem[b][b])
    BY <1>4
  <2>3. mem[a][a].inc = mem[b][a].inc /\ mem[a][a].alive = mem[b][a].alive /\ mem[a][a].alive
    BY <1>3, <2>1, <2>2, NoNewsOfSelf
  <2>4. mem[b][b].inc = mem[a][b].inc /\ mem[b][b].alive = mem[a][b].alive /\ mem[b][b].alive
    BY <1>3, <2>1, <2>2, NoNewsOfSelf
  <2> QED
    BY <2>3, <2>4
<1>6. ASSUME NEW m \in Node
      PROVE  mem[a][m].inc = mem[b][m].inc /\ mem[a][m].alive = mem[b][m].alive
  <2>1. CASE m \in {a, b}
    BY <2>1, <1>5
  <2>2. CASE m \in Node \ {a, b}
    BY <2>2, <1>2, <1>4, NoNewsOfOther
  <2> QED
    BY <2>1, <2>2
<1> QED
  BY <1>5, <1>6 DEF View

\* Whatever was lost, duplicated or reordered before: two running nodes that have no
\* news for each other have the same view of every node and see each other alive
\* (_merge, _sweep, deregister, stop).
THEOREM SaturatedNodesAgree == Spec => []SaturatedAgree
<1>1. IndInv => SaturatedAgree
  BY NoNewsAgree DEF SaturatedAgree
<1> QED
  BY Invariance, <1>1, PTL

\* Their routers, unless a live node was edited, then have exactly the live nodes of
\* the one view they share on their rings, with the same weights, and name the same
\* owner of a room (RoomRouter, MembershipReconciler, HashRing).
THEOREM RoomsHaveOneOwner == Spec => []RoomHasOneOwner
<1>1. IndInv => RoomHasOneOwner
  <2> SUFFICES ASSUME IndInv, NEW a \in Node, NEW b \in Node, Saturated(a, b),
                      Following(a, b), Alive(mem[a]) \cap edited = {}
               PROVE  OnRing(router[a].ring) = Alive(mem[a]) /\ Owner(a) = Owner(b)
    BY DEF RoomHasOneOwner
  <2>1. \A m \in Node : mem[a][m].alive <=> mem[b][m].alive
    <3>1. \A m \in Node : View(mem[a])[m].alive = View(mem[b])[m].alive
      BY NoNewsAgree
    <3> QED
      BY <3>1 DEF View
  <2>2. mem[a][a].alive /\ mem[a][b].alive /\ mem[b][a].alive /\ mem[b][b].alive
    BY NoNewsAgree
  <2>3. \A m \in Node : mem[a][m].alive => m \notin edited
    BY DEF Alive
  <2>4. ASSUME NEW n \in {a, b}
        PROVE  /\ router[n].ring[n] # 0
               /\ Fits(n, router[n].ring, mem[n], edited)
               /\ router[n].ring \in [Node -> Weight \cup {0}]
    BY DEF IndInv, TypeOK, RoutersTrack, TracksView, Tracks, Following
  <2>5. ASSUME NEW n \in {a, b}, NEW m \in Node
        PROVE  router[n].ring[m] = IF mem[a][m].alive THEN Capacity[m] ELSE 0
    <3>1. m # n => (router[n].ring[m] # 0 <=> mem[a][m].alive)
      BY <2>1, <2>4 DEF Fits
    <3>2. router[n].ring[n] # 0 /\ mem[a][n].alive
      BY <2>2, <2>4
    <3>3. m \notin edited /\ router[n].ring[m] # 0 => router[n].ring[m] = Capacity[m]
      BY <2>4 DEF Fits
    <3> QED
      BY <2>3, <3>1, <3>2, <3>3
  <2>6. router[a].ring = router[b].ring
    BY <2>4, <2>5
  <2>7. \A m \in Node : Capacity[m] # 0
    BY WeightAssumption
  <2>8. OnRing(router[a].ring) = Alive(mem[a])
    BY <2>5, <2>7 DEF OnRing, Alive
  <2> QED
    BY <2>6, <2>8 DEF Owner
<1> QED
  BY Invariance, <1>1, PTL
=============================================================================
