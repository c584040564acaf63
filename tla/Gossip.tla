------------------------------- MODULE Gossip -------------------------------
(***************************************************************************)
(* A cluster of GossipMembership nodes (core/src/Gossip.ts) over datagrams *)
(* that may be lost, duplicated and reordered, and on each node a          *)
(* RoomRouter (signaling/src/RoomRouter.ts) that a MembershipReconciler    *)
(* keeps in step with the node's view.  A node's address is its id.        *)
(*                                                                         *)
(* Time is abstract: a record is old once deadTimeoutMs, for a dead one    *)
(* tombstoneMs, has passed without news of a higher incarnation.           *)
(***************************************************************************)
EXTENDS Integers, FiniteSets

CONSTANTS
    Node,
    Seeds,    \* opts.seeds of every node
    Weight,   \* weights on the ring: the capacity metadata, 1 when there is none
    Capacity, \* capacity that every node is constructed with
    Score,    \* of a room id for every node and weight: HashRing._score
    Routers,  \* nodes that run a RoomRouter
    MaxInc,   \* bound: incarnations
    MaxTick,  \* bound: incarnation that a tick gives its node
    MaxNet,   \* bound: datagrams in flight
    MaxEvents \* bound: timeouts, crashes, stops and calls of the host

ASSUME WeightAssumption ==
    Weight \subseteq Nat \ {0} /\ 1 \in Weight /\ Capacity \in [Node -> Weight]
\* No two nodes score the same: ties would be broken by the order of insertion.
ASSUME ScoreAssumption ==
    /\ Score \in [Node -> [Weight -> Nat]]
    /\ \A m, n \in Node : \A v, w \in Weight : Score[m][v] = Score[n][w] => m = n
ASSUME GossipAssumption == Seeds \in [Node -> SUBSET Node] /\ {MaxInc, MaxTick, MaxNet, MaxEvents} \subseteq Nat

VARIABLES
    status,  \* of every node's process
    mem,     \* _members of every node
    seeds,   \* _seeds of every node
    net,     \* datagrams in flight
    router,  \* the reconciler and ring of every node
    edited,  \* nodes whose host changed their own entry: see Register, Deregister
    events   \* how often the environment acted

vars == <<status, mem, seeds, net, router, edited, events>>

\* A MemberRecord; cap is the capacity in its info.
Unknown == [inc |-> -1, alive |-> FALSE, old |-> FALSE, cap |-> 1]
Record(inc, alive, cap) == [inc |-> inc, alive |-> alive, old |-> FALSE, cap |-> cap]
Known(row) == {m \in Node : row[m].inc >= 0}
Alive(row) == {m \in Node : row[m].alive}

\* What a digest carries, and what two views are compared by.
Digest(row) == [m \in Node |-> [inc |-> row[m].inc, alive |-> row[m].alive, cap |-> row[m].cap]]
View(row) == [m \in Node |-> [inc |-> row[m].inc, alive |-> row[m].alive]]

\* _aliveInfos: the weight of every live node, 0 for the others.
Snapshot(row) == [m \in Node |-> IF row[m].alive THEN row[m].cap ELSE 0]

\* The ring has the weight of every node on it and 0 for the others.
NoNodes == [m \in Node |-> 0]
NoRouter == [on |-> FALSE, seen |-> FALSE, ring |-> NoNodes, list |-> NoNodes, listing |-> FALSE]

\* A new process: only itself, at incarnation 0.
Booted(n) == [m \in Node |-> IF m = n THEN Record(0, TRUE, Capacity[n]) ELSE Unknown]

Init ==
    /\ status = [n \in Node |-> "new"]
    /\ mem = [n \in Node |-> Booted(n)]
    /\ seeds = Seeds
    /\ net = {}
    /\ router = [n \in Node |-> NoRouter]
    /\ edited = {}
    /\ events = 0

Event == events < MaxEvents /\ events' = events + 1

-----------------------------------------------------------------------------
(* Merging, sweeping, gossiping.                                           *)

\* _merge of one entry e about node m into the row of n.
Refutes(self, e) == e.inc > self.inc \/ (e.inc = self.inc /\ ~ e.alive)

\* Mutant: at equal incarnation the record that came first stays.
MergeFirstWins(n, m, known, e) ==
    CASE e.inc < 0 -> known
      [] m = n -> IF Refutes(known, e) THEN Record(e.inc + 1, TRUE, known.cap) ELSE known
      [] m # n /\ e.inc > known.inc -> Record(e.inc, e.alive, e.cap)
      [] OTHER -> known

\* A node refutes what others say of it; else the higher incarnation wins, and at
\* equal incarnation the death, which leaves the info alone.
Merge(n, m, known, e) ==
    CASE e.inc < 0 -> known
      [] m = n -> IF Refutes(known, e) THEN Record(e.inc + 1, TRUE, known.cap) ELSE known
      [] m # n /\ e.inc > known.inc -> Record(e.inc, e.alive, e.cap)
      [] m # n /\ e.inc = known.inc /\ known.alive /\ ~ e.alive -> Record(e.inc, FALSE, known.cap)
      [] OTHER -> known

Merged(n, digest) == [m \in Node |-> Merge(n, m, mem[n][m], digest[m])]

\* _sweep: old live records die one incarnation up, old tombstones are forgotten,
\* with the address among the seeds.
Forgotten(n) == {m \in Node \ {n} : mem[n][m].inc >= 0 /\ ~ mem[n][m].alive /\ mem[n][m].old}
Swept(n) ==
    [m \in Node |->
        CASE m \in Forgotten(n) -> Unknown
          [] m # n /\ mem[n][m].alive /\ mem[n][m].old -> Record(mem[n][m].inc + 1, FALSE, mem[n][m].cap)
          [] OTHER -> mem[n][m]]

\* _sync of the ring on node n with a snapshot: _upsert of the nodes in it, and the
\* others leave when that is allowed, but never n itself.
Synced(n, ring, snapshot, allowRemove) ==
    [m \in Node |->
        CASE snapshot[m] # 0 -> snapshot[m]
          [] snapshot[m] = 0 /\ allowRemove /\ m # n -> 0
          [] OTHER -> ring[m]]

\* _notify reaches the reconciler while it watches.
Notified(n, r, row) ==
    IF r.on THEN [r EXCEPT !.seen = TRUE, !.ring = Synced(n, @, Snapshot(row), TRUE)] ELSE r

\* Of the other nodes only a change of who is alive is notified.
Watched(n, row) ==
    IF Alive(row) \ {n} # Alive(mem[n]) \ {n} THEN Notified(n, router[n], row) ELSE router[n]

\* Node n's row becomes row; the bound on incarnations is here.
Becomes(n, row) ==
    /\ \A m \in Node : row[m].inc <= MaxInc
    /\ mem' = [mem EXCEPT ![n] = row]

\* _gossip to _pickTargets: the known live nodes and the seeds.  The fanout picks
\* among them, and what is lost at once was never sent.
Targets(n, row, known) == (Alive(row) \cup known) \ {n}
Sends(n, row, known) ==
    \E T \in SUBSET Targets(n, row, known) :
        /\ net' = net \cup [to : T, digest : {Digest(row)}]
        /\ Cardinality(net') <= MaxNet

Bumped(n, row, alive, cap) == [row EXCEPT ![n] = Record(@.inc + 1, alive, cap)]

-----------------------------------------------------------------------------
(* The node.                                                               *)

\* start(), also after stop(): the transport may then be deaf, which is the case
\* that every datagram to it is lost.
Start(n) ==
    /\ status[n] \in {"new", "stopped"}
    /\ status' = [status EXCEPT ![n] = "running"]
    /\ Becomes(n, Bumped(n, mem[n], TRUE, mem[n][n].cap))
    /\ router' = [router EXCEPT ![n] = Notified(n, @, mem'[n])]
    /\ UNCHANGED <<seeds, net, edited, events>>

\* stop() says goodbye and closes the transport.
Stop(n) ==
    /\ Event
    /\ status[n] = "running"
    /\ status' = [status EXCEPT ![n] = "stopped"]
    /\ Becomes(n, Bumped(n, mem[n], FALSE, mem[n][n].cap))
    /\ Sends(n, mem'[n], seeds[n])
    /\ UNCHANGED <<seeds, router, edited>>

Crash(n) ==
    /\ Event
    /\ status[n] = "running"
    /\ status' = [status EXCEPT ![n] = "down"]
    /\ UNCHANGED <<mem, seeds, net, router, edited>>

\* A new process under the same id.
Boot(n) ==
    /\ status[n] \in {"stopped", "down"}
    /\ status' = [status EXCEPT ![n] = "new"]
    /\ mem' = [mem EXCEPT ![n] = Booted(n)]
    /\ seeds' = [seeds EXCEPT ![n] = Seeds[n]]
    /\ router' = [router EXCEPT ![n] = NoRouter]
    /\ UNCHANGED <<net, edited, events>>

\* register() of the node itself, perhaps with another capacity; of another node it
\* only adds a seed.
Register(n, cap) ==
    /\ Event
    /\ status[n] = "running"
    /\ Becomes(n, Bumped(n, mem[n], TRUE, cap))
    /\ router' = [router EXCEPT ![n] = Notified(n, @, mem'[n])]
    /\ Sends(n, mem'[n], seeds[n])
    /\ edited' = IF cap = Capacity[n] THEN edited ELSE edited \cup {n}
    /\ UNCHANGED <<status, seeds>>

RegisterOther(n, m) ==
    /\ Event
    /\ status[n] = "running" /\ m # n
    /\ seeds' = [seeds EXCEPT ![n] = @ \cup {m}]
    /\ UNCHANGED <<status, mem, net, router, edited>>

\* Mutant: the record is deleted instead of marked dead.
DeregisterDeletes(n, m) ==
    /\ Event
    /\ status[n] = "running"
    /\ mem[n][m].alive
    /\ Becomes(n, [mem[n] EXCEPT ![m] = Unknown])
    /\ router' = [router EXCEPT ![n] = Notified(n, @, mem'[n])]
    /\ Sends(n, mem'[n], seeds[n])
    /\ edited' = IF m = n THEN edited \cup {n} ELSE edited
    /\ UNCHANGED <<status, seeds>>

Deregister(n, m) ==
    /\ Event
    /\ status[n] = "running"
    /\ mem[n][m].alive
    /\ Becomes(n, Bumped(m, mem[n], FALSE, mem[n][m].cap))
    /\ router' = [router EXCEPT ![n] = Notified(n, @, mem'[n])]
    /\ Sends(n, mem'[n], seeds[n])
    /\ edited' = IF m = n THEN edited \cup {n} ELSE edited
    /\ UNCHANGED <<status, seeds>>

\* _tick: the own incarnation, a sweep, a round of gossip.
Tick(n) ==
    /\ status[n] = "running"
    /\ LET row == [Swept(n) EXCEPT ![n].inc = @ + 1] IN
       /\ row[n].inc <= MaxTick /\ Becomes(n, row)
       /\ router' = [router EXCEPT ![n] = Watched(n, row)]
       /\ Sends(n, row, seeds[n] \ Forgotten(n))
    /\ seeds' = [seeds EXCEPT ![n] = @ \ Forgotten(n)]
    /\ UNCHANGED <<status, edited, events>>

\* _onReceive; a datagram may come again, late, or never.
Receive(n) ==
    /\ status[n] = "running"
    /\ \E d \in net :
          /\ d.to = n
          /\ Becomes(n, Merged(n, d.digest))
          /\ seeds' = [seeds EXCEPT ![n] = @ \cup (Known(mem'[n]) \ Known(mem[n]))]
          /\ net' \in {net, net \ {d}}
    /\ router' = [router EXCEPT ![n] = Watched(n, mem'[n])]
    /\ UNCHANGED <<status, edited, events>>

Ages(n, m) ==
    /\ Event
    /\ status[n] = "running" /\ m # n
    /\ mem[n][m].inc >= 0 /\ ~ mem[n][m].old
    /\ mem' = [mem EXCEPT ![n][m].old = TRUE]
    /\ UNCHANGED <<status, seeds, net, router, edited>>

-----------------------------------------------------------------------------
(* The reconciler and the router.                                          *)

\* The router puts its own node on the ring, with weight 1, and starts the
\* reconciler: watch, then list(), which sweeps first and answers later.
RouterStarts(n) ==
    /\ n \in Routers /\ status[n] = "running" /\ router[n] = NoRouter
    /\ Becomes(n, Swept(n))
    /\ LET watching == [NoRouter EXCEPT !.on = TRUE, !.ring[n] = 1]
           swept == IF Alive(mem'[n]) # Alive(mem[n]) THEN Notified(n, watching, mem'[n])
                                                      ELSE watching
       IN  router' = [router EXCEPT ![n] =
                         [swept EXCEPT !.list = Snapshot(mem'[n]), !.listing = TRUE]]
    /\ seeds' = [seeds EXCEPT ![n] = @ \ Forgotten(n)]
    /\ UNCHANGED <<status, net, edited, events>>

\* Mutant: the answer counts although a notification has overtaken it.
ListResolvesLate(n) ==
    /\ status[n] # "down" /\ router[n].listing
    /\ router' = [router EXCEPT ![n].listing = FALSE, ![n].list = NoNodes,
                                ![n].ring = Synced(n, @, router[n].list, FALSE)]
    /\ UNCHANGED <<status, mem, seeds, net, edited, events>>

\* The answer adds nodes and removes none, unless a notification came first.
ListResolves(n) ==
    /\ status[n] # "down" /\ router[n].listing
    /\ router' = [router EXCEPT ![n].listing = FALSE, ![n].list = NoNodes,
                                ![n].ring = IF router[n].seen THEN @
                                            ELSE Synced(n, @, router[n].list, FALSE)]
    /\ UNCHANGED <<status, mem, seeds, net, edited, events>>

\* dispose() ends the watch; an answer on its way is still applied.
RouterDisposed(n) ==
    /\ Event
    /\ status[n] = "running" /\ router[n].on
    /\ router' = [router EXCEPT ![n].on = FALSE]
    /\ UNCHANGED <<status, mem, seeds, net, edited>>

\* HashRing.get: the highest score.
OnRing(ring) == {m \in Node : ring[m] # 0}
Get(ring) ==
    CHOOSE m \in OnRing(ring) : \A k \in OnRing(ring) : Score[k][ring[k]] <= Score[m][ring[m]]

\* The owner of the room as the router of n names it: route(), owner(), isLocal().
Owner(n) == Get(router[n].ring)

NodeStep(n) ==
    \/ Start(n) \/ Stop(n) \/ Crash(n) \/ Boot(n) \/ Tick(n) \/ Receive(n)
    \/ \E cap \in Weight : Register(n, cap)
    \/ \E m \in Node : RegisterOther(n, m) \/ Deregister(n, m) \/ Ages(n, m)

RouterStep(n) == RouterStarts(n) \/ ListResolves(n) \/ RouterDisposed(n)

Next == \E n \in Node : NodeStep(n) \/ RouterStep(n)

Spec == Init /\ [][Next]_vars

-----------------------------------------------------------------------------
(* Properties.                                                             *)

\* The shape of the state; a node always knows itself, and of the others only what
\* is within the bound.
TypeOK ==
    /\ status \in [Node -> {"new", "running", "stopped", "down"}]
    /\ mem \in [Node -> [Node -> [inc : -1 .. MaxInc, alive : BOOLEAN, old : BOOLEAN, cap : Weight]]]
    /\ seeds \in [Node -> SUBSET Node]
    /\ net \subseteq [to : Node, digest : [Node -> [inc : -1 .. MaxInc, alive : BOOLEAN, cap : Weight]]]
    /\ router \in [Node -> [on : BOOLEAN, seen : BOOLEAN, ring : [Node -> Weight \cup {0}],
                            list : [Node -> Weight \cup {0}], listing : BOOLEAN]]
    /\ edited \subseteq Node
    /\ events \in 0 .. MaxEvents
    /\ \A n \in Node : mem[n][n].inc >= 0

\* Two running nodes gossip with each other.
Peers(a, b) ==
    /\ status[a] = "running" /\ status[b] = "running"
    /\ b \in Targets(a, mem[a], seeds[a]) /\ a \in Targets(b, mem[b], seeds[b])

\* Neither has news for the other.
Saturated(a, b) ==
    /\ Peers(a, b)
    /\ View(Merged(a, Digest(mem[b]))) = View(mem[a])
    /\ View(Merged(b, Digest(mem[a]))) = View(mem[b])

\* When an exchange of digests changes nothing, the two nodes have the same view of
\* the whole cluster, themselves included, and each sees the other alive: no false
\* death, no lost goodbye and no restart from incarnation 0 survives (_merge).
SaturatedAgree ==
    \A a, b \in Node : Saturated(a, b) =>
        /\ View(mem[a]) = View(mem[b])
        /\ mem[a][b].alive /\ mem[b][a].alive

\* Both routers follow the view of their node.
Following(a, b) == \A n \in {a, b} : router[n].on /\ ~ router[n].listing

\* Then their rings are the live nodes and name the same owner of a room, whatever
\* capacities weight them: every notification, sweep and restart that changed
\* who is alive has reached the ring with the weights, and no late list() puts a
\* dead node back (MembershipReconciler._sync, RoomRouter._upsert).  It takes that
\* no live node was edited by its host: an edit need not be notified (Gossip.ts:350).
RoomHasOneOwner ==
    \A a, b \in Node :
        /\ Saturated(a, b) /\ Following(a, b)
        /\ Alive(mem[a]) \cap edited = {}
        => OnRing(router[a].ring) = Alive(mem[a]) /\ Owner(a) = Owner(b)

-----------------------------------------------------------------------------
(* What a test and the documentation say and the code does not keep.       *)

\* Gossip.test.ts:294: "two nodes with the converged view route every room to the
\* same owner"; Membership.watch calls back "whenever membership changes".
ConvergedViewsRouteAlike ==
    \A a, b \in Node :
        /\ Saturated(a, b) /\ Following(a, b)
        /\ Digest(mem[a]) = Digest(mem[b])
        => Owner(a) = Owner(b)
=============================================================================
