----------------------------- MODULE SfuCluster -----------------------------
(***************************************************************************)
(* An SfuCluster with its HealthChecker and, on top of it, a               *)
(* CascadingRouter and a CascadeTree, each of which learns through a       *)
(* NodeFailureTracker that a node is lost (packages/sfu/src).              *)
(*                                                                         *)
(* An SfuNode is an object; its id may pass to another object when a node  *)
(* is replaced.  A room is served by the router or by a tree, not by both. *)
(***************************************************************************)
EXTENDS CascadePlan, SequencesExt

CONSTANTS
    Obj,              \* SfuNode objects
    IdOf,             \* node.id
    None,
    RouterRoom, TreeRoom,
    Viewers,          \* viewer counts that trees are built for
    FailThreshold, RecoverThreshold,
    MaxCalls          \* bound: calls of the host, other than to add a new node and to start checks

ASSUME SfuAssumption ==
    /\ RouterRoom \cap TreeRoom = {} /\ None \notin Obj
    /\ Viewers \subseteq Nat
    /\ {FailThreshold, RecoverThreshold} \subseteq Nat \ {0} /\ MaxCalls \in Nat

VARIABLES
    cluster, \* _nodes in the order of the map; _failStreak, _passStreak
    checker, \* HealthChecker: running, and the nodes whose probe is in flight
    tracker, \* NodeFailureTracker: _listeners, _gone; who has not disposed of it
    plane,   \* the SfuNodes; _assignments and _cascadeLinks; the room trees
    own,     \* history: failing probes in a row of every object while it is registered
    since,   \* history: failing results in a row under every id since its node was added
    left,    \* history: objects removed while they were draining
    calls    \* how often the host called

vars == <<cluster, checker, tracker, plane, own, since, left, calls>>

Id == {IdOf[o] : o \in Obj}
Room == RouterRoom \cup TreeRoom
NoTree == [ids |-> <<>>, viewers |-> 0, spare |-> 0, unmet |-> 0]

\* The objects as they are created.  History: an SfuNode was used, that is added to
\* the cluster, and added again.
NewNode == [used |-> FALSE, again |-> FALSE, failed |-> FALSE, drain |-> "no", rooms |-> {}]
NewTracker == [listeners |-> [i \in Id |-> None], gone |-> {}, watch |-> {"router", "tree"}]
NewPlane ==
    [obj |-> [o \in Obj |-> NewNode],
     assign |-> [r \in RouterRoom |-> None], links |-> [r \in RouterRoom |-> {}],
     tree |-> [r \in TreeRoom |-> NoTree]]

Init ==
    /\ cluster = [nodes |-> <<>>, fail |-> [i \in Id |-> 0], pass |-> [i \in Id |-> 0]]
    /\ checker = [on |-> FALSE, flight |-> {}]
    /\ tracker = NewTracker
    /\ plane = NewPlane
    /\ own = [o \in Obj |-> 0] /\ since = [i \in Id |-> 0]
    /\ left = {}
    /\ calls = 0

Call == calls < MaxCalls /\ calls' = calls + 1

Registered == ToSet(cluster.nodes)
HasId(i) == \E o \in Registered : IdOf[o] = i
\* The host adds a new node for free.
CallUnless(new) == IF new THEN UNCHANGED calls ELSE Call

Listens(o) == tracker.listeners[IdOf[o]] = o

\* The elements of sequence s that are in S, in their order: what filter() keeps.
Keeping(s, S) ==
    LET kept[k \in 0 .. Len(s)] ==
            IF k = 0 THEN <<>>
            ELSE IF s[k] \in S THEN Append(kept[k - 1], s[k]) ELSE kept[k - 1]
    IN  kept[Len(s)]

\* getActiveNodes: neither failed nor draining, in the order of the map.
Active(p) == {o \in Obj : ~ p.obj[o].failed /\ p.obj[o].drain = "no"}
ActiveNodes(nodes, p) == Keeping(nodes, Active(p))
ActivePool(nodes, p, origin) ==
    LET others == Keeping(nodes, {o \in Active(p) : IdOf[o] # origin})
    IN  [k \in DOMAIN others |-> IdOf[others[k]]]

-----------------------------------------------------------------------------
(* SfuNode: the rooms it serves, and the drain that waits for them.        *)

\* untrackRoom of the rooms in out, then trackRoom of those in in.
Retracked(x, out, in) ==
    [x EXCEPT !.rooms = (x.rooms \ out) \cup in,
              !.drain = IF x.drain = "waiting" /\ out # {} /\ x.rooms \subseteq out
                        THEN "resolved" ELSE x.drain]

\* The plane with node o in state x.
WithNode(p, o, x) == [p EXCEPT !.obj = [p.obj EXCEPT ![o] = x]]

-----------------------------------------------------------------------------
(* CascadeTree and CascadingRouter when a node is gone.                    *)

\* build() and detach() of the rooms in S: the trees become those of new, and every
\* registered node tracks a room of S or not as the room's tree has its id.
TreesBecome(nodes, p, S, new) ==
    [assign |-> p.assign, links |-> p.links, tree |-> new,
     obj |-> [o \in Obj |->
         IF o \in ToSet(nodes)
         THEN Retracked(p.obj[o],
                  {r \in S : IdOf[o] \in ToSet(p.tree[r].ids) \ ToSet(new[r].ids)},
                  {r \in S : IdOf[o] \in ToSet(new[r].ids)})
         ELSE p.obj[o]]]
TreeBecomes(nodes, p, r, t) == TreesBecome(nodes, p, {r}, [p.tree EXCEPT ![r] = t])

\* CascadeTree._onNodeGone for a room with node i: a lost origin ends the tree.
TreeAfter(nodes, p, t, i) ==
    IF i = t.ids[1] THEN NoTree
    ELSE Plan(t.ids[1], t.viewers, ActivePool(nodes, p, t.ids[1]))

\* The rooms are rebuilt one by one, and none of them changes which nodes are active.
TreesAfter(nodes, p, i) ==
    LET hit == {r \in TreeRoom : i \in ToSet(p.tree[r].ids)} IN
    TreesBecome(nodes, p, hit,
        [r \in TreeRoom |-> IF r \in hit THEN TreeAfter(nodes, p, p.tree[r], i) ELSE p.tree[r]])

\* Mutant: the cascade nodes of a room that lost its primary keep tracking it.
RoutesAfterLeaky(p, o) ==
    LET i == IdOf[o]
        lost == {r \in RouterRoom : p.assign[r] # None /\ IdOf[p.assign[r]] = i}
        cut == {r \in RouterRoom : \E n \in p.links[r] : IdOf[n] = i}
    IN  [assign |-> [r \in RouterRoom |-> IF r \in lost THEN None ELSE p.assign[r]],
         links |-> [r \in RouterRoom |->
             IF r \in lost THEN {} ELSE {n \in p.links[r] : IdOf[n] # i}],
         obj |-> [p.obj EXCEPT ![o] = Retracked(p.obj[o], lost \cup cut, {})],
         tree |-> p.tree]

\* CascadingRouter._handleNodeGone: rooms of the node lose their primary and, with
\* it, their cascades; other rooms lose the cascade to the node.
RoutesAfter(p, o) ==
    LET i == IdOf[o]
        lost == {r \in RouterRoom : p.assign[r] # None /\ IdOf[p.assign[r]] = i}
        cut == {r \in RouterRoom : \E n \in p.links[r] : IdOf[n] = i}
    IN  [assign |-> [r \in RouterRoom |-> IF r \in lost THEN None ELSE p.assign[r]],
         links |-> [r \in RouterRoom |->
             IF r \in lost THEN {} ELSE {n \in p.links[r] : IdOf[n] # i}],
         obj |-> [x \in Obj |-> Retracked(p.obj[x],
             {r \in lost : x \in p.links[r]} \cup IF x = o THEN lost \cup cut ELSE {}, {})],
         tree |-> p.tree]

-----------------------------------------------------------------------------
(* NodeFailureTracker.                                                     *)

\* _fireGone: once per id, the router first.
FireGone(o, nodes, p) ==
    IF IdOf[o] \in tracker.gone THEN p
    ELSE LET q == IF "router" \in tracker.watch THEN RoutesAfter(p, o) ELSE p IN
         IF "tree" \in tracker.watch THEN TreesAfter(nodes, q, IdOf[o]) ELSE q

\* Mutant: an id that was once gone stays so.
AttachKeepingGone(tr, o) ==
    IF tr.watch = {} \/ tr.listeners[IdOf[o]] # None THEN tr
    ELSE [tr EXCEPT !.listeners[IdOf[o]] = o]

\* _attach, the listener of NodeAdded.
Attach(tr, o) ==
    IF tr.watch = {} \/ tr.listeners[IdOf[o]] # None THEN tr
    ELSE [tr EXCEPT !.listeners[IdOf[o]] = o, !.gone = @ \ {IdOf[o]}]

\* The listener of NodeRemoved: a node that leaves while draining is not gone.
Detached(tr, o) ==
    IF tr.watch = {} THEN tr
    ELSE [tr EXCEPT !.listeners[IdOf[o]] = None,
                    !.gone = IF plane.obj[o].drain = "no" THEN @ \cup {IdOf[o]} ELSE @]

DisposeRouter ==
    /\ Call
    /\ \E w \in tracker.watch :
          tracker' = [listeners |-> IF tracker.watch = {w} THEN [i \in Id |-> None] ELSE tracker.listeners,
                      gone |-> IF tracker.watch = {w} THEN {} ELSE tracker.gone,
                      watch |-> tracker.watch \ {w}]
    /\ UNCHANGED <<cluster, checker, plane, own, since, left>>

-----------------------------------------------------------------------------
(* SfuCluster: its nodes.                                                  *)

\* Mutant: the streaks of the id survive the node.
RemovedKeepingStreak(o) ==
    LET nodes == Keeping(cluster.nodes, Obj \ {o}) IN
    [cluster |-> [cluster EXCEPT !.nodes = nodes],
     tracker |-> Detached(tracker, o),
     plane |-> IF plane.obj[o].drain = "no" THEN FireGone(o, nodes, plane) ELSE plane,
     left |-> IF plane.obj[o].drain = "no" THEN left ELSE left \cup {o}]

\* removeNode: the streaks of the id go with the node, then the listeners run.
Removed(o) ==
    LET nodes == Keeping(cluster.nodes, Obj \ {o}) IN
    [cluster |-> [nodes |-> nodes, fail |-> [cluster.fail EXCEPT ![IdOf[o]] = 0],
                  pass |-> [cluster.pass EXCEPT ![IdOf[o]] = 0]],
     tracker |-> Detached(tracker, o),
     plane |-> IF plane.obj[o].drain = "no" THEN FireGone(o, nodes, plane) ELSE plane,
     left |-> IF plane.obj[o].drain = "no" THEN left ELSE left \cup {o}]

RemoveNode(o) ==
    /\ Call
    /\ o \in Registered
    /\ LET s == Removed(o) IN
       cluster' = s.cluster /\ tracker' = s.tracker /\ plane' = s.plane /\ left' = s.left
    /\ own' = [own EXCEPT ![o] = 0]
    /\ UNCHANGED <<checker, since>>

\* SfuNode o is in the cluster, perhaps once more.
Added(p, o) == WithNode(p, o, [p.obj[o] EXCEPT !.used = TRUE, !.again = @ \/ p.obj[o].used])

\* Mutant: the node that has the id is not removed first.
AddNodeShadowing(o) ==
    /\ CallUnless(~ plane.obj[o].used)
    /\ cluster' = [cluster EXCEPT !.nodes = Append(@, o)]
    /\ tracker' = Attach(tracker, o)
    /\ plane' = Added(plane, o)
    /\ UNCHANGED <<checker, own, since, left>>

\* addNode replaces a node of the same id, which may be the object itself.
AddNode(o) ==
    /\ CallUnless(~ plane.obj[o].used)
    /\ LET kept == [cluster |-> cluster, tracker |-> tracker, plane |-> plane, left |-> left]
           s == IF HasId(IdOf[o])
                THEN Removed(CHOOSE x \in Registered : IdOf[x] = IdOf[o]) ELSE kept
       IN  /\ cluster' = [s.cluster EXCEPT !.nodes = Append(@, o)]
           /\ tracker' = Attach(s.tracker, o)
           /\ plane' = Added(s.plane, o)
           /\ left' = s.left
    /\ own' = [x \in Obj |-> IF IdOf[x] = IdOf[o] THEN 0 ELSE own[x]]
    /\ since' = [since EXCEPT ![IdOf[o]] = 0]
    /\ UNCHANGED checker

-----------------------------------------------------------------------------
(* Health checks.                                                          *)

StartHealthChecks ==
    /\ ~ checker.on
    /\ checker' = [checker EXCEPT !.on = TRUE]
    /\ UNCHANGED <<cluster, tracker, plane, own, since, left, calls>>

\* stop(), also by dispose(); probes in flight go on.
StopHealthChecks ==
    /\ Call
    /\ checker.on
    /\ checker' = [checker EXCEPT !.on = FALSE]
    /\ UNCHANGED <<cluster, tracker, plane, own, since, left>>

\* _tick: one probe per id, none of a draining node.
Tick ==
    /\ checker.on
    /\ LET probed == {o \in Registered : plane.obj[o].drain = "no"
                                         /\ \A x \in checker.flight : IdOf[x] # IdOf[o]}
       IN  /\ probed # {}
           /\ checker' = [checker EXCEPT !.flight = @ \cup probed]
    /\ UNCHANGED <<cluster, tracker, plane, own, since, left, calls>>

\* markFailed and its listeners.
MarkFailed(o) ==
    LET x == plane.obj[o]
        p == WithNode(plane, o, [x EXCEPT
                 !.failed = TRUE, !.drain = IF x.drain = "waiting" THEN "resolved" ELSE x.drain])
    IN  /\ plane' = IF Listens(o) THEN FireGone(o, cluster.nodes, p) ELSE p
        /\ tracker' = IF Listens(o) THEN [tracker EXCEPT !.gone = @ \cup {IdOf[o]}] ELSE tracker

MarkRecovered(o) ==
    /\ plane' = WithNode(plane, o, [plane.obj[o] EXCEPT !.failed = FALSE])
    /\ tracker' = IF Listens(o) THEN [tracker EXCEPT !.gone = @ \ {IdOf[o]}] ELSE tracker

\* _onHealthResult: streaks are kept by id, the flags are the object's.  A streak
\* is not told apart once it is at its threshold.
FailedCheck(o) ==
    LET i == IdOf[o]
        streak == Min({cluster.fail[i] + 1, FailThreshold})
        fails == ~ plane.obj[o].failed /\ streak >= FailThreshold
    IN  /\ cluster' = [cluster EXCEPT !.pass[i] = 0, !.fail[i] = IF fails THEN 0 ELSE streak]
        /\ IF fails THEN MarkFailed(o) ELSE UNCHANGED <<plane, tracker>>
        /\ own' = [own EXCEPT ![o] = IF o \in Registered THEN Min({@ + 1, FailThreshold}) ELSE 0]
        /\ since' = [since EXCEPT ![i] = Min({@ + 1, FailThreshold})]

PassedCheck(o) ==
    LET i == IdOf[o]
        streak == cluster.pass[i] + 1
        recovers == plane.obj[o].failed /\ streak >= RecoverThreshold
    IN  /\ cluster' = [cluster EXCEPT !.fail[i] = 0,
                                      !.pass[i] = IF recovers THEN 0
                                                  ELSE IF plane.obj[o].failed THEN streak ELSE @]
        /\ IF recovers THEN MarkRecovered(o) ELSE UNCHANGED <<plane, tracker>>
        /\ own' = [own EXCEPT ![o] = 0] /\ since' = [since EXCEPT ![i] = 0]

\* A probe answers, fails or times out.  The answer counts if the checks run and
\* the id is registered, though perhaps for another object.
ProbeSettles(o) ==
    /\ o \in checker.flight
    /\ checker' = [checker EXCEPT !.flight = @ \ {o}]
    /\ IF checker.on /\ HasId(IdOf[o])
       THEN FailedCheck(o) \/ PassedCheck(o)
       ELSE UNCHANGED <<cluster, tracker, plane, own, since>>
    /\ UNCHANGED <<left, calls>>

-----------------------------------------------------------------------------
(* Draining.                                                               *)

Drain(o) ==
    /\ Call
    /\ o \in Registered /\ plane.obj[o].drain = "no"
    /\ plane' = WithNode(plane, o, [plane.obj[o] EXCEPT
                    !.drain = IF plane.obj[o].rooms = {} THEN "resolved" ELSE "waiting"])
    /\ UNCHANGED <<cluster, checker, tracker, own, since, left>>

DrainTimeout(o) ==
    /\ plane.obj[o].drain = "waiting"
    /\ plane' = WithNode(plane, o, [plane.obj[o] EXCEPT !.drain = "resolved"])
    /\ UNCHANGED <<cluster, checker, tracker, own, since, left, calls>>

\* drain() goes on after its await.
Drained(o) ==
    /\ plane.obj[o].drain = "resolved"
    /\ plane' = WithNode(plane, o, [plane.obj[o] EXCEPT !.drain = "no"])
    /\ UNCHANGED <<cluster, checker, tracker, own, since, left, calls>>

-----------------------------------------------------------------------------
(* Rooms.                                                                  *)

\* assignNode: whichever active node the placement strategy selects.
Selectable == ToSet(ActiveNodes(cluster.nodes, plane))

\* attachRoom: the first node of a room is its primary, another one a cascade.
AttachRoom(r) ==
    /\ Call
    /\ \E o \in Selectable :
          \/ /\ plane.assign[r] = None
             /\ plane' = [WithNode(plane, o, Retracked(plane.obj[o], {}, {r})) EXCEPT
                              !.assign = [plane.assign EXCEPT ![r] = o]]
          \/ /\ plane.assign[r] # None
             /\ IdOf[o] \notin {IdOf[n] : n \in plane.links[r] \cup {plane.assign[r]}}
             /\ plane' = [WithNode(plane, o, Retracked(plane.obj[o], {}, {r})) EXCEPT
                              !.links = [plane.links EXCEPT ![r] = plane.links[r] \cup {o}]]
    /\ UNCHANGED <<cluster, checker, tracker, own, since, left>>

DetachRoom(r) ==
    /\ Call
    /\ plane.assign[r] # None
    /\ plane' = [assign |-> [plane.assign EXCEPT ![r] = None],
                 links |-> [plane.links EXCEPT ![r] = {}],
                 obj |-> [o \in Obj |-> Retracked(plane.obj[o],
                     IF o \in plane.links[r] \cup {plane.assign[r]} THEN {r} ELSE {}, {})],
                 tree |-> plane.tree]
    /\ UNCHANGED <<cluster, checker, tracker, own, since, left>>

\* build(): at an active origin.
Build(r) ==
    /\ Call
    /\ \E o \in ToSet(ActiveNodes(cluster.nodes, plane)), v \in Viewers :
          plane' = TreeBecomes(cluster.nodes, plane, r,
                       Plan(IdOf[o], v, ActivePool(cluster.nodes, plane, IdOf[o])))
    /\ UNCHANGED <<cluster, checker, tracker, own, since, left>>

Detach(r) ==
    /\ Call
    /\ plane.tree[r] # NoTree
    /\ plane' = TreeBecomes(cluster.nodes, plane, r, NoTree)
    /\ UNCHANGED <<cluster, checker, tracker, own, since, left>>

Next ==
    \/ StartHealthChecks \/ StopHealthChecks \/ Tick \/ DisposeRouter
    \/ \E o \in Obj : AddNode(o) \/ RemoveNode(o) \/ ProbeSettles(o)
                      \/ Drain(o) \/ DrainTimeout(o) \/ Drained(o)
    \/ \E r \in RouterRoom : AttachRoom(r) \/ DetachRoom(r)
    \/ \E r \in TreeRoom : Build(r) \/ Detach(r)

Spec == Init /\ [][Next]_vars

-----------------------------------------------------------------------------
(* Properties.                                                             *)

\* The shape of the state: ids are unique among the registered nodes and among
\* the probes in flight, and a watched cluster is listened to at every node.
TypeOK ==
    /\ cluster \in [nodes : Seq(Obj), fail : [Id -> 0 .. FailThreshold], pass : [Id -> 0 .. RecoverThreshold]]
    /\ checker \in [on : BOOLEAN, flight : SUBSET Obj]
    /\ tracker \in [listeners : [Id -> Obj \cup {None}], gone : SUBSET Id, watch : SUBSET {"router", "tree"}]
    /\ plane.assign \in [RouterRoom -> Obj \cup {None}] /\ plane.links \in [RouterRoom -> SUBSET Obj]
    /\ plane.obj \in [Obj -> [used : BOOLEAN, again : BOOLEAN, failed : BOOLEAN, rooms : SUBSET Room,
                              drain : {"no", "waiting", "resolved"}]]
    /\ own \in [Obj -> 0 .. FailThreshold] /\ since \in [Id -> 0 .. FailThreshold]
    /\ left \subseteq Obj /\ calls \in 0 .. MaxCalls
    /\ \A S \in {Registered, checker.flight} : \A o, x \in S : IdOf[o] = IdOf[x] => o = x
    /\ tracker.watch # {} =>
         \A i \in Id : tracker.listeners[i] = IF HasId(i) THEN CHOOSE o \in Registered : IdOf[o] = i ELSE None

Serving(i) == \E o \in Registered : IdOf[o] = i /\ ~ plane.obj[o].failed

\* While the router and the tree watch the cluster, no room stays on a node that is
\* failed, removed or replaced (_handleNodeGone, _onNodeGone), with one exception
\* the tracker makes: the node left while it was draining (NodeFailureTracker.ts:34).
AssignmentsServed ==
    /\ "router" \in tracker.watch =>
         \A r \in RouterRoom : \A o \in plane.links[r] \cup ({plane.assign[r]} \ {None}) :
             (o \in Registered /\ ~ plane.obj[o].failed) \/ o \in left
    /\ "tree" \in tracker.watch =>
         \A r \in TreeRoom : \A i \in ToSet(plane.tree[r].ids) :
             Serving(i) \/ i \in {IdOf[o] : o \in left}

\* Node o, or the node of id i, serves room r.
Routed(p, r, o) == o \in p.links[r] \/ p.assign[r] = o
InTree(p, r, i) == i \in ToSet(p.tree[r].ids)

\* A registered node tracks every room that it serves, and no other, so that a drain
\* waits for them and for nothing else.  Two exceptions: an id that a node left while
\* draining, and rooms of trees at a node that was added again (DetachUntracksAll).
TrackingMatches ==
    \A o \in Registered :
        /\ \A x \in left : IdOf[x] # IdOf[o]
        /\ tracker.watch = {"router", "tree"}
        => /\ \A r \in RouterRoom : r \in plane.obj[o].rooms <=> Routed(plane, r, o)
           /\ \A r \in TreeRoom : InTree(plane, r, IdOf[o]) => r \in plane.obj[o].rooms
           /\ \A r \in TreeRoom : r \in plane.obj[o].rooms => InTree(plane, r, IdOf[o]) \/ plane.obj[o].again

\* detach() untracks "every participating node" (CascadeTree.ts:359): no registered
\* node tracks a room that has no tree.  The code misses a node that the cluster has
\* just removed, which tracks the room still when the host adds it again.
DetachUntracksAll ==
    \A r \in TreeRoom : plane.tree[r] = NoTree =>
        \A o \in Registered : r \notin plane.obj[o].rooms

\* A registered node is declared failed on FailThreshold failures in a row that were
\* all reported since it was added (removeNode clears the streaks); at most one of
\* them was a late probe of the node that had the id before it (HealthChecker._tick).
FailureNeedsEvidence ==
    [][\A o \in Registered :
          ~ plane.obj[o].failed /\ plane'.obj[o].failed =>
              since'[IdOf[o]] >= FailThreshold /\ own'[o] >= FailThreshold - 1]_vars

\* unmetViewers is the "Number of viewers that could not be seated due to insufficient
\* capacity" (CascadeTree.ts:62), on which the host adds nodes: when a tree was built
\* with a shortfall, no active node was left out of it.  The code takes nodes as if each
\* seated viewersPerNode, which a node of a smaller capacity does not.
ShortfallMeansFull ==
    \A r \in TreeRoom : plane.tree[r].unmet > 0 => plane.tree[r].spare = 0
=============================================================================
