-------------------------- MODULE SfuClusterProofs --------------------------
(***************************************************************************)
(* Proofs about SfuCluster: the types, that rooms stay on nodes that serve *)
(* them, that nodes track the rooms they serve, and that a node is failed  *)
(* only on evidence; for any number of nodes, rooms and calls and for all  *)
(* thresholds.                                                             *)
(***************************************************************************)
EXTENDS SfuCluster, SequenceTheorems, WellFoundedInduction, TLAPS

\* The ranges of the fields, so that the provers need not look into them.
Fails  == 0 .. FailThreshold
Passes == 0 .. RecoverThreshold
Drains == {"no", "waiting", "resolved"}
Rooms  == SUBSET Room
TreeRooms == SUBSET TreeRoom
Who    == SUBSET {"router", "tree"}
Slots  == Obj \cup {None}

NodeType    == [used : BOOLEAN, again : BOOLEAN, failed : BOOLEAN, drain : Drains, rooms : Rooms]
ClusterType == [nodes : Seq(Obj), fail : [Id -> Fails], pass : [Id -> Passes]]
CheckerType == [on : BOOLEAN, flight : SUBSET Obj]
TrackerType == [listeners : [Id -> Slots], gone : SUBSET Id, watch : Who]

\* The room trees: nodes and viewers.
IsTree(t) == t.ids \in Seq(Id) /\ t.viewers \in Nat
AreTrees(d) == d = [r \in TreeRoom |-> d[r]] /\ \A r \in TreeRoom : IsTree(d[r])
IsPlane(p) ==
    /\ p = [obj |-> p.obj, assign |-> p.assign, links |-> p.links, tree |-> p.tree]
    /\ p.obj \in [Obj -> NodeType] /\ p.assign \in [RouterRoom -> Slots]
    /\ p.links \in [RouterRoom -> SUBSET Obj] /\ AreTrees(p.tree)

Typing ==
    /\ cluster \in ClusterType /\ checker \in CheckerType /\ tracker \in TrackerType
    /\ IsPlane(plane)
    /\ own \in [Obj -> Fails] /\ since \in [Id -> Fails]
    /\ left \in SUBSET Obj /\ calls \in 0 .. MaxCalls

-----------------------------------------------------------------------------
(* The inductive invariant.                                                *)

\* Ids are unique among the registered nodes and among the probes in flight.
Distinct(S) == \A o, x \in S : IdOf[o] = IdOf[x] => o = x

\* A watched cluster is listened to at every node, and nowhere else.
Listened(R, t) ==
    t.watch # {} => /\ \A o \in R : t.listeners[IdOf[o]] = o
                    /\ \A i \in Id : (\A o \in R : IdOf[o] # i) => t.listeners[i] = None

\* A node that serves is not among those whose loss was reported.
GoneAreLost(R, p, t) ==
    t.watch # {} => \A o \in R : ~ p.obj[o].failed => IdOf[o] \notin t.gone

\* Nodes that are or were registered have been used; an object that was not used yet
\* has no room.
AreUsed(R, p, F, L) ==
    /\ \A o \in R \cup F \cup L : p.obj[o].used
    /\ \A o \in Obj : ~ p.obj[o].used =>
          p.obj[o].rooms = {} /\ \A r \in RouterRoom : ~ Routed(p, r, o)

\* The parts of AssignmentsServed and of TrackingMatches.
LeftId(L, i) == \E x \in L : IdOf[x] = i
RouterServed(R, p, L) ==
    \A r \in RouterRoom, o \in Obj : Routed(p, r, o) => (o \in R /\ ~ p.obj[o].failed) \/ o \in L
TreeServed(R, p, L) ==
    \A r \in TreeRoom, i \in Id : InTree(p, r, i) =>
        (\E o \in R : IdOf[o] = i /\ ~ p.obj[o].failed) \/ LeftId(L, i)
RoutesFit(p, o) == \A r \in RouterRoom : r \in p.obj[o].rooms <=> Routed(p, r, o)
TreesFit(p, o) ==
    \A r \in TreeRoom : /\ InTree(p, r, IdOf[o]) => r \in p.obj[o].rooms
                        /\ r \in p.obj[o].rooms => InTree(p, r, IdOf[o]) \/ p.obj[o].again

\* The rooms of the router fit at a node that was removed as well: it may come back.
Tracked(R, p, L) ==
    \A o \in Obj : ~ LeftId(L, IdOf[o]) => RoutesFit(p, o) /\ (o \in R => TreesFit(p, o))

PlaneInv(R, p, L, w) ==
    /\ "router" \in w => RouterServed(R, p, L)
    /\ "tree" \in w => TreeServed(R, p, L)
    /\ w = {"router", "tree"} => Tracked(R, p, L)

\* A streak of failures under an id was reported since the node of that id was added,
\* and at most one of them was a probe of its predecessor: as long as that one is in
\* flight there is no streak.
Streaks(R, F, fail, o1, s1) ==
    /\ \A i \in Id : fail[i] <= s1[i] /\ ((\A o \in R : IdOf[o] # i) => fail[i] = 0)
    /\ \A o \in R : fail[IdOf[o]] <= o1[o] + 1
    /\ \A o \in R, x \in F : x # o /\ IdOf[x] = IdOf[o] => fail[IdOf[o]] = 0

IndInv ==
    /\ Typing
    /\ Distinct(Registered) /\ Distinct(checker.flight)
    /\ Listened(Registered, tracker) /\ GoneAreLost(Registered, plane, tracker)
    /\ AreUsed(Registered, plane, checker.flight, left)
    /\ PlaneInv(Registered, plane, left, tracker.watch)
    /\ Streaks(Registered, checker.flight, cluster.fail, own, since)

-----------------------------------------------------------------------------
(* Recursive definitions.                                                  *)

\* A set of natural numbers that is not empty has a least element.
LEMMA LeastNatural ==
    ASSUME NEW T \in SUBSET Nat, T # {}
    PROVE  \E m \in T : \A n \in T : m <= n
<1> DEFINE R == OpToRel(<, Nat)
<1>1. \A x, y \in Nat : <<x, y>> \in R <=> x < y
  BY DEF OpToRel
<1>2. IsWellFoundedOn(R, Nat)
  BY NatLessThanWellFounded
<1> HIDE DEF R
<1>3. PICK m \in T : \A y \in T : ~ (<<y, m>> \in R)
  BY <1>2, WFMin
<1>4. ASSUME NEW n \in T PROVE m <= n
  <2>1. m \in Nat /\ n \in Nat
    OBVIOUS
  <2>2. ~ (n < m)
    BY <1>1, <1>3, <2>1, Zenon
  <2> QED
    BY <2>1, <2>2
<1> QED
  BY <1>4

\* f solves a recursion over the numbers up to n.
Solution(f, n, V, base, step) ==
    /\ f \in [0 .. n -> V] /\ f[0] = base
    /\ \A k \in 1 .. n : f[k] = step[k][f[k - 1]]

\* It has one: no number is the least at which a solution cannot be continued.
LEMMA Recursion ==
    ASSUME NEW n \in Nat, NEW V, NEW base \in V, NEW step \in [1 .. n -> [V -> V]]
    PROVE  \E f : Solution(f, n, V, base, step)
<1> DEFINE Solves(f, m) == /\ f \in [0 .. m -> V] /\ f[0] = base
                           /\ \A k \in 1 .. m : f[k] = step[k][f[k - 1]]
           T == {m \in 0 .. n : \A f : ~ Solves(f, m)}
<1>1. ASSUME T # {} PROVE FALSE
  <2>0. T \in SUBSET Nat
    OBVIOUS
  <2> HIDE DEF T
  <2>1. PICK m \in T : \A l \in T : m <= l
    BY <1>1, <2>0, LeastNatural
  <2> USE DEF T
  <2> HIDE DEF Solves
  <2>2. m # 0
    <3>1. PICK f : f = [k \in 0 .. 0 |-> base]
      OBVIOUS
    <3>2. Solves(f, 0)
      BY <3>1 DEF Solves
    <3> QED
      BY <2>1, <3>2
  <2>3. m - 1 \in 0 .. n /\ m - 1 \notin T /\ m \in 1 .. n
    BY <2>1, <2>2
  <2>4. PICK f : Solves(f, m - 1)
    BY <2>3
  <2> USE DEF Solves
  <2>5. PICK g : g = [k \in 0 .. m |-> IF k = m THEN step[m][f[m - 1]] ELSE f[k]]
    OBVIOUS
  <2>6. step[m] \in [V -> V] /\ f[m - 1] \in V
    BY <2>3, <2>4
  <2>7. step[m][f[m - 1]] \in V
    BY <2>6
  <2>8. g \in [0 .. m -> V]
    <3>1. ASSUME NEW k \in 0 .. m PROVE g[k] \in V
      BY <2>3, <2>4, <2>5, <2>7
    <3> QED
      BY <2>5, <3>1
  <2>9. g[0] = base
    BY <2>3, <2>4, <2>5
  <2>10. ASSUME NEW k \in 1 .. m PROVE g[k] = step[k][g[k - 1]]
    BY <2>3, <2>4, <2>5
  <2>11. Solves(g, m)
    BY <2>8, <2>9, <2>10
  <2> QED
    BY <2>1, <2>11
<1>2. n \notin T
  BY <1>1
<1> QED
  BY <1>2 DEF Solution

\* The elements of a sequence, and of one that is longer by one.
LEMMA Elements ==
    ASSUME NEW S, NEW q \in Seq(S)
    PROVE  /\ ToSet(q) = {q[k] : k \in 1 .. Len(q)} /\ ToSet(q) \subseteq S
           /\ \A x \in S : Append(q, x) \in Seq(S) /\ ToSet(Append(q, x)) = ToSet(q) \cup {x}
           /\ ToSet(<<>>) = {}
<1>1. ToSet(q) = {q[k] : k \in 1 .. Len(q)} /\ ToSet(q) \subseteq S /\ Len(q) \in Nat
  BY DEF ToSet
<1>2. ASSUME NEW x \in S PROVE Append(q, x) \in Seq(S) /\ ToSet(Append(q, x)) = ToSet(q) \cup {x}
  <2>0. PICK p : p = Append(q, x)
    OBVIOUS
  <2>1. /\ p \in Seq(S) /\ p = Append(q, x) /\ Len(p) = Len(q) + 1 /\ p[Len(q) + 1] = x
        /\ \A k \in 1 .. Len(q) : p[k] = q[k]
    BY <2>0
  <2>2. ToSet(p) = {p[k] : k \in 1 .. Len(p)}
    BY <2>1 DEF ToSet
  <2>3. ASSUME NEW y \in ToSet(p) PROVE y \in ToSet(q) \cup {x}
    <3>1. PICK k \in 1 .. Len(p) : y = p[k]
      BY <2>2, <2>3
    <3>2. k = Len(q) + 1 \/ k \in 1 .. Len(q)
      BY <1>1, <2>1, <3>1
    <3> QED
      BY <1>1, <2>1, <3>1, <3>2
  <2>4. ASSUME NEW y \in ToSet(q) PROVE y \in ToSet(p)
    <3>1. PICK k \in 1 .. Len(q) : y = q[k]
      BY <1>1, <2>4
    <3> QED
      BY <1>1, <2>1, <2>2, <3>1
  <2>5. x \in ToSet(p)
    BY <1>1, <2>1, <2>2
  <2> QED
    BY <2>1, <2>3, <2>4, <2>5
<1>3. ToSet(<<>>) = {}
  BY DEF ToSet
<1> QED
  BY <1>1, <1>2, <1>3

\* The empty sequence has no element.
LEMMA NoElements == ToSet(<<>>) = {}
  BY DEF ToSet

\* filter() keeps what is in S and nothing else.
LEMMA KeepingFacts ==
    ASSUME NEW s \in Seq(Obj), NEW S
    PROVE  Keeping(s, S) \in Seq(Obj) /\ ToSet(Keeping(s, S)) = ToSet(s) \cap S
<1> DEFINE n == Len(s)
           Step(v, k) == IF s[k] \in S THEN Append(v, s[k]) ELSE v
           Rule(f) == [k \in 0 .. n |-> IF k = 0 THEN <<>> ELSE Step(f[k - 1], k)]
           kept == CHOOSE f : f = Rule(f)
<1>1. n \in Nat /\ \A k \in 1 .. n : s[k] \in Obj
  OBVIOUS
<1>2. Keeping(s, S) = kept[n]
  BY DEF Keeping
<1>3. PICK step : step = [k \in 1 .. n |-> [v \in Seq(Obj) |-> Step(v, k)]]
  OBVIOUS
<1>4. \A k \in 1 .. n, v \in Seq(Obj) : Step(v, k) \in Seq(Obj)
  BY <1>1
<1> HIDE DEF Step
<1>5. step \in [1 .. n -> [Seq(Obj) -> Seq(Obj)]]
  BY <1>3, <1>4
<1>6. PICK f : Solution(f, n, Seq(Obj), <<>>, step)
  <2>1. <<>> \in Seq(Obj)
    OBVIOUS
  <2> HIDE DEF n
  <2> QED
    BY <1>1, <1>5, <2>1, Recursion, Zenon
<1>7. f = Rule(f)
  <2>1. f \in [0 .. n -> Seq(Obj)] /\ f[0] = <<>> /\ \A k \in 1 .. n : f[k] = step[k][f[k - 1]]
    BY <1>6 DEF Solution
  <2>2. ASSUME NEW k \in 1 .. n PROVE f[k] = Step(f[k - 1], k)
    <3>1. f[k - 1] \in Seq(Obj)
      BY <1>1, <2>1
    <3> QED
      BY <1>3, <2>1, <3>1
  <2>3. ASSUME NEW k \in 0 .. n PROVE f[k] = IF k = 0 THEN <<>> ELSE Step(f[k - 1], k)
    BY <1>1, <2>1, <2>2
  <2> QED
    BY <2>1, <2>3
<1>8. kept = Rule(kept)
  BY <1>7, Zenon
<1> HIDE DEF kept
<1>9. PICK g : g = kept /\ g = Rule(g)
  BY <1>8
<1>10. /\ g[0] = <<>>
       /\ \A k \in 1 .. n : g[k] = Step(g[k - 1], k)
  BY <1>1, <1>9
<1> DEFINE Good(k) == g[k] \in Seq(Obj) /\ ToSet(g[k]) = {s[j] : j \in 1 .. k} \cap S
           T == {k \in 0 .. n : ~ Good(k)}
<1>11. Good(0)
  BY <1>10, Elements
<1>12. ASSUME NEW k \in 1 .. n, Good(k - 1) PROVE Good(k)
  <2>1. PICK q \in Seq(Obj) : q = g[k - 1] /\ ToSet(q) = {s[j] : j \in 1 .. k - 1} \cap S
    BY <1>12
  <2>2. g[k] = IF s[k] \in S THEN Append(q, s[k]) ELSE q
    BY <1>10, <2>1 DEF Step
  <2>3. {s[j] : j \in 1 .. k} = {s[j] : j \in 1 .. k - 1} \cup {s[k]}
    BY <1>1
  <2>4. s[k] \in Obj
    BY <1>1
  <2>5. CASE s[k] \in S
    <3>1. g[k] \in Seq(Obj) /\ ToSet(g[k]) = ToSet(q) \cup {s[k]}
      BY <2>2, <2>4, <2>5, Elements
    <3> QED
      BY <2>1, <2>3, <2>5, <3>1
  <2>6. CASE s[k] \notin S
    BY <2>1, <2>2, <2>3, <2>6
  <2> QED
    BY <2>5, <2>6
<1> HIDE DEF Good
<1>13. ASSUME T # {} PROVE FALSE
  <2>1. T \in SUBSET Nat
    BY <1>1
  <2>2. PICK k \in T : \A l \in T : k <= l
    BY <1>13, <2>1, LeastNatural
  <2>3. k \in 1 .. n /\ k - 1 \in 0 .. n
    BY <1>1, <1>11, <2>2
  <2>4. Good(k - 1)
    BY <2>2, <2>3
  <2> QED
    BY <1>12, <2>2, <2>3, <2>4
<1>14. Good(n)
  BY <1>1, <1>13
<1>15. ToSet(s) = {s[j] : j \in 1 .. n}
  BY Elements
<1> QED
  BY <1>2, <1>9, <1>14, <1>15 DEF Good

-----------------------------------------------------------------------------
(* Plans and pools.                                                        *)

\* The lesser of two numbers.
LEMMA Lesser ==
    ASSUME NEW a \in Nat, NEW b \in Nat
    PROVE  Min({a, b}) \in Nat /\ Min({a, b}) \in {a, b} /\ Min({a, b}) <= a /\ Min({a, b}) <= b
  BY DEF Min

\* A plan takes no more nodes than there are in the pool.
LEMMA GrownFacts ==
    ASSUME NEW size \in Nat, NEW viewers \in Nat
    PROVE  Grown(size, viewers) \in 0 .. size
<1> DEFINE V == [used : 0 .. size, width : Nat]
           Step(g) == IF g.width * ViewersPerNode < viewers /\ g.used < size
                      THEN LET n == Min({g.width * Fanout, size - g.used}) IN
                           [used |-> g.used + n, width |-> n]
                      ELSE g
           Rule(f) == [t \in 0 .. size |-> IF t = 0 THEN [used |-> 0, width |-> 1] ELSE Step(f[t - 1])]
           grown == CHOOSE f : f = Rule(f)
<1>1. Grown(size, viewers) = grown[size].used
  BY DEF Grown
<1>2. ASSUME NEW g \in V PROVE Step(g) \in V
  <2>1. g.used \in 0 .. size /\ g.width \in Nat /\ Fanout \in Nat
    BY PlanAssumption
  <2>2. PICK w \in Nat : w = g.width * Fanout
    BY <2>1
  <2>3. CASE g.width * ViewersPerNode < viewers /\ g.used < size
    <3>1. size - g.used \in Nat
      BY <2>1, <2>3
    <3>2. PICK n \in Nat : n = Min({w, size - g.used}) /\ n <= size - g.used
      BY <3>1, Lesser
    <3>3. Step(g) = [used |-> g.used + n, width |-> n]
      BY <2>2, <2>3, <3>2
    <3>4. g.used + n \in 0 .. size
      BY <2>1, <3>2
    <3> QED
      BY <3>3, <3>4
  <2>4. CASE ~ (g.width * ViewersPerNode < viewers /\ g.used < size)
    BY <2>4
  <2> QED
    BY <2>3, <2>4
<1>3. [used |-> 0, width |-> 1] \in V
  OBVIOUS
<1> HIDE DEF Step, V
<1>4. PICK step : step = [t \in 1 .. size |-> [g \in V |-> Step(g)]]
  OBVIOUS
<1>5. step \in [1 .. size -> [V -> V]]
  BY <1>2, <1>4
<1>6. PICK f : Solution(f, size, V, [used |-> 0, width |-> 1], step)
  <2>1. PICK e \in V : e = [used |-> 0, width |-> 1]
    BY <1>3
  <2>2. \E f : Solution(f, size, V, e, step)
    BY <1>5, Recursion, Zenon
  <2> QED
    BY <2>1, <2>2
<1>7. f = Rule(f)
  <2>1. /\ f \in [0 .. size -> V] /\ f[0] = [used |-> 0, width |-> 1]
        /\ \A t \in 1 .. size : f[t] = step[t][f[t - 1]]
    BY <1>6 DEF Solution
  <2>2. ASSUME NEW t \in 1 .. size PROVE f[t] = Step(f[t - 1])
    <3>1. f[t - 1] \in V
      BY <2>1
    <3> QED
      BY <1>4, <2>1, <3>1
  <2>3. ASSUME NEW t \in 0 .. size PROVE f[t] = IF t = 0 THEN [used |-> 0, width |-> 1] ELSE Step(f[t - 1])
    BY <2>1, <2>2
  <2> QED
    BY <2>1, <2>3
<1>8. grown = Rule(grown)
  BY <1>7, Zenon
<1> HIDE DEF grown
<1>9. PICK g : g = grown /\ g = Rule(g)
  BY <1>8
<1>10. /\ g[0] = [used |-> 0, width |-> 1]
       /\ \A t \in 1 .. size : g[t] = Step(g[t - 1])
  <2>1. PICK h : h = Rule(g) /\ g = h
    BY <1>9
  <2>2. ASSUME NEW t \in 0 .. size PROVE h[t] = IF t = 0 THEN [used |-> 0, width |-> 1] ELSE Step(g[t - 1])
    BY <2>1
  <2>3. 0 \in 0 .. size /\ \A t \in 1 .. size : t \in 0 .. size /\ t # 0
    OBVIOUS
  <2> QED
    BY <2>1, <2>2, <2>3, Zenon
<1> DEFINE Fine(t) == g[t] \in V
           T == {t \in 0 .. size : ~ Fine(t)}
<1>11. Fine(0)
  BY <1>3, <1>10
<1>12. ASSUME NEW t \in 1 .. size, Fine(t - 1) PROVE Fine(t)
  BY <1>2, <1>10, <1>12
<1> HIDE DEF Fine
<1>13. ASSUME T # {} PROVE FALSE
  <2>1. T \in SUBSET Nat
    OBVIOUS
  <2> HIDE DEF T
  <2>2. PICK t \in T : \A l \in T : t <= l
    BY <1>13, <2>1, LeastNatural
  <2> USE DEF T
  <2>3. t \in 1 .. size /\ t - 1 \in 0 .. size
    BY <1>11, <2>2
  <2>4. Fine(t - 1)
    BY <2>2, <2>3
  <2> QED
    BY <1>12, <2>2, <2>3, <2>4
<1>14. Fine(size)
  BY <1>13
<1> QED
  BY <1>1, <1>9, <1>14 DEF Fine, V

\* A plan starts at its origin and takes its other nodes from the pool.
LEMMA PlanFacts ==
    ASSUME NEW origin \in Id, NEW viewers \in Nat, NEW pool \in Seq(Id)
    PROVE  /\ IsTree(Plan(origin, viewers, pool))
           /\ ToSet(Plan(origin, viewers, pool).ids) \subseteq {origin} \cup ToSet(pool)
<1>1. PICK used \in 0 .. Len(pool) : used = Grown(Len(pool), viewers)
  <2>1. Len(pool) \in Nat
    OBVIOUS
  <2> QED
    BY <2>1, GrownFacts
<1>2. PICK q : q = SubSeq(pool, 1, used)
  OBVIOUS
<1>3. q \in Seq(Id) /\ Len(q) = used /\ \A k \in 1 .. used : q[k] = pool[k]
  BY <1>1, <1>2
<1>4. PICK ids : ids = <<origin>> \o q
  OBVIOUS
<1>5. <<origin>> \in Seq(Id)
  OBVIOUS
<1>6. ids \in Seq(Id) /\ Len(ids) = used + 1 /\ ids[1] = origin /\ \A k \in 1 .. used : ids[k + 1] = pool[k]
  BY <1>1, <1>3, <1>4, <1>5
<1>7. Plan(origin, viewers, pool).ids = ids /\ Plan(origin, viewers, pool).viewers = viewers
  BY <1>1, <1>2, <1>4 DEF Plan
<1>8. ASSUME NEW x \in ToSet(ids) PROVE x \in {origin} \cup ToSet(pool)
  <2>1. PICK k \in 1 .. used + 1 : x = ids[k]
    BY <1>6, <1>8, Elements
  <2>2. CASE k = 1
    BY <1>6, <2>1, <2>2
  <2>3. CASE k # 1
    <3>1. k - 1 \in 1 .. used /\ k - 1 \in 1 .. Len(pool)
      BY <1>1, <2>1, <2>3
    <3>2. x = pool[k - 1]
      BY <1>6, <2>1, <3>1
    <3> QED
      BY <3>1, <3>2, Elements
  <2> QED
    BY <2>2, <2>3
<1> QED
  BY <1>6, <1>7, <1>8 DEF IsTree

\* The pool of a plan: ids of nodes that are registered and active.
LEMMA PoolFacts ==
    ASSUME NEW nodes \in Seq(Obj), NEW p, NEW origin
    PROVE  /\ ActivePool(nodes, p, origin) \in Seq(Id)
           /\ \A i \in ToSet(ActivePool(nodes, p, origin)) :
                 \E o \in ToSet(nodes) : IdOf[o] = i /\ o \in Active(p)
<1>1. PICK q \in Seq(Obj) : /\ q = Keeping(nodes, {o \in Active(p) : IdOf[o] # origin})
                            /\ ToSet(q) = ToSet(nodes) \cap {o \in Active(p) : IdOf[o] # origin}
  BY KeepingFacts
<1>2. PICK pool : pool = [k \in DOMAIN q |-> IdOf[q[k]]]
  OBVIOUS
<1>3. ActivePool(nodes, p, origin) = pool
  BY <1>1, <1>2 DEF ActivePool
<1>4. DOMAIN q = 1 .. Len(q) /\ Len(q) \in Nat /\ \A k \in 1 .. Len(q) : q[k] \in Obj
  OBVIOUS
<1>5. pool \in Seq(Id) /\ Len(pool) = Len(q)
  <2>1. \A k \in 1 .. Len(q) : IdOf[q[k]] \in Id
    BY <1>4 DEF Id
  <2> QED
    BY <1>2, <1>4, <2>1
<1>6. ASSUME NEW i \in ToSet(pool) PROVE \E o \in ToSet(nodes) : IdOf[o] = i /\ o \in Active(p)
  <2>1. PICK k \in 1 .. Len(q) : i = pool[k]
    BY <1>5, <1>6, Elements
  <2>2. i = IdOf[q[k]] /\ q[k] \in ToSet(q)
    BY <1>2, <1>4, <2>1, Elements
  <2> QED
    BY <1>1, <2>2
<1> QED
  BY <1>3, <1>5, <1>6

-----------------------------------------------------------------------------
(* Operations on the plane.                                                *)

\* q has the flags of p.
SameFlags(p, q) ==
    \A o \in Obj : /\ q.obj[o].used = p.obj[o].used /\ q.obj[o].again = p.obj[o].again
                   /\ q.obj[o].failed = p.obj[o].failed

\* A plane is put together from its fields.
PlaneOf(a, b, c, d) == [obj |-> a, assign |-> b, links |-> c, tree |-> d]

\* What is put together so is a plane.
LEMMA Assembled ==
    ASSUME NEW q, q = PlaneOf(q.obj, q.assign, q.links, q.tree),
           q.obj \in [Obj -> NodeType], q.assign \in [RouterRoom -> Slots],
           q.links \in [RouterRoom -> SUBSET Obj], AreTrees(q.tree)
    PROVE  IsPlane(q)
  BY DEF IsPlane, PlaneOf

\* The fields of a plane.
LEMMA Fields ==
    ASSUME NEW p, IsPlane(p)
    PROVE  /\ p.obj \in [Obj -> NodeType] /\ p.assign \in [RouterRoom -> Slots]
           /\ p.links \in [RouterRoom -> SUBSET Obj] /\ AreTrees(p.tree)
  BY DEF IsPlane

\* Fields of a plane are replaced.
LEMMA Replaced ==
    ASSUME NEW p, IsPlane(p), NEW a, NEW b, NEW c
    PROVE  /\ [p EXCEPT !.obj = a] = PlaneOf(a, p.assign, p.links, p.tree)
           /\ [p EXCEPT !.assign = b] = PlaneOf(p.obj, b, p.links, p.tree)
           /\ [p EXCEPT !.links = c] = PlaneOf(p.obj, p.assign, c, p.tree)
<1>1. PICK w, x, y, z : p = [obj |-> w, assign |-> x, links |-> y, tree |-> z]
  BY DEF IsPlane
<1>2. p.obj = w /\ p.assign = x /\ p.links = y /\ p.tree = z
  BY <1>1
<1>3. [p EXCEPT !.obj = a] = PlaneOf(a, p.assign, p.links, p.tree)
  BY <1>1, <1>2 DEF PlaneOf
<1>6. [p EXCEPT !.assign = b] = PlaneOf(p.obj, b, p.links, p.tree)
  BY <1>1, <1>2 DEF PlaneOf
<1>7. [p EXCEPT !.links = c] = PlaneOf(p.obj, p.assign, c, p.tree)
  BY <1>1, <1>2 DEF PlaneOf
<1> QED
  BY <1>3, <1>6, <1>7

\* Node y is x with other rooms, and perhaps a drain that is over.
RoomsAre(x, y, out, in) ==
    /\ y \in NodeType /\ y.used = x.used /\ y.again = x.again /\ y.failed = x.failed
    /\ y.rooms = (x.rooms \ out) \cup in

\* A node that untracks and tracks rooms keeps its flags.
LEMMA RetrackedFacts ==
    ASSUME NEW x \in NodeType, NEW out \in Rooms, NEW in \in Rooms
    PROVE  RoomsAre(x, Retracked(x, out, in), out, in)
<1>1. (x.rooms \ out) \cup in \in Rooms
  BY DEF NodeType, Rooms
<1>2. PICK d \in Drains :
         d = IF x.drain = "waiting" /\ out # {} /\ x.rooms \subseteq out THEN "resolved" ELSE x.drain
  BY DEF NodeType, Drains
<1>3. PICK s \in Rooms : s = (x.rooms \ out) \cup in
  BY <1>1
<1>4. Retracked(x, out, in) = [x EXCEPT !.rooms = s, !.drain = d]
  BY <1>2, <1>3 DEF Retracked
<1> QED
  BY <1>3, <1>4 DEF NodeType, RoomsAre

\* q is p with node o in state x.
NodeIs(p, q, o, x) ==
    /\ IsPlane(q) /\ q.obj[o] = x /\ \A n \in Obj : n # o => q.obj[n] = p.obj[n]
    /\ q.assign = p.assign /\ q.links = p.links /\ q.tree = p.tree

LEMMA WithNodeFacts ==
    ASSUME NEW p, IsPlane(p), NEW o \in Obj, NEW x \in NodeType, NEW q, q = WithNode(p, o, x)
    PROVE  NodeIs(p, q, o, x)
<1>1. PICK a : a = [p.obj EXCEPT ![o] = x]
  OBVIOUS
<1>2. a \in [Obj -> NodeType] /\ a[o] = x /\ \A n \in Obj : n # o => a[n] = p.obj[n]
  BY <1>1, Fields
<1>3. q = [p EXCEPT !.obj = a]
  BY <1>1 DEF WithNode
<1>4. q = PlaneOf(a, p.assign, p.links, p.tree)
  BY <1>3, Replaced
<1>5. IsPlane(q) /\ q.obj = a /\ q.assign = p.assign /\ q.links = p.links /\ q.tree = p.tree
  <2>1. /\ p.assign \in [RouterRoom -> Slots] /\ p.links \in [RouterRoom -> SUBSET Obj]
        /\ AreTrees(p.tree)
    BY Fields
  <2>2. q.obj = a /\ q.assign = p.assign /\ q.links = p.links /\ q.tree = p.tree
    BY <1>4 DEF PlaneOf
  <2> QED
    BY <1>2, <1>4, <2>1, <2>2, Assembled
<1> QED
  BY <1>2, <1>5 DEF NodeIs

\* The rooms outside of S keep their trees.
KeptBut(S, p, new) == \A r \in TreeRoom \ S : new[r] = p.tree[r]

\* Trees are built: their nodes track the rooms as before, or as the new trees say.
LEMMA TreesBecomeFacts ==
    ASSUME NEW p, IsPlane(p), NEW nodes \in Seq(Obj), NEW S \in TreeRooms,
           NEW new, AreTrees(new), KeptBut(S, p, new),
           NEW q, q = TreesBecome(nodes, p, S, new)
    PROVE  /\ IsPlane(q) /\ SameFlags(p, q)
           /\ q.assign = p.assign /\ q.links = p.links /\ q.tree = new
           /\ \A o \in Obj \ ToSet(nodes) : q.obj[o] = p.obj[o]
           /\ \A o \in Obj : RoutesFit(p, o) => RoutesFit(q, o)
           /\ \A o \in ToSet(nodes) : TreesFit(p, o) => TreesFit(q, o)
<1> DEFINE Out(o) == {r \in S : IdOf[o] \in ToSet(p.tree[r].ids) \ ToSet(new[r].ids)}
           In(o) == {r \in S : IdOf[o] \in ToSet(new[r].ids)}
           Node(o) == IF o \in ToSet(nodes) THEN Retracked(p.obj[o], Out(o), In(o)) ELSE p.obj[o]
<1>1. PICK a : a = [o \in Obj |-> Node(o)]
  OBVIOUS
<1>2. q = PlaneOf(a, p.assign, p.links, new)
  BY <1>1 DEF TreesBecome, PlaneOf
<1>3. \A o \in Obj : Out(o) \in Rooms /\ In(o) \in Rooms /\ p.obj[o] \in NodeType
  BY Fields DEF Room, Rooms, TreeRooms
<1> HIDE DEF Out, In
<1>4. ASSUME NEW o \in Obj
      PROVE  /\ a[o] \in NodeType /\ a[o].used = p.obj[o].used /\ a[o].again = p.obj[o].again
             /\ a[o].failed = p.obj[o].failed
             /\ o \in ToSet(nodes) => a[o].rooms = (p.obj[o].rooms \ Out(o)) \cup In(o)
             /\ o \notin ToSet(nodes) => a[o] = p.obj[o]
  <2>1. CASE o \in ToSet(nodes)
    <3>1. PICK n \in NodeType, y \in Rooms, z \in Rooms :
             n = p.obj[o] /\ y = Out(o) /\ z = In(o) /\ a[o] = Retracked(n, y, z)
      BY <1>1, <1>3, <2>1
    <3>2. /\ a[o] \in NodeType /\ a[o].used = n.used /\ a[o].again = n.again /\ a[o].failed = n.failed
          /\ a[o].rooms = (n.rooms \ y) \cup z
      BY <3>1, RetrackedFacts DEF RoomsAre
    <3> QED
      BY <2>1, <3>1, <3>2
  <2>2. CASE o \notin ToSet(nodes)
    BY <1>1, <1>3, <2>2
  <2> QED
    BY <2>1, <2>2
<1>5. a \in [Obj -> NodeType]
  BY <1>1, <1>4
<1>6. IsPlane(q) /\ q.obj = a /\ q.assign = p.assign /\ q.links = p.links /\ q.tree = new
  <2>1. p.assign \in [RouterRoom -> Slots] /\ p.links \in [RouterRoom -> SUBSET Obj]
    BY Fields
  <2>2. q.obj = a /\ q.assign = p.assign /\ q.links = p.links /\ q.tree = new
    BY <1>2 DEF PlaneOf
  <2> QED
    BY <1>2, <1>5, <2>1, <2>2, Assembled
<1>7. ASSUME NEW o \in Obj
      PROVE  /\ \A r \in RouterRoom : r \notin Out(o) /\ r \notin In(o) /\ (Routed(q, r, o) <=> Routed(p, r, o))
             /\ \A r \in TreeRoom :
                   InTree(q, r, IdOf[o]) <=> (InTree(p, r, IdOf[o]) /\ r \notin Out(o)) \/ r \in In(o)
             /\ \A r \in TreeRoom : r \in Out(o) => ~ InTree(q, r, IdOf[o])
  BY <1>6, SfuAssumption DEF Out, In, InTree, KeptBut, Routed, TreeRooms
<1>8. ASSUME NEW o \in Obj, RoutesFit(p, o) PROVE RoutesFit(q, o)
  BY <1>4, <1>6, <1>7, <1>8 DEF RoutesFit
<1>9. ASSUME NEW o \in ToSet(nodes), TreesFit(p, o) PROVE TreesFit(q, o)
  <2>1. o \in Obj
    BY Elements
  <2>2. q.obj[o].again = p.obj[o].again /\ q.obj[o].rooms = (p.obj[o].rooms \ Out(o)) \cup In(o)
    BY <1>4, <1>6, <2>1
  <2> QED
    BY <1>7, <1>9, <2>1, <2>2 DEF TreesFit
<1> QED
  BY <1>4, <1>6, <1>8, <1>9, Elements DEF SameFlags

\* Every room of the router is on a node of R that serves, on one that left, or on o.
RoutedBut(R, p, L, o) ==
    \A r \in RouterRoom, x \in Obj : Routed(p, r, x) => (x \in R /\ ~ p.obj[x].failed) \/ x \in L \/ x = o
InTreeBut(R, p, L, i) ==
    \A r \in TreeRoom, j \in Id : InTree(p, r, j) =>
        (\E x \in R : IdOf[x] = j /\ ~ p.obj[x].failed) \/ LeftId(L, j) \/ j = i

\* No other node of R has the id of o.
Alone(R, o) == \A x \in R : IdOf[x] = IdOf[o] => x = o

\* The router hears that o is gone: its rooms leave o and every node of that id.
LEMMA RoutesAfterFacts ==
    ASSUME NEW p, IsPlane(p), NEW o \in Obj, NEW R \in SUBSET Obj, NEW L \in SUBSET Obj,
           Alone(R, o),
           RoutedBut(R, p, L, o),
           NEW q, q = RoutesAfter(p, o)
    PROVE  /\ IsPlane(q) /\ SameFlags(p, q) /\ q.tree = p.tree
           /\ \A r \in RouterRoom, x \in Obj : Routed(q, r, x) => Routed(p, r, x) /\ IdOf[x] # IdOf[o]
           /\ \A x \in Obj : q.obj[x].rooms \subseteq p.obj[x].rooms
           /\ \A x \in Obj : ~ LeftId(L, IdOf[x]) /\ RoutesFit(p, x) => RoutesFit(q, x)
           /\ \A x \in Obj : TreesFit(p, x) => TreesFit(q, x)
<1> DEFINE i == IdOf[o]
           lost == {r \in RouterRoom : p.assign[r] # None /\ IdOf[p.assign[r]] = i}
           cut == {r \in RouterRoom : \E n \in p.links[r] : IdOf[n] = i}
           Out(x) == {r \in lost : x \in p.links[r]} \cup IF x = o THEN lost \cup cut ELSE {}
<1>1. PICK a : a = [x \in Obj |-> Retracked(p.obj[x], Out(x), {})]
  OBVIOUS
<1>2. PICK b : b = [r \in RouterRoom |-> IF r \in lost THEN None ELSE p.assign[r]]
  OBVIOUS
<1>3. PICK c : c = [r \in RouterRoom |-> IF r \in lost THEN {} ELSE {n \in p.links[r] : IdOf[n] # i}]
  OBVIOUS
<1>4. q = PlaneOf(a, b, c, p.tree)
  BY <1>1, <1>2, <1>3 DEF RoutesAfter, PlaneOf
<1>5. /\ p.obj \in [Obj -> NodeType] /\ p.assign \in [RouterRoom -> Slots]
      /\ p.links \in [RouterRoom -> SUBSET Obj] /\ AreTrees(p.tree)
  BY Fields
<1>6. ASSUME NEW x \in Obj
      PROVE  /\ a[x] \in NodeType /\ a[x].used = p.obj[x].used /\ a[x].again = p.obj[x].again
             /\ a[x].failed = p.obj[x].failed
             /\ a[x].rooms = p.obj[x].rooms \ Out(x)
  <2>1. Out(x) \in Rooms /\ {} \in Rooms /\ p.obj[x] \in NodeType
    BY <1>5 DEF Room, Rooms
  <2>2. PICK y \in Rooms : y = Out(x)
    BY <2>1
  <2>3. PICK n \in NodeType, e \in Rooms : n = p.obj[x] /\ e = {} /\ a[x] = Retracked(n, y, e)
    BY <1>1, <2>1, <2>2
  <2> HIDE DEF Out, lost, cut, i
  <2>4. RoomsAre(n, a[x], y, e)
    BY <2>3, RetrackedFacts
  <2> QED
    BY <2>2, <2>3, <2>4 DEF RoomsAre
<1>7. a \in [Obj -> NodeType]
  BY <1>1, <1>6
<1>8. b \in [RouterRoom -> Slots] /\ c \in [RouterRoom -> SUBSET Obj]
  BY <1>2, <1>3, <1>5 DEF Slots
<1>9. q.obj = a /\ q.assign = b /\ q.links = c /\ q.tree = p.tree
  BY <1>4 DEF PlaneOf
<1>10. IsPlane(q)
  BY <1>4, <1>5, <1>7, <1>8, <1>9, Assembled
<1>11. ASSUME NEW r \in RouterRoom, NEW x \in Obj
       PROVE  Routed(q, r, x) <=> Routed(p, r, x) /\ r \notin lost /\ IdOf[x] # i
  <2>1. Routed(q, r, x) <=> x \in c[r] \/ b[r] = x
    BY <1>9 DEF Routed
  <2>2. x # None
    BY SfuAssumption
  <2>3. CASE r \in lost
    BY <1>2, <1>3, <2>1, <2>2, <2>3
  <2>4. CASE r \notin lost
    <3>1. b[r] = p.assign[r] /\ c[r] = {n \in p.links[r] : IdOf[n] # i}
      BY <1>2, <1>3, <2>4
    <3>2. p.assign[r] = x => IdOf[x] # i
      BY <2>2, <2>4
    <3> QED
      BY <2>1, <2>4, <3>1, <3>2 DEF Routed
  <2> QED
    BY <2>3, <2>4
<1>12. ASSUME NEW x \in Obj, ~ LeftId(L, IdOf[x]), RoutesFit(p, x)
       PROVE  RoutesFit(q, x)
  <2>1. ASSUME NEW r \in RouterRoom PROVE r \in Out(x) <=> Routed(p, r, x) /\ ~ Routed(q, r, x)
    <3>1. CASE x = o
      <4>1. ~ Routed(q, r, x)
        BY <1>11, <3>1
      <4>2. ASSUME NEW n \in Obj, Routed(p, r, n), IdOf[n] = i PROVE n = o
        BY <1>12, <3>1, <4>2 DEF RoutedBut, LeftId, Alone
      <4>3. r \in lost => Routed(p, r, o)
        <5>1. ASSUME r \in lost PROVE p.assign[r] \in Obj /\ IdOf[p.assign[r]] = i /\ Routed(p, r, p.assign[r])
          BY <1>5, <5>1 DEF Slots, Routed
        <5> QED
          BY <4>2, <5>1
      <4>4. r \in cut => Routed(p, r, o)
        <5>1. ASSUME r \in cut PROVE \E n \in Obj : Routed(p, r, n) /\ IdOf[n] = i
          BY <1>5, <5>1 DEF Routed
        <5> QED
          BY <4>2, <5>1
      <4>5. Routed(p, r, o) => r \in lost \cup cut
        BY SfuAssumption DEF Routed
      <4>6. r \in Out(o) <=> r \in lost \cup cut
        OBVIOUS
      <4> QED
        BY <3>1, <4>1, <4>3, <4>4, <4>5, <4>6
    <3>2. CASE x # o /\ IdOf[x] # i
      <4>1. r \in lost => (Routed(p, r, x) <=> x \in p.links[r])
        BY <3>2 DEF Routed
      <4>2. r \in Out(x) <=> r \in lost /\ x \in p.links[r]
        BY <3>2
      <4> HIDE DEF Out, lost
      <4> QED
        BY <1>11, <3>2, <4>1, <4>2
    <3>3. CASE x # o /\ IdOf[x] = i
      <4>1. ~ Routed(p, r, x)
        BY <1>12, <3>3 DEF RoutedBut, LeftId, Alone
      <4>2. r \in Out(x) => x \in p.links[r]
        BY <3>3
      <4> HIDE DEF Out, lost
      <4> QED
        BY <4>1, <4>2 DEF Routed
    <3> QED
      BY <3>1, <3>2, <3>3
  <2>2. q.obj[x].rooms = p.obj[x].rooms \ Out(x)
    BY <1>6, <1>9
  <2>3. \A r \in RouterRoom : Routed(q, r, x) => Routed(p, r, x)
    BY <1>11
  <2> HIDE DEF Out, lost
  <2> QED
    BY <1>12, <2>1, <2>2, <2>3 DEF RoutesFit
<1>13. ASSUME NEW x \in Obj, TreesFit(p, x) PROVE TreesFit(q, x)
  <2>1. \A r \in TreeRoom : r \notin Out(x)
    BY SfuAssumption
  <2> HIDE DEF Out
  <2> QED
    BY <1>6, <1>9, <1>13, <2>1 DEF TreesFit, InTree
<1> HIDE DEF lost, Out
<1> QED
  BY <1>6, <1>9, <1>10, <1>11, <1>12, <1>13 DEF SameFlags

\* The trees hear that node i is gone, which does not serve any more: trees with it end
\* or are planned anew from nodes that serve.
LEMMA TreesAfterFacts ==
    ASSUME NEW p, IsPlane(p), NEW nodes \in Seq(Obj), NEW L \in SUBSET Obj, NEW i \in Id,
           \A x \in ToSet(nodes) : IdOf[x] = i => p.obj[x].failed,
           NEW q, q = TreesAfter(nodes, p, i)
    PROVE  /\ IsPlane(q) /\ SameFlags(p, q) /\ q.assign = p.assign /\ q.links = p.links
           /\ \A o \in Obj \ ToSet(nodes) : q.obj[o] = p.obj[o]
           /\ \A o \in Obj : RoutesFit(p, o) => RoutesFit(q, o)
           /\ \A o \in ToSet(nodes) : TreesFit(p, o) => TreesFit(q, o)
           /\ InTreeBut(ToSet(nodes), p, L, i) => TreeServed(ToSet(nodes), q, L)
<1> DEFINE hit == {r \in TreeRoom : i \in ToSet(p.tree[r].ids)}
<1>1. PICK new : new = [r \in TreeRoom |-> IF r \in hit THEN TreeAfter(nodes, p, p.tree[r], i) ELSE p.tree[r]]
  OBVIOUS
<1>2. q = TreesBecome(nodes, p, hit, new)
  BY <1>1 DEF TreesAfter
<1>3. ASSUME NEW r \in TreeRoom PROVE IsTree(p.tree[r])
  BY Fields DEF AreTrees
<1>4. ASSUME NEW r \in hit
      PROVE  /\ IsTree(new[r])
             /\ \A j \in ToSet(new[r].ids) :
                   \/ j \in ToSet(p.tree[r].ids) /\ j # i
                   \/ \E x \in ToSet(nodes) : IdOf[x] = j /\ x \in Active(p)
  <2>1. PICK ids \in Seq(Id) : ids = p.tree[r].ids /\ i \in ToSet(ids) /\ p.tree[r].viewers \in Nat
    BY <1>3 DEF IsTree
  <2>2. ids[1] \in ToSet(ids) /\ ids[1] \in Id
    BY <2>1, Elements
  <2>3. new[r] = TreeAfter(nodes, p, p.tree[r], i)
    BY <1>1
  <2>4. CASE i = ids[1]
    <3>1. new[r] = NoTree
      BY <2>1, <2>3, <2>4 DEF TreeAfter
    <3>2. /\ NoTree.ids = <<>> /\ NoTree.viewers = 0
          /\ ToSet(<<>>) = {} /\ <<>> \in Seq(Id)
      BY <2>1, Elements DEF NoTree
    <3> QED
      BY <3>1, <3>2 DEF IsTree
  <2>5. CASE i # ids[1]
    <3>1. PICK pool : pool = ActivePool(nodes, p, ids[1])
      OBVIOUS
    <3>2. /\ pool \in Seq(Id)
          /\ \A j \in ToSet(pool) : \E x \in ToSet(nodes) : IdOf[x] = j /\ x \in Active(p)
      BY <3>1, PoolFacts
    <3>3. new[r] = Plan(ids[1], p.tree[r].viewers, pool)
      BY <2>1, <2>3, <2>5, <3>1 DEF TreeAfter
    <3>4. IsTree(new[r]) /\ ToSet(new[r].ids) \subseteq {ids[1]} \cup ToSet(pool)
      BY <2>1, <2>2, <3>2, <3>3, PlanFacts
    <3> QED
      BY <2>1, <2>2, <2>5, <3>2, <3>4
  <2> QED
    BY <2>4, <2>5
<1>5. \A r \in TreeRoom \ hit : new[r] = p.tree[r]
  BY <1>1
<1>6. AreTrees(new)
  <2>1. new = [r \in TreeRoom |-> new[r]]
    BY <1>1
  <2> QED
    BY <1>3, <1>4, <1>5, <2>1 DEF AreTrees
<1>7. hit \in TreeRooms
  BY DEF TreeRooms
<1>8. /\ IsPlane(q) /\ SameFlags(p, q)
      /\ q.assign = p.assign /\ q.links = p.links /\ q.tree = new
      /\ \A o \in Obj \ ToSet(nodes) : q.obj[o] = p.obj[o]
      /\ \A o \in Obj : RoutesFit(p, o) => RoutesFit(q, o)
      /\ \A o \in ToSet(nodes) : TreesFit(p, o) => TreesFit(q, o)
  <2>1. KeptBut(hit, p, new)
    BY <1>5 DEF KeptBut
  <2>2. PICK h \in TreeRooms : h = hit
    BY <1>7
  <2>3. q = TreesBecome(nodes, p, h, new) /\ KeptBut(h, p, new)
    BY <1>2, <2>1, <2>2
  <2> HIDE DEF hit
  <2> QED
    BY <1>6, <2>3, TreesBecomeFacts
<1>9. ASSUME InTreeBut(ToSet(nodes), p, L, i) PROVE TreeServed(ToSet(nodes), q, L)
  <2>1. SUFFICES ASSUME NEW r \in TreeRoom, NEW j \in Id, j \in ToSet(new[r].ids)
                 PROVE  (\E x \in ToSet(nodes) : IdOf[x] = j /\ ~ q.obj[x].failed) \/ LeftId(L, j)
    BY <1>8 DEF TreeServed, InTree
  <2>2. ToSet(nodes) \subseteq Obj /\ \A x \in Obj : q.obj[x].failed = p.obj[x].failed
    BY <1>8, Elements DEF SameFlags
  <2>3. CASE j \in ToSet(p.tree[r].ids) /\ j # i
    BY <1>9, <2>2, <2>3 DEF InTreeBut, InTree
  <2>4. CASE \E x \in ToSet(nodes) : IdOf[x] = j /\ x \in Active(p)
    BY <2>2, <2>4 DEF Active
  <2> QED
    BY <1>4, <1>5, <2>1, <2>3, <2>4
<1> QED
  BY <1>8, <1>9

-----------------------------------------------------------------------------
(* A node is lost.                                                         *)

\* The rooms are as they should be, but for those of o.
PlaneBut(R, p, L, w, o) ==
    /\ "router" \in w => RoutedBut(R, p, L, o)
    /\ "tree" \in w => InTreeBut(R, p, L, IdOf[o])
    /\ w = {"router", "tree"} => Tracked(R, p, L)

\* No node of R serves under the id of o.
NoneServes(R, p, o) == \A x \in R : IdOf[x] = IdOf[o] => x = o /\ p.obj[x].failed

\* Rooms that q has on a node, p had on it.
Fewer(R, p, q) ==
    /\ \A r \in RouterRoom, x \in Obj : Routed(q, r, x) => Routed(p, r, x)
    /\ \A x \in Obj \ R : p.obj[x].rooms = {} => q.obj[x].rooms = {}

\* Once the router has heard of it, its part is as it should be.
LEMMA RouterHears ==
    ASSUME NEW p, IsPlane(p), NEW o \in Obj, NEW R \in SUBSET Obj, NEW L \in SUBSET Obj,
           NoneServes(R, p, o), RoutedBut(R, p, L, o),
           NEW q, q = RoutesAfter(p, o)
    PROVE  /\ IsPlane(q) /\ SameFlags(p, q) /\ RouterServed(R, q, L) /\ Fewer(R, p, q)
           /\ Tracked(R, p, L) => Tracked(R, q, L)
           /\ InTreeBut(R, p, L, IdOf[o]) => InTreeBut(R, q, L, IdOf[o])
<1>1. Alone(R, o)
  BY DEF NoneServes, Alone
<1>2. /\ IsPlane(q) /\ SameFlags(p, q) /\ q.tree = p.tree
      /\ \A r \in RouterRoom, x \in Obj : Routed(q, r, x) => Routed(p, r, x) /\ IdOf[x] # IdOf[o]
      /\ \A x \in Obj : q.obj[x].rooms \subseteq p.obj[x].rooms
      /\ \A x \in Obj : ~ LeftId(L, IdOf[x]) /\ RoutesFit(p, x) => RoutesFit(q, x)
      /\ \A x \in Obj : TreesFit(p, x) => TreesFit(q, x)
  BY <1>1, RoutesAfterFacts
<1>3. RouterServed(R, q, L)
  BY <1>2 DEF RouterServed, RoutedBut, SameFlags
<1>4. Fewer(R, p, q)
  BY <1>2 DEF Fewer
<1>5. Tracked(R, p, L) => Tracked(R, q, L)
  BY <1>2 DEF Tracked
<1>6. InTreeBut(R, p, L, IdOf[o]) => InTreeBut(R, q, L, IdOf[o])
  BY <1>2 DEF InTreeBut, InTree, SameFlags
<1> QED
  BY <1>2, <1>3, <1>4, <1>5, <1>6

\* Once the trees have heard of it, theirs is, and the router's stays so.
LEMMA TreesHear ==
    ASSUME NEW p, IsPlane(p), NEW o \in Obj, NEW nodes \in Seq(Obj), NEW L \in SUBSET Obj,
           NoneServes(ToSet(nodes), p, o), InTreeBut(ToSet(nodes), p, L, IdOf[o]),
           NEW q, q = TreesAfter(nodes, p, IdOf[o])
    PROVE  /\ IsPlane(q) /\ SameFlags(p, q) /\ TreeServed(ToSet(nodes), q, L) /\ Fewer(ToSet(nodes), p, q)
           /\ Tracked(ToSet(nodes), p, L) => Tracked(ToSet(nodes), q, L)
           /\ RouterServed(ToSet(nodes), p, L) => RouterServed(ToSet(nodes), q, L)
<1>1. PICK i \in Id : i = IdOf[o]
  BY DEF Id
<1>2. (\A x \in ToSet(nodes) : IdOf[x] = i => p.obj[x].failed) /\ q = TreesAfter(nodes, p, i)
  BY <1>1 DEF NoneServes
<1>3. /\ IsPlane(q) /\ SameFlags(p, q) /\ q.assign = p.assign /\ q.links = p.links
      /\ \A x \in Obj \ ToSet(nodes) : q.obj[x] = p.obj[x]
      /\ \A x \in Obj : RoutesFit(p, x) => RoutesFit(q, x)
      /\ \A x \in ToSet(nodes) : TreesFit(p, x) => TreesFit(q, x)
      /\ InTreeBut(ToSet(nodes), p, L, i) => TreeServed(ToSet(nodes), q, L)
  BY <1>2, TreesAfterFacts
<1>4. TreeServed(ToSet(nodes), q, L)
  BY <1>1, <1>3
<1>5. \A r \in RouterRoom, x \in Obj : Routed(q, r, x) <=> Routed(p, r, x)
  BY <1>3 DEF Routed
<1>6. Fewer(ToSet(nodes), p, q)
  BY <1>3, <1>5 DEF Fewer
<1>7. Tracked(ToSet(nodes), p, L) => Tracked(ToSet(nodes), q, L)
  BY <1>3 DEF Tracked
<1>8. RouterServed(ToSet(nodes), p, L) => RouterServed(ToSet(nodes), q, L)
  BY <1>3, <1>5 DEF RouterServed, SameFlags
<1> QED
  BY <1>3, <1>4, <1>6, <1>7, <1>8

\* _fireGone: once it has run, or where it ran before, no room is on the lost node.
LEMMA FireGoneFacts ==
    ASSUME NEW p, IsPlane(p), NEW o \in Obj, NEW nodes \in Seq(Obj), NEW L \in SUBSET Obj,
           tracker \in TrackerType, NoneServes(ToSet(nodes), p, o),
           PlaneBut(ToSet(nodes), p, L, tracker.watch, o),
           IdOf[o] \in tracker.gone => PlaneInv(ToSet(nodes), p, L, tracker.watch),
           NEW q, q = FireGone(o, nodes, p)
    PROVE  /\ IsPlane(q) /\ SameFlags(p, q) /\ Fewer(ToSet(nodes), p, q)
           /\ PlaneInv(ToSet(nodes), q, L, tracker.watch)
<1>0. ToSet(nodes) \in SUBSET Obj /\ tracker.watch \in Who
  BY Elements DEF TrackerType
<1>1. PICK R \in SUBSET Obj, w \in Who : R = ToSet(nodes) /\ w = tracker.watch
  BY <1>0
<1>2. CASE IdOf[o] \in tracker.gone
  BY <1>2 DEF FireGone, SameFlags, Fewer
<1>3. CASE IdOf[o] \notin tracker.gone
  <2>1. PICK m : m = IF "router" \in w THEN RoutesAfter(p, o) ELSE p
    OBVIOUS
  <2>2. q = IF "tree" \in w THEN TreesAfter(nodes, m, IdOf[o]) ELSE m
    BY <1>1, <1>3, <2>1 DEF FireGone
  <2>3. /\ IsPlane(m) /\ SameFlags(p, m) /\ Fewer(R, p, m)
        /\ "router" \in w => RouterServed(R, m, L)
        /\ "tree" \in w => InTreeBut(R, m, L, IdOf[o])
        /\ w = {"router", "tree"} => Tracked(R, m, L)
    <3>1. CASE "router" \in w
      <4>1. NoneServes(R, p, o) /\ RoutedBut(R, p, L, o) /\ m = RoutesAfter(p, o)
        BY <1>1, <2>1, <3>1 DEF PlaneBut
      <4>2. /\ IsPlane(m) /\ SameFlags(p, m) /\ RouterServed(R, m, L) /\ Fewer(R, p, m)
            /\ Tracked(R, p, L) => Tracked(R, m, L)
            /\ InTreeBut(R, p, L, IdOf[o]) => InTreeBut(R, m, L, IdOf[o])
        BY <4>1, RouterHears
      <4> QED
        BY <1>1, <4>2 DEF PlaneBut
    <3>2. CASE "router" \notin w
      <4>1. m = p /\ w # {"router", "tree"}
        BY <2>1, <3>2
      <4>2. SameFlags(p, p) /\ Fewer(R, p, p)
        BY DEF SameFlags, Fewer
      <4> QED
        BY <1>1, <3>2, <4>1, <4>2 DEF PlaneBut
    <3> QED
      BY <3>1, <3>2
  <2>4. CASE "tree" \in w
    <3>1. NoneServes(R, m, o)
      BY <1>1, <2>3 DEF NoneServes, SameFlags
    <3>2. q = TreesAfter(nodes, m, IdOf[o]) /\ InTreeBut(R, m, L, IdOf[o])
      BY <2>2, <2>3, <2>4
    <3>3. /\ IsPlane(q) /\ SameFlags(m, q) /\ TreeServed(R, q, L) /\ Fewer(R, m, q)
          /\ Tracked(R, m, L) => Tracked(R, q, L)
          /\ RouterServed(R, m, L) => RouterServed(R, q, L)
      BY <1>1, <2>3, <3>1, <3>2, TreesHear
    <3>4. SameFlags(p, q)
      BY <2>3, <3>3 DEF SameFlags
    <3>5. Fewer(R, p, q)
      BY <2>3, <3>3 DEF Fewer
    <3> QED
      BY <1>1, <2>3, <3>3, <3>4, <3>5 DEF PlaneInv
  <2>5. CASE "tree" \notin w
    <3>1. q = m /\ w # {"router", "tree"}
      BY <2>2, <2>5
    <3> QED
      BY <1>1, <2>3, <2>5, <3>1 DEF PlaneInv
  <2> QED
    BY <2>4, <2>5
<1> QED
  BY <1>2, <1>3

-----------------------------------------------------------------------------
(* Steps.                                                                  *)

\* The parts of the invariant, for the state that is given.
Holds(c, k, t, p, o1, s1, L, R) ==
    /\ c \in ClusterType /\ k \in CheckerType /\ t \in TrackerType /\ IsPlane(p)
    /\ o1 \in [Obj -> Fails] /\ s1 \in [Id -> Fails] /\ L \in SUBSET Obj
    /\ R = ToSet(c.nodes) /\ R \in SUBSET Obj
    /\ Distinct(R) /\ Distinct(k.flight)
    /\ Listened(R, t) /\ GoneAreLost(R, p, t) /\ AreUsed(R, p, k.flight, L)
    /\ PlaneInv(R, p, L, t.watch)
    /\ Streaks(R, k.flight, c.fail, o1, s1)

\* What a state has that satisfies the invariant.
LEMMA Held ==
    ASSUME IndInv
    PROVE  /\ Holds(cluster, checker, tracker, plane, own, since, left, Registered)
           /\ calls \in 0 .. MaxCalls
<1>1. cluster.nodes \in Seq(Obj)
  BY DEF IndInv, Typing, ClusterType
<1>2. Registered \in SUBSET Obj
  BY <1>1, Elements DEF Registered
<1> QED
  BY <1>2 DEF IndInv, Typing, Holds, Registered

\* What the state after a step must have.
LEMMA Reached ==
    ASSUME NEW c, NEW k, NEW t, NEW p, NEW L, NEW R, NEW o1, NEW s1,
           c = cluster', k = checker', t = tracker', p = plane', L = left',
           o1 = own', s1 = since', calls' \in 0 .. MaxCalls,
           Holds(c, k, t, p, o1, s1, L, R)
    PROVE  IndInv'
  BY DEF Holds, IndInv, Typing, Registered

\* A registered node is declared failed on the evidence that FailureNeedsEvidence names.
Evidence ==
    \A o \in Registered :
        ~ plane.obj[o].failed /\ plane'.obj[o].failed =>
            since'[IdOf[o]] >= FailThreshold /\ own'[o] >= FailThreshold - 1

\* The fields of the records.
LEMMA ClusterFields ==
    ASSUME NEW c \in ClusterType
    PROVE  c.nodes \in Seq(Obj) /\ c.fail \in [Id -> Fails] /\ c.pass \in [Id -> Passes]
  BY DEF ClusterType

LEMMA CheckerFields ==
    ASSUME NEW k \in CheckerType
    PROVE  k.on \in BOOLEAN /\ k.flight \in SUBSET Obj
  BY DEF CheckerType

LEMMA TrackerFields ==
    ASSUME NEW t \in TrackerType
    PROVE  t.listeners \in [Id -> Slots] /\ t.gone \in SUBSET Id /\ t.watch \in Who
  BY DEF TrackerType

\* The host calls.
LEMMA Called ==
    ASSUME calls \in 0 .. MaxCalls, Call
    PROVE  calls' \in 0 .. MaxCalls
  BY SfuAssumption DEF Call

\* Only the probes in flight change: those left are still of used nodes, and one that is
\* new is of a registered node.
LEMMA FlightChanges ==
    ASSUME IndInv, NEW k \in CheckerType, k = checker', Distinct(k.flight),
           \A x \in k.flight : x \in checker.flight \/ x \in Registered,
           UNCHANGED <<cluster, tracker, plane, own, since, left>>, calls' \in 0 .. MaxCalls
    PROVE  IndInv' /\ Evidence
<1>1. Holds(cluster, checker, tracker, plane, own, since, left, Registered)
  BY Held
<1>2. AreUsed(Registered, plane, k.flight, left)
  BY <1>1 DEF Holds, AreUsed
<1>3. Streaks(Registered, k.flight, cluster.fail, own, since)
  BY <1>1 DEF Holds, Streaks, Distinct
<1>4. Holds(cluster, k, tracker, plane, own, since, left, Registered)
  BY <1>1, <1>2, <1>3 DEF Holds
<1>5. IndInv'
  BY <1>4, Reached
<1> QED
  BY <1>5 DEF Evidence

LEMMA StartInv ==
    ASSUME IndInv, StartHealthChecks
    PROVE  IndInv' /\ Evidence
<1>1. Holds(cluster, checker, tracker, plane, own, since, left, Registered) /\ calls \in 0 .. MaxCalls
  BY Held
<1>2. PICK k : k = checker' /\ k = [checker EXCEPT !.on = TRUE]
  BY DEF StartHealthChecks
<1>3. k \in CheckerType /\ k.flight = checker.flight
  BY <1>1, <1>2 DEF Holds, CheckerType
<1> QED
  BY <1>1, <1>2, <1>3, FlightChanges DEF Holds, StartHealthChecks

LEMMA StopInv ==
    ASSUME IndInv, StopHealthChecks
    PROVE  IndInv' /\ Evidence
<1>1. Holds(cluster, checker, tracker, plane, own, since, left, Registered) /\ calls \in 0 .. MaxCalls
  BY Held
<1>2. PICK k : k = checker' /\ k = [checker EXCEPT !.on = FALSE]
  BY DEF StopHealthChecks
<1>3. k \in CheckerType /\ k.flight = checker.flight
  BY <1>1, <1>2 DEF Holds, CheckerType
<1>4. calls' \in 0 .. MaxCalls
  BY <1>1, Called DEF StopHealthChecks
<1> QED
  BY <1>1, <1>2, <1>3, <1>4, FlightChanges DEF Holds, StopHealthChecks

\* A probe that starts is the only one of its id.
LEMMA TickInv ==
    ASSUME IndInv, Tick
    PROVE  IndInv' /\ Evidence
<1>1. Holds(cluster, checker, tracker, plane, own, since, left, Registered) /\ calls \in 0 .. MaxCalls
  BY Held
<1>2. PICK probed \in SUBSET Registered :
         /\ \A o \in probed : \A x \in checker.flight : IdOf[x] # IdOf[o]
         /\ checker' = [checker EXCEPT !.flight = checker.flight \cup probed]
  BY DEF Tick
<1>3. PICK k : k = checker' /\ k = [checker EXCEPT !.flight = checker.flight \cup probed]
  BY <1>2
<1>4. k \in CheckerType /\ k.flight = checker.flight \cup probed
  BY <1>1, <1>2, <1>3 DEF Holds, CheckerType
<1>5. Distinct(k.flight)
  BY <1>1, <1>2, <1>4 DEF Holds, Distinct
<1>6. UNCHANGED <<cluster, tracker, plane, own, since, left>> /\ calls' \in 0 .. MaxCalls
  BY <1>1 DEF Tick
<1>7. \A x \in k.flight : x \in checker.flight \/ x \in Registered
  BY <1>2, <1>4
<1> QED
  BY <1>3, <1>4, <1>5, <1>6, <1>7, FlightChanges

\* The router or the trees stop watching; with the last of them the tracker is reset.
LEMMA DisposeInv ==
    ASSUME IndInv, DisposeRouter
    PROVE  IndInv' /\ Evidence
<1>1. Holds(cluster, checker, tracker, plane, own, since, left, Registered) /\ calls \in 0 .. MaxCalls
  BY Held
<1>2. PICK w \in tracker.watch :
         tracker' = [listeners |-> IF tracker.watch = {w} THEN [i \in Id |-> None] ELSE tracker.listeners,
                     gone |-> IF tracker.watch = {w} THEN {} ELSE tracker.gone,
                     watch |-> tracker.watch \ {w}]
  BY DEF DisposeRouter
<1>3. tracker.listeners \in [Id -> Slots] /\ tracker.gone \in SUBSET Id /\ tracker.watch \in Who
  BY <1>1, TrackerFields DEF Holds
<1>4. PICK l \in [Id -> Slots] :
         l = IF tracker.watch = {w} THEN [i \in Id |-> None] ELSE tracker.listeners
  <2>1. [i \in Id |-> None] \in [Id -> Slots]
    BY DEF Slots
  <2> QED
    BY <1>3, <2>1
<1>5. PICK g \in SUBSET Id : g = IF tracker.watch = {w} THEN {} ELSE tracker.gone
  BY <1>3
<1>6. PICK v \in Who : v = tracker.watch \ {w}
  BY <1>3 DEF Who
<1>7. PICK t : t = tracker' /\ t = [listeners |-> l, gone |-> g, watch |-> v]
  BY <1>2, <1>4, <1>5, <1>6
<1>8. t \in TrackerType /\ t.listeners = l /\ t.gone = g /\ t.watch = v
  BY <1>7 DEF TrackerType
<1>9. v # {} => l = tracker.listeners /\ g = tracker.gone /\ tracker.watch # {}
  BY <1>4, <1>5, <1>6
<1>10. Listened(Registered, t)
  BY <1>1, <1>8, <1>9 DEF Holds, Listened
<1>11. GoneAreLost(Registered, plane, t)
  BY <1>1, <1>8, <1>9 DEF Holds, GoneAreLost
<1>12. PlaneInv(Registered, plane, left, t.watch)
  <2>1. v \subseteq tracker.watch /\ v # {"router", "tree"}
    BY <1>2, <1>3, <1>6 DEF Who
  <2> QED
    BY <1>1, <1>8, <2>1 DEF Holds, PlaneInv
<1>13. Holds(cluster, checker, t, plane, own, since, left, Registered)
  BY <1>1, <1>8, <1>10, <1>11, <1>12 DEF Holds
<1>14. calls' \in 0 .. MaxCalls
  BY <1>1, Called DEF DisposeRouter
<1>15. IndInv'
  BY <1>7, <1>13, <1>14, Reached DEF DisposeRouter
<1> QED
  BY <1>15 DEF Evidence, DisposeRouter

-----------------------------------------------------------------------------
(* Steps that change the rooms of the nodes, or a drain.                   *)

\* An object that was not used has no room.
Blank(p) == \A o \in Obj : ~ p.obj[o].used =>
                p.obj[o].rooms = {} /\ \A r \in RouterRoom : ~ Routed(p, r, o)

\* Nodes that track the same rooms and serve the same rooms track as they did.
LEMMA SameFits ==
    ASSUME NEW p, NEW q, NEW R \in SUBSET Obj, NEW L,
           \A n \in Obj : q.obj[n].rooms = p.obj[n].rooms /\ q.obj[n].again = p.obj[n].again,
           \A r \in RouterRoom, n \in Obj : Routed(q, r, n) <=> Routed(p, r, n),
           \A r \in TreeRoom, i \in Id : InTree(q, r, i) <=> InTree(p, r, i)
    PROVE  Tracked(R, p, L) => Tracked(R, q, L)
<1>1. \A n \in Obj : IdOf[n] \in Id
  BY DEF Id
<1>2. \A n \in Obj : RoutesFit(p, n) => RoutesFit(q, n)
  BY DEF RoutesFit
<1>3. \A n \in Obj : TreesFit(p, n) => TreesFit(q, n)
  BY <1>1 DEF TreesFit
<1> QED
  BY <1>2, <1>3 DEF Tracked

LEMMA PlaneChanges ==
    ASSUME IndInv, NEW q, q = plane', IsPlane(q), SameFlags(plane, q), Blank(q),
           PlaneInv(Registered, q, left, tracker.watch),
           UNCHANGED <<cluster, checker, tracker, own, since, left>>, calls' \in 0 .. MaxCalls
    PROVE  IndInv' /\ Evidence
<1>1. Holds(cluster, checker, tracker, plane, own, since, left, Registered)
  BY Held
<1>2. GoneAreLost(Registered, q, tracker)
  BY <1>1 DEF Holds, GoneAreLost, SameFlags
<1>3. AreUsed(Registered, q, checker.flight, left)
  <2>1. checker.flight \in SUBSET Obj
    BY <1>1, CheckerFields DEF Holds
  <2> QED
    BY <1>1, <2>1 DEF Holds, AreUsed, SameFlags, Blank
<1>4. Holds(cluster, checker, tracker, q, own, since, left, Registered)
  BY <1>1, <1>2, <1>3 DEF Holds
<1>5. IndInv'
  BY <1>4, Reached
<1>6. Evidence
  BY <1>1 DEF Evidence, SameFlags, Holds
<1> QED
  BY <1>5, <1>6

\* A drain begins, times out or ends: the rooms stay where they are.
LEMMA DrainChanges ==
    ASSUME IndInv, NEW o \in Obj, NEW d \in Drains,
           plane' = WithNode(plane, o, [plane.obj[o] EXCEPT !.drain = d]),
           UNCHANGED <<cluster, checker, tracker, own, since, left>>, calls' \in 0 .. MaxCalls
    PROVE  IndInv' /\ Evidence
<1>1. Holds(cluster, checker, tracker, plane, own, since, left, Registered)
  BY Held
<1>2. plane.obj[o] \in NodeType /\ IsPlane(plane)
  BY <1>1, Fields DEF Holds
<1>3. PICK x : x = [plane.obj[o] EXCEPT !.drain = d]
  OBVIOUS
<1>4. /\ x \in NodeType /\ x.rooms = plane.obj[o].rooms
      /\ x.used = plane.obj[o].used /\ x.again = plane.obj[o].again /\ x.failed = plane.obj[o].failed
  BY <1>2, <1>3 DEF NodeType
<1>5. PICK q : q = plane' /\ q = WithNode(plane, o, x)
  BY <1>3
<1>6. /\ IsPlane(q) /\ q.obj[o] = x /\ \A n \in Obj : n # o => q.obj[n] = plane.obj[n]
      /\ q.assign = plane.assign /\ q.links = plane.links /\ q.tree = plane.tree
  <2>1. NodeIs(plane, q, o, x)
    BY <1>2, <1>4, <1>5, WithNodeFacts
  <2> QED
    BY <2>1 DEF NodeIs
<1>7. SameFlags(plane, q) /\ \A n \in Obj : q.obj[n].rooms = plane.obj[n].rooms
  BY <1>4, <1>6 DEF SameFlags
<1>8. /\ \A r \in RouterRoom, n \in Obj : Routed(q, r, n) <=> Routed(plane, r, n)
      /\ \A r \in TreeRoom, i \in Id : InTree(q, r, i) <=> InTree(plane, r, i)
  BY <1>6 DEF Routed, InTree
<1>9. Blank(q)
  BY <1>1, <1>7, <1>8 DEF Blank, Holds, AreUsed, SameFlags
<1>10. RouterServed(Registered, plane, left) => RouterServed(Registered, q, left)
  BY <1>7, <1>8 DEF RouterServed, SameFlags
<1>11. TreeServed(Registered, plane, left) => TreeServed(Registered, q, left)
  BY <1>1, <1>7, <1>8 DEF TreeServed, SameFlags, Holds
<1>12. Tracked(Registered, plane, left) => Tracked(Registered, q, left)
  <2>1. Registered \in SUBSET Obj
    BY <1>1 DEF Holds
  <2>2. \A n \in Obj : q.obj[n].rooms = plane.obj[n].rooms /\ q.obj[n].again = plane.obj[n].again
    BY <1>7 DEF SameFlags
  <2> QED
    BY <1>8, <2>1, <2>2, SameFits
<1>14. PlaneInv(Registered, q, left, tracker.watch)
  BY <1>1, <1>10, <1>11, <1>12 DEF PlaneInv, Holds
<1> QED
  BY <1>5, <1>6, <1>7, <1>9, <1>14, PlaneChanges

LEMMA DrainInv ==
    ASSUME IndInv, NEW o \in Obj, Drain(o)
    PROVE  IndInv' /\ Evidence
<1>1. calls' \in 0 .. MaxCalls
  BY Held, Called DEF Drain
<1>2. PICK d \in Drains : d = IF plane.obj[o].rooms = {} THEN "resolved" ELSE "waiting"
  BY DEF Drains
<1>3. plane' = WithNode(plane, o, [plane.obj[o] EXCEPT !.drain = d])
  BY <1>2 DEF Drain
<1> QED
  BY <1>1, <1>3, DrainChanges DEF Drain

LEMMA DrainTimeoutInv ==
    ASSUME IndInv, NEW o \in Obj, DrainTimeout(o)
    PROVE  IndInv' /\ Evidence
<1>1. calls' \in 0 .. MaxCalls
  BY Held DEF DrainTimeout
<1>2. PICK d \in Drains : d = "resolved"
  BY DEF Drains
<1> QED
  BY <1>1, <1>2, DrainChanges DEF DrainTimeout

LEMMA DrainedInv ==
    ASSUME IndInv, NEW o \in Obj, Drained(o)
    PROVE  IndInv' /\ Evidence
<1>1. calls' \in 0 .. MaxCalls
  BY Held DEF Drained
<1>2. PICK d \in Drains : d = "no"
  BY DEF Drains
<1> QED
  BY <1>1, <1>2, DrainChanges DEF Drained

\* Rooms are given to nodes that are registered and serve.
LEMMA SelectableServes ==
    ASSUME NEW nodes \in Seq(Obj), NEW p, NEW o \in ToSet(ActiveNodes(nodes, p))
    PROVE  o \in ToSet(nodes) /\ o \in Obj /\ ~ p.obj[o].failed
  BY KeepingFacts DEF ActiveNodes, Active

\* Room r goes to node o, as its primary or as a cascade.
LEMMA AttachChanges ==
    ASSUME IndInv, NEW r \in RouterRoom, NEW o \in Registered, ~ plane.obj[o].failed,
           NEW q, q = plane', IsPlane(q), q.tree = plane.tree,
           q.obj[o] = Retracked(plane.obj[o], {}, {r}),
           \A n \in Obj : n # o => q.obj[n] = plane.obj[n],
           \A s \in RouterRoom, n \in Obj : Routed(q, s, n) <=> Routed(plane, s, n) \/ (s = r /\ n = o),
           UNCHANGED <<cluster, checker, tracker, own, since, left>>, calls' \in 0 .. MaxCalls
    PROVE  IndInv' /\ Evidence
<1>1. Holds(cluster, checker, tracker, plane, own, since, left, Registered)
  BY Held
<1>2. o \in Obj /\ plane.obj[o] \in NodeType
  BY <1>1, Fields DEF Holds
<1>3. /\ q.obj[o].used = plane.obj[o].used /\ q.obj[o].failed = plane.obj[o].failed
      /\ q.obj[o].again = plane.obj[o].again
      /\ q.obj[o].rooms = plane.obj[o].rooms \cup {r}
  <2>1. PICK x \in NodeType, y \in Rooms, z \in Rooms :
           x = plane.obj[o] /\ y = {} /\ z = {r}
    BY <1>2 DEF Rooms, Room
  <2>2. RoomsAre(x, Retracked(x, y, z), y, z)
    BY <2>1, RetrackedFacts
  <2>3. q.obj[o] = Retracked(x, y, z)
    BY <2>1
  <2> QED
    BY <2>1, <2>2, <2>3 DEF RoomsAre
<1>4. SameFlags(plane, q)
  BY <1>3 DEF SameFlags
<1>5. Blank(q)
  <2>1. plane.obj[o].used
    BY <1>1 DEF Holds, AreUsed
  <2> QED
    BY <1>1, <1>4, <2>1 DEF Blank, Holds, AreUsed, SameFlags
<1>6. RouterServed(Registered, plane, left) => RouterServed(Registered, q, left)
  BY <1>4 DEF RouterServed, SameFlags
<1>7. \A s \in TreeRoom, i \in Id : InTree(q, s, i) <=> InTree(plane, s, i)
  BY DEF InTree
<1>8. TreeServed(Registered, plane, left) => TreeServed(Registered, q, left)
  BY <1>1, <1>4, <1>7 DEF TreeServed, SameFlags, Holds
<1>9. /\ \A n \in Obj : RoutesFit(plane, n) => RoutesFit(q, n)
      /\ \A n \in Obj : TreesFit(plane, n) => TreesFit(q, n)
  <2>1. \A n \in Obj : IdOf[n] \in Id
    BY DEF Id
  <2>2. \A n \in Obj, s \in Room : s \in q.obj[n].rooms <=> s \in plane.obj[n].rooms \/ (s = r /\ n = o)
    BY <1>3
  <2>3. \A n \in Obj : RoutesFit(plane, n) => RoutesFit(q, n)
    BY <2>2 DEF RoutesFit, Room
  <2>4. \A n \in Obj : TreesFit(plane, n) => TreesFit(q, n)
    BY <1>4, <1>7, <2>1, <2>2, SfuAssumption DEF TreesFit, Room, SameFlags
  <2> QED
    BY <2>3, <2>4
<1>10. Tracked(Registered, plane, left) => Tracked(Registered, q, left)
  BY <1>9 DEF Tracked
<1>11. PlaneInv(Registered, q, left, tracker.watch)
  BY <1>1, <1>6, <1>8, <1>10 DEF PlaneInv, Holds
<1> QED
  BY <1>4, <1>5, <1>11, PlaneChanges

LEMMA AttachRoomInv ==
    ASSUME IndInv, NEW r \in RouterRoom, AttachRoom(r)
    PROVE  IndInv' /\ Evidence
<1>1. /\ Holds(cluster, checker, tracker, plane, own, since, left, Registered)
      /\ calls' \in 0 .. MaxCalls
  BY Held, Called DEF AttachRoom
<1>2. cluster.nodes \in Seq(Obj) /\ IsPlane(plane) /\ \A x \in Obj : plane.obj[x] \in NodeType
  BY <1>1, Fields, ClusterFields DEF Holds
<1>3. plane.assign \in [RouterRoom -> Slots] /\ plane.links \in [RouterRoom -> SUBSET Obj]
  BY <1>2, Fields
<1>4. PICK o \in Selectable :
         \/ /\ plane.assign[r] = None
            /\ plane' = [WithNode(plane, o, Retracked(plane.obj[o], {}, {r})) EXCEPT
                             !.assign = [plane.assign EXCEPT ![r] = o]]
         \/ plane' = [WithNode(plane, o, Retracked(plane.obj[o], {}, {r})) EXCEPT
                             !.links = [plane.links EXCEPT ![r] = plane.links[r] \cup {o}]]
  BY DEF AttachRoom
<1>5. o \in Registered /\ o \in Obj /\ ~ plane.obj[o].failed
  BY <1>2, SelectableServes DEF Selectable, Registered
<1>6. PICK x \in NodeType : x = Retracked(plane.obj[o], {}, {r})
  <2>1. PICK z \in Rooms, y \in Rooms : z = {r} /\ y = {}
    BY DEF Rooms, Room
  <2>2. Retracked(plane.obj[o], y, z) \in NodeType
    BY <1>2, <1>5, <2>1, RetrackedFacts DEF RoomsAre
  <2> QED
    BY <2>1, <2>2
<1>7. PICK m : m = WithNode(plane, o, x)
  OBVIOUS
<1>8. /\ IsPlane(m) /\ m.obj[o] = x /\ \A n \in Obj : n # o => m.obj[n] = plane.obj[n]
      /\ m.assign = plane.assign /\ m.links = plane.links /\ m.tree = plane.tree
  <2>1. NodeIs(plane, m, o, x)
    BY <1>2, <1>5, <1>6, <1>7, WithNodeFacts
  <2> QED
    BY <2>1 DEF NodeIs
<1>9. /\ m.obj \in [Obj -> NodeType] /\ m.assign \in [RouterRoom -> Slots]
      /\ m.links \in [RouterRoom -> SUBSET Obj] /\ AreTrees(m.tree)
  BY <1>8, Fields
<1>10. PICK q : q = plane'
  OBVIOUS
<1>11. ASSUME plane.assign[r] = None, q = [m EXCEPT !.assign = [plane.assign EXCEPT ![r] = o]]
       PROVE  /\ IsPlane(q) /\ q.tree = m.tree /\ q.obj = m.obj
              /\ \A s \in RouterRoom, n \in Obj : Routed(q, s, n) <=> Routed(plane, s, n) \/ (s = r /\ n = o)
  <2>1. PICK b \in [RouterRoom -> Slots] : b = [plane.assign EXCEPT ![r] = o]
    BY <1>3, <1>5 DEF Slots
  <2>2. q = PlaneOf(m.obj, b, m.links, m.tree)
    BY <1>8, <1>11, <2>1, Replaced
  <2>3. q.obj = m.obj /\ q.assign = b /\ q.links = m.links /\ q.tree = m.tree
    BY <2>2 DEF PlaneOf
  <2>4. IsPlane(q)
    BY <1>9, <2>2, <2>3, Assembled
  <2>5. ASSUME NEW s \in RouterRoom, NEW n \in Obj
        PROVE  Routed(q, s, n) <=> Routed(plane, s, n) \/ (s = r /\ n = o)
    <3>1. n # None
      BY SfuAssumption
    <3>2. b[s] = IF s = r THEN o ELSE plane.assign[s]
      BY <1>3, <2>1
    <3> QED
      BY <1>8, <1>11, <2>3, <3>1, <3>2 DEF Routed
  <2> QED
    BY <2>3, <2>4, <2>5
<1>12. ASSUME q = [m EXCEPT !.links = [plane.links EXCEPT ![r] = plane.links[r] \cup {o}]]
       PROVE  /\ IsPlane(q) /\ q.tree = m.tree /\ q.obj = m.obj
              /\ \A s \in RouterRoom, n \in Obj : Routed(q, s, n) <=> Routed(plane, s, n) \/ (s = r /\ n = o)
  <2>1. PICK c : c = [plane.links EXCEPT ![r] = plane.links[r] \cup {o}]
    OBVIOUS
  <2>2. /\ c \in [RouterRoom -> SUBSET Obj]
        /\ \A s \in RouterRoom : c[s] = IF s = r THEN plane.links[r] \cup {o} ELSE plane.links[s]
    BY <1>3, <1>5, <2>1
  <2>3. q = PlaneOf(m.obj, m.assign, c, m.tree)
    BY <1>8, <1>12, <2>1, Replaced
  <2>4. q.obj = m.obj /\ q.assign = m.assign /\ q.links = c /\ q.tree = m.tree
    BY <2>3 DEF PlaneOf
  <2>5. IsPlane(q)
    BY <1>9, <2>2, <2>3, <2>4, Assembled
  <2>6. ASSUME NEW s \in RouterRoom, NEW n \in Obj
        PROVE  Routed(q, s, n) <=> Routed(plane, s, n) \/ (s = r /\ n = o)
    BY <1>8, <2>2, <2>4 DEF Routed
  <2> QED
    BY <2>4, <2>5, <2>6
<1>13. /\ IsPlane(q) /\ q.tree = m.tree /\ q.obj = m.obj
       /\ \A s \in RouterRoom, n \in Obj : Routed(q, s, n) <=> Routed(plane, s, n) \/ (s = r /\ n = o)
  BY <1>4, <1>6, <1>7, <1>10, <1>11, <1>12
<1>14. q.tree = plane.tree /\ q.obj[o] = Retracked(plane.obj[o], {}, {r})
       /\ \A n \in Obj : n # o => q.obj[n] = plane.obj[n]
  BY <1>6, <1>8, <1>13
<1> QED
  BY <1>1, <1>5, <1>10, <1>13, <1>14, AttachChanges DEF AttachRoom

\* A room of the router ends: its nodes untrack it.
LEMMA DetachRoomInv ==
    ASSUME IndInv, NEW r \in RouterRoom, DetachRoom(r)
    PROVE  IndInv' /\ Evidence
<1>1. /\ Holds(cluster, checker, tracker, plane, own, since, left, Registered)
      /\ calls' \in 0 .. MaxCalls
  BY Held, Called DEF DetachRoom
<1>2. IsPlane(plane)
  BY <1>1 DEF Holds
<1>3. /\ plane.obj \in [Obj -> NodeType] /\ plane.assign \in [RouterRoom -> Slots]
      /\ plane.links \in [RouterRoom -> SUBSET Obj] /\ AreTrees(plane.tree)
  BY <1>2, Fields
<1> DEFINE Out(o) == IF o \in plane.links[r] \cup {plane.assign[r]} THEN {r} ELSE {}
<1>4. PICK a : a = [o \in Obj |-> Retracked(plane.obj[o], Out(o), {})]
  OBVIOUS
<1>5. PICK b : b = [plane.assign EXCEPT ![r] = None]
  OBVIOUS
<1>6. PICK c : c = [plane.links EXCEPT ![r] = {}]
  OBVIOUS
<1>7. PICK q : q = plane' /\ q = PlaneOf(a, b, c, plane.tree)
  BY <1>4, <1>5, <1>6 DEF DetachRoom, PlaneOf
<1>8. ASSUME NEW o \in Obj
      PROVE  /\ a[o] \in NodeType /\ a[o].used = plane.obj[o].used /\ a[o].failed = plane.obj[o].failed
             /\ a[o].again = plane.obj[o].again
             /\ a[o].rooms = plane.obj[o].rooms \ Out(o)
  <2>1. PICK n \in NodeType, y \in Rooms, e \in Rooms : n = plane.obj[o] /\ y = Out(o) /\ e = {}
    BY <1>3 DEF Rooms, Room
  <2>2. a[o] = Retracked(n, y, e)
    BY <1>4, <2>1
  <2>3. RoomsAre(n, a[o], y, e)
    BY <2>1, <2>2, RetrackedFacts
  <2> HIDE DEF Out
  <2> QED
    BY <2>1, <2>3 DEF RoomsAre
<1>9. a \in [Obj -> NodeType]
  BY <1>4, <1>8
<1>10. /\ b \in [RouterRoom -> Slots] /\ c \in [RouterRoom -> SUBSET Obj]
       /\ b[r] = None /\ c[r] = {}
       /\ \A s \in RouterRoom : s # r => b[s] = plane.assign[s] /\ c[s] = plane.links[s]
  BY <1>3, <1>5, <1>6 DEF Slots
<1>11. q.obj = a /\ q.assign = b /\ q.links = c /\ q.tree = plane.tree
  BY <1>7 DEF PlaneOf
<1>12. IsPlane(q)
  BY <1>3, <1>7, <1>9, <1>10, <1>11, Assembled
<1>13. SameFlags(plane, q)
  BY <1>8, <1>11 DEF SameFlags
<1>14. ASSUME NEW s \in RouterRoom, NEW o \in Obj
       PROVE  Routed(q, s, o) <=> Routed(plane, s, o) /\ s \notin Out(o)
  <2>1. o # None
    BY SfuAssumption
  <2>2. CASE s = r
    BY <1>10, <1>11, <2>1, <2>2 DEF Routed
  <2>3. CASE s # r
    BY <1>10, <1>11, <2>3 DEF Routed
  <2> QED
    BY <2>2, <2>3
<1>15. \A o \in Obj : Out(o) \subseteq RouterRoom
  OBVIOUS
<1> HIDE DEF Out
<1>16. Blank(q)
  BY <1>1, <1>8, <1>11, <1>13, <1>14 DEF Blank, Holds, AreUsed, SameFlags
<1>17. RouterServed(Registered, plane, left) => RouterServed(Registered, q, left)
  BY <1>13, <1>14 DEF RouterServed, SameFlags
<1>18. \A s \in TreeRoom, i \in Id : InTree(q, s, i) <=> InTree(plane, s, i)
  BY <1>11 DEF InTree
<1>19. TreeServed(Registered, plane, left) => TreeServed(Registered, q, left)
  BY <1>1, <1>13, <1>18 DEF TreeServed, SameFlags, Holds
<1>20. \A o \in Obj : q.obj[o].rooms = plane.obj[o].rooms \ Out(o) /\ IdOf[o] \in Id
  BY <1>8, <1>11 DEF Id
<1>21. Tracked(Registered, plane, left) => Tracked(Registered, q, left)
  <2>1. \A o \in Obj : RoutesFit(plane, o) => RoutesFit(q, o)
    BY <1>14, <1>20 DEF RoutesFit
  <2>2. \A o \in Obj : TreesFit(plane, o) => TreesFit(q, o)
    <3>1. \A o \in Obj, s \in TreeRoom : s \notin Out(o)
      BY <1>15, SfuAssumption
    <3> QED
      BY <1>13, <1>18, <1>20, <3>1 DEF TreesFit, SameFlags
  <2> QED
    BY <2>1, <2>2 DEF Tracked
<1>22. PlaneInv(Registered, q, left, tracker.watch)
  BY <1>1, <1>17, <1>19, <1>21 DEF PlaneInv, Holds
<1> QED
  BY <1>1, <1>7, <1>12, <1>13, <1>16, <1>22, PlaneChanges DEF DetachRoom

\* The tree of r is built or ends; its nodes serve.
LEMMA TreeChanges ==
    ASSUME IndInv, NEW r \in TreeRoom, NEW t, IsTree(t),
           \A i \in ToSet(t.ids) : \E x \in Registered : IdOf[x] = i /\ ~ plane.obj[x].failed,
           plane' = TreeBecomes(cluster.nodes, plane, r, t),
           UNCHANGED <<cluster, checker, tracker, own, since, left>>, calls' \in 0 .. MaxCalls
    PROVE  IndInv' /\ Evidence
<1>1. Holds(cluster, checker, tracker, plane, own, since, left, Registered)
  BY Held
<1>2. IsPlane(plane) /\ AreTrees(plane.tree) /\ cluster.nodes \in Seq(Obj)
  BY <1>1, Fields, ClusterFields DEF Holds
<1>3. PICK new : new = [plane.tree EXCEPT ![r] = t]
  OBVIOUS
<1>4. /\ new[r] = t /\ \A s \in TreeRoom : s # r => new[s] = plane.tree[s]
      /\ AreTrees(new)
  <2>1. PICK d : d = plane.tree /\ d = [s \in TreeRoom |-> d[s]] /\ \A s \in TreeRoom : IsTree(d[s])
    BY <1>2 DEF AreTrees
  <2>2. new[r] = t /\ \A s \in TreeRoom : s # r => new[s] = plane.tree[s]
    BY <1>3, <2>1
  <2>3. new = [s \in TreeRoom |-> new[s]]
    BY <1>3, <2>1
  <2> QED
    BY <2>1, <2>2, <2>3 DEF AreTrees
<1>5. PICK S \in TreeRooms : S = {r}
  BY DEF TreeRooms
<1>6. KeptBut(S, plane, new)
  BY <1>4, <1>5 DEF KeptBut
<1>7. PICK q : q = plane' /\ q = TreesBecome(cluster.nodes, plane, S, new)
  BY <1>3, <1>5 DEF TreeBecomes
<1>8. /\ IsPlane(q) /\ SameFlags(plane, q)
      /\ q.assign = plane.assign /\ q.links = plane.links /\ q.tree = new
      /\ \A o \in Obj \ ToSet(cluster.nodes) : q.obj[o] = plane.obj[o]
      /\ \A o \in Obj : RoutesFit(plane, o) => RoutesFit(q, o)
      /\ \A o \in ToSet(cluster.nodes) : TreesFit(plane, o) => TreesFit(q, o)
  BY <1>2, <1>4, <1>6, <1>7, TreesBecomeFacts
<1>9. \A s \in RouterRoom, o \in Obj : Routed(q, s, o) <=> Routed(plane, s, o)
  BY <1>8 DEF Routed
<1>10. Blank(q)
  BY <1>1, <1>8, <1>9 DEF Blank, Holds, AreUsed, SameFlags
<1>11. RouterServed(Registered, plane, left) => RouterServed(Registered, q, left)
  BY <1>8, <1>9 DEF RouterServed, SameFlags
<1>12. TreeServed(Registered, plane, left) => TreeServed(Registered, q, left)
  <2>1. SUFFICES ASSUME TreeServed(Registered, plane, left), NEW s \in TreeRoom, NEW i \in Id, InTree(q, s, i)
                 PROVE  (\E o \in Registered : IdOf[o] = i /\ ~ q.obj[o].failed) \/ LeftId(left, i)
    BY DEF TreeServed
  <2>2. Registered \subseteq Obj /\ \A o \in Obj : q.obj[o].failed = plane.obj[o].failed
    BY <1>1, <1>8 DEF Holds, SameFlags
  <2>3. CASE s = r
    BY <1>4, <1>8, <2>1, <2>2, <2>3 DEF InTree
  <2>4. CASE s # r
    BY <1>4, <1>8, <2>1, <2>2, <2>4 DEF InTree, TreeServed
  <2> QED
    BY <2>3, <2>4
<1>13. Tracked(Registered, plane, left) => Tracked(Registered, q, left)
  BY <1>1, <1>8 DEF Tracked, Holds
<1>14. PlaneInv(Registered, q, left, tracker.watch)
  BY <1>1, <1>11, <1>12, <1>13 DEF PlaneInv, Holds
<1> QED
  BY <1>7, <1>8, <1>10, <1>14, PlaneChanges

LEMMA BuildInv ==
    ASSUME IndInv, NEW r \in TreeRoom, Build(r)
    PROVE  IndInv' /\ Evidence
<1>1. /\ Holds(cluster, checker, tracker, plane, own, since, left, Registered)
      /\ calls' \in 0 .. MaxCalls
  BY Held, Called DEF Build
<1>2. cluster.nodes \in Seq(Obj)
  BY <1>1, ClusterFields DEF Holds
<1>3. PICK o \in ToSet(ActiveNodes(cluster.nodes, plane)), v \in Viewers :
         plane' = TreeBecomes(cluster.nodes, plane, r,
                      Plan(IdOf[o], v, ActivePool(cluster.nodes, plane, IdOf[o])))
  BY DEF Build
<1>4. o \in Registered /\ o \in Obj /\ ~ plane.obj[o].failed /\ v \in Nat
  BY <1>2, <1>3, SelectableServes, SfuAssumption DEF Registered
<1>5. PICK i \in Id : i = IdOf[o]
  BY <1>4 DEF Id
<1>6. PICK pool : pool = ActivePool(cluster.nodes, plane, i)
  OBVIOUS
<1>7. /\ pool \in Seq(Id)
      /\ \A j \in ToSet(pool) : \E x \in ToSet(cluster.nodes) : IdOf[x] = j /\ x \in Active(plane)
  BY <1>2, <1>5, <1>6, PoolFacts
<1>8. PICK t : t = Plan(i, v, pool)
  OBVIOUS
<1>9. IsTree(t) /\ ToSet(t.ids) \subseteq {i} \cup ToSet(pool)
  BY <1>4, <1>5, <1>7, <1>8, PlanFacts
<1>10. \A j \in ToSet(t.ids) : \E x \in Registered : IdOf[x] = j /\ ~ plane.obj[x].failed
  BY <1>4, <1>5, <1>7, <1>9 DEF Registered, Active
<1>11. plane' = TreeBecomes(cluster.nodes, plane, r, t)
  BY <1>3, <1>5, <1>6, <1>8
<1> QED
  BY <1>1, <1>9, <1>10, <1>11, TreeChanges DEF Build

LEMMA DetachInv ==
    ASSUME IndInv, NEW r \in TreeRoom, Detach(r)
    PROVE  IndInv' /\ Evidence
<1>1. calls' \in 0 .. MaxCalls
  BY Held, Called DEF Detach
<1>2. PICK t : t = NoTree
  OBVIOUS
<1>3. IsTree(t) /\ ToSet(t.ids) = {}
  <2>1. t.ids = <<>> /\ t.viewers = 0 /\ <<>> \in Seq(Id)
    BY <1>2 DEF NoTree
  <2> QED
    BY <2>1, NoElements DEF IsTree
<1>4. plane' = TreeBecomes(cluster.nodes, plane, r, t)
  BY <1>2 DEF Detach
<1>5. \A i \in ToSet(t.ids) : \E x \in Registered : IdOf[x] = i /\ ~ plane.obj[x].failed
  BY <1>3
<1> QED
  BY <1>1, <1>3, <1>4, <1>5, TreeChanges DEF Detach

-----------------------------------------------------------------------------
(* The first state.                                                        *)

LEMMA InitInv ==
    ASSUME Init
    PROVE  IndInv
<1>0. 0 \in Fails /\ 0 \in Passes /\ 0 \in 0 .. MaxCalls
  BY SfuAssumption DEF Fails, Passes
<1>1. cluster \in ClusterType /\ cluster.nodes = <<>> /\ cluster.fail = [i \in Id |-> 0]
  <2>1. PICK z \in [Id -> Fails] : z = [i \in Id |-> 0]
    BY <1>0
  <2>2. PICK y \in [Id -> Passes] : y = [i \in Id |-> 0]
    BY <1>0
  <2>3. <<>> \in Seq(Obj) /\ cluster = [nodes |-> <<>>, fail |-> z, pass |-> y]
    BY <2>1, <2>2 DEF Init
  <2> QED
    BY <2>1, <2>3 DEF ClusterType
<1>2. Registered = {}
  BY <1>1, NoElements DEF Registered
<1>3. checker \in CheckerType /\ checker.flight = {}
  BY DEF Init, CheckerType
<1>4. tracker \in TrackerType /\ \A i \in Id : tracker.listeners[i] = None
  <2>1. PICK l \in [Id -> Slots] : l = [i \in Id |-> None]
    BY DEF Slots
  <2>2. PICK w \in Who : w = {"router", "tree"}
    BY DEF Who
  <2>3. tracker = [listeners |-> l, gone |-> {}, watch |-> w]
    BY <2>1, <2>2 DEF Init, NewTracker
  <2> QED
    BY <2>1, <2>3 DEF TrackerType
<1>5. /\ IsPlane(plane)
      /\ \A o \in Obj : ~ plane.obj[o].used /\ plane.obj[o].rooms = {}
      /\ \A r \in RouterRoom : plane.assign[r] = None /\ plane.links[r] = {}
      /\ \A r \in TreeRoom : plane.tree[r] = NoTree
  <2>1. PICK n \in NodeType : n = NewNode
    BY DEF NewNode, NodeType, Rooms, Drains
  <2>2. PICK a \in [Obj -> NodeType] : a = [o \in Obj |-> n]
    OBVIOUS
  <2>3. PICK b \in [RouterRoom -> Slots] : b = [r \in RouterRoom |-> None]
    BY DEF Slots
  <2>4. PICK c \in [RouterRoom -> SUBSET Obj] : c = [r \in RouterRoom |-> {}]
    OBVIOUS
  <2>5. PICK d : d = [r \in TreeRoom |-> NoTree]
    OBVIOUS
  <2>6. AreTrees(d)
    <3>1. NoTree.ids = <<>> /\ NoTree.viewers = 0 /\ <<>> \in Seq(Id)
      BY DEF NoTree
    <3> QED
      <4>1. IsTree(NoTree)
        BY <3>1 DEF IsTree
      <4>2. d = [r \in TreeRoom |-> d[r]] /\ \A r \in TreeRoom : d[r] = NoTree
        BY <2>5
      <4> QED
        BY <4>1, <4>2 DEF AreTrees
  <2>7. plane = PlaneOf(a, b, c, d)
    BY <2>1, <2>2, <2>3, <2>4, <2>5 DEF Init, NewPlane, PlaneOf
  <2>8. plane.obj = a /\ plane.assign = b /\ plane.links = c /\ plane.tree = d
    BY <2>7 DEF PlaneOf
  <2>9. IsPlane(plane)
    BY <2>2, <2>3, <2>4, <2>6, <2>7, <2>8, Assembled
  <2>10. n.used = FALSE /\ n.rooms = {}
    BY <2>1 DEF NewNode
  <2> QED
    BY <2>2, <2>3, <2>4, <2>5, <2>8, <2>9, <2>10
<1>6. own \in [Obj -> Fails] /\ since \in [Id -> Fails] /\ left = {} /\ calls \in 0 .. MaxCalls
      /\ \A i \in Id : since[i] = 0
  BY <1>0 DEF Init
<1>7. Distinct(Registered) /\ Distinct(checker.flight) /\ Listened(Registered, tracker)
      /\ GoneAreLost(Registered, plane, tracker)
  BY <1>2, <1>3, <1>4 DEF Distinct, Listened, GoneAreLost
<1>8. AreUsed(Registered, plane, checker.flight, left)
  BY <1>2, <1>3, <1>5, <1>6, SfuAssumption DEF AreUsed, Routed
<1>9. PlaneInv(Registered, plane, left, tracker.watch)
  <2>1. RouterServed(Registered, plane, left)
    BY <1>5, SfuAssumption DEF RouterServed, Routed
  <2>2. ToSet(NoTree.ids) = {}
    BY NoElements DEF NoTree
  <2>3. TreeServed(Registered, plane, left)
    BY <1>5, <2>2 DEF TreeServed, InTree
  <2>4. Tracked(Registered, plane, left)
    <3>1. \A o \in Obj : RoutesFit(plane, o)
      BY <1>5, SfuAssumption DEF RoutesFit, Routed
    <3> QED
      BY <1>2, <3>1 DEF Tracked
  <2> QED
    BY <2>1, <2>3, <2>4 DEF PlaneInv
<1>10. Streaks(Registered, checker.flight, cluster.fail, own, since)
  BY <1>1, <1>2, <1>3, <1>6 DEF Streaks
<1> QED
  BY <1>1, <1>3, <1>4, <1>5, <1>6, <1>7, <1>8, <1>9, <1>10 DEF IndInv, Typing

-----------------------------------------------------------------------------
(* Nodes leave and come.                                                   *)

\* What there is once only the nodes of R are left of the registered ones.
Remaining(c, t, p, L, R) ==
    /\ c \in ClusterType /\ ToSet(c.nodes) = R /\ R \subseteq Registered
    /\ t \in TrackerType /\ t.watch = tracker.watch
    /\ IsPlane(p) /\ SameFlags(plane, p) /\ Blank(p)
    /\ L \in SUBSET Obj /\ \A x \in L : x \in left \/ x \in Registered \ R
    /\ Listened(R, t) /\ GoneAreLost(R, p, t) /\ PlaneInv(R, p, L, t.watch)
    /\ \A i \in Id : c.fail[i] = IF \E x \in R : IdOf[x] = i THEN cluster.fail[i] ELSE 0

\* The tracker when o leaves.
LEMMA DetachedFacts ==
    ASSUME IndInv, NEW o \in Registered, NEW t, t = Detached(tracker, o)
    PROVE  /\ t \in TrackerType /\ t.watch = tracker.watch /\ Listened(Registered \ {o}, t)
           /\ \A i \in t.gone : i \in tracker.gone \/ (i = IdOf[o] /\ plane.obj[o].drain = "no")
<1>1. Holds(cluster, checker, tracker, plane, own, since, left, Registered)
  BY Held
<1>2. tracker.listeners \in [Id -> Slots] /\ tracker.gone \in SUBSET Id /\ tracker.watch \in Who
  BY <1>1, TrackerFields DEF Holds
<1>3. PICK i \in Id : i = IdOf[o]
  BY <1>1 DEF Holds, Id
<1>4. CASE tracker.watch = {}
  BY <1>1, <1>4 DEF Detached, Holds, Listened
<1>5. CASE tracker.watch # {}
  <2>1. PICK l : l = [tracker.listeners EXCEPT ![i] = None]
    OBVIOUS
  <2>2. /\ l \in [Id -> Slots] /\ l[i] = None
        /\ \A j \in Id : j # i => l[j] = tracker.listeners[j]
    BY <1>2, <2>1 DEF Slots
  <2>3. PICK g \in SUBSET Id :
           g = IF plane.obj[o].drain = "no" THEN tracker.gone \cup {i} ELSE tracker.gone
    BY <1>2
  <2>4. t = [tracker EXCEPT !.listeners = l, !.gone = g]
    BY <1>3, <1>5, <2>1, <2>3 DEF Detached
  <2>5. t \in TrackerType /\ t.listeners = l /\ t.gone = g /\ t.watch = tracker.watch
    BY <1>1, <2>2, <2>4 DEF TrackerType, Holds
  <2>6. Listened(Registered \ {o}, t)
    <3>1. /\ \A x \in Registered : tracker.listeners[IdOf[x]] = x /\ IdOf[x] \in Id
          /\ \A j \in Id : (\A x \in Registered : IdOf[x] # j) => tracker.listeners[j] = None
          /\ \A x \in Registered \ {o} : IdOf[x] # i
      BY <1>1, <1>3, <1>5 DEF Holds, Listened, Distinct, Id
    <3>2. \A x \in Registered \ {o} : l[IdOf[x]] = x
      BY <2>2, <3>1
    <3>3. ASSUME NEW j \in Id, \A x \in Registered \ {o} : IdOf[x] # j PROVE l[j] = None
      BY <1>3, <2>2, <3>1, <3>3
    <3> QED
      BY <2>5, <3>2, <3>3 DEF Listened
  <2> QED
    BY <1>3, <2>3, <2>5, <2>6
<1> QED
  BY <1>4, <1>5

\* The rooms when o leaves.
LEMMA PlaneWithout ==
    ASSUME IndInv, NEW o \in Registered, NEW nodes \in Seq(Obj), ToSet(nodes) = Registered \ {o},
           NEW p, p = IF plane.obj[o].drain = "no" THEN FireGone(o, nodes, plane) ELSE plane,
           NEW L, L = IF plane.obj[o].drain = "no" THEN left ELSE left \cup {o}
    PROVE  /\ IsPlane(p) /\ SameFlags(plane, p) /\ Fewer(Registered \ {o}, plane, p)
           /\ PlaneInv(Registered \ {o}, p, L, tracker.watch)
<1>1. Holds(cluster, checker, tracker, plane, own, since, left, Registered)
  BY Held
<1>2. /\ o \in Obj /\ IsPlane(plane) /\ tracker \in TrackerType /\ left \in SUBSET Obj
      /\ Registered \in SUBSET Obj /\ Distinct(Registered) /\ PlaneInv(Registered, plane, left, tracker.watch)
  BY <1>1 DEF Holds
<1>3. CASE plane.obj[o].drain = "no"
  <2>1. p = FireGone(o, nodes, plane) /\ L = left
    BY <1>3
  <2>2. NoneServes(Registered \ {o}, plane, o)
    BY <1>2 DEF NoneServes, Distinct
  <2>3. PlaneBut(Registered \ {o}, plane, left, tracker.watch, o)
    <3>1. RouterServed(Registered, plane, left) => RoutedBut(Registered \ {o}, plane, left, o)
      BY DEF RouterServed, RoutedBut
    <3>2. TreeServed(Registered, plane, left) => InTreeBut(Registered \ {o}, plane, left, IdOf[o])
      BY DEF TreeServed, InTreeBut
    <3>3. Tracked(Registered, plane, left) => Tracked(Registered \ {o}, plane, left)
      BY DEF Tracked
    <3> QED
      BY <1>2, <3>1, <3>2, <3>3 DEF PlaneInv, PlaneBut
  <2>4. ASSUME IdOf[o] \in tracker.gone PROVE PlaneInv(Registered \ {o}, plane, left, tracker.watch)
    <3>1. CASE tracker.watch = {}
      BY <3>1 DEF PlaneInv
    <3>2. CASE tracker.watch # {}
      <4>1. plane.obj[o].failed
        BY <1>1, <2>4, <3>2 DEF Holds, GoneAreLost
      <4>2. RouterServed(Registered, plane, left) => RouterServed(Registered \ {o}, plane, left)
        BY <1>2, <4>1 DEF RouterServed
      <4>3. TreeServed(Registered, plane, left) => TreeServed(Registered \ {o}, plane, left)
        BY <4>1 DEF TreeServed
      <4>4. Tracked(Registered, plane, left) => Tracked(Registered \ {o}, plane, left)
        BY DEF Tracked
      <4> QED
        BY <1>2, <4>2, <4>3, <4>4 DEF PlaneInv
    <3> QED
      BY <3>1, <3>2
  <2>5. /\ NoneServes(ToSet(nodes), plane, o) /\ PlaneBut(ToSet(nodes), plane, left, tracker.watch, o)
        /\ IdOf[o] \in tracker.gone => PlaneInv(ToSet(nodes), plane, left, tracker.watch)
    BY <2>2, <2>3, <2>4
  <2>6. /\ IsPlane(p) /\ SameFlags(plane, p) /\ Fewer(ToSet(nodes), plane, p)
        /\ PlaneInv(ToSet(nodes), p, left, tracker.watch)
    BY <1>2, <2>1, <2>5, FireGoneFacts, Zenon
  <2> QED
    BY <2>1, <2>6
<1>4. CASE plane.obj[o].drain # "no"
  <2>1. p = plane /\ L = left \cup {o}
    BY <1>4
  <2>2. SameFlags(plane, p) /\ Fewer(Registered \ {o}, plane, p)
    BY <2>1 DEF SameFlags, Fewer
  <2>3. RouterServed(Registered, plane, left) => RouterServed(Registered \ {o}, plane, L)
    BY <2>1 DEF RouterServed
  <2>4. TreeServed(Registered, plane, left) => TreeServed(Registered \ {o}, plane, L)
    <3>1. SUFFICES ASSUME TreeServed(Registered, plane, left),
                          NEW r \in TreeRoom, NEW i \in Id, InTree(plane, r, i)
                   PROVE  \/ \E x \in Registered \ {o} : IdOf[x] = i /\ ~ plane.obj[x].failed
                          \/ LeftId(L, i)
      BY DEF TreeServed
    <3>2. (\E x \in Registered : IdOf[x] = i /\ ~ plane.obj[x].failed) \/ LeftId(left, i)
      BY <3>1 DEF TreeServed
    <3>3. LeftId(left, i) \/ IdOf[o] = i => LeftId(L, i)
      BY <2>1 DEF LeftId
    <3> QED
      BY <3>2, <3>3
  <2>5. Tracked(Registered, plane, left) => Tracked(Registered \ {o}, plane, L)
    BY <2>1 DEF Tracked, LeftId
  <2>6. PlaneInv(Registered \ {o}, p, L, tracker.watch)
    BY <1>2, <2>1, <2>3, <2>4, <2>5 DEF PlaneInv
  <2> QED
    BY <1>2, <2>1, <2>2, <2>6
<1> QED
  BY <1>3, <1>4

\* removeNode, as far as addNode shares it.
LEMMA RemovedFacts ==
    ASSUME IndInv, NEW o \in Registered, NEW s, s = Removed(o)
    PROVE  Remaining(s.cluster, s.tracker, s.plane, s.left, Registered \ {o})
<1>1. Holds(cluster, checker, tracker, plane, own, since, left, Registered)
  BY Held
<1>2. /\ o \in Obj /\ Registered \in SUBSET Obj /\ Distinct(Registered) /\ left \in SUBSET Obj
      /\ cluster.nodes \in Seq(Obj) /\ cluster.fail \in [Id -> Fails] /\ cluster.pass \in [Id -> Passes]
  BY <1>1, ClusterFields DEF Holds
<1>3. PICK nodes : nodes = Keeping(cluster.nodes, Obj \ {o})
  OBVIOUS
<1>4. nodes \in Seq(Obj) /\ ToSet(nodes) = Registered \ {o}
  <2>1. nodes \in Seq(Obj) /\ ToSet(nodes) = ToSet(cluster.nodes) \cap (Obj \ {o})
    BY <1>2, <1>3, KeepingFacts
  <2> QED
    BY <1>2, <2>1 DEF Registered
<1>5. PICK i \in Id : i = IdOf[o]
  BY <1>2 DEF Id
<1>6. PICK f : f = [cluster.fail EXCEPT ![i] = 0]
  OBVIOUS
<1>7. PICK g : g = [cluster.pass EXCEPT ![i] = 0]
  OBVIOUS
<1>8. f \in [Id -> Fails] /\ g \in [Id -> Passes] /\ f[i] = 0 /\ \A j \in Id : j # i => f[j] = cluster.fail[j]
  BY <1>2, <1>6, <1>7, SfuAssumption DEF Fails, Passes
<1>9. PICK p : p = IF plane.obj[o].drain = "no" THEN FireGone(o, nodes, plane) ELSE plane
  OBVIOUS
<1>10. PICK L : L = IF plane.obj[o].drain = "no" THEN left ELSE left \cup {o}
  OBVIOUS
<1>11. PICK t : t = Detached(tracker, o)
  OBVIOUS
<1>12. s = [cluster |-> [nodes |-> nodes, fail |-> f, pass |-> g], tracker |-> t, plane |-> p, left |-> L]
  BY <1>3, <1>5, <1>6, <1>7, <1>9, <1>10, <1>11 DEF Removed
<1>13. s.cluster = [nodes |-> nodes, fail |-> f, pass |-> g] /\ s.tracker = t /\ s.plane = p /\ s.left = L
  BY <1>12
<1>14. s.cluster \in ClusterType /\ s.cluster.nodes = nodes /\ s.cluster.fail = f
  BY <1>4, <1>8, <1>13 DEF ClusterType
<1>15. /\ t \in TrackerType /\ t.watch = tracker.watch /\ Listened(Registered \ {o}, t)
       /\ \A j \in t.gone : j \in tracker.gone \/ (j = IdOf[o] /\ plane.obj[o].drain = "no")
  BY <1>11, DetachedFacts
<1>16. /\ IsPlane(p) /\ SameFlags(plane, p) /\ Fewer(Registered \ {o}, plane, p)
       /\ PlaneInv(Registered \ {o}, p, L, tracker.watch)
  BY <1>4, <1>9, <1>10, PlaneWithout
<1>17. L \in SUBSET Obj /\ \A x \in L : x \in left \/ x \in Registered \ (Registered \ {o})
  BY <1>2, <1>10
<1>18. GoneAreLost(Registered \ {o}, p, t)
  <2>1. \A x \in Registered \ {o} : IdOf[x] # IdOf[o] /\ p.obj[x].failed = plane.obj[x].failed
    BY <1>2, <1>16 DEF Distinct, SameFlags
  <2> QED
    BY <1>1, <1>15, <2>1 DEF GoneAreLost, Holds
<1>19. Blank(p)
  <2>1. \A x \in Obj : ~ p.obj[x].used =>
           ~ plane.obj[x].used /\ x \notin Registered \ {o} /\ plane.obj[x].rooms = {}
           /\ \A r \in RouterRoom : ~ Routed(plane, r, x)
    BY <1>1, <1>16 DEF Holds, AreUsed, SameFlags
  <2> QED
    BY <1>16, <2>1 DEF Blank, Fewer
<1>20. ASSUME NEW j \in Id
       PROVE  f[j] = IF \E x \in Registered \ {o} : IdOf[x] = j THEN cluster.fail[j] ELSE 0
  <2>1. CASE j = i
    BY <1>2, <1>5, <1>8, <2>1 DEF Distinct
  <2>2. CASE j # i
    <3>1. (\A x \in Registered : IdOf[x] # j) => cluster.fail[j] = 0
      BY <1>1 DEF Holds, Streaks
    <3> QED
      BY <1>5, <1>8, <2>2, <3>1
  <2> QED
    BY <2>1, <2>2
<1> QED
  BY <1>4, <1>13, <1>14, <1>15, <1>16, <1>17, <1>18, <1>19, <1>20 DEF Remaining

LEMMA RemoveInv ==
    ASSUME IndInv, NEW o \in Obj, RemoveNode(o)
    PROVE  IndInv' /\ Evidence
<1>1. /\ Holds(cluster, checker, tracker, plane, own, since, left, Registered)
      /\ calls' \in 0 .. MaxCalls
  BY Held, Called DEF RemoveNode
<1>2. PICK s : s = Removed(o)
  OBVIOUS
<1>3. /\ o \in Registered /\ cluster' = s.cluster /\ tracker' = s.tracker /\ plane' = s.plane
      /\ left' = s.left /\ own' = [own EXCEPT ![o] = 0] /\ checker' = checker /\ since' = since
  BY <1>2 DEF RemoveNode
<1>4. PICK R \in SUBSET Obj : R = Registered \ {o}
  BY <1>1 DEF Holds
<1>5. Remaining(s.cluster, s.tracker, s.plane, s.left, R)
  BY <1>2, <1>3, <1>4, RemovedFacts
<1>6. PICK p, L, c, t : p = s.plane /\ L = s.left /\ c = s.cluster /\ t = s.tracker
  OBVIOUS
<1>7. checker.flight \in SUBSET Obj
  BY <1>1, CheckerFields DEF Holds
<1>8. AreUsed(R, p, checker.flight, L)
  <2>1. \A x \in Obj : p.obj[x].used = plane.obj[x].used
    BY <1>5, <1>6 DEF Remaining, SameFlags
  <2>2. \A x \in Registered \cup checker.flight \cup left : plane.obj[x].used /\ x \in Obj
    BY <1>1, <1>7 DEF Holds, AreUsed
  <2>3. /\ \A x \in L : x \in left \/ x \in Registered \ R
        /\ R \subseteq Registered /\ Blank(p)
    BY <1>5, <1>6 DEF Remaining
  <2> QED
    BY <2>1, <2>2, <2>3 DEF AreUsed, Blank
<1>9. PICK o1 \in [Obj -> Fails] : o1 = own' /\ \A x \in R : o1[x] = own[x]
  <2>1. 0 \in Fails /\ own \in [Obj -> Fails]
    BY <1>1, SfuAssumption DEF Holds, Fails
  <2> QED
    BY <1>3, <1>4, <2>1
<1>10. Streaks(R, checker.flight, c.fail, o1, since)
  <2>1. /\ \A i \in Id : cluster.fail[i] <= since[i]
        /\ \A x \in Registered : cluster.fail[IdOf[x]] <= own[x] + 1 /\ IdOf[x] \in Id
        /\ \A x \in Registered, y \in checker.flight :
              y # x /\ IdOf[y] = IdOf[x] => cluster.fail[IdOf[x]] = 0
    BY <1>1 DEF Holds, Streaks, Id
  <2>2. /\ \A i \in Id : c.fail[i] = IF \E x \in R : IdOf[x] = i THEN cluster.fail[i] ELSE 0
        /\ R \subseteq Registered
    BY <1>5, <1>6 DEF Remaining
  <2>3. \A i \in Id : since[i] \in Nat
    BY <1>1, SfuAssumption DEF Holds, Fails
  <2>4. \A i \in Id : c.fail[i] <= since[i] /\ ((\A x \in R : IdOf[x] # i) => c.fail[i] = 0)
    BY <2>1, <2>2, <2>3
  <2>5. \A x \in R : c.fail[IdOf[x]] = cluster.fail[IdOf[x]]
    BY <2>1, <2>2
  <2> QED
    BY <1>9, <2>1, <2>2, <2>4, <2>5 DEF Streaks
<1>11. Holds(c, checker, t, p, o1, since, L, R)
  <2>1. Distinct(R)
    BY <1>1, <1>4 DEF Holds, Distinct
  <2>2. /\ c \in ClusterType /\ R = ToSet(c.nodes) /\ t \in TrackerType /\ t.watch = tracker.watch
        /\ IsPlane(p) /\ L \in SUBSET Obj /\ Listened(R, t) /\ GoneAreLost(R, p, t)
        /\ PlaneInv(R, p, L, t.watch)
    BY <1>5, <1>6 DEF Remaining
  <2>3. checker \in CheckerType /\ Distinct(checker.flight) /\ since \in [Id -> Fails]
    BY <1>1 DEF Holds
  <2> QED
    BY <1>4, <1>8, <1>9, <1>10, <2>1, <2>2, <2>3 DEF Holds
<1>12. IndInv'
  BY <1>1, <1>3, <1>6, <1>9, <1>11, Reached
<1>13. Evidence
  <2>1. \A x \in Obj : plane'.obj[x].failed = plane.obj[x].failed
    BY <1>3, <1>5 DEF Remaining, SameFlags
  <2>2. Registered \subseteq Obj
    BY <1>1 DEF Holds
  <2> QED
    BY <2>1, <2>2 DEF Evidence
<1> QED
  BY <1>12, <1>13

\* The state in which addNode adds o.
Vacated(o) ==
    IF HasId(IdOf[o]) THEN Removed(CHOOSE x \in Registered : IdOf[x] = IdOf[o])
    ELSE [cluster |-> cluster, tracker |-> tracker, plane |-> plane, left |-> left]

\* In it no other node has the id.
LEMMA RoomForIt ==
    ASSUME IndInv, NEW o \in Obj, NEW s,
           s = Vacated(o)
    PROVE  \E R \in SUBSET Obj : /\ Remaining(s.cluster, s.tracker, s.plane, s.left, R) /\ \A x \in R : IdOf[x] # IdOf[o]
                                 /\ \A x \in Registered : IdOf[x] # IdOf[o] => x \in R
<1>1. Holds(cluster, checker, tracker, plane, own, since, left, Registered)
  BY Held
<1>2. CASE HasId(IdOf[o])
  <2>1. PICK x \in Registered : x = CHOOSE y \in Registered : IdOf[y] = IdOf[o]
    BY <1>2 DEF HasId
  <2>2. IdOf[x] = IdOf[o]
    BY <1>2, <2>1 DEF HasId
  <2>3. s = Removed(x)
    BY <1>2, <2>1 DEF Vacated
  <2>4. PICK R \in SUBSET Obj : R = Registered \ {x}
    BY <1>1 DEF Holds
  <2>5. Remaining(s.cluster, s.tracker, s.plane, s.left, R)
    BY <2>1, <2>3, <2>4, RemovedFacts
  <2>6. (\A y \in R : IdOf[y] # IdOf[o]) /\ \A y \in Registered : IdOf[y] # IdOf[o] => y \in R
    BY <1>1, <2>1, <2>2, <2>4 DEF Holds, Distinct
  <2> QED
    BY <2>5, <2>6
<1>3. CASE ~ HasId(IdOf[o])
  <2>1. s = [cluster |-> cluster, tracker |-> tracker, plane |-> plane, left |-> left]
    BY <1>3 DEF Vacated
  <2>2. s.cluster = cluster /\ s.tracker = tracker /\ s.plane = plane /\ s.left = left
    BY <2>1
  <2>3. SameFlags(plane, plane) /\ Blank(plane)
    BY <1>1 DEF SameFlags, Blank, Holds, AreUsed
  <2>4. \A i \in Id : cluster.fail[i] = IF \E x \in Registered : IdOf[x] = i THEN cluster.fail[i] ELSE 0
    BY <1>1 DEF Holds, Streaks
  <2>5. Remaining(cluster, tracker, plane, left, Registered)
    BY <1>1, <2>3, <2>4 DEF Remaining, Holds
  <2>6. \A x \in Registered : IdOf[x] # IdOf[o]
    BY <1>3 DEF HasId
  <2> QED
    BY <1>1, <2>2, <2>5, <2>6 DEF Holds
<1> QED
  BY <1>2, <1>3

\* No node of R has the id of o.
NoneHas(R, o) == \A x \in R : IdOf[x] # IdOf[o]

\* The tracker when o comes.
LEMMA AttachFacts ==
    ASSUME NEW u \in TrackerType, NEW o \in Obj, NEW R \in SUBSET Obj, Listened(R, u),
           NoneHas(R, o), NEW t, t = Attach(u, o)
    PROVE  /\ t \in TrackerType /\ t.watch = u.watch /\ Listened(R \cup {o}, t)
           /\ t.watch # {} => IdOf[o] \notin t.gone
           /\ t.gone \subseteq u.gone
<1>1. u.listeners \in [Id -> Slots] /\ u.gone \in SUBSET Id /\ u.watch \in Who
  BY TrackerFields
<1>2. PICK i \in Id : i = IdOf[o]
  BY DEF Id
<1>3. CASE u.watch = {}
  BY <1>3 DEF Attach, Listened
<1>4. CASE u.watch # {}
  <2>1. u.listeners[i] = None
    BY <1>2, <1>4 DEF Listened, NoneHas
  <2>2. PICK l : l = [u.listeners EXCEPT ![i] = o]
    OBVIOUS
  <2>3. l \in [Id -> Slots] /\ l[i] = o /\ \A j \in Id : j # i => l[j] = u.listeners[j]
    BY <1>1, <2>2 DEF Slots
  <2>4. PICK g \in SUBSET Id : g = u.gone \ {i}
    BY <1>1
  <2>5. t = [u EXCEPT !.listeners = l, !.gone = g]
    BY <1>2, <1>4, <2>1, <2>2, <2>4 DEF Attach
  <2>6. t \in TrackerType /\ t.listeners = l /\ t.gone = g /\ t.watch = u.watch
    BY <2>3, <2>5 DEF TrackerType
  <2>7. Listened(R \cup {o}, t)
    <3>1. \A x \in R : u.listeners[IdOf[x]] = x /\ IdOf[x] \in Id /\ IdOf[x] # i
      BY <1>2, <1>4 DEF Listened, Id, NoneHas
    <3>2. \A x \in R \cup {o} : l[IdOf[x]] = x
      BY <1>2, <2>3, <3>1
    <3>3. ASSUME NEW j \in Id, \A x \in R \cup {o} : IdOf[x] # j PROVE l[j] = None
      BY <1>2, <1>4, <2>3, <3>3 DEF Listened
    <3> QED
      BY <2>6, <3>2, <3>3 DEF Listened
  <2> QED
    BY <1>2, <2>4, <2>6, <2>7
<1> QED
  BY <1>3, <1>4

\* addNode: the rooms and the streaks of a former node of the id are not those of the new one.
LEMMA AddInv ==
    ASSUME IndInv, NEW o \in Obj, AddNode(o)
    PROVE  IndInv' /\ Evidence
<1>1. /\ Holds(cluster, checker, tracker, plane, own, since, left, Registered)
      /\ calls' \in 0 .. MaxCalls /\ checker' = checker
  BY Held, Called DEF AddNode, CallUnless
<1>2. PICK s : s = Vacated(o)
  OBVIOUS
<1>3. /\ cluster' = [s.cluster EXCEPT !.nodes = Append(s.cluster.nodes, o)]
      /\ tracker' = Attach(s.tracker, o)
      /\ plane' = Added(s.plane, o)
      /\ left' = s.left
  BY <1>2 DEF AddNode, Vacated
<1>4. /\ own' = [x \in Obj |-> IF IdOf[x] = IdOf[o] THEN 0 ELSE own[x]]
      /\ since' = [since EXCEPT ![IdOf[o]] = 0]
  BY DEF AddNode
<1>5. PICK R \in SUBSET Obj : /\ Remaining(s.cluster, s.tracker, s.plane, s.left, R) /\ \A x \in R : IdOf[x] # IdOf[o]
                              /\ \A x \in Registered : IdOf[x] # IdOf[o] => x \in R
  BY <1>2, RoomForIt
<1>6. PICK p, L, c, u : p = s.plane /\ L = s.left /\ c = s.cluster /\ u = s.tracker
  OBVIOUS
<1>7. /\ c \in ClusterType /\ ToSet(c.nodes) = R /\ R \subseteq Registered
      /\ u \in TrackerType /\ u.watch = tracker.watch
      /\ IsPlane(p) /\ SameFlags(plane, p) /\ Blank(p)
      /\ L \in SUBSET Obj /\ \A x \in L : x \in left \/ x \in Registered \ R
      /\ Listened(R, u) /\ GoneAreLost(R, p, u) /\ PlaneInv(R, p, L, u.watch)
      /\ \A i \in Id : c.fail[i] = IF \E x \in R : IdOf[x] = i THEN cluster.fail[i] ELSE 0
  BY <1>5, <1>6 DEF Remaining
<1>8. PICK N \in SUBSET Obj : N = R \cup {o}
  OBVIOUS
<1>9. PICK d : d = cluster' /\ d \in ClusterType /\ ToSet(d.nodes) = N /\ d.fail = c.fail
  <2>1. c.nodes \in Seq(Obj) /\ Append(c.nodes, o) \in Seq(Obj) /\ ToSet(Append(c.nodes, o)) = N
    BY <1>7, <1>8, ClusterFields, Elements
  <2>2. PICK n \in Seq(Obj) : n = Append(c.nodes, o)
    BY <2>1
  <2>3. PICK d : d = [c EXCEPT !.nodes = n]
    OBVIOUS
  <2>4. d \in ClusterType /\ d.nodes = n /\ d.fail = c.fail
    BY <1>7, <2>3 DEF ClusterType
  <2>5. d = cluster'
    BY <1>3, <1>6, <2>2, <2>3
  <2> QED
    BY <2>1, <2>2, <2>4, <2>5
<1>10. PICK t : t = tracker' /\ t = Attach(u, o)
  BY <1>3, <1>6
<1>11. /\ t \in TrackerType /\ t.watch = u.watch /\ Listened(N, t)
       /\ t.watch # {} => IdOf[o] \notin t.gone
       /\ t.gone \subseteq u.gone
  <2>1. /\ t \in TrackerType /\ t.watch = u.watch /\ Listened(R \cup {o}, t)
        /\ t.watch # {} => IdOf[o] \notin t.gone
        /\ t.gone \subseteq u.gone
    <3>1. NoneHas(R, o)
      BY <1>5 DEF NoneHas
    <3>2. u \in TrackerType /\ Listened(R, u)
      BY <1>7
    <3> QED
      BY <1>10, <3>1, <3>2, AttachFacts
  <2> QED
    BY <1>8, <2>1
<1>12. PICK x : x = [p.obj[o] EXCEPT !.used = TRUE, !.again = p.obj[o].again \/ p.obj[o].used]
  OBVIOUS
<1>13. /\ x \in NodeType /\ x.used = TRUE /\ x.failed = p.obj[o].failed /\ x.rooms = p.obj[o].rooms
       /\ x.again <=> p.obj[o].again \/ p.obj[o].used
  <2>1. p.obj[o] \in NodeType
    BY <1>7, Fields
  <2>2. PICK b \in BOOLEAN : b = (p.obj[o].again \/ p.obj[o].used)
    OBVIOUS
  <2>3. x = [p.obj[o] EXCEPT !.used = TRUE, !.again = b]
    BY <1>12, <2>2
  <2>4. x \in NodeType /\ x.used = TRUE /\ x.failed = p.obj[o].failed /\ x.rooms = p.obj[o].rooms /\ x.again = b
    BY <2>1, <2>3 DEF NodeType
  <2> QED
    BY <2>2, <2>4
<1>14. PICK q : q = plane' /\ q = WithNode(p, o, x)
  BY <1>3, <1>6, <1>12 DEF Added
<1>15. NodeIs(p, q, o, x)
  BY <1>7, <1>13, <1>14, WithNodeFacts
<1>16. /\ IsPlane(q) /\ q.obj[o].used /\ \A n \in Obj : n # o => q.obj[n] = p.obj[n]
       /\ \A n \in Obj : q.obj[n].failed = p.obj[n].failed /\ q.obj[n].rooms = p.obj[n].rooms
       /\ \A n \in Obj : q.obj[n].used <=> p.obj[n].used \/ n = o
       /\ q.obj[o].again <=> p.obj[o].again \/ p.obj[o].used
  BY <1>13, <1>15 DEF NodeIs
<1>17. /\ \A r \in RouterRoom, n \in Obj : Routed(q, r, n) <=> Routed(p, r, n)
       /\ \A r \in TreeRoom, i \in Id : InTree(q, r, i) <=> InTree(p, r, i)
  BY <1>15 DEF NodeIs, Routed, InTree
<1>18. checker.flight \in SUBSET Obj /\ IdOf[o] \in Id /\ \A n \in Obj : IdOf[n] \in Id
  BY <1>1, CheckerFields DEF Holds, Id
<1>19. o \notin R
  BY <1>5
<1>20. ~ p.obj[o].used => p.obj[o].rooms = {}
  BY <1>7 DEF Blank
<1>21. Distinct(N)
  BY <1>1, <1>5, <1>7, <1>8 DEF Holds, Distinct
<1>22. GoneAreLost(N, q, t)
  BY <1>7, <1>8, <1>11, <1>16 DEF GoneAreLost
<1>23. AreUsed(N, q, checker.flight, L)
  <2>1. \A n \in Registered \cup checker.flight \cup left : q.obj[n].used
    BY <1>1, <1>7, <1>16, <1>18 DEF Holds, AreUsed, SameFlags
  <2>2. \A n \in N \cup checker.flight \cup L : q.obj[n].used
    BY <1>7, <1>8, <1>16, <2>1
  <2>4. \A n \in Obj : ~ q.obj[n].used => q.obj[n].rooms = {} /\ \A r \in RouterRoom : ~ Routed(q, r, n)
    BY <1>7, <1>16, <1>17 DEF Blank
  <2> QED
    BY <2>2, <2>4 DEF AreUsed
<1>24. PlaneInv(N, q, L, t.watch)
  <2>1. RouterServed(R, p, L) => RouterServed(N, q, L)
    BY <1>8, <1>16, <1>17 DEF RouterServed
  <2>2. TreeServed(R, p, L) => TreeServed(N, q, L)
    BY <1>8, <1>16, <1>17 DEF TreeServed
  <2>3. TreeServed(R, p, L) /\ Tracked(R, p, L) => Tracked(N, q, L)
    <3>1. SUFFICES ASSUME TreeServed(R, p, L), Tracked(R, p, L), NEW n \in Obj, ~ LeftId(L, IdOf[n])
                   PROVE  RoutesFit(q, n) /\ (n \in N => TreesFit(q, n))
      BY DEF Tracked
    <3>2. RoutesFit(q, n)
      BY <1>16, <1>17, <3>1 DEF Tracked, RoutesFit
    <3>3. CASE n = o
      <4>1. \A r \in TreeRoom : ~ InTree(q, r, IdOf[o])
        BY <1>5, <1>17, <1>18, <3>1, <3>3 DEF TreeServed
      <4>2. q.obj[o].again \/ q.obj[o].rooms = {}
        BY <1>16, <1>20
      <4> QED
        BY <3>2, <3>3, <4>1, <4>2 DEF TreesFit
    <3>4. CASE n # o
      <4>1. n \in N => TreesFit(p, n)
        BY <1>8, <3>1, <3>4 DEF Tracked
      <4>2. TreesFit(p, n) => TreesFit(q, n)
        BY <1>16, <1>17, <1>18, <3>4 DEF TreesFit
      <4> QED
        BY <3>2, <4>1, <4>2
    <3> QED
      BY <3>3, <3>4
  <2>4. PlaneInv(R, p, L, t.watch)
    BY <1>7, <1>11
  <2> QED
    BY <2>1, <2>2, <2>3, <2>4 DEF PlaneInv
<1>25. PICK o1 \in [Obj -> Fails] : o1 = own' /\ \A n \in Obj : o1[n] = IF IdOf[n] = IdOf[o] THEN 0 ELSE own[n]
  <2>1. 0 \in Fails /\ own \in [Obj -> Fails]
    BY <1>1, SfuAssumption DEF Holds, Fails
  <2> QED
    BY <1>4, <2>1
<1>26. PICK s1 \in [Id -> Fails] : s1 = since' /\ \A i \in Id : s1[i] = IF i = IdOf[o] THEN 0 ELSE since[i]
  <2>1. 0 \in Fails /\ since \in [Id -> Fails]
    BY <1>1, SfuAssumption DEF Holds, Fails
  <2>2. PICK i \in Id : i = IdOf[o]
    BY <1>18
  <2>3. PICK s1 : s1 = [since EXCEPT ![i] = 0]
    OBVIOUS
  <2>4. s1 \in [Id -> Fails] /\ \A j \in Id : s1[j] = IF j = i THEN 0 ELSE since[j]
    BY <2>1, <2>3
  <2>5. s1 = since'
    BY <1>4, <2>2, <2>3
  <2> QED
    BY <2>2, <2>4, <2>5
<1>27. Streaks(N, checker.flight, d.fail, o1, s1)
  <2>1. /\ \A i \in Id : cluster.fail[i] <= since[i] /\ since[i] \in Nat
        /\ \A n \in Registered : cluster.fail[IdOf[n]] <= own[n] + 1
        /\ \A n \in Registered, y \in checker.flight :
              y # n /\ IdOf[y] = IdOf[n] => cluster.fail[IdOf[n]] = 0
    BY <1>1, SfuAssumption DEF Holds, Streaks, Fails
  <2>2. d.fail[IdOf[o]] = 0
    BY <1>5, <1>7, <1>9, <1>18
  <2>3. \A n \in R : d.fail[IdOf[n]] = cluster.fail[IdOf[n]] /\ o1[n] = own[n] /\ n \in Registered
    BY <1>5, <1>7, <1>9, <1>18, <1>25
  <2>4. \A i \in Id : (\A n \in N : IdOf[n] # i) => d.fail[i] = 0
    BY <1>7, <1>8, <1>9
  <2>5. \A i \in Id : d.fail[i] <= s1[i]
    BY <1>7, <1>9, <1>26, <2>1, <2>2
  <2>6. \A n \in N : d.fail[IdOf[n]] <= o1[n] + 1
    BY <1>8, <1>25, <2>1, <2>2, <2>3
  <2>7. \A n \in N, y \in checker.flight : y # n /\ IdOf[y] = IdOf[n] => d.fail[IdOf[n]] = 0
    BY <1>8, <2>1, <2>2, <2>3
  <2> QED
    BY <2>4, <2>5, <2>6, <2>7 DEF Streaks
<1>28. Holds(d, checker, t, q, o1, s1, L, N)
  BY <1>1, <1>7, <1>9, <1>11, <1>16, <1>21, <1>22, <1>23, <1>24, <1>27 DEF Holds
<1>29. IndInv'
  BY <1>1, <1>3, <1>6, <1>9, <1>10, <1>14, <1>25, <1>26, <1>28, Reached
<1>30. Evidence
  BY <1>1, <1>7, <1>14, <1>16 DEF Evidence, SameFlags, Holds
<1> QED
  BY <1>29, <1>30

-----------------------------------------------------------------------------
(* Health checks.                                                          *)

\* What holds of the plane q and the tracker t once the result for o is dealt with.
Marked(o, q, t) ==
    /\ IsPlane(q) /\ t \in TrackerType
    /\ Listened(Registered, t) /\ GoneAreLost(Registered, q, t)
    /\ PlaneInv(Registered, q, left, t.watch) /\ Blank(q)
    /\ \A x \in Obj : q.obj[x].used = plane.obj[x].used
    /\ \A x \in Obj : x # o => q.obj[x].failed = plane.obj[x].failed

\* A node of a watched cluster is listened to as long as it is registered.
LEMMA ListensFacts ==
    ASSUME IndInv, NEW o \in Obj, HasId(IdOf[o]), tracker.watch # {}
    PROVE  Listens(o) <=> o \in Registered
<1>1. Holds(cluster, checker, tracker, plane, own, since, left, Registered)
  BY Held
<1>2. PICK n \in Registered : IdOf[n] = IdOf[o]
  BY DEF HasId
<1> QED
  BY <1>1, <1>2 DEF Holds, Listened, Listens

\* The tracker with other ids that are gone.
LEMMA GoneBecomes ==
    ASSUME NEW u \in TrackerType, NEW g \in SUBSET Id, NEW t, t = [u EXCEPT !.gone = g]
    PROVE  t \in TrackerType /\ t.gone = g /\ t.watch = u.watch /\ t.listeners = u.listeners
  BY DEF TrackerType

\* markFailed: where the failure is heard no room stays on the node, and where it is not
\* the node is not registered or nobody watches.
LEMMA MarkFailedFacts ==
    ASSUME IndInv, NEW o \in checker.flight, HasId(IdOf[o]), ~ plane.obj[o].failed, MarkFailed(o),
           NEW q, q = plane', NEW t, t = tracker'
    PROVE  Marked(o, q, t)
<1>1. Holds(cluster, checker, tracker, plane, own, since, left, Registered)
  BY Held
<1>2. /\ o \in Obj /\ IsPlane(plane) /\ tracker \in TrackerType /\ left \in SUBSET Obj
      /\ Registered \in SUBSET Obj /\ Distinct(Registered) /\ cluster.nodes \in Seq(Obj)
      /\ PlaneInv(Registered, plane, left, tracker.watch) /\ plane.obj[o].used
      /\ Blank(plane) /\ Listened(Registered, tracker) /\ GoneAreLost(Registered, plane, tracker)
      /\ Registered = ToSet(cluster.nodes)
  <2>1. checker.flight \in SUBSET Obj /\ cluster.nodes \in Seq(Obj)
    BY <1>1, CheckerFields, ClusterFields DEF Holds
  <2> QED
    BY <1>1, <2>1 DEF Holds, AreUsed, Blank
<1>3. plane.obj[o] \in NodeType /\ tracker.gone \in SUBSET Id /\ IdOf[o] \in Id
  BY <1>2, Fields, TrackerFields DEF Id
<1>4. PICK x : x = [plane.obj[o] EXCEPT !.failed = TRUE,
                       !.drain = IF plane.obj[o].drain = "waiting" THEN "resolved" ELSE plane.obj[o].drain]
  OBVIOUS
<1>5. /\ x \in NodeType /\ x.failed /\ x.used = plane.obj[o].used /\ x.again = plane.obj[o].again
      /\ x.rooms = plane.obj[o].rooms
  <2>1. PICK d \in Drains : d = IF plane.obj[o].drain = "waiting" THEN "resolved" ELSE plane.obj[o].drain
    BY <1>3 DEF NodeType, Drains
  <2>2. x = [plane.obj[o] EXCEPT !.failed = TRUE, !.drain = d]
    BY <1>4, <2>1
  <2> QED
    BY <1>3, <2>2 DEF NodeType
<1>6. PICK p : p = WithNode(plane, o, x)
  OBVIOUS
<1>7. /\ q = IF Listens(o) THEN FireGone(o, cluster.nodes, p) ELSE p
      /\ t = IF Listens(o) THEN [tracker EXCEPT !.gone = tracker.gone \cup {IdOf[o]}] ELSE tracker
  BY <1>4, <1>6 DEF MarkFailed
<1>8. NodeIs(plane, p, o, x)
  BY <1>2, <1>5, <1>6, WithNodeFacts
<1>9. /\ IsPlane(p) /\ p.obj[o].failed /\ \A n \in Obj : n # o => p.obj[n].failed = plane.obj[n].failed
      /\ \A n \in Obj : p.obj[n].used = plane.obj[n].used /\ p.obj[n].rooms = plane.obj[n].rooms
      /\ \A n \in Obj : p.obj[n].again = plane.obj[n].again
  BY <1>5, <1>8 DEF NodeIs
<1>10. /\ \A r \in RouterRoom, n \in Obj : Routed(p, r, n) <=> Routed(plane, r, n)
       /\ \A r \in TreeRoom, i \in Id : InTree(p, r, i) <=> InTree(plane, r, i)
  BY <1>8 DEF NodeIs, Routed, InTree
<1>12. Tracked(Registered, plane, left) => Tracked(Registered, p, left)
  BY <1>2, <1>9, <1>10, SameFits
<1>13. Blank(p)
  BY <1>2, <1>9, <1>10 DEF Blank
<1>14. PICK u : u = [tracker EXCEPT !.gone = tracker.gone \cup {IdOf[o]}]
  OBVIOUS
<1>15. /\ u \in TrackerType /\ u.gone = tracker.gone \cup {IdOf[o]} /\ u.watch = tracker.watch
       /\ u.listeners = tracker.listeners
  <2>1. PICK g \in SUBSET Id : g = tracker.gone \cup {IdOf[o]}
    BY <1>3
  <2>2. u = [tracker EXCEPT !.gone = g] /\ tracker \in TrackerType
    BY <1>2, <1>14, <2>1
  <2>3. u \in TrackerType /\ u.gone = g /\ u.watch = tracker.watch /\ u.listeners = tracker.listeners
    BY <2>2, GoneBecomes
  <2> QED
    BY <2>1, <2>3
<1>16. Listened(Registered, u)
  BY <1>2, <1>15 DEF Listened
<1>17. CASE tracker.watch = {}
  <2>1. q = p
    BY <1>7, <1>17 DEF FireGone
  <2>2. t \in TrackerType /\ t.watch = {}
    BY <1>2, <1>7, <1>14, <1>15, <1>17
  <2>3. Listened(Registered, t) /\ GoneAreLost(Registered, q, t) /\ PlaneInv(Registered, q, left, t.watch)
    BY <2>2 DEF Listened, GoneAreLost, PlaneInv
  <2> QED
    BY <1>9, <1>13, <2>1, <2>2, <2>3 DEF Marked
<1>18. CASE tracker.watch # {} /\ o \notin Registered
  <2>1. q = p /\ t = tracker
    BY <1>2, <1>7, <1>18, ListensFacts
  <2>2. GoneAreLost(Registered, p, tracker)
    BY <1>2, <1>9, <1>18 DEF GoneAreLost
  <2>3. RouterServed(Registered, plane, left) => RouterServed(Registered, p, left)
    BY <1>9, <1>10, <1>18 DEF RouterServed
  <2>4. TreeServed(Registered, plane, left) => TreeServed(Registered, p, left)
    BY <1>2, <1>9, <1>10, <1>18 DEF TreeServed
  <2>5. PlaneInv(Registered, p, left, tracker.watch)
    BY <1>2, <1>12, <2>3, <2>4 DEF PlaneInv
  <2> QED
    BY <1>2, <1>9, <1>13, <2>1, <2>2, <2>5 DEF Marked
<1>19. CASE tracker.watch # {} /\ o \in Registered
  <2>1. q = FireGone(o, cluster.nodes, p) /\ t = u
    BY <1>2, <1>7, <1>14, <1>19, ListensFacts
  <2>2. NoneServes(Registered, p, o)
    BY <1>2, <1>9, <1>19 DEF NoneServes, Distinct
  <2>3. PlaneBut(Registered, p, left, tracker.watch, o)
    <3>1. RouterServed(Registered, plane, left) => RoutedBut(Registered, p, left, o)
      BY <1>9, <1>10 DEF RouterServed, RoutedBut
    <3>2. TreeServed(Registered, plane, left) => InTreeBut(Registered, p, left, IdOf[o])
      BY <1>2, <1>9, <1>10 DEF TreeServed, InTreeBut
    <3> QED
      BY <1>2, <1>12, <3>1, <3>2 DEF PlaneInv, PlaneBut
  <2>4. IdOf[o] \notin tracker.gone
    BY <1>2, <1>19 DEF GoneAreLost
  <2>5. /\ NoneServes(ToSet(cluster.nodes), p, o) /\ PlaneBut(ToSet(cluster.nodes), p, left, tracker.watch, o)
        /\ IdOf[o] \in tracker.gone => PlaneInv(ToSet(cluster.nodes), p, left, tracker.watch)
    BY <1>2, <2>2, <2>3, <2>4
  <2>6. /\ IsPlane(q) /\ SameFlags(p, q) /\ Fewer(ToSet(cluster.nodes), p, q)
        /\ PlaneInv(ToSet(cluster.nodes), q, left, tracker.watch)
    BY <1>2, <1>9, <2>1, <2>5, FireGoneFacts, Zenon
  <2>7. /\ \A n \in Obj : q.obj[n].used = plane.obj[n].used
        /\ \A n \in Obj : n # o => q.obj[n].failed = plane.obj[n].failed
        /\ q.obj[o].failed
    BY <1>2, <1>9, <2>6 DEF SameFlags
  <2>8. Blank(q)
    <3>1. \A n \in Obj : ~ q.obj[n].used => n \notin Registered
      BY <1>1, <2>7 DEF Holds, AreUsed
    <3> QED
      BY <1>2, <1>13, <2>6, <3>1 DEF Blank, Fewer, SameFlags
  <2>9. GoneAreLost(Registered, q, u)
    <3>1. \A n \in Registered : n # o => IdOf[n] # IdOf[o]
      BY <1>2, <1>19 DEF Distinct
    <3> QED
      BY <1>2, <1>15, <2>7, <3>1 DEF GoneAreLost
  <2> QED
    BY <1>2, <1>15, <1>16, <2>1, <2>6, <2>7, <2>8, <2>9 DEF Marked
<1> QED
  BY <1>17, <1>18, <1>19

\* markRecovered: a registered node serves again, and its loss may be reported again.
LEMMA MarkRecoveredFacts ==
    ASSUME IndInv, NEW o \in checker.flight, HasId(IdOf[o]), MarkRecovered(o),
           NEW q, q = plane', NEW t, t = tracker'
    PROVE  Marked(o, q, t) /\ ~ q.obj[o].failed
<1>1. Holds(cluster, checker, tracker, plane, own, since, left, Registered)
  BY Held
<1>2. /\ o \in Obj /\ IsPlane(plane) /\ tracker \in TrackerType /\ Registered \in SUBSET Obj
      /\ PlaneInv(Registered, plane, left, tracker.watch) /\ Blank(plane)
      /\ Listened(Registered, tracker) /\ GoneAreLost(Registered, plane, tracker)
  <2>1. checker.flight \in SUBSET Obj
    BY <1>1, CheckerFields DEF Holds
  <2> QED
    BY <1>1, <2>1 DEF Holds, AreUsed, Blank
<1>3. plane.obj[o] \in NodeType /\ tracker.gone \in SUBSET Id
  BY <1>2, Fields, TrackerFields
<1>4. PICK x : x = [plane.obj[o] EXCEPT !.failed = FALSE]
  OBVIOUS
<1>5. /\ x \in NodeType /\ x.failed = FALSE /\ x.used = plane.obj[o].used /\ x.again = plane.obj[o].again
      /\ x.rooms = plane.obj[o].rooms
  BY <1>3, <1>4 DEF NodeType
<1>6. /\ q = WithNode(plane, o, x)
      /\ t = IF Listens(o) THEN [tracker EXCEPT !.gone = tracker.gone \ {IdOf[o]}] ELSE tracker
  BY <1>4 DEF MarkRecovered
<1>7. NodeIs(plane, q, o, x)
  BY <1>2, <1>5, <1>6, WithNodeFacts
<1>8. /\ IsPlane(q) /\ ~ q.obj[o].failed /\ \A n \in Obj : n # o => q.obj[n].failed = plane.obj[n].failed
      /\ \A n \in Obj : q.obj[n].used = plane.obj[n].used /\ q.obj[n].rooms = plane.obj[n].rooms
      /\ \A n \in Obj : q.obj[n].again = plane.obj[n].again
  BY <1>5, <1>7 DEF NodeIs
<1>9. /\ \A r \in RouterRoom, n \in Obj : Routed(q, r, n) <=> Routed(plane, r, n)
      /\ \A r \in TreeRoom, i \in Id : InTree(q, r, i) <=> InTree(plane, r, i)
  BY <1>7 DEF NodeIs, Routed, InTree
<1>11. Tracked(Registered, plane, left) => Tracked(Registered, q, left)
  BY <1>2, <1>8, <1>9, SameFits
<1>12. Blank(q)
  BY <1>2, <1>8, <1>9 DEF Blank
<1>13. RouterServed(Registered, plane, left) => RouterServed(Registered, q, left)
  BY <1>8, <1>9 DEF RouterServed
<1>14. TreeServed(Registered, plane, left) => TreeServed(Registered, q, left)
  <2>1. \A n \in Registered : ~ plane.obj[n].failed => ~ q.obj[n].failed
    BY <1>2, <1>8
  <2> QED
    BY <1>9, <2>1 DEF TreeServed
<1>15. PlaneInv(Registered, q, left, tracker.watch)
  BY <1>2, <1>11, <1>13, <1>14 DEF PlaneInv
<1>16. /\ t \in TrackerType /\ t.watch = tracker.watch /\ t.listeners = tracker.listeners
       /\ t.gone \subseteq tracker.gone /\ (Listens(o) => IdOf[o] \notin t.gone)
  <2>1. CASE Listens(o)
    <3>1. PICK g \in SUBSET Id : g = tracker.gone \ {IdOf[o]}
      BY <1>3
    <3>2. t = [tracker EXCEPT !.gone = g]
      BY <1>6, <2>1, <3>1
    <3>3. t \in TrackerType /\ t.gone = g /\ t.watch = tracker.watch /\ t.listeners = tracker.listeners
      BY <1>2, <3>2, GoneBecomes
    <3> QED
      BY <3>1, <3>3
  <2>2. CASE ~ Listens(o)
    BY <1>2, <1>6, <2>2
  <2> QED
    BY <2>1, <2>2
<1>17. Listened(Registered, t)
  BY <1>2, <1>16 DEF Listened
<1>18. GoneAreLost(Registered, q, t)
  <2>1. tracker.watch # {} => (Listens(o) <=> o \in Registered)
    BY <1>2, ListensFacts
  <2> QED
    BY <1>2, <1>8, <1>16, <2>1 DEF GoneAreLost
<1> QED
  BY <1>8, <1>12, <1>15, <1>16, <1>17, <1>18 DEF Marked

\* A result is dealt with: what remains to be shown of the streaks.
LEMMA Settled ==
    ASSUME IndInv, NEW o \in checker.flight, checker' = [checker EXCEPT !.flight = checker.flight \ {o}],
           NEW q, q = plane', NEW t, t = tracker', Marked(o, q, t),
           NEW d \in ClusterType, d = cluster', d.nodes = cluster.nodes,
           NEW o1 \in [Obj -> Fails], o1 = own', NEW s1 \in [Id -> Fails], s1 = since',
           Streaks(Registered, checker.flight \ {o}, d.fail, o1, s1),
           left' = left, calls' = calls
    PROVE  IndInv'
<1>1. Holds(cluster, checker, tracker, plane, own, since, left, Registered) /\ calls \in 0 .. MaxCalls
  BY Held
<1>2. checker.flight \in SUBSET Obj
  BY <1>1, CheckerFields DEF Holds
<1>3. PICK k : k = checker' /\ k = [checker EXCEPT !.flight = checker.flight \ {o}]
  OBVIOUS
<1>4. k \in CheckerType /\ k.flight = checker.flight \ {o}
  BY <1>1, <1>2, <1>3 DEF Holds, CheckerType
<1>5. Distinct(k.flight)
  BY <1>1, <1>4 DEF Holds, Distinct
<1>6. AreUsed(Registered, q, k.flight, left)
  <2>1. \A x \in Registered \cup checker.flight \cup left : plane.obj[x].used /\ x \in Obj
    BY <1>1, <1>2 DEF Holds, AreUsed
  <2>2. (\A x \in Obj : q.obj[x].used = plane.obj[x].used) /\ Blank(q)
    BY DEF Marked
  <2> QED
    BY <1>4, <2>1, <2>2 DEF AreUsed, Blank
<1>7. /\ IsPlane(q) /\ t \in TrackerType /\ Listened(Registered, t) /\ GoneAreLost(Registered, q, t)
      /\ PlaneInv(Registered, q, left, t.watch)
  BY DEF Marked
<1>8. Registered = ToSet(d.nodes) /\ Registered \in SUBSET Obj /\ Distinct(Registered) /\ left \in SUBSET Obj
  BY <1>1 DEF Holds
<1>9. Streaks(Registered, k.flight, d.fail, o1, s1)
  BY <1>4
<1>10. Holds(d, k, t, q, o1, s1, left, Registered)
  BY <1>4, <1>5, <1>6, <1>7, <1>8, <1>9 DEF Holds
<1> QED
  BY <1>1, <1>3, <1>10, Reached

\* What the streaks are before the result: of the probes of an id one at most is in flight,
\* and as long as it is that of a former node there is no streak.
LEMMA StreakFacts ==
    ASSUME IndInv, NEW o \in checker.flight
    PROVE  /\ o \in Obj /\ IdOf[o] \in Id /\ \A x \in Obj : IdOf[x] \in Id
           /\ cluster.fail \in [Id -> Fails] /\ cluster.pass \in [Id -> Passes]
           /\ own \in [Obj -> Fails] /\ since \in [Id -> Fails] /\ Registered \in SUBSET Obj
           /\ \A i \in Id : cluster.fail[i] <= since[i]
           /\ \A i \in Id : (\A x \in Registered : IdOf[x] # i) => cluster.fail[i] = 0
           /\ \A x \in Registered : cluster.fail[IdOf[x]] <= own[x] + 1
           /\ \A x \in Registered : IdOf[x] = IdOf[o] /\ x # o => cluster.fail[IdOf[o]] = 0
           /\ \A x \in Registered, y \in checker.flight \ {o} :
                 y # x /\ IdOf[y] = IdOf[x] => IdOf[x] # IdOf[o] /\ cluster.fail[IdOf[x]] = 0
<1>1. Holds(cluster, checker, tracker, plane, own, since, left, Registered)
  BY Held
<1>2. checker.flight \in SUBSET Obj /\ cluster.fail \in [Id -> Fails] /\ cluster.pass \in [Id -> Passes]
  BY <1>1, CheckerFields, ClusterFields DEF Holds
<1>3. o \in Obj /\ \A x \in Obj : IdOf[x] \in Id
  BY <1>2 DEF Id
<1>4. Distinct(checker.flight) /\ Streaks(Registered, checker.flight, cluster.fail, own, since)
  BY <1>1 DEF Holds
<1>5. /\ \A x \in Registered : IdOf[x] = IdOf[o] /\ x # o => cluster.fail[IdOf[o]] = 0
      /\ \A x \in Registered, y \in checker.flight \ {o} :
            y # x /\ IdOf[y] = IdOf[x] => IdOf[x] # IdOf[o] /\ cluster.fail[IdOf[x]] = 0
  BY <1>4 DEF Streaks, Distinct
<1> QED
  BY <1>1, <1>2, <1>3, <1>4, <1>5 DEF Holds, Streaks

\* One more, up to n.
Up(a, n) == IF a + 1 <= n THEN a + 1 ELSE n

\* It keeps what is ahead of the other by one at most within that distance.
LEMMA UpFacts ==
    ASSUME NEW a \in Nat, NEW b \in Nat, NEW n \in Nat
    PROVE  /\ a <= b => Up(a, n) <= Up(b, n)
           /\ a <= b + 1 => Up(a, n) <= Up(b, n) + 1
           /\ a = 0 => Up(a, n) <= 1
           /\ a <= b /\ Up(a, n) >= n => Up(b, n) >= n
           /\ a <= b + 1 /\ Up(a, n) >= n => Up(b, n) >= n - 1
  BY DEF Up

\* A streak that grows by one, up to the threshold.
LEMMA OneMore ==
    ASSUME NEW n \in Fails
    PROVE  /\ Min({n + 1, FailThreshold}) \in Fails
           /\ Min({n + 1, FailThreshold}) = Up(n, FailThreshold)
<1>1. n \in Nat /\ n + 1 \in Nat /\ FailThreshold \in Nat /\ n <= FailThreshold
  BY SfuAssumption DEF Fails
<1>2. PICK m \in Nat : m = Min({n + 1, FailThreshold})
  BY <1>1, Lesser
<1>3. m \in {n + 1, FailThreshold} /\ m <= n + 1 /\ m <= FailThreshold
  BY <1>1, <1>2, Lesser
<1> QED
  BY <1>1, <1>2, <1>3 DEF Fails, Up

\* d is cluster c with the streak f of failures under id i.
StreakIs(c, d, i, f) ==
    /\ d \in ClusterType /\ d.nodes = c.nodes /\ d.fail[i] = f
    /\ \A j \in Id : j # i => d.fail[j] = c.fail[j]

LEMMA StreaksBecome ==
    ASSUME NEW c \in ClusterType, NEW i \in Id, NEW f \in Fails, NEW g \in Passes,
           NEW d, d = [c EXCEPT !.fail = [c.fail EXCEPT ![i] = f], !.pass = [c.pass EXCEPT ![i] = g]]
    PROVE  StreakIs(c, d, i, f)
<1>1. c.nodes \in Seq(Obj) /\ c.fail \in [Id -> Fails] /\ c.pass \in [Id -> Passes]
  BY ClusterFields
<1>2. PICK a \in [Id -> Fails] : a = [c.fail EXCEPT ![i] = f]
  BY <1>1
<1>3. PICK b \in [Id -> Passes] : b = [c.pass EXCEPT ![i] = g]
  BY <1>1
<1>4. d = [c EXCEPT !.fail = a, !.pass = b]
  BY <1>2, <1>3
<1>5. d \in ClusterType /\ d.nodes = c.nodes /\ d.fail = a
  BY <1>4 DEF ClusterType
<1> QED
  BY <1>1, <1>2, <1>5 DEF StreakIs

\* A failing result: it counts for the node that has the id now, so that the streak stays
\* within what was reported of the id, and at most one ahead of what the node itself failed.
LEMMA FailedInv ==
    ASSUME IndInv, NEW o \in checker.flight, checker' = [checker EXCEPT !.flight = checker.flight \ {o}],
           HasId(IdOf[o]), FailedCheck(o), left' = left, calls' = calls
    PROVE  IndInv' /\ Evidence
<1>1. Holds(cluster, checker, tracker, plane, own, since, left, Registered)
  BY Held
<1>2. /\ o \in Obj /\ IdOf[o] \in Id /\ \A x \in Obj : IdOf[x] \in Id
      /\ cluster.fail \in [Id -> Fails] /\ cluster.pass \in [Id -> Passes]
      /\ own \in [Obj -> Fails] /\ since \in [Id -> Fails] /\ Registered \in SUBSET Obj
      /\ \A j \in Id : cluster.fail[j] <= since[j]
      /\ \A j \in Id : (\A x \in Registered : IdOf[x] # j) => cluster.fail[j] = 0
      /\ \A x \in Registered : cluster.fail[IdOf[x]] <= own[x] + 1
      /\ \A x \in Registered : IdOf[x] = IdOf[o] /\ x # o => cluster.fail[IdOf[o]] = 0
      /\ \A x \in Registered, y \in checker.flight \ {o} :
            y # x /\ IdOf[y] = IdOf[x] => IdOf[x] # IdOf[o] /\ cluster.fail[IdOf[x]] = 0
  BY StreakFacts
<1>3. PICK i \in Id : i = IdOf[o]
  BY <1>2
<1>4. PICK streak \in Fails :
         /\ streak = Min({cluster.fail[i] + 1, FailThreshold})
         /\ streak = Up(cluster.fail[i], FailThreshold)
  BY <1>2, OneMore
<1>5. PICK fails \in BOOLEAN : fails <=> ~ plane.obj[o].failed /\ streak >= FailThreshold
  OBVIOUS
<1>6. PICK f \in Fails : f = IF fails THEN 0 ELSE streak
  BY SfuAssumption DEF Fails
<1>7. PICK d \in ClusterType :
         /\ d = cluster' /\ d.nodes = cluster.nodes /\ d.fail[i] = f
         /\ \A j \in Id : j # i => d.fail[j] = cluster.fail[j]
  <2>1. cluster \in ClusterType /\ 0 \in Passes
    BY <1>1, SfuAssumption DEF Holds, Passes
  <2>2. PICK d : d = [cluster EXCEPT !.fail = [cluster.fail EXCEPT ![i] = f],
                                     !.pass = [cluster.pass EXCEPT ![i] = 0]]
    OBVIOUS
  <2>3. StreakIs(cluster, d, i, f)
    BY <1>6, <2>1, <2>2, StreaksBecome
  <2>4. d = cluster'
    BY <1>3, <1>4, <1>5, <1>6, <2>2 DEF FailedCheck
  <2> QED
    BY <2>3, <2>4 DEF StreakIs
<1>8. PICK o1 \in [Obj -> Fails] :
         /\ o1 = own' /\ \A x \in Obj : x # o => o1[x] = own[x]
         /\ o \in Registered => o1[o] = Up(own[o], FailThreshold)
  <2>1. PICK m \in Fails :
           /\ m = IF o \in Registered THEN Min({own[o] + 1, FailThreshold}) ELSE 0
           /\ o \in Registered => m = Up(own[o], FailThreshold)
    <3>1. own[o] \in Fails /\ 0 \in Fails
      BY <1>2, SfuAssumption DEF Fails
    <3> QED
      BY <3>1, OneMore
  <2>2. own' = [own EXCEPT ![o] = m]
    BY <2>1 DEF FailedCheck
  <2> QED
    BY <1>2, <2>1, <2>2
<1>9. PICK s1 \in [Id -> Fails] :
         /\ s1 = since' /\ \A j \in Id : j # i => s1[j] = since[j]
         /\ s1[i] = Up(since[i], FailThreshold)
  <2>1. PICK m \in Fails :
           /\ m = Min({since[i] + 1, FailThreshold})
           /\ m = Up(since[i], FailThreshold)
    BY <1>2, OneMore
  <2>2. since' = [since EXCEPT ![i] = m]
    BY <1>3, <2>1 DEF FailedCheck
  <2> QED
    BY <1>2, <2>1, <2>2
<1>10. FailThreshold \in Nat /\ (\A x \in Obj : own[x] \in Nat /\ o1[x] \in Nat)
       /\ \A j \in Id : cluster.fail[j] \in Nat /\ since[j] \in Nat /\ s1[j] \in Nat
  BY <1>2, <1>8, <1>9, SfuAssumption DEF Fails
<1>11. Streaks(Registered, checker.flight \ {o}, d.fail, o1, s1)
  <2>1. ASSUME NEW j \in Id PROVE d.fail[j] <= s1[j] /\ ((\A x \in Registered : IdOf[x] # j) => d.fail[j] = 0)
    <3>1. CASE j = i
      <4>1. \E x \in Registered : IdOf[x] = i
        BY <1>3 DEF HasId
      <4>2. cluster.fail[i] <= since[i]
        BY <1>2
      <4>3. f = 0 \/ f = streak
        BY <1>6
      <4>4. f <= s1[i]
        BY <1>4, <1>9, <1>10, <4>2, <4>3, UpFacts
      <4> QED
        BY <1>7, <3>1, <4>1, <4>4
    <3>2. CASE j # i
      BY <1>2, <1>7, <1>9, <3>2
    <3> QED
      BY <3>1, <3>2
  <2>2. ASSUME NEW x \in Registered PROVE d.fail[IdOf[x]] <= o1[x] + 1
    <3>1. x \in Obj /\ IdOf[x] \in Id /\ cluster.fail[IdOf[x]] <= own[x] + 1
      BY <1>2
    <3>2. CASE IdOf[x] # i
      BY <1>3, <1>7, <1>8, <3>1, <3>2
    <3>3. CASE x = o
      <4>1. f = 0 \/ f = streak
        BY <1>6
      <4>2. cluster.fail[i] <= own[o] + 1 /\ o1[o] = Up(own[o], FailThreshold) /\ o \in Obj
        BY <1>3, <1>8, <3>1, <3>3
      <4>3. f <= o1[o] + 1
        BY <1>4, <1>10, <4>1, <4>2, UpFacts
      <4> QED
        BY <1>3, <1>7, <3>3, <4>3
    <3>4. CASE IdOf[x] = i /\ x # o
      <4>1. cluster.fail[i] = 0 /\ o1[x] = own[x]
        BY <1>2, <1>3, <1>8, <3>1, <3>4
      <4>2. f = 0 \/ f = streak
        BY <1>6
      <4>3. f <= 1
        BY <1>4, <1>10, <4>1, <4>2, UpFacts
      <4>4. PICK m \in Nat : m = o1[x]
        BY <1>10, <3>1
      <4>5. d.fail[IdOf[x]] = f /\ f \in Nat
        BY <1>6, <1>7, <3>4, SfuAssumption DEF Fails
      <4> QED
        BY <4>3, <4>4, <4>5
    <3> QED
      BY <3>2, <3>3, <3>4
  <2>3. \A x \in Registered, y \in checker.flight \ {o} :
           y # x /\ IdOf[y] = IdOf[x] => d.fail[IdOf[x]] = 0
    BY <1>2, <1>3, <1>7
  <2> QED
    BY <2>1, <2>2, <2>3 DEF Streaks
<1>12. PICK q, t : q = plane' /\ t = tracker'
  OBVIOUS
<1>13. /\ fails => MarkFailed(o)
       /\ ~ fails => plane' = plane /\ tracker' = tracker
  BY <1>3, <1>4, <1>5 DEF FailedCheck
<1>14. Marked(o, q, t)
  <2>1. CASE fails
    <3>1. MarkFailed(o) /\ ~ plane.obj[o].failed
      BY <1>5, <1>13, <2>1
    <3> QED
      BY <1>12, <3>1, MarkFailedFacts
  <2>2. CASE ~ fails
    <3>1. q = plane /\ t = tracker
      BY <1>12, <1>13, <2>2
    <3>2. Marked(o, plane, tracker)
      BY <1>1 DEF Marked, Holds, AreUsed, Blank
    <3> QED
      BY <3>1, <3>2
  <2> QED
    BY <2>1, <2>2
<1>15. IndInv'
  BY <1>7, <1>8, <1>9, <1>11, <1>12, <1>14, Settled
<1>16. Evidence
  <2>1. SUFFICES ASSUME NEW x \in Registered, ~ plane.obj[x].failed, q.obj[x].failed
                 PROVE  s1[IdOf[x]] >= FailThreshold /\ o1[x] >= FailThreshold - 1
    BY <1>8, <1>9, <1>12 DEF Evidence
  <2>2. x = o /\ x \in Obj
    BY <1>2, <1>14, <2>1 DEF Marked
  <2>3. fails
    BY <1>12, <1>13, <2>1
  <2>4. cluster.fail[i] <= since[i] /\ cluster.fail[i] <= own[o] + 1 /\ streak >= FailThreshold
    BY <1>2, <1>3, <1>5, <2>1, <2>2, <2>3
  <2>5. s1[i] >= FailThreshold
    BY <1>4, <1>9, <1>10, <2>4, UpFacts
  <2>6. o1[o] = Up(own[o], FailThreshold)
    BY <1>8, <2>1, <2>2
  <2>7. o1[o] >= FailThreshold - 1
    BY <1>2, <1>4, <1>10, <2>4, <2>6, UpFacts
  <2> QED
    BY <1>3, <2>2, <2>5, <2>7
<1> QED
  BY <1>15, <1>16

\* A passing result ends the streak.
LEMMA PassedInv ==
    ASSUME IndInv, NEW o \in checker.flight, checker' = [checker EXCEPT !.flight = checker.flight \ {o}],
           HasId(IdOf[o]), PassedCheck(o), left' = left, calls' = calls
    PROVE  IndInv' /\ Evidence
<1>1. Holds(cluster, checker, tracker, plane, own, since, left, Registered)
  BY Held
<1>2. /\ o \in Obj /\ IdOf[o] \in Id /\ \A x \in Obj : IdOf[x] \in Id
      /\ cluster.fail \in [Id -> Fails] /\ cluster.pass \in [Id -> Passes]
      /\ own \in [Obj -> Fails] /\ since \in [Id -> Fails] /\ Registered \in SUBSET Obj
      /\ \A j \in Id : cluster.fail[j] <= since[j]
      /\ \A j \in Id : (\A x \in Registered : IdOf[x] # j) => cluster.fail[j] = 0
      /\ \A x \in Registered : cluster.fail[IdOf[x]] <= own[x] + 1
      /\ \A x \in Registered : IdOf[x] = IdOf[o] /\ x # o => cluster.fail[IdOf[o]] = 0
      /\ \A x \in Registered, y \in checker.flight \ {o} :
            y # x /\ IdOf[y] = IdOf[x] => IdOf[x] # IdOf[o] /\ cluster.fail[IdOf[x]] = 0
  BY StreakFacts
<1>3. PICK i \in Id : i = IdOf[o]
  BY <1>2
<1>4. PICK streak \in Nat : streak = cluster.pass[i] + 1
  BY <1>2, SfuAssumption DEF Passes
<1>5. PICK recovers \in BOOLEAN : recovers <=> plane.obj[o].failed /\ streak >= RecoverThreshold
  OBVIOUS
<1>6. PICK g \in Passes : g = IF recovers THEN 0 ELSE IF plane.obj[o].failed THEN streak ELSE cluster.pass[i]
  <2>1. cluster.pass[i] \in Passes /\ 0 \in Passes
    BY <1>2, SfuAssumption DEF Passes
  <2>2. ~ recovers /\ plane.obj[o].failed => streak \in Passes
    BY <1>4, <1>5, SfuAssumption DEF Passes
  <2> QED
    BY <2>1, <2>2
<1>7. PICK d \in ClusterType :
         /\ d = cluster' /\ d.nodes = cluster.nodes /\ d.fail[i] = 0
         /\ \A j \in Id : j # i => d.fail[j] = cluster.fail[j]
  <2>1. cluster \in ClusterType /\ 0 \in Fails
    BY <1>1, SfuAssumption DEF Holds, Fails
  <2>2. PICK z \in Fails : z = 0
    BY <2>1
  <2>3. PICK d : d = [cluster EXCEPT !.fail = [cluster.fail EXCEPT ![i] = z],
                                     !.pass = [cluster.pass EXCEPT ![i] = g]]
    OBVIOUS
  <2>4. StreakIs(cluster, d, i, z)
    BY <1>6, <2>1, <2>2, <2>3, StreaksBecome
  <2>5. d = cluster'
    BY <1>3, <1>4, <1>5, <1>6, <2>2, <2>3 DEF PassedCheck
  <2> QED
    BY <2>2, <2>4, <2>5 DEF StreakIs
<1>8. PICK o1 \in [Obj -> Fails] : o1 = own' /\ o1[o] = 0 /\ \A x \in Obj : x # o => o1[x] = own[x]
  <2>1. 0 \in Fails /\ own' = [own EXCEPT ![o] = 0]
    BY SfuAssumption DEF Fails, PassedCheck
  <2> QED
    BY <1>2, <2>1
<1>9. PICK s1 \in [Id -> Fails] : s1 = since' /\ s1[i] = 0 /\ \A j \in Id : j # i => s1[j] = since[j]
  <2>1. 0 \in Fails /\ since' = [since EXCEPT ![i] = 0]
    BY <1>3, SfuAssumption DEF Fails, PassedCheck
  <2> QED
    BY <1>2, <2>1
<1>10. \A x \in Obj : o1[x] \in Nat
  BY <1>8, SfuAssumption DEF Fails
<1>11. Streaks(Registered, checker.flight \ {o}, d.fail, o1, s1)
  <2>1. \A j \in Id : d.fail[j] <= s1[j] /\ ((\A x \in Registered : IdOf[x] # j) => d.fail[j] = 0)
    BY <1>2, <1>7, <1>9
  <2>2. ASSUME NEW x \in Registered PROVE d.fail[IdOf[x]] <= o1[x] + 1
    <3>1. x \in Obj /\ IdOf[x] \in Id
      BY <1>2
    <3>2. CASE IdOf[x] = i
      <4>1. PICK m \in Nat : m = o1[x]
        BY <1>10, <3>1
      <4> QED
        BY <1>7, <3>2, <4>1
    <3>3. CASE IdOf[x] # i
      BY <1>2, <1>3, <1>7, <1>8, <3>1, <3>3
    <3> QED
      BY <3>2, <3>3
  <2>3. \A x \in Registered, y \in checker.flight \ {o} :
           y # x /\ IdOf[y] = IdOf[x] => d.fail[IdOf[x]] = 0
    BY <1>2, <1>3, <1>7
  <2> QED
    BY <2>1, <2>2, <2>3 DEF Streaks
<1>12. PICK q, t : q = plane' /\ t = tracker'
  OBVIOUS
<1>13. /\ recovers => MarkRecovered(o)
       /\ ~ recovers => plane' = plane /\ tracker' = tracker
  BY <1>3, <1>4, <1>5 DEF PassedCheck
<1>14. Marked(o, q, t) /\ \A x \in Obj : q.obj[x].failed => plane.obj[x].failed
  <2>1. CASE recovers
    <3>1. Marked(o, q, t) /\ ~ q.obj[o].failed
      BY <1>12, <1>13, <2>1, MarkRecoveredFacts
    <3> QED
      BY <3>1 DEF Marked
  <2>2. CASE ~ recovers
    <3>1. q = plane /\ t = tracker
      BY <1>12, <1>13, <2>2
    <3>2. Marked(o, plane, tracker)
      BY <1>1 DEF Marked, Holds, AreUsed, Blank
    <3> QED
      BY <3>1, <3>2
  <2> QED
    BY <2>1, <2>2
<1>15. IndInv'
  BY <1>7, <1>8, <1>9, <1>11, <1>12, <1>14, Settled
<1>16. Evidence
  BY <1>2, <1>12, <1>14 DEF Evidence
<1> QED
  BY <1>15, <1>16

LEMMA ProbeInv ==
    ASSUME IndInv, NEW o \in Obj, ProbeSettles(o)
    PROVE  IndInv' /\ Evidence
<1>1. /\ o \in checker.flight /\ checker' = [checker EXCEPT !.flight = checker.flight \ {o}]
      /\ left' = left /\ calls' = calls
  BY DEF ProbeSettles
<1>2. CASE checker.on /\ HasId(IdOf[o])
  <2>1. FailedCheck(o) \/ PassedCheck(o)
    BY <1>2 DEF ProbeSettles
  <2> QED
    BY <1>1, <1>2, <2>1, FailedInv, PassedInv
<1>3. CASE ~ (checker.on /\ HasId(IdOf[o]))
  <2>1. Holds(cluster, checker, tracker, plane, own, since, left, Registered) /\ calls \in 0 .. MaxCalls
    BY Held
  <2>2. PICK k : k = checker' /\ k = [checker EXCEPT !.flight = checker.flight \ {o}]
    BY <1>1
  <2>3. k \in CheckerType /\ k.flight = checker.flight \ {o}
    BY <2>1, <2>2 DEF Holds, CheckerType
  <2>4. Distinct(k.flight) /\ \A x \in k.flight : x \in checker.flight \/ x \in Registered
    BY <2>1, <2>3 DEF Holds, Distinct
  <2>5. UNCHANGED <<cluster, tracker, plane, own, since, left>>
    BY <1>3 DEF ProbeSettles
  <2> QED
    BY <1>1, <2>1, <2>2, <2>3, <2>4, <2>5, FlightChanges
<1> QED
  BY <1>2, <1>3

-----------------------------------------------------------------------------
(* Theorems.                                                               *)

\* Every step of the cluster, the checker, the tracker, the router and the trees keeps the
\* invariant, and fails a node only on evidence.
LEMMA NextInv ==
    ASSUME IndInv, Next
    PROVE  IndInv' /\ Evidence
<1>1. CASE StartHealthChecks
  BY <1>1, StartInv
<1>2. CASE StopHealthChecks
  BY <1>2, StopInv
<1>3. CASE Tick
  BY <1>3, TickInv
<1>4. CASE DisposeRouter
  BY <1>4, DisposeInv
<1>5. ASSUME NEW o \in Obj, AddNode(o) PROVE IndInv' /\ Evidence
  BY <1>5, AddInv
<1>6. ASSUME NEW o \in Obj, RemoveNode(o) PROVE IndInv' /\ Evidence
  BY <1>6, RemoveInv
<1>7. ASSUME NEW o \in Obj, ProbeSettles(o) PROVE IndInv' /\ Evidence
  BY <1>7, ProbeInv
<1>8. ASSUME NEW o \in Obj, Drain(o) \/ DrainTimeout(o) \/ Drained(o) PROVE IndInv' /\ Evidence
  BY <1>8, DrainInv, DrainTimeoutInv, DrainedInv
<1>9. ASSUME NEW r \in RouterRoom, AttachRoom(r) \/ DetachRoom(r) PROVE IndInv' /\ Evidence
  BY <1>9, AttachRoomInv, DetachRoomInv
<1>10. ASSUME NEW r \in TreeRoom, Build(r) \/ Detach(r) PROVE IndInv' /\ Evidence
  BY <1>10, BuildInv, DetachInv
<1> QED
  BY <1>1, <1>2, <1>3, <1>4, <1>5, <1>6, <1>7, <1>8, <1>9, <1>10 DEF Next

\* The invariant holds in every reachable state, whatever the nodes, rooms and thresholds.
THEOREM Invariance == Spec => []IndInv
<1>1. Init => IndInv
  BY InitInv
<1>2. IndInv /\ [Next]_vars => IndInv'
  <2>1. SUFFICES ASSUME IndInv, [Next]_vars PROVE IndInv'
    OBVIOUS
  <2>2. CASE Next
    BY <2>1, <2>2, NextInv
  <2>3. CASE UNCHANGED vars
    <3>1. /\ Holds(cluster, checker, tracker, plane, own, since, left, Registered)
          /\ calls \in 0 .. MaxCalls
      BY <2>1, Held
    <3> QED
      BY <2>3, <3>1, Reached DEF vars
  <2> QED
    BY <2>1, <2>2, <2>3
<1> QED
  BY <1>1, <1>2, PTL DEF Spec

\* The state keeps its types; ids are unique among the registered nodes and among the probes
\* in flight, and the tracker listens to exactly the registered nodes as long as it is used
\* (addNode, HealthChecker._tick, NodeFailureTracker).
THEOREM TypeCorrect == Spec => []TypeOK
<1>1. IndInv => TypeOK
  <2> SUFFICES ASSUME IndInv PROVE TypeOK
    OBVIOUS
  <2>1. Holds(cluster, checker, tracker, plane, own, since, left, Registered) /\ calls \in 0 .. MaxCalls
    BY Held
  <2>2. /\ cluster \in [nodes : Seq(Obj), fail : [Id -> 0 .. FailThreshold],
                        pass : [Id -> 0 .. RecoverThreshold]]
        /\ checker \in [on : BOOLEAN, flight : SUBSET Obj]
    BY <2>1 DEF Holds, ClusterType, CheckerType, Fails, Passes
  <2>3. tracker \in [listeners : [Id -> Obj \cup {None}], gone : SUBSET Id, watch : SUBSET {"router", "tree"}]
    BY <2>1 DEF Holds, TrackerType, Slots, Who
  <2>4. /\ plane.assign \in [RouterRoom -> Obj \cup {None}] /\ plane.links \in [RouterRoom -> SUBSET Obj]
        /\ plane.obj \in [Obj -> NodeType]
    BY <2>1, Fields DEF Holds, Slots
  <2>5. NodeType = [used : BOOLEAN, again : BOOLEAN, failed : BOOLEAN, rooms : SUBSET Room,
                    drain : {"no", "waiting", "resolved"}]
    BY DEF NodeType, Drains, Rooms
  <2>6. own \in [Obj -> 0 .. FailThreshold] /\ since \in [Id -> 0 .. FailThreshold] /\ left \subseteq Obj
    BY <2>1 DEF Holds, Fails
  <2>7. \A S \in {Registered, checker.flight} : \A o, x \in S : IdOf[o] = IdOf[x] => o = x
    BY <2>1 DEF Holds, Distinct
  <2>8. ASSUME tracker.watch # {}, NEW i \in Id
        PROVE  tracker.listeners[i] = IF HasId(i) THEN CHOOSE o \in Registered : IdOf[o] = i ELSE None
    <3>1. CASE HasId(i)
      <4>1. PICK o \in Registered : o = CHOOSE x \in Registered : IdOf[x] = i
        BY <3>1 DEF HasId
      <4>2. IdOf[o] = i
        BY <3>1, <4>1 DEF HasId
      <4> QED
        BY <2>1, <2>8, <3>1, <4>1, <4>2 DEF Holds, Listened
    <3>2. CASE ~ HasId(i)
      BY <2>1, <2>8, <3>2 DEF Holds, Listened, HasId
    <3> QED
      BY <3>1, <3>2
  <2> QED
    BY <2>1, <2>2, <2>3, <2>4, <2>5, <2>6, <2>7, <2>8 DEF TypeOK
<1> QED
  BY <1>1, Invariance, PTL

\* While the router and the tree watch the cluster, no room stays on a node that failed, was
\* removed or was replaced, unless the node left while it was draining
\* (CascadingRouter._handleNodeGone, CascadeTree._onNodeGone).
THEOREM RoomsAreServed == Spec => []AssignmentsServed
<1>1. IndInv => AssignmentsServed
  <2> SUFFICES ASSUME IndInv PROVE AssignmentsServed
    OBVIOUS
  <2>1. Holds(cluster, checker, tracker, plane, own, since, left, Registered)
    BY Held
  <2>2. /\ plane.assign \in [RouterRoom -> Slots] /\ plane.links \in [RouterRoom -> SUBSET Obj]
        /\ AreTrees(plane.tree)
    BY <2>1, Fields DEF Holds
  <2>3. ASSUME "router" \in tracker.watch, NEW r \in RouterRoom,
               NEW o \in plane.links[r] \cup ({plane.assign[r]} \ {None})
        PROVE  (o \in Registered /\ ~ plane.obj[o].failed) \/ o \in left
    <3>1. o \in Obj /\ Routed(plane, r, o)
      BY <2>2, <2>3 DEF Routed, Slots
    <3> QED
      BY <2>1, <2>3, <3>1 DEF Holds, PlaneInv, RouterServed
  <2>4. ASSUME "tree" \in tracker.watch, NEW r \in TreeRoom, NEW i \in ToSet(plane.tree[r].ids)
        PROVE  Serving(i) \/ i \in {IdOf[o] : o \in left}
    <3>1. i \in Id /\ InTree(plane, r, i)
      BY <2>2, Elements DEF AreTrees, IsTree, InTree
    <3> QED
      BY <2>1, <2>4, <3>1 DEF Holds, PlaneInv, TreeServed, Serving, LeftId
  <2> QED
    BY <2>3, <2>4 DEF AssignmentsServed
<1> QED
  BY <1>1, Invariance, PTL

\* A registered node tracks every room it serves, for the router and for the trees, and no
\* other, but for the rooms of trees at a node that was added again; so a drain waits for
\* those and for no other (SfuNode.trackRoom, untrackRoom).
THEOREM NodesTrackTheirRooms == Spec => []TrackingMatches
<1>1. IndInv => TrackingMatches
  <2> SUFFICES ASSUME IndInv PROVE TrackingMatches
    OBVIOUS
  <2>1. Holds(cluster, checker, tracker, plane, own, since, left, Registered)
    BY Held
  <2>2. ASSUME NEW o \in Registered, \A x \in left : IdOf[x] # IdOf[o], tracker.watch = {"router", "tree"}
        PROVE  RoutesFit(plane, o) /\ TreesFit(plane, o)
    BY <2>1, <2>2 DEF Holds, PlaneInv, Tracked, LeftId
  <2> QED
    BY <2>2 DEF TrackingMatches, RoutesFit, TreesFit
<1> QED
  BY <1>1, Invariance, PTL

\* A registered node is declared failed only on FailThreshold failing results in a row that
\* were all reported since it was added, at most one of them a late probe of the node that
\* had the id before (SfuCluster._onHealthResult, HealthChecker._tick).
THEOREM FailuresNeedEvidence == Spec => FailureNeedsEvidence
<1>1. IndInv /\ [Next]_vars =>
        [\A o \in Registered :
           ~ plane.obj[o].failed /\ plane'.obj[o].failed =>
               since'[IdOf[o]] >= FailThreshold /\ own'[o] >= FailThreshold - 1]_vars
  BY NextInv DEF Evidence
<1> QED
  BY <1>1, Invariance, PTL DEF Spec, FailureNeedsEvidence

=============================================================================
