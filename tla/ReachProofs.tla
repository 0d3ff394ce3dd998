---------------------------- MODULE ReachProofs -----------------------------
(***************************************************************************)
(* The shared caches of Reach are sound for every network, reach,          *)
(* capacity, set of threads and order of evictions.                        *)
(***************************************************************************)
EXTENDS Reach, SetLemmas, TLAPS

Root(w) == Head(todo[w]).root

\* Nothing is cached before the cache is bound.
Unbound ==
    bound = None => \A n \in Node : succ[n] = None /\ cache[n] = None

\* A search that has yielded nothing knows its root only; afterwards the root
\* is settled. Whatever is on the heap was found, and found from a node that
\* was yielded.
Growing(w) ==
    /\ out[w] = <<>> => \A e \in toSee[w] : e.node = Root(w)
    /\ out[w] = <<>> => \A n \in Node : parents[w][n] # None => n = Root(w)
    /\ out[w] # <<>> => Root(w) \in seen[w]
    /\ \A e \in toSee[w] : parents[w][e.node] # None
    /\ \A n \in Node : (parents[w][n] # None /\ n # Root(w)) =>
          /\ \E j \in 1 .. Len(out[w]) : out[w][j].node = parents[w][n].from
          /\ Link(parents[w][n].from, n, bound) # {}

\* What holds of a thread between its steps.
WorkOK(w) ==
    /\ pc[w] # "idle" => todo[w] # <<>>
    /\ pc[w] \in {"search", "keep", "put"} =>
          bound = Head(todo[w]).runtime /\ Grounded(out[w], Root(w))
    /\ pc[w] \in {"search", "keep"} => Growing(w)
    /\ pc[w] = "keep" => held[w] \in toSee[w] /\ held[w].node \notin seen[w]

IInv == TypeOK /\ Unbound /\ CacheIsSound /\ \A w \in Worker : WorkOK(w)

-----------------------------------------------------------------------------
(* Costs, caches and threads that do not move.                             *)

\* The cost of a road, the empty cost and their sums are costs.
LEMMA CostType ==
    /\ Zero \in Cost
    /\ \A r \in Road : CostOf(r) \in Cost
    /\ \A c, d \in Cost : Add(c, d) \in Cost
  BY DEF Zero, CostOf, Add, Cost, Road

\* HashCache::put leaves every entry it does not evict, and adds only its own.
LEMMA InsertedEntries ==
    ASSUME NEW map, NEW k, NEW v, NEW new,
           map = [n \in Node |-> map[n]], k \in Node, new \in Inserted(map, k, v)
    PROVE  /\ new = [n \in Node |-> new[n]]
           /\ \A n \in Node : new[n] = None \/ new[n] = map[n] \/ (n = k /\ new[n] = v)
  <1>1. CASE map[k] # None
    BY <1>1 DEF Inserted
  <1>2. CASE map[k] = None
    <2>1. \/ new = [map EXCEPT ![k] = v]
          \/ \E e \in Node \ {k} : new = [map EXCEPT ![k] = v, ![e] = None]
      BY <1>2 DEF Inserted
    <2>2. QED
      BY <2>1
  <1>3. QED
    BY <1>1, <1>2

\* What a parent map needs depends on the network and the bound runtime only.
LEMMA SameLinks ==
    ASSUME roads' = roads, bound' = bound
    PROVE  /\ \A m, n : Link(m, n, bound)' = Link(m, n, bound)
           /\ \A n : Successors(n, bound)' = Successors(n, bound)
  BY DEF Link, Successors

\* A thread whose own state is left alone keeps its invariant, as long as the
\* cache is not bound anew under a search.
LEMMA Frame ==
    ASSUME NEW v \in Worker, WorkOK(v), roads' = roads,
           bound' = bound \/ pc[v] \notin {"search", "keep", "put"},
           pc'[v] = pc[v], todo'[v] = todo[v], toSee'[v] = toSee[v], seen'[v] = seen[v],
           parents'[v] = parents[v], out'[v] = out[v], held'[v] = held[v]
    PROVE  WorkOK(v)'
  <1>1. CASE pc[v] \notin {"search", "keep", "put"}
    BY <1>1 DEF WorkOK
  <1>2. CASE bound' = bound
    <2>1. \A m, n : Link(m, n, bound)' = Link(m, n, bound)
      BY <1>2, SameLinks
    <2>2. Root(v)' = Root(v)
      BY DEF Root
    <2>3. Grounded(out[v], Root(v)) => Grounded(out[v], Root(v))'
      BY <2>1, <2>2 DEF Grounded
    <2>4. Growing(v) => Growing(v)'
      BY <2>1, <2>2 DEF Growing
    <2>5. QED
      BY <1>2, <2>2, <2>3, <2>4 DEF WorkOK
  <1>3. QED
    BY <1>1, <1>2

-----------------------------------------------------------------------------
(* One step of the search.                                                 *)

\* Settling a fresh entry yields a node whose parent was yielded before, and
\* relaxing its successors finds nodes from it only: a parent that is replaced
\* after its child was yielded changes nothing that was yielded.
LEMMA SettleStep ==
    ASSUME IInv, NEW w \in Worker, pc[w] \in {"search", "keep"},
           NEW e \in toSee[w], e.node \notin seen[w],
           NEW next, next \subseteq Successors(e.node, bound),
           Settle(w, e, next),
           roads' = roads, bound' = bound, todo' = todo,
           held' \in [Worker -> Entry \cup {None}]
    PROVE  /\ WorkOK(w)'
           /\ pc' \in [Worker -> {"idle", "bind", "search", "keep", "put", "panicked"}]
           /\ toSee' \in [Worker -> SUBSET Entry] /\ seen' \in [Worker -> SUBSET Node]
           /\ parents' \in [Worker -> [Node -> Label \cup {None}]]
           /\ out' \in [Worker -> ParentMap]
           /\ \A i \in 1 .. Len(out'[w]) : out'[w][i].node \in seen'[w]
           /\ \A i, j \in 1 .. Len(out'[w]) : out'[w][i].node = out'[w][j].node => i = j
           /\ \A v \in Worker \ {w} :
                 /\ pc'[v] = pc[v] /\ toSee'[v] = toSee[v] /\ seen'[v] = seen[v]
                 /\ parents'[v] = parents[v] /\ out'[v] = out[v]
  <1> DEFINE found == parents[w]
             better == {r \in next : Improves(found, e, r)}
             Ends == {r.to : r \in better}
             Via(n) == CHOOSE r \in better : r.to = n
             New(n) == Add(e.cost, CostOf(Via(n)))
             item == [node |-> e.node, parent |-> found[e.node].from]
  <1>1. /\ TypeOK /\ WorkOK(w) /\ Growing(w) /\ Grounded(out[w], Root(w))
        /\ todo[w] # <<>> /\ bound = Head(todo[w]).runtime
    BY DEF IInv, WorkOK
  <1>2. e \in Entry /\ e.node \in Node /\ e.cost \in Cost
    BY <1>1 DEF TypeOK, Entry
  <1>3. found \in [Node -> Label \cup {None}] /\ found[e.node] \in Label
    BY <1>1, <1>2 DEF TypeOK, Growing
  <1>4. item \in [node : Node, parent : Node \cup {None}]
    BY <1>2, <1>3 DEF Label
  <1>5. /\ seen' = [seen EXCEPT ![w] = @ \cup {e.node}]
        /\ parents' = [parents EXCEPT ![w] = [n \in Node |->
              IF n \in Ends THEN [from |-> e.node, cost |-> New(n)] ELSE found[n]]]
        /\ toSee' = [toSee EXCEPT ![w] =
              (@ \ {e}) \cup {[cost |-> New(n), node |-> n] : n \in Ends}]
        /\ \/ /\ out' = [out EXCEPT ![w] = Append(@, item)]
              /\ pc' = [pc EXCEPT ![w] = "search"]
           \/ /\ pc' = [pc EXCEPT ![w] = "put"]
              /\ out' = out
    BY Zenon DEF Settle
  <1> HIDE DEF found, better, Ends, Via, New, item
  <1>6. \A n \in Ends : /\ n \in Node /\ New(n) \in Cost
                         /\ Link(e.node, n, bound) # {}
    <2> SUFFICES ASSUME NEW n \in Ends
                 PROVE  n \in Node /\ New(n) \in Cost /\ Link(e.node, n, bound) # {}
      OBVIOUS
    <2>1. Via(n) \in better /\ Via(n).to = n
      BY DEF Ends, Via
    <2>2. Via(n) \in Successors(e.node, bound) /\ Via(n) \in Road
      BY <2>1, <1>1 DEF better, Successors, TypeOK
    <2>3. Via(n) \in Link(e.node, n, bound)
      BY <2>1, <2>2 DEF Link
    <2>4. QED
      BY <2>1, <2>2, <2>3, <1>2, CostType DEF New, Road
  <1>typed. /\ roads \subseteq Road /\ todo \in [Worker -> Seq(Query)]
            /\ pc \in [Worker -> {"idle", "bind", "search", "keep", "put", "panicked"}]
            /\ toSee \in [Worker -> SUBSET Entry] /\ seen \in [Worker -> SUBSET Node]
            /\ parents \in [Worker -> [Node -> Label \cup {None}]] /\ out \in [Worker -> ParentMap]
            /\ \A i \in 1 .. Len(out[w]) : out[w][i].node \in seen[w]
            /\ \A i, j \in 1 .. Len(out[w]) : out[w][i].node = out[w][j].node => i = j
    BY <1>1 DEF TypeOK
  <1>7. /\ pc' \in [Worker -> {"idle", "bind", "search", "keep", "put", "panicked"}]
        /\ toSee' \in [Worker -> SUBSET Entry] /\ seen' \in [Worker -> SUBSET Node]
    <2>1. pc' \in [Worker -> {"idle", "bind", "search", "keep", "put", "panicked"}]
      BY ZenonT(30), <1>typed, <1>5
    <2>2. {[cost |-> New(n), node |-> n] : n \in Ends} \subseteq Entry
      BY <1>6 DEF Entry
    <2>3. toSee' \in [Worker -> SUBSET Entry]
      BY <1>typed, <1>5, <2>2
    <2>4. QED
      BY <1>typed, <1>2, <1>5, <2>1, <2>3
  <1>8. parents' \in [Worker -> [Node -> Label \cup {None}]]
    BY <1>typed, <1>2, <1>3, <1>5, <1>6 DEF Label
  <1>9. out' \in [Worker -> ParentMap]
    <2>1. out[w] \in ParentMap /\ Append(out[w], item) \in ParentMap
      <3>1. out[w] \in ParentMap
        BY <1>typed
      <3>2. \A S : \A t \in Seq(S), x \in S : Append(t, x) \in Seq(S)
        OBVIOUS
      <3>3. QED
        BY <3>1, <3>2, <1>4 DEF ParentMap
    <2>2. QED
      BY <1>typed, <1>5, <2>1
  <1>10. \A v \in Worker \ {w} :
            /\ pc'[v] = pc[v] /\ toSee'[v] = toSee[v] /\ seen'[v] = seen[v]
            /\ parents'[v] = parents[v] /\ out'[v] = out[v]
    BY <1>1, <1>5 DEF TypeOK
  <1>11. /\ Root(w)' = Root(w) /\ todo'[w] # <<>> /\ bound' = Head(todo'[w]).runtime
         /\ \A m, n : Link(m, n, bound)' = Link(m, n, bound)
         /\ seen'[w] = seen[w] \cup {e.node}
         /\ \A n \in Node : parents'[w][n] =
               IF n \in Ends THEN [from |-> e.node, cost |-> New(n)] ELSE found[n]
         /\ toSee'[w] = (toSee[w] \ {e}) \cup {[cost |-> New(n), node |-> n] : n \in Ends}
    BY <1>1, <1>5, SameLinks DEF Root, TypeOK
  <1>12. CASE out' = out /\ pc' = [pc EXCEPT ![w] = "put"]
    <2>1. Grounded(out[w], Root(w))'
      BY ZenonT(30), <1>1, <1>11, <1>12 DEF Grounded
    <2>2. WorkOK(w)'
      BY <1>1, <1>11, <1>12, <2>1 DEF WorkOK, TypeOK
    <2>3. QED
      BY <2>2, <1>1, <1>7, <1>8, <1>9, <1>10, <1>11, <1>12 DEF TypeOK
  <1>13. CASE out' = [out EXCEPT ![w] = Append(@, item)] /\ pc' = [pc EXCEPT ![w] = "search"]
    <2>1. out[w] \in ParentMap /\ out'[w] = Append(out[w], item)
      BY <1>1, <1>13 DEF TypeOK
    <2>2. /\ Len(out'[w]) = Len(out[w]) + 1 /\ Len(out[w]) \in Nat
          /\ out'[w][Len(out[w]) + 1] = item
          /\ \A i \in 1 .. Len(out[w]) : out'[w][i] = out[w][i]
          /\ out[w] = <<>> <=> Len(out[w]) = 0
      BY <2>1, <1>4 DEF ParentMap
    <2>3. item.node = e.node /\ item.parent = found[e.node].from
      BY DEF item
    <2>4. \A i \in 1 .. Len(out'[w]) : out'[w][i].node \in seen'[w]
      <3>1. ASSUME NEW i \in 1 .. Len(out'[w]) PROVE out'[w][i].node \in seen'[w]
        <4>1. CASE i \in 1 .. Len(out[w])
          BY <4>1, <1>typed, <1>11, <2>2
        <4>2. CASE i = Len(out[w]) + 1
          BY <4>2, <1>11, <2>2, <2>3
        <4>3. QED
          BY <4>1, <4>2, <2>2
      <3>2. QED
        BY <3>1
    <2>5. \A i, j \in 1 .. Len(out'[w]) : out'[w][i].node = out'[w][j].node => i = j
      <3>1. \A i \in 1 .. Len(out'[w]) : i = Len(out[w]) + 1 \/ i \in 1 .. Len(out[w])
        BY <2>2
      <3>2. \A i \in 1 .. Len(out[w]) : out'[w][i].node # e.node
        BY <1>typed, <2>2
      <3>3. \A i, j \in 1 .. Len(out[w]) : out'[w][i].node = out'[w][j].node => i = j
        BY <1>typed, <2>2
      <3>4. QED
        BY <3>1, <3>2, <3>3, <2>2, <2>3
    <2>6. out[w] = <<>> => e.node = Root(w)
      BY <1>1 DEF Growing
    <2>7. out[w] # <<>> => e.node # Root(w)
      BY <1>1 DEF Growing
    <2>8. Grounded(out[w], Root(w))'
      <3>1. out'[w][1].node = Root(w)
        <4>1. CASE out[w] = <<>>
          BY <4>1, <2>2, <2>3, <2>6
        <4>2. CASE out[w] # <<>>
          BY <4>2, <1>1, <2>2 DEF Grounded
        <4>3. QED
          BY <4>1, <4>2
      <3>2. ASSUME NEW i \in 2 .. Len(out'[w])
            PROVE  /\ \E j \in 1 .. i - 1 : out'[w][j].node = out'[w][i].parent
                   /\ Link(out'[w][i].parent, out'[w][i].node, bound) # {}
        <4>1. CASE i = Len(out[w]) + 1
          <5>1. out[w] # <<>> /\ e.node # Root(w)
            BY <4>1, <2>2, <2>7
          <5>2. /\ \E j \in 1 .. Len(out[w]) : out[w][j].node = found[e.node].from
                /\ Link(found[e.node].from, e.node, bound) # {}
            BY <5>1, <1>1, <1>2, <1>3, ReachAssumption DEF Growing, found
          <5>3. QED
            BY <4>1, <5>2, <2>2, <2>3
        <4>2. CASE i \in 2 .. Len(out[w])
          <5>1. out'[w][i] = out[w][i] /\ \A j \in 1 .. i - 1 : out'[w][j] = out[w][j]
            BY <4>2, <2>2
          <5>2. /\ \E j \in 1 .. i - 1 : out[w][j].node = out[w][i].parent
                /\ Link(out[w][i].parent, out[w][i].node, bound) # {}
            BY <4>2, <1>1 DEF Grounded
          <5>3. QED
            BY <5>1, <5>2
        <4>3. QED
          BY <4>1, <4>2, <2>2
      <3>3. QED
        BY <3>1, <3>2, <1>11 DEF Grounded
    <2>9. Growing(w)'
      <3>1. out'[w] # <<>>
        BY <2>2
      <3>2. Root(w) \in seen'[w]
        BY <1>1, <1>11, <2>6 DEF Growing
      <3>3. \A n \in Ends : parents'[w][n] \in Label /\ parents'[w][n] # None
        <4>1. ASSUME NEW n \in Ends
              PROVE  parents'[w][n] = [from |-> e.node, cost |-> New(n)] /\ parents'[w][n] \in Label
          BY <1>2, <1>6, <1>11 DEF Label
        <4>2. QED
          BY <4>1, ReachAssumption
      <3>4. \A f \in toSee'[w] : parents'[w][f.node] # None
        <4>1. ASSUME NEW f \in toSee'[w] PROVE parents'[w][f.node] # None
          <5>1. CASE f \in toSee[w]
            <6>1. f.node \in Node /\ found[f.node] # None
              BY <5>1, <1>1 DEF Growing, TypeOK, Entry, found
            <6>2. QED
              BY <6>1, <3>3, <1>11
          <5>2. CASE f \notin toSee[w]
            <6>1. f.node \in Ends
              BY <5>2, <4>1, <1>11
            <6>2. QED
              BY <6>1, <3>3
          <5>3. QED
            BY <5>1, <5>2
        <4>2. QED
          BY <4>1
      <3>5. ASSUME NEW n \in Node, parents'[w][n] # None, n # Root(w)
            PROVE  /\ \E j \in 1 .. Len(out'[w]) : out'[w][j].node = parents'[w][n].from
                   /\ Link(parents'[w][n].from, n, bound) # {}
        <4>1. CASE n \in Ends
          <5>a. parents'[w][n] = [from |-> e.node, cost |-> New(n)]
            BY <4>1, <1>11
          <5>1. parents'[w][n].from = e.node
            BY <5>a
          <5>2. QED
            BY <4>1, <5>1, <1>6, <2>2, <2>3
        <4>2. CASE n \notin Ends
          <5>1. parents'[w][n] = found[n] /\ found[n] # None
            BY <4>2, <3>5, <1>11
          <5>2. /\ \E j \in 1 .. Len(out[w]) : out[w][j].node = found[n].from
                /\ Link(found[n].from, n, bound) # {}
            BY <5>1, <3>5, <1>1 DEF Growing, found
          <5>3. QED
            BY <5>1, <5>2, <2>2
        <4>3. QED
          BY <4>1, <4>2
      <3>6. QED
        BY <3>1, <3>2, <3>4, <3>5, <1>11 DEF Growing
    <2>10. pc'[w] = "search"
      BY <1>1, <1>13 DEF TypeOK
    <2>11. WorkOK(w)'
      BY <1>11, <2>8, <2>9, <2>10 DEF WorkOK
    <2>12. QED
      BY <2>11, <2>4, <2>5, <1>7, <1>8, <1>9, <1>10
  <1>14. QED
    BY <1>5, <1>12, <1>13

-----------------------------------------------------------------------------
(* The invariant.                                                          *)

\* The empty caches and idle threads of a start satisfy the invariant.
LEMMA InitOK == Init => IInv
  <1> SUFFICES ASSUME Init PROVE IInv
    OBVIOUS
  <1>1. PICK l \in Workloads : roads = l.roads /\ todo = l.asks
    BY DEF Init
  <1>2. roads \subseteq Road /\ todo \in [Worker -> Seq(Query)]
    BY <1>1, ReachAssumption
  <1>3. /\ pc = [w \in Worker |-> "idle"] /\ bound = None
        /\ succ = [n \in Node |-> None] /\ cache = [n \in Node |-> None]
        /\ toSee = [w \in Worker |-> {}] /\ seen = [w \in Worker |-> {}]
        /\ parents = [w \in Worker |-> [n \in Node |-> None]]
        /\ out = [w \in Worker |-> <<>>] /\ held = [w \in Worker |-> None]
    BY DEF Init
  <1>4. /\ succ \in [Node -> (SUBSET roads) \cup {None}]
        /\ cache \in [Node -> ParentMap \cup {None}]
        /\ pc \in [Worker -> {"idle", "bind", "search", "keep", "put", "panicked"}]
        /\ toSee \in [Worker -> SUBSET Entry] /\ seen \in [Worker -> SUBSET Node]
        /\ parents \in [Worker -> [Node -> Label \cup {None}]]
        /\ out \in [Worker -> ParentMap] /\ held \in [Worker -> Entry \cup {None}]
    BY <1>3 DEF ParentMap
  <1>5. TypeOK
    BY <1>2, <1>3, <1>4 DEF TypeOK
  <1>6. Unbound /\ CacheIsSound /\ \A w \in Worker : WorkOK(w)
    BY <1>3 DEF Unbound, CacheIsSound, WorkOK
  <1>7. QED
    BY <1>5, <1>6 DEF IInv

\* A step that leaves the caches alone leaves them sound.
LEMMA SameCaches ==
    ASSUME IInv, roads' = roads, succ' = succ, cache' = cache,
           bound' = bound \/ bound = None
    PROVE  CacheIsSound' /\ (bound' # None => Unbound') /\ (bound' = bound => Unbound')
  <1>1. CASE bound = None
    BY <1>1 DEF IInv, Unbound, CacheIsSound
  <1>2. CASE bound' = bound
    <2>1. /\ \A m, n : Link(m, n, bound)' = Link(m, n, bound)
          /\ \A n : Successors(n, bound)' = Successors(n, bound)
      BY <1>2, SameLinks
    <2>2. \A n \in Node : Grounded(cache[n], n) => Grounded(cache[n], n)'
      BY <2>1 DEF Grounded
    <2>3. QED
      BY <1>2, <2>1, <2>2 DEF IInv, Unbound, CacheIsSound
  <1>3. QED
    BY <1>1, <1>2

\* A query that is answered leaves its thread idle with the rest of its queries.
LEMMA AnswerStep ==
    ASSUME TypeOK, NEW w \in Worker, NEW map, Answer(w, map), todo[w] # <<>>
    PROVE  /\ todo' \in [Worker -> Seq(Query)] /\ pc'[w] = "idle"
           /\ pc' \in [Worker -> {"idle", "bind", "search", "keep", "put", "panicked"}]
           /\ \A v \in Worker \ {w} : todo'[v] = todo[v] /\ pc'[v] = pc[v]
  <1>1. /\ todo' = [todo EXCEPT ![w] = Tail(@)] /\ pc' = [pc EXCEPT ![w] = "idle"]
    BY DEF Answer
  <1>2. /\ todo \in [Worker -> Seq(Query)]
        /\ pc \in [Worker -> {"idle", "bind", "search", "keep", "put", "panicked"}]
    BY DEF TypeOK
  <1>3. Tail(todo[w]) \in Seq(Query)
    BY <1>2
  <1>4. QED
    BY <1>1, <1>2, <1>3

\* Every step of every thread keeps the invariant.
LEMMA StepOK == IInv /\ [Next]_vars => IInv'
  <1> SUFFICES ASSUME IInv, [Next]_vars PROVE IInv'
    OBVIOUS
  <1> DEFINE PCs == {"idle", "bind", "search", "keep", "put", "panicked"}
  <1>typed. /\ TypeOK /\ roads \subseteq Road /\ todo \in [Worker -> Seq(Query)]
            /\ bound \in Runtime \cup {None}
            /\ succ \in [Node -> (SUBSET roads) \cup {None}]
            /\ cache \in [Node -> ParentMap \cup {None}] /\ pc \in [Worker -> PCs]
            /\ toSee \in [Worker -> SUBSET Entry] /\ seen \in [Worker -> SUBSET Node]
            /\ parents \in [Worker -> [Node -> Label \cup {None}]]
            /\ out \in [Worker -> ParentMap] /\ held \in [Worker -> Entry \cup {None}]
            /\ \A v \in Worker :
                  /\ \A i \in 1 .. Len(out[v]) : out[v][i].node \in seen[v]
                  /\ \A i, j \in 1 .. Len(out[v]) : out[v][i].node = out[v][j].node => i = j
    BY DEF IInv, TypeOK
  <1>work. \A v \in Worker : WorkOK(v)
    BY DEF IInv
  <1>head. ASSUME NEW v \in Worker, todo[v] # <<>> PROVE Head(todo[v]) \in Query
    <2>1. todo[v] \in Seq(Query)
      BY <1>typed
    <2>2. QED
      BY <2>1, <1>head
  <1>1. ASSUME NEW w \in Worker, Hit(w) PROVE IInv'
    <2>1. /\ pc[w] = "idle" /\ todo[w] # <<>> /\ Answer(w, cache[Head(todo[w]).root])
          /\ UNCHANGED <<roads, bound, succ, cache, toSee, seen, parents, out, held>>
      BY <1>1 DEF Hit, search
    <2>2. /\ todo' \in [Worker -> Seq(Query)] /\ pc'[w] = "idle" /\ pc' \in [Worker -> PCs]
          /\ \A v \in Worker \ {w} : todo'[v] = todo[v] /\ pc'[v] = pc[v]
      BY <2>1, <1>typed, AnswerStep
    <2>3. \A v \in Worker : WorkOK(v)'
      <3>1. WorkOK(w)'
        BY <2>2 DEF WorkOK
      <3>2. ASSUME NEW v \in Worker \ {w} PROVE WorkOK(v)'
        BY <2>1, <2>2, <1>work, Frame
      <3>3. QED
        BY <3>1, <3>2
    <2>4. CacheIsSound' /\ Unbound'
      BY <2>1, SameCaches
    <2>5. TypeOK'
      BY <2>1, <2>2, <1>typed DEF TypeOK
    <2>6. QED
      BY <2>3, <2>4, <2>5 DEF IInv
  <1>2. ASSUME NEW w \in Worker, Miss(w) PROVE IInv'
    <2>1. /\ todo[w] # <<>> /\ pc' = [pc EXCEPT ![w] = "bind"]
          /\ UNCHANGED <<roads, todo, bound, succ, cache, toSee, seen, parents, out, held>>
      BY <1>2 DEF Miss, search
    <2>2. pc' \in [Worker -> PCs] /\ pc'[w] = "bind" /\ \A v \in Worker \ {w} : pc'[v] = pc[v]
      BY <2>1, <1>typed
    <2>3. \A v \in Worker : WorkOK(v)'
      <3>1. WorkOK(w)'
        BY <2>1, <2>2 DEF WorkOK
      <3>2. ASSUME NEW v \in Worker \ {w} PROVE WorkOK(v)'
        BY <2>1, <2>2, <1>work, Frame
      <3>3. QED
        BY <3>1, <3>2
    <2>4. CacheIsSound' /\ Unbound'
      BY <2>1, SameCaches
    <2>5. TypeOK'
      BY <2>1, <2>2, <1>typed DEF TypeOK
    <2>6. QED
      BY <2>3, <2>4, <2>5 DEF IInv
  <1>3. ASSUME NEW w \in Worker, Bind(w) PROVE IInv'
    <2> DEFINE q == Head(todo[w])
    <2>1. /\ pc[w] = "bind" /\ bound' = IF bound = None THEN q.runtime ELSE bound
          /\ \/ bound' = q.runtime /\ pc' = [pc EXCEPT ![w] = "search"] /\ Begin(w)
             \/ /\ pc' = [pc EXCEPT ![w] = "panicked"]
                /\ UNCHANGED <<toSee, seen, parents, out>>
          /\ UNCHANGED <<roads, todo, succ, cache, held>>
      BY <1>3 DEF Bind
    <2>2. todo[w] # <<>>
      BY <2>1, <1>work DEF WorkOK
    <2>3. q \in Query /\ q.runtime \in Runtime /\ q.root \in Node
      BY <2>2, <1>head DEF Query
    <2>4. bound' \in Runtime /\ bound' # None /\ (bound # None => bound' = bound)
      BY <2>1, <2>3, <1>typed, ReachAssumption
    <2>5. CacheIsSound' /\ Unbound'
      BY <2>1, <2>4, SameCaches
    <2>6. ASSUME NEW v \in Worker, pc[v] \in {"search", "keep", "put"} PROVE bound' = bound
      <3>1. bound = Head(todo[v]).runtime /\ todo[v] # <<>>
        BY <2>6, <1>work DEF WorkOK
      <3>2. bound \in Runtime
        BY <3>1, <1>head DEF Query
      <3>3. QED
        BY <3>2, <2>4, ReachAssumption
    <2>7. CASE pc' = [pc EXCEPT ![w] = "panicked"] /\ UNCHANGED <<toSee, seen, parents, out>>
      <3>1. pc' \in [Worker -> PCs] /\ pc'[w] = "panicked" /\ \A v \in Worker \ {w} : pc'[v] = pc[v]
        BY <2>7, <1>typed
      <3>2. ASSUME NEW v \in Worker \ {w} PROVE WorkOK(v)'
        BY <2>1, <2>6, <2>7, <3>1, <1>work, Frame
      <3>3. WorkOK(w)'
        BY <2>1, <2>2, <3>1 DEF WorkOK
      <3>4. TypeOK'
        BY <2>1, <2>4, <2>7, <3>1, <1>typed DEF TypeOK
      <3>5. QED
        BY <2>5, <3>2, <3>3, <3>4 DEF IInv
    <2>8. CASE bound' = q.runtime /\ pc' = [pc EXCEPT ![w] = "search"] /\ Begin(w)
      <3> DEFINE start == [n \in Node |-> IF n = q.root THEN [from |-> None, cost |-> Zero] ELSE None]
      <3>1. /\ toSee' = [toSee EXCEPT ![w] = {[cost |-> Zero, node |-> q.root]}]
            /\ seen' = [seen EXCEPT ![w] = {}]
            /\ parents' = [parents EXCEPT ![w] = start] /\ out' = [out EXCEPT ![w] = <<>>]
        BY <2>8 DEF Begin
      <3>2. [from |-> None, cost |-> Zero] \in Label /\ [cost |-> Zero, node |-> q.root] \in Entry
        BY <2>3, CostType DEF Label, Entry
      <3>3. start \in [Node -> Label \cup {None}] /\ <<>> \in ParentMap
        BY <3>2 DEF ParentMap
      <3> HIDE DEF start
      <3>4. /\ pc' \in [Worker -> PCs] /\ toSee' \in [Worker -> SUBSET Entry]
            /\ seen' \in [Worker -> SUBSET Node]
            /\ parents' \in [Worker -> [Node -> Label \cup {None}]]
            /\ out' \in [Worker -> ParentMap]
        BY <2>8, <3>1, <3>2, <3>3, <1>typed
      <3>5. \A v \in Worker \ {w} :
               /\ pc'[v] = pc[v] /\ toSee'[v] = toSee[v] /\ seen'[v] = seen[v]
               /\ parents'[v] = parents[v] /\ out'[v] = out[v]
        BY <2>8, <3>1, <1>typed
      <3>6. /\ pc'[w] = "search" /\ toSee'[w] = {[cost |-> Zero, node |-> q.root]}
            /\ seen'[w] = {} /\ parents'[w] = start /\ out'[w] = <<>> /\ Root(w)' = q.root
        BY <2>1, <2>8, <3>1, <1>typed DEF Root
      <3>7. Growing(w)'
        <4>1. start[q.root] # None /\ \A n \in Node : start[n] # None => n = q.root
          BY <2>3, <3>2, ReachAssumption DEF start
        <4>2. QED
          BY <3>6, <4>1 DEF Growing
      <3>8. Grounded(out[w], Root(w))'
        BY <3>6 DEF Grounded
      <3>9. WorkOK(w)'
        BY <2>1, <2>2, <2>8, <3>6, <3>7, <3>8 DEF WorkOK
      <3>10. ASSUME NEW v \in Worker \ {w} PROVE WorkOK(v)'
        BY <2>1, <2>6, <3>5, <1>work, Frame
      <3>11. TypeOK'
        <4>1. \A v \in Worker :
                 /\ \A i \in 1 .. Len(out'[v]) : out'[v][i].node \in seen'[v]
                 /\ \A i, j \in 1 .. Len(out'[v]) : out'[v][i].node = out'[v][j].node => i = j
          <5>1. ASSUME NEW v \in Worker \ {w}
                PROVE  /\ \A i \in 1 .. Len(out'[v]) : out'[v][i].node \in seen'[v]
                       /\ \A i, j \in 1 .. Len(out'[v]) : out'[v][i].node = out'[v][j].node => i = j
            BY <3>5, <1>typed
          <5>2. Len(out'[w]) = 0
            BY <3>6
          <5>3. QED
            BY <5>1, <5>2
        <4>2. QED
          BY <2>1, <2>4, <3>4, <4>1, <1>typed DEF TypeOK
      <3>12. QED
        BY <2>5, <3>9, <3>10, <3>11 DEF IInv
    <2>9. QED
      BY <2>1, <2>7, <2>8
  <1>4. ASSUME NEW w \in Worker, Skip(w) PROVE IInv'
    <2>1. PICK e \in Least(toSee[w]) : toSee' = [toSee EXCEPT ![w] = @ \ {e}]
      BY <1>4 DEF Skip
    <2>2. /\ pc[w] = "search"
          /\ UNCHANGED <<roads, todo, bound, succ, cache, pc, seen, parents, out, held>>
      BY <1>4 DEF Skip
    <2>3. /\ toSee' \in [Worker -> SUBSET Entry] /\ toSee'[w] = toSee[w] \ {e}
          /\ \A v \in Worker \ {w} : toSee'[v] = toSee[v]
      BY <2>1, <1>typed
    <2>4. WorkOK(w)'
      <3>1. Grounded(out[w], Root(w)) /\ Growing(w) /\ todo[w] # <<>> /\ bound = Head(todo[w]).runtime
        BY <2>2, <1>work DEF WorkOK
      <3>2. Root(w)' = Root(w) /\ \A m, n : Link(m, n, bound)' = Link(m, n, bound)
        BY <2>2, SameLinks DEF Root
      <3>3. Growing(w)'
        BY <2>2, <2>3, <3>1, <3>2 DEF Growing
      <3>4. Grounded(out[w], Root(w))'
        BY <2>2, <3>1, <3>2 DEF Grounded
      <3>5. QED
        BY <2>2, <3>1, <3>3, <3>4 DEF WorkOK
    <2>5. ASSUME NEW v \in Worker \ {w} PROVE WorkOK(v)'
      BY <2>2, <2>3, <1>work, Frame
    <2>6. CacheIsSound' /\ Unbound'
      BY <2>2, SameCaches
    <2>7. TypeOK'
      BY <2>2, <2>3, <1>typed DEF TypeOK
    <2>8. QED
      BY <2>4, <2>5, <2>6, <2>7 DEF IInv
  <1>5. ASSUME NEW w \in Worker, Pop(w) PROVE IInv'
    <2>1. PICK e \in Least(toSee[w]) :
             Fresh(w, e) /\ succ[e.node] # None /\ Settle(w, e, succ[e.node])
      BY <1>5 DEF Pop
    <2>2. /\ pc[w] = "search" /\ UNCHANGED <<roads, todo, bound, succ, cache, held>>
      BY <1>5 DEF Pop
    <2>3. e \in toSee[w] /\ e.node \notin seen[w] /\ e.node \in Node
      BY <2>1, <1>typed DEF Least, Fresh, Entry
    <2>4. succ[e.node] \subseteq Successors(e.node, bound)
      BY <2>1, <2>3 DEF IInv, CacheIsSound
    <2>5. /\ WorkOK(w)' /\ pc' \in [Worker -> PCs]
          /\ toSee' \in [Worker -> SUBSET Entry] /\ seen' \in [Worker -> SUBSET Node]
          /\ parents' \in [Worker -> [Node -> Label \cup {None}]]
          /\ out' \in [Worker -> ParentMap]
          /\ \A i \in 1 .. Len(out'[w]) : out'[w][i].node \in seen'[w]
          /\ \A i, j \in 1 .. Len(out'[w]) : out'[w][i].node = out'[w][j].node => i = j
          /\ \A v \in Worker \ {w} :
                /\ pc'[v] = pc[v] /\ toSee'[v] = toSee[v] /\ seen'[v] = seen[v]
                /\ parents'[v] = parents[v] /\ out'[v] = out[v]
      BY <2>1, <2>2, <2>3, <2>4, <1>typed, SettleStep
    <2>6. ASSUME NEW v \in Worker \ {w} PROVE WorkOK(v)'
      BY <2>2, <2>5, <1>work, Frame
    <2>7. CacheIsSound' /\ Unbound'
      BY <2>2, SameCaches
    <2>8. TypeOK'
      BY ZenonT(30), <2>2, <2>5, <1>typed DEF TypeOK
    <2>9. QED
      BY <2>5, <2>6, <2>7, <2>8 DEF IInv
  <1>6. ASSUME NEW w \in Worker, PopMiss(w) PROVE IInv'
    <2>1. PICK e \in Least(toSee[w]) : Fresh(w, e) /\ held' = [held EXCEPT ![w] = e]
      BY <1>6 DEF PopMiss
    <2>2. /\ pc[w] = "search" /\ pc' = [pc EXCEPT ![w] = "keep"]
          /\ UNCHANGED <<roads, todo, bound, succ, cache, toSee, seen, parents, out>>
      BY <1>6 DEF PopMiss
    <2>3. e \in toSee[w] /\ e.node \notin seen[w] /\ e \in Entry
      BY <2>1, <1>typed DEF Least, Fresh
    <2>4. /\ pc' \in [Worker -> PCs] /\ pc'[w] = "keep" /\ \A v \in Worker \ {w} : pc'[v] = pc[v]
          /\ held' \in [Worker -> Entry \cup {None}] /\ held'[w] = e
          /\ \A v \in Worker \ {w} : held'[v] = held[v]
      BY <2>1, <2>2, <2>3, <1>typed
    <2>5. WorkOK(w)'
      <3>1. Grounded(out[w], Root(w)) /\ Growing(w) /\ todo[w] # <<>> /\ bound = Head(todo[w]).runtime
        BY <2>2, <1>work DEF WorkOK
      <3>2. Root(w)' = Root(w) /\ \A m, n : Link(m, n, bound)' = Link(m, n, bound)
        BY <2>2, SameLinks DEF Root
      <3>3. Growing(w)'
        BY <2>2, <3>1, <3>2 DEF Growing
      <3>4. Grounded(out[w], Root(w))'
        BY <2>2, <3>1, <3>2 DEF Grounded
      <3>5. QED
        BY <2>2, <2>3, <2>4, <3>1, <3>3, <3>4 DEF WorkOK
    <2>6. ASSUME NEW v \in Worker \ {w} PROVE WorkOK(v)'
      BY <2>2, <2>4, <1>work, Frame
    <2>7. CacheIsSound' /\ Unbound'
      BY <2>2, SameCaches
    <2>8. TypeOK'
      BY <2>2, <2>4, <1>typed DEF TypeOK
    <2>9. QED
      BY <2>5, <2>6, <2>7, <2>8 DEF IInv
  <1>7. ASSUME NEW w \in Worker, Keep(w) PROVE IInv'
    <2> DEFINE e == held[w]
               next == Successors(e.node, Head(todo[w]).runtime)
    <2>1. /\ pc[w] = "keep" /\ succ' \in Inserted(succ, e.node, next) /\ Settle(w, e, next)
          /\ held' = [held EXCEPT ![w] = None]
          /\ UNCHANGED <<roads, todo, bound, cache>>
      BY <1>7 DEF Keep
    <2>2. /\ e \in toSee[w] /\ e.node \notin seen[w] /\ todo[w] # <<>>
          /\ bound = Head(todo[w]).runtime
      BY <2>1, <1>work DEF WorkOK
    <2>3. e.node \in Node /\ next \in SUBSET roads /\ next = Successors(e.node, bound)
      BY <2>2, <1>typed DEF Entry, Successors
    <2> HIDE DEF e, next
    <2>4. held' \in [Worker -> Entry \cup {None}] /\ \A v \in Worker \ {w} : held'[v] = held[v]
      BY <2>1, <1>typed
    <2>5. /\ WorkOK(w)' /\ pc' \in [Worker -> PCs]
          /\ toSee' \in [Worker -> SUBSET Entry] /\ seen' \in [Worker -> SUBSET Node]
          /\ parents' \in [Worker -> [Node -> Label \cup {None}]]
          /\ out' \in [Worker -> ParentMap]
          /\ \A i \in 1 .. Len(out'[w]) : out'[w][i].node \in seen'[w]
          /\ \A i, j \in 1 .. Len(out'[w]) : out'[w][i].node = out'[w][j].node => i = j
          /\ \A v \in Worker \ {w} :
                /\ pc'[v] = pc[v] /\ toSee'[v] = toSee[v] /\ seen'[v] = seen[v]
                /\ parents'[v] = parents[v] /\ out'[v] = out[v]
      BY <2>1, <2>2, <2>3, <2>4, SettleStep
    <2>6. /\ succ' \in [Node -> (SUBSET roads) \cup {None}]
          /\ \A n \in Node : succ'[n] # None => succ'[n] = succ[n] \/ (n = e.node /\ succ'[n] = next)
      <3>1. /\ succ \in [Node -> (SUBSET roads) \cup {None}] /\ e.node \in Node
            /\ next \in SUBSET roads /\ succ' \in Inserted(succ, e.node, next)
        BY <2>1, <2>3, <1>typed
      <3>2. succ = [n \in Node |-> succ[n]]
        BY <3>1
      <3>3. /\ succ' = [n \in Node |-> succ'[n]]
            /\ \A n \in Node : succ'[n] = None \/ succ'[n] = succ[n] \/ (n = e.node /\ succ'[n] = next)
        BY <3>1, <3>2, InsertedEntries
      <3>4. QED
        BY <3>1, <3>3
    <2>7. CacheIsSound'
      <3>1. /\ \A m, n : Link(m, n, bound)' = Link(m, n, bound)
            /\ \A n : Successors(n, bound)' = Successors(n, bound)
        BY <2>1, SameLinks
      <3>2. \A n \in Node : cache[n] # None => Grounded(cache[n], n)'
        BY <2>1, <3>1 DEF IInv, CacheIsSound, Grounded
      <3>3. QED
        BY <2>1, <2>3, <2>6, <3>1, <3>2 DEF IInv, CacheIsSound
    <2>8. Unbound'
      <3>1. bound \in Runtime
        BY <2>2, <1>head DEF Query
      <3>2. QED
        BY <3>1, <2>1, ReachAssumption DEF Unbound
    <2>9. ASSUME NEW v \in Worker \ {w} PROVE WorkOK(v)'
      BY <2>1, <2>4, <2>5, <1>work, Frame
    <2>10. TypeOK'
      <3>1. \A v \in Worker :
               /\ \A i \in 1 .. Len(out'[v]) : out'[v][i].node \in seen'[v]
               /\ \A i, j \in 1 .. Len(out'[v]) : out'[v][i].node = out'[v][j].node => i = j
        BY ZenonT(30), <2>5, <1>typed
      <3>2. QED
        BY <2>1, <2>4, <2>5, <2>6, <3>1, <1>typed DEF TypeOK
    <2>11. QED
      BY <2>5, <2>7, <2>8, <2>9, <2>10 DEF IInv
  <1>8. ASSUME NEW w \in Worker, Exhausted(w) PROVE IInv'
    <2>1. /\ pc[w] = "search" /\ pc' = [pc EXCEPT ![w] = "put"]
          /\ UNCHANGED <<roads, todo, bound, succ, cache, toSee, seen, parents, out, held>>
      BY <1>8 DEF Exhausted, search
    <2>2. pc' \in [Worker -> PCs] /\ pc'[w] = "put" /\ \A v \in Worker \ {w} : pc'[v] = pc[v]
      BY <2>1, <1>typed
    <2>3. WorkOK(w)'
      <3>1. Grounded(out[w], Root(w)) /\ todo[w] # <<>> /\ bound = Head(todo[w]).runtime
        BY <2>1, <1>work DEF WorkOK
      <3>2. Root(w)' = Root(w) /\ \A m, n : Link(m, n, bound)' = Link(m, n, bound)
        BY <2>1, SameLinks DEF Root
      <3>3. Grounded(out[w], Root(w))'
        BY <2>1, <3>1, <3>2 DEF Grounded
      <3>4. QED
        BY <2>1, <2>2, <3>1, <3>3 DEF WorkOK
    <2>4. ASSUME NEW v \in Worker \ {w} PROVE WorkOK(v)'
      BY <2>1, <2>2, <1>work, Frame
    <2>5. CacheIsSound' /\ Unbound'
      BY <2>1, SameCaches
    <2>6. TypeOK'
      BY <2>1, <2>2, <1>typed DEF TypeOK
    <2>7. QED
      BY <2>3, <2>4, <2>5, <2>6 DEF IInv
  <1>9. ASSUME NEW w \in Worker, Put(w) PROVE IInv'
    <2>1. /\ pc[w] = "put" /\ cache' \in Inserted(cache, Root(w), out[w]) /\ Answer(w, out[w])
          /\ toSee' = [toSee EXCEPT ![w] = {}] /\ seen' = [seen EXCEPT ![w] = {}]
          /\ parents' = [parents EXCEPT ![w] = [n \in Node |-> None]]
          /\ out' = [out EXCEPT ![w] = <<>>]
          /\ UNCHANGED <<roads, bound, succ, held>>
      BY <1>9 DEF Put, Root
    <2>2. todo[w] # <<>> /\ bound = Head(todo[w]).runtime /\ Grounded(out[w], Root(w))
      BY <2>1, <1>work DEF WorkOK
    <2>3. Root(w) \in Node /\ bound \in Runtime
      BY <2>2, <1>head DEF Query, Root
    <2>4. /\ todo' \in [Worker -> Seq(Query)] /\ pc'[w] = "idle" /\ pc' \in [Worker -> PCs]
          /\ \A v \in Worker \ {w} : todo'[v] = todo[v] /\ pc'[v] = pc[v]
      BY <2>1, <2>2, <1>typed, AnswerStep
    <2>5. out[w] \in ParentMap
      BY <1>typed
    <2>6. /\ cache' \in [Node -> ParentMap \cup {None}]
          /\ \A n \in Node : cache'[n] # None =>
                cache'[n] = cache[n] \/ (n = Root(w) /\ cache'[n] = out[w])
      <3>1. /\ cache \in [Node -> ParentMap \cup {None}] /\ Root(w) \in Node
            /\ out[w] \in ParentMap /\ cache' \in Inserted(cache, Root(w), out[w])
        BY <2>1, <2>3, <2>5, <1>typed
      <3>2. cache = [n \in Node |-> cache[n]]
        BY <3>1
      <3>3. /\ cache' = [n \in Node |-> cache'[n]]
            /\ \A n \in Node : cache'[n] = None \/ cache'[n] = cache[n] \/ (n = Root(w) /\ cache'[n] = out[w])
        BY <3>1, <3>2, InsertedEntries
      <3>4. QED
        BY <3>1, <3>3
    <2>7. CacheIsSound'
      <3>1. /\ \A m, n : Link(m, n, bound)' = Link(m, n, bound)
            /\ \A n : Successors(n, bound)' = Successors(n, bound)
        BY <2>1, SameLinks
      <3>2. \A n \in Node : cache'[n] # None => Grounded(cache'[n], n)
        BY <2>2, <2>6 DEF IInv, CacheIsSound
      <3>3. \A n \in Node : cache'[n] # None => Grounded(cache[n], n)'
        BY <3>1, <3>2 DEF Grounded
      <3>4. \A n \in Node : succ'[n] # None => succ'[n] = Successors(n, bound)'
        BY <2>1, <3>1 DEF IInv, CacheIsSound
      <3>5. QED
        BY <3>3, <3>4 DEF CacheIsSound
    <2>8. Unbound'
      BY <2>1, <2>3, ReachAssumption DEF Unbound
    <2>9. /\ toSee' \in [Worker -> SUBSET Entry] /\ seen' \in [Worker -> SUBSET Node]
          /\ parents' \in [Worker -> [Node -> Label \cup {None}]]
          /\ out' \in [Worker -> ParentMap] /\ out'[w] = <<>>
          /\ \A v \in Worker \ {w} : /\ toSee'[v] = toSee[v] /\ seen'[v] = seen[v]
                                      /\ parents'[v] = parents[v] /\ out'[v] = out[v]
      <3>1. <<>> \in ParentMap
        BY DEF ParentMap
      <3>2. QED
        BY <2>1, <3>1, <1>typed
    <2>10. WorkOK(w)'
      BY <2>4 DEF WorkOK
    <2>11. ASSUME NEW v \in Worker \ {w} PROVE WorkOK(v)'
      BY <2>1, <2>4, <2>9, <1>work, Frame
    <2>12. TypeOK'
      BY <2>1, <2>4, <2>6, <2>9, <1>typed DEF TypeOK
    <2>13. QED
      BY <2>7, <2>8, <2>10, <2>11, <2>12 DEF IInv
  <1>10. CASE UNCHANGED vars
    <2>1. UNCHANGED <<roads, todo, bound, succ, cache, pc, toSee, seen, parents, out, held>>
      BY <1>10 DEF vars
    <2>2. ASSUME NEW v \in Worker PROVE WorkOK(v)'
      BY <2>1, <1>work, Frame
    <2>3. CacheIsSound' /\ Unbound'
      BY <2>1, SameCaches
    <2>4. TypeOK'
      BY <2>1, <1>typed DEF TypeOK
    <2>5. QED
      BY <2>2, <2>3, <2>4 DEF IInv
  <1>11. QED
    BY <1>1, <1>2, <1>3, <1>4, <1>5, <1>6, <1>7, <1>8, <1>9, <1>10 DEF Next

\* Every reachable state satisfies the invariant.
LEMMA Invariant == Spec => []IInv
  BY InitOK, StepOK, PTL DEF Spec

\* The search, the heap, the caches and the yielded maps keep their types, and
\* a search yields a node at most once, whatever the network.
THEOREM ReachTypes == Spec => []TypeOK
  <1>1. IInv => TypeOK
    BY DEF IInv
  <1>2. QED
    BY <1>1, Invariant, PTL

\* For every network, reach and capacity, with any number of threads: what the
\* shared caches hold is valid for the bound runtime, and every parent map is a
\* tree over open roads that leads back to its root.
THEOREM CacheSafety == Spec => []CacheIsSound
  <1>1. IInv => CacheIsSound
    BY DEF IInv
  <1>2. QED
    BY <1>1, Invariant, PTL

-----------------------------------------------------------------------------
(* Routes. A parent map is measured by a distance for every node: what the *)
(* label said when the node was yielded.                                   *)

\* Every yielded node is within reach, and as far from its parent as their road
\* is long.
Measures(d, map, root) ==
    /\ d \in [Node -> Nat] /\ d[root] = 0
    /\ \A i \in 1 .. Len(map) : d[map[i].node] < Limit
    /\ \A i \in 2 .. Len(map) : d[map[i].node] = d[map[i].parent] + Span(map[i].parent, map[i].node)

\* No node twice.
Unique(map) == \A i, j \in 1 .. Len(map) : map[i].node = map[j].node => i = j

\* Where d and the length of a road stay within reach, the road's end was yielded and
\* is no further.
Closed(d, map, root) ==
    /\ Limit > 0 => Entries(map, root) # {}
    /\ \A i \in 1 .. Len(map) : \A r \in Successors(map[i].node, bound) :
          d[map[i].node] + r.length < Limit =>
             Entries(map, r.to) # {} /\ d[r.to] <= d[map[i].node] + r.length

\* The distances of a finished search.
Charted(d, map, root) == Measures(d, map, root) /\ (OneClass => Closed(d, map, root))

\* A parent map whose walks are routes.
Mapped(map, root) ==
    map \in ParentMap /\ Unique(map) /\ Grounded(map, root) /\ \E d : Charted(d, map, root)

\* Every node of the walk is as far from the one before as d says.
Chained(d, p) ==
    /\ p \in Seq(Node) /\ Len(p) > 0
    /\ \A k \in 2 .. Len(p) :
          Link(p[k - 1], p[k], bound) # {} /\ d[p[k]] = d[p[k - 1]] + Span(p[k - 1], p[k])

\* A walk to the leaf whose first node is the root or among the first m of the map.
Walked(d, map, root, leaf, m, p) ==
    /\ Chained(d, p) /\ p[Len(p)] = leaf
    /\ p[1] # root => \E i \in 1 .. m : map[i].node = p[1]

\* The roads of a network have lengths.
LEMMA SpanType ==
    ASSUME TypeOK, NEW m, NEW n, Link(m, n, bound) # {}
    PROVE  Span(m, n) \in Nat
<1>1. (CHOOSE r \in Link(m, n, bound) : TRUE) \in Link(m, n, bound)
  OBVIOUS
<1>2. Link(m, n, bound) \subseteq Road
  BY DEF Link, Successors, TypeOK
<1> QED
  BY <1>1, <1>2 DEF Span, Road

\* The lengths of the beginnings of a way.
Totals(t, p) ==
    /\ t[1] = 0 /\ \A k \in 1 .. Len(p) : t[k] \in Nat
    /\ \A k \in 2 .. Len(p) : t[k] = t[k - 1] + Span(p[k - 1], p[k])

\* A way over open roads has a length, the last of those of its beginnings.
LEMMA RouteTotals ==
    ASSUME TypeOK, NEW p \in Seq(Node), Len(p) > 0, \A k \in 2 .. Len(p) : Link(p[k - 1], p[k], bound) # {}
    PROVE  \E t : Totals(t, p) /\ RouteLength(p) = t[Len(p)]
<1> DEFINE n == Len(p)
           Table(x) == x = [k \in 1 .. n |-> IF k = 1 THEN 0 ELSE x[k - 1] + Span(p[k - 1], p[k])]
           V == [k \in 1 .. n |-> Nat]
           G == [k \in 2 .. n |-> [v \in Nat |-> v + Span(p[k - 1], p[k])]]
           c == CHOOSE x : Table(x)
<1>1. n \in Nat /\ n \in Int /\ 1 <= n /\ 1 \in Int /\ 1 + 1 = 2
  OBVIOUS
<1>2. \A k \in 2 .. n : k - 1 \in 1 .. n /\ k \in 1 .. n /\ Span(p[k - 1], p[k]) \in Nat
  BY <1>1, SpanType
<1>3. RouteLength(p) = c[n]
  BY Zenon DEF RouteLength
<1>4. \A k \in 1 .. n : V[k] = Nat
  OBVIOUS
<1>5. \A k \in 2 .. n : \A v \in Nat : G[k][v] = v + Span(p[k - 1], p[k])
  OBVIOUS
<1> HIDE DEF n, V, G, c
<1>6. Leads(G, V, 1, n)
  <2> SUFFICES ASSUME NEW k \in 1 + 1 .. n, NEW v \in V[k - 1] PROVE G[k][v] \in V[k]
    BY DEF Leads
  <2>1. k \in 2 .. n /\ v \in Nat /\ V[k] = Nat
    BY <1>2, <1>4
  <2>2. G[k][v] = v + Span(p[k - 1], p[k]) /\ Span(p[k - 1], p[k]) \in Nat
    BY <1>2, <1>5, <2>1
  <2> QED
    BY <2>1, <2>2
<1>7. 0 \in V[1]
  BY <1>1, <1>4
<1>8. PICK f : Unrolls(f, 0, G, V, 1, n)
  BY <1>1, <1>6, <1>7, RecursiveFunction, Zenon
<1>9. /\ f = [k \in 1 .. n |-> f[k]] /\ f[1] = 0
      /\ \A k \in 2 .. n : f[k] = G[k][f[k - 1]]
      /\ \A k \in 1 .. n : f[k] \in Nat
  BY <1>1, <1>4, <1>8 DEF Unrolls
<1>10. \A k \in 2 .. n : f[k] = f[k - 1] + Span(p[k - 1], p[k])
  BY <1>2, <1>5, <1>9
<1>11. Table(f)
  <2>1. \A k \in 1 .. n : k = 1 \/ k \in 2 .. n
    BY <1>1
  <2>2. \A k \in 1 .. n : f[k] = IF k = 1 THEN 0 ELSE f[k - 1] + Span(p[k - 1], p[k])
    BY <1>9, <1>10, <2>1, Zenon
  <2> QED
    BY <1>9, <2>2
<1>12. Table(c)
  <2>1. \E x : Table(x)
    BY <1>11
  <2> HIDE DEF Table
  <2> QED
    BY <2>1 DEF c
<1>13. /\ c[1] = 0
       /\ \A k \in 2 .. n : c[k] = c[k - 1] + Span(p[k - 1], p[k])
  BY <1>1, <1>12
<1> DEFINE T == {k \in Int : c[k] \in Nat}
<1>14. 1 .. n \subseteq T
  <2>1. 1 \in T
    BY <1>13
  <2>2. ASSUME NEW k \in 1 + 1 .. n, k - 1 \in T PROVE k \in T
    BY <1>2, <1>13, <2>2
  <2> HIDE DEF T
  <2> QED
    BY <1>1, <2>1, <2>2, RangeInd
<1> QED
  BY <1>3, <1>13, <1>14 DEF Totals, n

\* The length of a route is the difference of the distances of its ends.
LEMMA RouteLengthIs ==
    ASSUME TypeOK, NEW d \in [Node -> Nat], NEW p, Chained(d, p)
    PROVE  RouteLength(p) = d[p[Len(p)]] - d[p[1]]
<1> DEFINE n == Len(p)
<1>1. p \in Seq(Node) /\ n \in Nat /\ n > 0 /\ 1 \in Int /\ n \in Int
  BY DEF Chained
<1>2. \A k \in 1 .. n : p[k] \in Node /\ d[p[k]] \in Nat
  BY <1>1, ElementIsIn
<1>3. PICK c : Totals(c, p) /\ RouteLength(p) = c[n]
  BY <1>1, RouteTotals DEF Chained
<1> DEFINE T == {k \in Int : c[k] = d[p[k]] - d[p[1]]}
<1>4. 1 \in T
  <2>1. d[p[1]] \in Nat
    BY <1>1, <1>2
  <2> QED
    BY <1>3, <2>1 DEF Totals
<1>5. ASSUME NEW k \in 1 + 1 .. n, k - 1 \in T PROVE k \in T
  <2>1. k \in 2 .. n /\ k \in Int /\ k - 1 \in 1 .. n /\ k \in 1 .. n
    BY <1>1
  <2>2. /\ d[p[k]] = d[p[k - 1]] + Span(p[k - 1], p[k]) /\ Span(p[k - 1], p[k]) \in Nat
    BY <2>1, SpanType DEF Chained
  <2>3. c[k] = c[k - 1] + Span(p[k - 1], p[k]) /\ c[k - 1] = d[p[k - 1]] - d[p[1]]
    BY <1>3, <1>5, <2>1 DEF Totals
  <2>4. d[p[k - 1]] \in Nat /\ d[p[1]] \in Nat
    BY <1>1, <1>2, <2>1
  <2>5. c[k] = d[p[k]] - d[p[1]]
    BY <2>2, <2>3, <2>4
  <2> QED
    BY <2>1, <2>5
<1> HIDE DEF T, n
<1>6. 1 .. n \subseteq T
  BY <1>1, <1>4, <1>5, RangeInd
<1>7. n \in T
  BY <1>1, <1>6
<1> QED
  BY <1>3, <1>7 DEF T, n

\* Preceding a walk by the parent of its first node keeps it a walk, and moves
\* its start towards the root.
LEMMA PrecededStep ==
    ASSUME TypeOK, NEW map, NEW root, map \in ParentMap, Unique(map), Grounded(map, root),
           NEW d, Measures(d, map, root), NEW leaf, NEW m \in 1 .. Len(map), NEW p,
           Walked(d, map, root, leaf, m, p)
    PROVE  Walked(d, map, root, leaf, m - 1, Preceded(map, root, p))
<1> DEFINE q == Preceded(map, root, p)
<1>1. p # <<>>
  BY DEF Walked, Chained
<1>2. CASE p[1] = root
  BY <1>2 DEF Preceded, Walked
<1>3. CASE p[1] # root
  <2>1. PICK i \in 1 .. m : map[i].node = p[1]
    BY <1>3 DEF Walked
  <2>2. i \in 1 .. Len(map) /\ Len(map) \in Nat /\ map # <<>>
    BY DEF ParentMap
  <2>3. Entries(map, p[1]) = {i}
    BY <2>1, <2>2 DEF Entries, Unique
  <2>4. Parent(map, p[1]) = map[i].parent
    BY <2>3 DEF Parent
  <2>5. i \in 2 .. Len(map)
    BY <1>3, <2>1, <2>2 DEF Grounded
  <2>6. PICK j \in 1 .. i - 1 : map[j].node = map[i].parent
    BY <2>5 DEF Grounded
  <2> DEFINE x == map[i].parent
  <2>7. /\ Link(x, p[1], bound) # {} /\ d[p[1]] = d[x] + Span(x, p[1])
    BY <2>1, <2>5 DEF Grounded, Measures
  <2>8. x \in Node
    <3>1. j \in 1 .. Len(map)
      BY <2>2
    <3>2. map[j] \in [node : Node, parent : Node \cup {None}]
      BY <3>1, ElementIsIn DEF ParentMap
    <3> QED
      BY <2>6, <3>2
  <2>9. q = <<x>> \o p
    BY <1>1, <1>3, <2>3, <2>4 DEF Preceded
  <2> HIDE DEF q, x
  <2>10. p \in Seq(Node) /\ Len(p) \in Nat /\ Len(p) > 0
    BY DEF Walked, Chained
  <2>11. /\ q \in Seq(Node) /\ Len(q) = Len(p) + 1 /\ q[1] = x
         /\ \A k \in 2 .. Len(q) : q[k] = p[k - 1]
    BY <2>8, <2>9, <2>10
  <2>12. Chained(d, q)
    <3>1. ASSUME NEW k \in 2 .. Len(q)
          PROVE  Link(q[k - 1], q[k], bound) # {} /\ d[q[k]] = d[q[k - 1]] + Span(q[k - 1], q[k])
      <4>1. CASE k = 2
        <5>1. q[k - 1] = x /\ q[k] = p[1]
          BY <4>1, <2>10, <2>11
        <5> QED
          BY <5>1, <2>7
      <4>2. CASE k # 2
        <5>1. k - 1 \in 2 .. Len(p) /\ k - 1 \in 2 .. Len(q)
          BY <4>2, <2>10, <2>11
        <5>2. q[k] = p[k - 1] /\ q[k - 1] = p[(k - 1) - 1]
          BY <5>1, <2>11
        <5>3. /\ Link(p[(k - 1) - 1], p[k - 1], bound) # {}
              /\ d[p[k - 1]] = d[p[(k - 1) - 1]] + Span(p[(k - 1) - 1], p[k - 1])
          BY <5>1 DEF Walked, Chained
        <5> QED
          BY <5>2, <5>3
      <4> QED
        BY <4>1, <4>2
    <3> QED
      BY <2>10, <2>11, <3>1 DEF Chained
  <2>13. q[Len(q)] = leaf
    BY <2>10, <2>11 DEF Walked
  <2>14. j \in 1 .. m - 1 /\ map[j].node = q[1]
    BY <2>1, <2>6, <2>11 DEF x
  <2> QED
    BY <2>12, <2>13, <2>14 DEF Walked, q
<1> QED
  BY <1>2, <1>3

\* Walking a measured parent map back from the leaf ends at the root, and the
\* walk is a route within reach, as long as the leaf is far.
LEMMA PathIsRoute ==
    ASSUME TypeOK, NEW map, NEW q \in Query, map \in ParentMap, Unique(map), Grounded(map, q.root),
           NEW d, Measures(d, map, q.root),
           q.leaf = q.root \/ Entries(map, q.leaf) # {}
    PROVE  /\ IsRoute(Path(map, q.root, q.leaf), q)
           /\ RouteLength(Path(map, q.root, q.leaf)) = d[q.leaf]
           /\ Path(map, q.root, q.leaf) # <<>>
<1> DEFINE root == q.root
           leaf == q.leaf
           n == Len(map)
           Table(x) == x = [k \in 0 .. n |-> IF k = 0 THEN <<leaf>> ELSE Preceded(map, root, x[k - 1])]
           c == CHOOSE x : Table(x)
<1>2. root \in Node /\ leaf \in Node /\ n \in Nat /\ d \in [Node -> Nat] /\ d[root] = 0
  BY DEF Query, ParentMap, Measures
<1>3. <<leaf>> \in Seq(Node) /\ Len(<<leaf>>) = 1 /\ <<leaf>>[1] = leaf
  BY <1>2
<1>c. Chained(d, <<leaf>>)
  BY <1>3 DEF Chained
<1>4. CASE leaf = root
  <2>1. Path(map, root, leaf) = <<leaf>>
    BY <1>4 DEF Path
  <2>2. RouteLength(<<leaf>>) = d[leaf] - d[leaf]
    BY <1>2, <1>3, <1>c, RouteLengthIs
  <2> HIDE DEF root, leaf
  <2>3. RouteLength(<<leaf>>) = d[leaf]
    BY <1>2, <1>4, <2>2
  <2>4. IsRoute(<<leaf>>, q)
    BY <1>3, <1>4 DEF IsRoute, root, leaf
  <2> QED
    BY <1>3, <2>1, <2>3, <2>4 DEF root, leaf
<1>5. CASE leaf # root
  <2>1. Entries(map, leaf) # {} /\ Path(map, root, leaf) = c[n]
    <3>1. Entries(map, leaf) # {}
      BY <1>5
    <3> QED
      BY <3>1, <1>5, Zenon DEF Path
  <2>2. PICK l \in 1 .. n : map[l].node = leaf
    BY <2>1 DEF Entries
  <2> DEFINE W(k, p) == Walked(d, map, root, leaf, n - k, p)
             V == [k \in 0 .. n |-> {p \in Seq(Node) : W(k, p)}]
             G == [k \in 1 .. n |-> [p \in V[k - 1] |-> Preceded(map, root, p)]]
             a == <<leaf>>
  <2>3. a \in V[0] /\ W(0, a)
    <3>1. l \in 1 .. n - 0 /\ 0 \in 0 .. n
      BY <1>2
    <3>2. W(0, a)
      BY <1>3, <1>c, <2>2, <3>1 DEF Walked
    <3> QED
      BY <1>3, <3>1, <3>2
  <2>4. \A k \in 1 .. n : \A p \in V[k - 1] : G[k][p] = Preceded(map, root, p)
    OBVIOUS
  <2>5. \A k \in 0 .. n : \A p : p \in V[k] <=> (p \in Seq(Node) /\ W(k, p))
    OBVIOUS
  <2>6. \A k \in 1 .. n : k - 1 \in 0 .. n /\ k \in 0 .. n
    BY <1>2
  <2> HIDE DEF root, leaf, n, W, V, G, a, c
  <2>7. ASSUME NEW k \in 1 .. n, NEW p \in V[k - 1] PROVE Preceded(map, root, p) \in V[k]
    <3>1. W(k - 1, p)
      BY <2>5, <2>6, <2>7
    <3> DEFINE s == Preceded(map, root, p)
    <3>2. n - (k - 1) \in 1 .. Len(map) /\ (n - (k - 1)) - 1 = n - k
      BY <1>2 DEF n
    <3>3. Walked(d, map, root, leaf, (n - (k - 1)) - 1, s)
      BY <3>1, <3>2, PrecededStep DEF W, root
    <3> HIDE DEF s
    <3>4. W(k, s)
      BY <3>2, <3>3 DEF W
    <3>5. s \in Seq(Node)
      BY <3>4 DEF W, Walked, Chained
    <3> QED
      BY <3>4, <3>5, <2>5, <2>6 DEF s
  <2>8. \E f : Table(f)
    <3>1. PICK f : Unrolls(f, a, G, V, 0, n)
      <4>1. Leads(G, V, 0, n)
        BY <2>4, <2>7 DEF Leads
      <4>2. 0 \in Int /\ n \in Int /\ 0 <= n
        BY <1>2
      <4> QED
        BY <2>3, <4>1, <4>2, RecursiveFunction, Zenon
    <3>2. /\ f = [k \in 0 .. n |-> f[k]] /\ f[0] = a
          /\ \A k \in 1 .. n : f[k] = G[k][f[k - 1]]
          /\ \A k \in 0 .. n : f[k] \in V[k]
      BY <3>1 DEF Unrolls
    <3>3. ASSUME NEW k \in 0 .. n, k # 0 PROVE f[k] = Preceded(map, root, f[k - 1])
      <4>1. k \in 1 .. n
        BY <1>2, <3>3
      <4>2. f[k - 1] \in V[k - 1]
        BY <2>6, <3>2, <4>1, Zenon
      <4> QED
        BY <2>4, <3>2, <4>1, <4>2, Zenon
    <3>4. \A k \in 0 .. n : f[k] = IF k = 0 THEN <<leaf>> ELSE Preceded(map, root, f[k - 1])
      BY <3>2, <3>3, Zenon DEF a
    <3>5. Table(f)
      BY <3>2, <3>4
    <3> QED
      BY <3>5
  <2>9. Table(c)
    <3> HIDE DEF Table
    <3> QED
      BY <2>8 DEF c
  <2>10. c[0] = a /\ \A k \in 1 .. n : c[k] = Preceded(map, root, c[k - 1])
    <3>1. \A k \in 0 .. n : c[k] = IF k = 0 THEN <<leaf>> ELSE Preceded(map, root, c[k - 1])
      BY <2>9
    <3>2. 0 \in 0 .. n /\ \A k \in 1 .. n : k \in 0 .. n /\ k # 0
      BY <1>2
    <3> QED
      BY <3>1, <3>2, Zenon DEF a
  <2> DEFINE T == {k \in Int : c[k] \in V[k]}
  <2>11. 0 .. n \subseteq T
    <3>1. 0 \in T
      BY <2>3, <2>10
    <3>2. ASSUME NEW k \in 0 + 1 .. n, k - 1 \in T PROVE k \in T
      <4>1. k \in 1 .. n /\ k \in Int /\ c[k - 1] \in V[k - 1]
        BY <3>2
      <4>2. c[k] \in V[k]
        BY <2>7, <2>10, <4>1
      <4> QED
        BY <4>1, <4>2
    <3> HIDE DEF T
    <3>3. 0 \in Int /\ n \in Int
      BY <1>2
    <3> QED
      BY <3>1, <3>2, <3>3, RangeInd
  <2> DEFINE p == c[n]
  <2>12. W(n, p)
    <3>1. n \in 0 .. n
      BY <1>2
    <3>2. p \in V[n]
      BY <2>11, <3>1
    <3> QED
      BY <2>5, <3>1, <3>2
  <2> HIDE DEF p
  <2>13. Chained(d, p) /\ p[Len(p)] = leaf /\ p[1] = root
    BY <1>2, <2>12 DEF W, Walked
  <2>14. RouteLength(p) = d[leaf]
    <3>1. RouteLength(p) = d[p[Len(p)]] - d[p[1]]
      BY <1>2, <2>13, RouteLengthIs
    <3>2. d[leaf] \in Nat
      BY <1>2
    <3> QED
      BY <1>2, <2>13, <3>1, <3>2
  <2>15. d[leaf] < Limit
    BY <2>2 DEF Measures, n
  <2>16. RouteLength(p) < Limit
    BY <2>14, <2>15
  <2>17. p # <<>> /\ \A k \in 2 .. Len(p) : Link(p[k - 1], p[k], bound) # {}
    BY <2>13 DEF Chained
  <2>18. IsRoute(p, q)
    BY <2>13, <2>16, <2>17 DEF IsRoute, root, leaf
  <2> QED
    BY <2>1, <2>14, <2>17, <2>18 DEF p, root, leaf
<1> QED
  BY <1>4, <1>5

\* A leaf that was not yielded has no route.
LEMMA NoPath ==
    ASSUME NEW map, NEW root, NEW leaf, leaf # root, Entries(map, leaf) = {}
    PROVE  Path(map, root, leaf) = <<>>
  BY DEF Path

-----------------------------------------------------------------------------
(* The labels of a search. A node that is not settled has an entry on the  *)
(* heap for its label, and older entries only with a greater cost: the     *)
(* entry that is popped is therefore the label, and the label's distance   *)
(* is that of its parent plus the road between them.                       *)

\* One road from a node to another.
Single == \A r, s \in roads : r.from = s.from /\ r.to = s.to => r = s

\* What the labels of the nodes that are not settled say, with d the distances of
\* the nodes yielded.
Labelled(w, d) ==
    /\ out[w] = <<>> => \A n \in Node : parents[w][n] # None => parents[w][n].cost.distance = 0
    /\ \A n \in Node \ seen[w] :
          parents[w][n] # None => [cost |-> parents[w][n].cost, node |-> n] \in toSee[w]
    /\ \A f \in toSee[w] : f.node \notin seen[w] =>
          f.cost = parents[w][f.node].cost \/ Repr(f.cost) > Repr(parents[w][f.node].cost)
    /\ \A n \in Node \ seen[w] : (parents[w][n] # None /\ n # Root(w)) =>
          parents[w][n].cost.distance = d[parents[w][n].from] + Span(parents[w][n].from, n)

\* A cost that sums roads of one class.
Even(c) ==
    c = Zero \/ (c.denominator > 0 /\ \E r \in roads : c.numerator = r.weight * c.denominator)

\* What the search knows where all roads have one class: what is settled was yielded
\* and is no further than what is not, and no road out of it is a short cut.
Ordered(w, d) ==
    /\ \A f \in toSee[w] : Even(f.cost)
    /\ \A n \in Node : parents[w][n] # None => Even(parents[w][n].cost)
    /\ parents[w][Root(w)] # None
    /\ \A n \in seen[w] : Entries(out[w], n) # {}
    /\ \A s \in seen[w] : \A n \in Node \ seen[w] :
          parents[w][n] # None => d[s] <= parents[w][n].cost.distance
    /\ \A s \in seen[w] : \A r \in Successors(s, bound) : d[s] + r.length < Limit =>
          /\ r.to \in seen[w] => d[r.to] <= d[s] + r.length
          /\ r.to \notin seen[w] => /\ parents[w][r.to] # None
                                   /\ parents[w][r.to].cost.distance <= d[s] + r.length

\* The distances of a search that goes on.
Charting(w, d) == Measures(d, out[w], Root(w)) /\ Labelled(w, d) /\ (OneClass => Ordered(w, d))

\* A search can be measured, and what it has popped is the least of its heap.
SearchOK(w) ==
    /\ pc[w] \in {"search", "keep"} => \E d : Charting(w, d)
    /\ pc[w] = "put" => \E d : Charted(d, out[w], Root(w))
    /\ pc[w] = "keep" => held[w] \in Least(toSee[w])

\* The answer of a thread, if it is a route, is a real one, and a shortest one where
\* all roads have one class.
AnswerOK(w) ==
    answer[w] # None =>
        /\ answer[w].route # <<>> => IsRoute(answer[w].route, answer[w].query)
        /\ OneClass => Shortest(answer[w].route, answer[w].query)

RouteInv ==
    /\ Single
    /\ bound = None => \A w \in Worker : answer[w] = None
    /\ answer = [w \in Worker |-> answer[w]]
    /\ \A n \in Node : cache[n] # None => Mapped(cache[n], n)
    /\ \A w \in Worker : SearchOK(w) /\ AnswerOK(w)

\* Costs are compared as numbers.
LEMMA ReprType ==
    ASSUME NEW c \in Cost
    PROVE  Repr(c) \in Nat
<1>1. c.numerator \in Nat /\ c.denominator \in Nat /\ c.distance \in Nat
  BY DEF Cost
<1>2. Weight(c) \in Nat
  BY <1>1 DEF Weight
<1> HIDE DEF Weight
<1>3. Weight(c) * Weight(c) \in Nat
  BY <1>2
<1>4. Exact(c) \in Nat
  BY <1>1, <1>3 DEF Exact
<1> QED
  BY <1>4, ReachAssumption DEF Repr

\* The least entry of an unsettled node carries the node's label.
LEMMA LeastIsLabel ==
    ASSUME IInv, NEW w \in Worker, pc[w] \in {"search", "keep"}, NEW d, Labelled(w, d),
           NEW e \in Least(toSee[w]), e.node \notin seen[w]
    PROVE  e.cost = parents[w][e.node].cost
<1>1. e \in toSee[w] /\ \A f \in toSee[w] : Repr(e.cost) <= Repr(f.cost)
  BY DEF Least
<1>2. toSee[w] \subseteq Entry /\ parents[w] \in [Node -> Label \cup {None}]
  BY DEF IInv, TypeOK
<1>3. e.node \in Node /\ e.cost \in Cost
  BY <1>1, <1>2 DEF Entry
<1>4. Growing(w)
  BY DEF IInv, WorkOK
<1>5. parents[w][e.node] # None
  BY <1>1, <1>4 DEF Growing
<1>6. parents[w][e.node].cost \in Cost
  BY <1>2, <1>3, <1>5 DEF Label
<1> DEFINE f == [cost |-> parents[w][e.node].cost, node |-> e.node]
<1>7. f \in toSee[w]
  BY <1>3, <1>5 DEF Labelled
<1>8. Repr(e.cost) <= Repr(parents[w][e.node].cost)
  BY <1>1, <1>7
<1>9. e.cost = parents[w][e.node].cost \/ Repr(e.cost) > Repr(parents[w][e.node].cost)
  BY <1>1 DEF Labelled
<1>10. Repr(e.cost) \in Nat /\ Repr(parents[w][e.node].cost) \in Nat
  BY <1>3, <1>6, ReprType
<1> QED
  BY <1>8, <1>9, <1>10

\* Where there is one road from m to n, its length is the span.
LEMMA SpanIs ==
    ASSUME Single, NEW m, NEW n, NEW r \in Link(m, n, bound)
    PROVE  Span(m, n) = r.length
<1>1. \A s \in Link(m, n, bound) : s = r
  BY DEF Link, Successors, Single
<1>2. (CHOOSE s \in Link(m, n, bound) : TRUE) \in Link(m, n, bound)
  OBVIOUS
<1>3. (CHOOSE s \in Link(m, n, bound) : TRUE) = r
  BY <1>1, <1>2
<1> QED
  BY <1>3 DEF Span

\* A way that stays within reach ends at a node that was yielded and is no further
\* than the way is long.
LEMMA WayIsCovered ==
    ASSUME TypeOK, Single, NEW map, NEW root \in Node, map \in ParentMap,
           NEW d, Measures(d, map, root), Closed(d, map, root),
           NEW p \in Seq(Node), Len(p) > 0, p[1] = root,
           \A k \in 2 .. Len(p) : Link(p[k - 1], p[k], bound) # {}
    PROVE  /\ RouteLength(p) \in Nat
           /\ RouteLength(p) < Limit =>
                 Entries(map, p[Len(p)]) # {} /\ d[p[Len(p)]] <= RouteLength(p)
<1> DEFINE n == Len(p)
<1>1. n \in Nat /\ n > 0 /\ n \in Int /\ 1 \in Int /\ d \in [Node -> Nat] /\ d[root] = 0 /\ Limit \in Nat
  BY ReachAssumption DEF Measures
<1>2. PICK t : Totals(t, p) /\ RouteLength(p) = t[n]
  BY RouteTotals
<1> DEFINE T == {k \in Int : t[k] < Limit => Entries(map, p[k]) # {} /\ d[p[k]] <= t[k]}
<1>3. 1 \in T
  <2>1. t[1] = 0 /\ p[1] = root
    BY <1>2 DEF Totals
  <2>2. 0 < Limit => Entries(map, root) # {}
    BY <1>1 DEF Closed
  <2>3. t[1] < Limit => Entries(map, p[1]) # {} /\ d[p[1]] <= t[1]
    <3>1. 0 <= 0
      OBVIOUS
    <3> QED
      BY <3>1, <1>1, <2>1, <2>2, Zenon
  <2> QED
    BY <1>1, <2>3
<1>4. ASSUME NEW k \in 1 + 1 .. n, k - 1 \in T PROVE k \in T
  <2> SUFFICES ASSUME t[k] < Limit PROVE Entries(map, p[k]) # {} /\ d[p[k]] <= t[k]
    OBVIOUS
  <2>1. k \in 2 .. n /\ k - 1 \in 1 .. n /\ k \in 1 .. n
    BY <1>1
  <2>2. PICK r : r \in Link(p[k - 1], p[k], bound)
    BY <2>1
  <2>3. r \in Successors(p[k - 1], bound) /\ r.to = p[k] /\ Span(p[k - 1], p[k]) = r.length
    BY <2>2, SpanIs DEF Link
  <2>4. Span(p[k - 1], p[k]) \in Nat
    BY <2>1, SpanType
  <2>5. t[k] = t[k - 1] + r.length /\ t[k - 1] \in Nat /\ t[k] \in Nat /\ r.length \in Nat
    BY <1>2, <2>1, <2>3, <2>4 DEF Totals
  <2>6. t[k - 1] < Limit
    BY <1>1, <2>5
  <2>7. Entries(map, p[k - 1]) # {} /\ d[p[k - 1]] <= t[k - 1]
    BY <1>4, <2>6
  <2>8. PICK i \in 1 .. Len(map) : map[i].node = p[k - 1]
    BY <2>7 DEF Entries
  <2>9. d[p[k - 1]] \in Nat /\ d[p[k]] \in Nat
    BY <1>1, <2>1, ElementIsIn
  <2>10. d[p[k - 1]] + r.length < Limit
    BY SMTT(20), <1>1, <2>5, <2>7, <2>9
  <2>11. Entries(map, r.to) # {} /\ d[r.to] <= d[p[k - 1]] + r.length
    BY <2>3, <2>8, <2>10 DEF Closed
  <2> QED
    BY SMTT(20), <2>3, <2>5, <2>7, <2>9, <2>11
<1> HIDE DEF T, n
<1>5. 1 .. n \subseteq T
  BY <1>1, <1>3, <1>4, RangeInd
<1>6. n \in T /\ n \in 1 .. n
  BY <1>1, <1>5
<1> QED
  BY <1>2, <1>6 DEF T, n, Totals

\* Where the map is closed, the walk over it is a shortest way.
LEMMA PathIsShortest ==
    ASSUME TypeOK, Single, NEW map, NEW q \in Query, map \in ParentMap, Unique(map), Grounded(map, q.root),
           NEW d, Measures(d, map, q.root), Closed(d, map, q.root)
    PROVE  Shortest(Path(map, q.root, q.leaf), q)
<1> DEFINE route == Path(map, q.root, q.leaf)
<1>1. q.root \in Node /\ q.leaf \in Node /\ Limit \in Nat /\ d \in [Node -> Nat]
  BY ReachAssumption DEF Query, Measures
<1> SUFFICES ASSUME NEW x \in Lengths(q.root, q.leaf)
             PROVE  IF route = <<>> THEN x >= Limit ELSE RouteLength(route) <= x
  BY DEF Shortest
<1>2. PICK k \in 1 .. Cardinality(Node) :
         \E p \in [1 .. k -> Node] : /\ p[1] = q.root /\ p[k] = q.leaf
                                     /\ \A i \in 2 .. k : Link(p[i - 1], p[i], bound) # {}
                                     /\ x = RouteLength(p)
  BY DEF Lengths, Ways
<1>3. PICK p \in [1 .. k -> Node] : /\ p[1] = q.root /\ p[k] = q.leaf
                                    /\ \A i \in 2 .. k : Link(p[i - 1], p[i], bound) # {}
                                    /\ x = RouteLength(p)
  BY <1>2
<1>4. k \in Nat /\ k > 0 /\ p \in Seq(Node) /\ Len(p) = k
  OBVIOUS
<1>5. x \in Nat /\ (x < Limit => Entries(map, q.leaf) # {} /\ d[q.leaf] <= x)
  BY <1>1, <1>3, <1>4, WayIsCovered
<1>6. CASE q.leaf = q.root \/ Entries(map, q.leaf) # {}
  <2>1. route # <<>> /\ RouteLength(route) = d[q.leaf] /\ IsRoute(route, q)
    BY <1>6, PathIsRoute
  <2>2. d[q.leaf] <= x
    <3>1. CASE q.leaf = q.root
      BY <1>1, <1>5, <3>1 DEF Measures
    <3>2. CASE q.leaf # q.root
      <4>1. PICK i \in 1 .. Len(map) : map[i].node = q.leaf
        BY <1>6, <3>2 DEF Entries
      <4>2. d[q.leaf] < Limit /\ d[q.leaf] \in Nat
        BY <1>1, <4>1 DEF Measures
      <4> QED
        BY <1>1, <1>5, <4>2
    <3> QED
      BY <3>1, <3>2
  <2> QED
    BY <2>1, <2>2
<1>7. CASE q.leaf # q.root /\ Entries(map, q.leaf) = {}
  <2>1. route = <<>>
    BY <1>7, NoPath
  <2> QED
    BY <1>1, <1>5, <1>7, <2>1
<1> QED
  BY <1>6, <1>7

-----------------------------------------------------------------------------
(* Costs where all roads have one class.                                   *)

\* The average of equal weights is the weight.
LEMMA AverageIs ==
    ASSUME NEW m \in Nat, NEW n \in Nat, n > 0
    PROVE  (m * n) \div n = m
  OBVIOUS

\* Greater factors give greater products.
LEMMA TimesGrows ==
    ASSUME NEW c \in Nat, c > 0, NEW a \in Nat, NEW b \in Nat, a < b
    PROVE  c * a < c * b
  OBVIOUS

\* Below the reach, what is no dearer is no further.
LEMMA CheaperIsCloser ==
    ASSUME TypeOK, OneClass, NEW x \in Cost, NEW y \in Cost, Even(x), Even(y), y.distance < Limit,
           Repr(x) <= Repr(y)
    PROVE  x.distance <= y.distance
<1>1. x.distance \in Nat /\ y.distance \in Nat /\ Limit \in Nat /\ MaxRepr \in Nat
  BY ReachAssumption DEF Cost
<1>2. CASE x = Zero
  BY <1>1, <1>2 DEF Zero
<1>3. CASE x # Zero
  <2>1. PICK r \in roads : x.numerator = r.weight * x.denominator /\ x.denominator > 0
    BY <1>3 DEF Even
  <2> DEFINE c == r.weight
             C == c * c
  <2>2. c \in Nat /\ c > 0 /\ \A s \in roads : s.weight = c
    BY DEF TypeOK, Road, OneClass
  <2>3. C \in Nat /\ C > 0 /\ C * Limit <= MaxRepr
    <3>1. C \in Nat /\ C > 0
      BY <2>2
    <3> QED
      BY <3>1 DEF OneClass
  <2>4. Exact(x) = C * x.distance
    <3>1. Weight(x) = c
      BY <2>1, <2>2, AverageIs DEF Weight, Cost
    <3> QED
      BY <3>1 DEF Exact
  <2>5. Exact(y) = C * y.distance
    <3>1. CASE y = Zero
      <4>1. y.distance = 0 /\ y.denominator = 0
        BY <3>1 DEF Zero
      <4>2. Exact(y) = 0
        BY <4>1 DEF Exact, Weight
      <4> QED
        BY <2>3, <4>1, <4>2
    <3>2. CASE y # Zero
      <4>1. y.numerator = c * y.denominator /\ y.denominator > 0
        BY <2>2, <3>2 DEF Even
      <4>2. Weight(y) = c
        BY <2>2, <4>1, AverageIs DEF Weight, Cost
      <4> QED
        BY <4>2 DEF Exact
    <3> QED
      BY <3>1, <3>2
  <2> HIDE DEF C, c
  <2>6. SUFFICES ASSUME y.distance < x.distance PROVE FALSE
    BY <1>1
  <2>7. C * y.distance < C * x.distance /\ C * y.distance < C * Limit
    BY <1>1, <2>3, <2>6, TimesGrows
  <2>8. C * y.distance \in Nat /\ C * x.distance \in Nat /\ C * Limit \in Nat
    BY <1>1, <2>3
  <2> QED
    BY <1>1, <2>3, <2>4, <2>5, <2>7, <2>8 DEF Repr
<1> QED
  BY <1>2, <1>3

\* Where all roads have one class, a road more is a sum of that class.
LEMMA EvenSum ==
    ASSUME TypeOK, OneClass, NEW c \in Cost, Even(c), NEW r \in roads
    PROVE  Even(Add(c, CostOf(r)))
<1> DEFINE new == Add(c, CostOf(r))
<1>1. /\ new.numerator = c.numerator + r.weight /\ new.denominator = c.denominator + 1
      /\ c.denominator \in Nat /\ c.numerator \in Nat /\ r.weight \in Nat
  BY DEF Add, CostOf, Cost, TypeOK, Road
<1>2. c.numerator = r.weight * c.denominator
  <2>1. CASE c = Zero
    BY <1>1, <2>1 DEF Zero
  <2>2. CASE c # Zero
    BY <2>2 DEF Even, OneClass
  <2> QED
    BY <2>1, <2>2
<1> HIDE DEF new
<1>3. r.weight * (c.denominator + 1) = r.weight * c.denominator + r.weight
  BY <1>1
<1>4. new.numerator = r.weight * new.denominator /\ new.denominator > 0
  BY <1>1, <1>2, <1>3
<1> QED
  BY <1>4 DEF Even, new

\* Spans, and with them measures and routes, stay what they are while the network
\* and the runtime do.
LEMMA SameRoutes ==
    ASSUME roads' = roads, bound' = bound
    PROVE  /\ \A m, n : Span(m, n)' = Span(m, n)
           /\ OneClass' <=> OneClass
           /\ \A d, map, root : Measures(d, map, root)' <=> Measures(d, map, root)
           /\ \A d, map, root : Closed(d, map, root)' <=> Closed(d, map, root)
           /\ \A d, map, root : Charted(d, map, root)' <=> Charted(d, map, root)
           /\ \A map, root : Mapped(map, root)' <=> Mapped(map, root)
           /\ \A p, q : IsRoute(p, q)' <=> IsRoute(p, q)
           /\ \A p, q : Shortest(p, q)' <=> Shortest(p, q)
<1>1. /\ \A m, n : Link(m, n, bound)' = Link(m, n, bound)
      /\ \A n : Successors(n, bound)' = Successors(n, bound)
  BY SameLinks
<1>2. \A m, n : Span(m, n)' = Span(m, n)
  BY <1>1 DEF Span
<1>3. \A d, map, root : Measures(d, map, root)' <=> Measures(d, map, root)
  BY <1>2 DEF Measures
<1>4. \A map, root : Grounded(map, root)' <=> Grounded(map, root)
  BY <1>1 DEF Grounded
<1>5. OneClass' <=> OneClass
  BY DEF OneClass
<1>6. \A d, map, root : Closed(d, map, root)' <=> Closed(d, map, root)
  BY <1>1 DEF Closed, Entries
<1>7. \A d, map, root : Charted(d, map, root)' <=> Charted(d, map, root)
  BY <1>3, <1>5, <1>6 DEF Charted
<1>8. \A map, root : Mapped(map, root)' <=> Mapped(map, root)
  BY <1>4, <1>7 DEF Mapped, Unique, ParentMap
<1>9. \A p : RouteLength(p)' = RouteLength(p)
  BY <1>2 DEF RouteLength
<1>10. \A p, q : IsRoute(p, q)' <=> IsRoute(p, q)
  BY <1>1, <1>9 DEF IsRoute
<1>w. \A m, n, k : Ways(m, n, k)' = Ways(m, n, k)
  BY <1>1 DEF Ways
<1>11. \A m, n : Lengths(m, n)' = Lengths(m, n)
  BY <1>9, <1>w DEF Lengths
<1>12. \A p, q : Shortest(p, q)' <=> Shortest(p, q)
  BY <1>9, <1>11 DEF Shortest
<1> QED
  BY <1>2, <1>3, <1>5, <1>6, <1>7, <1>8, <1>10, <1>12

\* What a search measures depends on its own state, the network and the runtime.
LEMMA SameCharts ==
    ASSUME NEW v \in Worker, roads' = roads, bound' = bound, todo'[v] = todo[v], toSee'[v] = toSee[v],
           seen'[v] = seen[v], parents'[v] = parents[v], out'[v] = out[v]
    PROVE  /\ \A d : Charting(v, d) => Charting(v, d)'
           /\ \A d : Charted(d, out[v], Root(v)) => Charted(d, out[v], Root(v))'
<1>1. /\ \A m, n : Span(m, n)' = Span(m, n)
      /\ OneClass' <=> OneClass
  BY SameRoutes
<1>2. \A n : Successors(n, bound)' = Successors(n, bound)
  BY SameLinks
<1>3. Root(v)' = Root(v)
  BY DEF Root
<1>4. ASSUME NEW d, Measures(d, out[v], Root(v)) PROVE Measures(d, out[v], Root(v))'
  BY <1>1, <1>3, <1>4 DEF Measures
<1>5. ASSUME NEW d, Labelled(v, d) PROVE Labelled(v, d)'
  BY <1>1, <1>3, <1>5 DEF Labelled
<1>6. \A c : Even(c)' <=> Even(c)
  BY DEF Even
<1>7. ASSUME NEW d, Ordered(v, d) PROVE Ordered(v, d)'
  BY <1>2, <1>3, <1>6, <1>7 DEF Ordered, Entries
<1>8. ASSUME NEW d, Closed(d, out[v], Root(v)) PROVE Closed(d, out[v], Root(v))'
  BY <1>2, <1>3, <1>8 DEF Closed, Entries
<1>9. ASSUME NEW d, Charting(v, d) PROVE Charting(v, d)'
  BY <1>1, <1>4, <1>5, <1>7, <1>9 DEF Charting
<1>10. ASSUME NEW d, Charted(d, out[v], Root(v)) PROVE Charted(d, out[v], Root(v))'
  BY <1>1, <1>4, <1>8, <1>10 DEF Charted
<1> QED
  BY <1>9, <1>10

\* A thread whose own state is left alone keeps what its search measures.
LEMMA SearchFrame ==
    ASSUME NEW v \in Worker, SearchOK(v), roads' = roads,
           bound' = bound \/ pc[v] \notin {"search", "keep", "put"},
           pc'[v] = pc[v], todo'[v] = todo[v], toSee'[v] = toSee[v], seen'[v] = seen[v],
           parents'[v] = parents[v], out'[v] = out[v], held'[v] = held[v]
    PROVE  SearchOK(v)'
<1>1. CASE pc[v] \notin {"search", "keep", "put"}
  BY <1>1 DEF SearchOK
<1>2. CASE bound' = bound
  <2>1. (\E d : Charting(v, d)) => \E d : Charting(v, d)'
    BY <1>2, SameCharts
  <2>2. (\E d : Charted(d, out[v], Root(v))) => \E d : Charted(d, out[v], Root(v))'
    BY <1>2, SameCharts
  <2> QED
    BY <2>1, <2>2 DEF SearchOK, Least
<1> QED
  BY <1>1, <1>2

\* The distances once the node of e is settled.
Nearer(d, e) == [d EXCEPT ![e.node] = e.cost.distance]

\* What settling an entry does: every node keeps its label unless a road from the
\* entry improves it, and the heap gains the labels that changed.
LEMMA SettleRelaxes ==
    ASSUME TypeOK, NEW w \in Worker, NEW e \in Entry, NEW next, next \subseteq Road, Settle(w, e, next)
    PROVE  /\ seen'[w] = seen[w] \cup {e.node}
           /\ \A n \in Node :
                 \/ /\ parents'[w][n] = parents[w][n]
                    /\ \A r \in next : r.to = n => ~ Improves(parents[w], e, r)
                 \/ \E r \in next : /\ r.to = n /\ Improves(parents[w], e, r)
                                    /\ parents'[w][n] = [from |-> e.node, cost |-> Add(e.cost, CostOf(r))]
           /\ \A f \in toSee'[w] :
                 f \in toSee[w] \/ \E r \in next : f.cost = Add(e.cost, CostOf(r))
<1> DEFINE found == parents[w]
           better == {r \in next : Improves(found, e, r)}
           Ends == {r.to : r \in better}
           Via(n) == CHOOSE r \in better : r.to = n
           New(n) == Add(e.cost, CostOf(Via(n)))
<1>1. /\ toSee \in [Worker -> SUBSET Entry] /\ seen \in [Worker -> SUBSET Node]
      /\ parents \in [Worker -> [Node -> Label \cup {None}]]
  BY DEF TypeOK
<1>2. /\ seen' = [seen EXCEPT ![w] = @ \cup {e.node}]
      /\ parents' = [parents EXCEPT ![w] = [n \in Node |->
            IF n \in Ends THEN [from |-> e.node, cost |-> New(n)] ELSE found[n]]]
      /\ toSee' = [toSee EXCEPT ![w] = (@ \ {e}) \cup {[cost |-> New(n), node |-> n] : n \in Ends}]
  BY Zenon DEF Settle
<1>3. \A r \in better : r \in next /\ Improves(found, e, r)
  OBVIOUS
<1>4. \A r \in next : Improves(found, e, r) => r.to \in Ends
  OBVIOUS
<1> HIDE DEF found, better
<1>5. \A n \in Ends : Via(n) \in better /\ Via(n).to = n
  OBVIOUS
<1> HIDE DEF Ends, Via, New
<1>6. /\ seen'[w] = seen[w] \cup {e.node}
      /\ \A n \in Node : parents'[w][n] =
            IF n \in Ends THEN [from |-> e.node, cost |-> New(n)] ELSE found[n]
      /\ toSee'[w] = (toSee[w] \ {e}) \cup {[cost |-> New(n), node |-> n] : n \in Ends}
  BY <1>1, <1>2
<1>7. ASSUME NEW n \in Node
      PROVE  \/ /\ parents'[w][n] = found[n]
                /\ \A r \in next : r.to = n => ~ Improves(found, e, r)
             \/ \E r \in next : /\ r.to = n /\ Improves(found, e, r)
                                /\ parents'[w][n] = [from |-> e.node, cost |-> Add(e.cost, CostOf(r))]
  <2>1. CASE n \in Ends
    BY <2>1, <1>3, <1>5, <1>6, Zenon DEF New
  <2>2. CASE n \notin Ends
    BY <2>2, <1>4, <1>6, Zenon
  <2> QED
    BY <2>1, <2>2
<1>8. ASSUME NEW f \in toSee'[w], f \notin toSee[w]
      PROVE  \E r \in next : f.cost = Add(e.cost, CostOf(r))
  <2>1. PICK n \in Ends : f = [cost |-> New(n), node |-> n]
    BY <1>6, <1>8
  <2>2. f.cost = Add(e.cost, CostOf(Via(n))) /\ Via(n) \in next
    BY <2>1, <1>3, <1>5 DEF New
  <2> QED
    BY <2>2
<1> QED
  BY <1>6, <1>7, <1>8 DEF found

\* Where all roads have one class, settling the least entry keeps the search in
\* order; and when that entry is out of reach, nothing within reach was missed.
LEMMA SettleOrders ==
    ASSUME IInv, Single, NEW w \in Worker, pc[w] \in {"search", "keep"},
           NEW d, Measures(d, out[w], Root(w)), Labelled(w, d), OneClass, Ordered(w, d),
           NEW e \in Least(toSee[w]), e.node \notin seen[w],
           Settle(w, e, Successors(e.node, bound)),
           roads' = roads, bound' = bound, todo' = todo
    PROVE  /\ ~ Within(e.cost) => Closed(d, out[w], Root(w))
           /\ Within(e.cost) => Ordered(w, Nearer(d, e))'
<1> DEFINE found == parents[w]
           D == e.cost.distance
           next == Successors(e.node, bound)
           near == Nearer(d, e)
           Sum(r) == Add(e.cost, CostOf(r))
<1>1. /\ TypeOK /\ Growing(w) /\ e \in toSee[w]
      /\ \A f \in toSee[w] : Repr(e.cost) <= Repr(f.cost)
  BY DEF IInv, WorkOK, Least
<1>2. /\ roads \subseteq Road /\ toSee \in [Worker -> SUBSET Entry] /\ seen \in [Worker -> SUBSET Node]
      /\ parents \in [Worker -> [Node -> Label \cup {None}]] /\ out \in [Worker -> ParentMap]
      /\ \A i \in 1 .. Len(out[w]) : out[w][i].node \in seen[w]
  BY <1>1 DEF TypeOK
<1>3. e \in Entry /\ e.node \in Node /\ e.cost \in Cost /\ D \in Nat /\ Limit \in Nat
  BY <1>1, <1>2, ReachAssumption DEF Entry, Cost
<1>4. /\ found \in [Node -> Label \cup {None}] /\ found[e.node] # None
      /\ e.cost = found[e.node].cost
  BY <1>1, <1>2, <1>3, LeastIsLabel DEF Growing
<1>5. \A n \in Node : found[n] # None => found[n].cost \in Cost /\ found[n].cost.distance \in Nat
  BY <1>4 DEF Label, Cost
<1>6. /\ Even(e.cost) /\ \A n \in Node : found[n] # None => Even(found[n].cost)
  BY <1>1 DEF Ordered
<1>7. d \in [Node -> Nat] /\ \A n \in Node : d[n] \in Nat
  BY DEF Measures
<1>8. \A n : \A r \in Successors(n, bound) : r \in roads /\ r \in Road /\ r.to \in Node /\ r.length \in Nat
  BY <1>2 DEF Successors, Road
<1>root. Root(w) \in Node
  <2>1. todo[w] # <<>> /\ todo[w] \in Seq(Query)
    BY DEF IInv, TypeOK, WorkOK
  <2>2. Head(todo[w]) \in Query
    BY <2>1
  <2> QED
    BY <2>2 DEF Root, Query
<1> HIDE DEF found, D, next, near, Sum
<1>9. ASSUME NEW n \in Node \ seen[w], found[n] # None, found[n].cost.distance < Limit
      PROVE  D <= found[n].cost.distance
  <2> DEFINE f == [cost |-> found[n].cost, node |-> n]
  <2>1. f \in toSee[w]
    BY <1>9 DEF Labelled, found
  <2>2. Repr(e.cost) <= Repr(found[n].cost)
    BY <1>1, <2>1
  <2> QED
    BY <1>1, <1>3, <1>5, <1>6, <1>9, <2>2, CheaperIsCloser DEF D
<1>10. ASSUME ~ Within(e.cost) PROVE Closed(d, out[w], Root(w))
  <2>1. D >= Limit
    BY <1>3, <1>10 DEF Within, D
  <2>2. ASSUME NEW n \in Node \ seen[w], found[n] # None PROVE found[n].cost.distance >= Limit
    BY <1>3, <1>5, <1>9, <2>1, <2>2
  <2>3. ASSUME Limit > 0 PROVE Entries(out[w], Root(w)) # {}
    <3>1. CASE out[w] = <<>>
      <4>1. found[e.node].cost.distance = 0
        BY <3>1, <1>3, <1>4 DEF Labelled, found
      <4> QED
        BY <4>1, <1>3, <1>4, <2>1, <2>3 DEF D
    <3>2. CASE out[w] # <<>>
      <4>1. Root(w) \in seen[w]
        BY <3>2, <1>1 DEF Growing
      <4> QED
        BY <4>1 DEF Ordered
    <3> QED
      BY <3>1, <3>2
  <2>4. ASSUME NEW i \in 1 .. Len(out[w]), NEW r \in Successors(out[w][i].node, bound),
               d[out[w][i].node] + r.length < Limit
        PROVE  Entries(out[w], r.to) # {} /\ d[r.to] <= d[out[w][i].node] + r.length
    <3> DEFINE s == out[w][i].node
    <3>1. s \in seen[w] /\ s \in Node /\ r.to \in Node /\ r.length \in Nat
      BY <1>2, <1>8
    <3>2. /\ r.to \in seen[w] => d[r.to] <= d[s] + r.length
          /\ r.to \notin seen[w] => found[r.to] # None /\ found[r.to].cost.distance <= d[s] + r.length
      BY <2>4, <3>1 DEF Ordered, found
    <3>3. r.to \in seen[w]
      <4> SUFFICES ASSUME r.to \notin seen[w] PROVE FALSE
        OBVIOUS
      <4>1. found[r.to].cost.distance >= Limit /\ found[r.to].cost.distance \in Nat /\ d[s] \in Nat
        BY <1>5, <1>7, <2>2, <3>1, <3>2
      <4> QED
        BY <1>3, <2>4, <3>1, <3>2, <4>1
    <3>4. Entries(out[w], r.to) # {}
      BY <3>3 DEF Ordered
    <3> QED
      BY <3>2, <3>3, <3>4
  <2> QED
    BY <2>3, <2>4 DEF Closed
<1>11. ASSUME Within(e.cost) PROVE Ordered(w, Nearer(d, e))'
  <2>1. D < Limit
    BY <1>11 DEF Within, D
  <2>2. ASSUME NEW n \in Node \ seen[w], found[n] # None PROVE D <= found[n].cost.distance
    BY <1>3, <1>5, <1>9, <2>1, <2>2
  <2>3. /\ near[e.node] = D /\ \A n \in Node \ {e.node} : near[n] = d[n]
        /\ \A n \in Node : near[n] \in Nat
    BY <1>3, <1>7 DEF near, Nearer, D
  <2>4. \A s \in seen[w] : s \in Node /\ s # e.node /\ near[s] = d[s] /\ d[s] \in Nat /\ d[s] <= D
    <3>1. ASSUME NEW s \in seen[w] PROVE s \in Node /\ s # e.node /\ d[s] <= D
      BY <1>2, <1>3, <1>4 DEF Ordered, found, D
    <3> QED
      BY <3>1, <1>7, <2>3
  <2>5. /\ seen'[w] = seen[w] \cup {e.node}
        /\ \A n \in Node :
              \/ parents'[w][n] = found[n] /\ \A r \in next : r.to = n => ~ Improves(found, e, r)
              \/ \E r \in next : /\ r.to = n /\ Improves(found, e, r)
                                 /\ parents'[w][n] = [from |-> e.node, cost |-> Sum(r)]
        /\ \A f \in toSee'[w] : f \in toSee[w] \/ \E r \in next : f.cost = Sum(r)
    <3>1. next \subseteq Road /\ Settle(w, e, next)
      BY <1>8 DEF next
    <3> QED
      BY <1>1, <1>3, <3>1, SettleRelaxes DEF found, Sum
  <2>6. ASSUME NEW r \in next
        PROVE  /\ Even(Sum(r)) /\ Sum(r) \in Cost /\ Sum(r).distance = D + r.length
               /\ [from |-> e.node, cost |-> Sum(r)] # None
               /\ r \in roads /\ r.to \in Node /\ r.length \in Nat
    <3>1. r \in roads /\ r \in Road /\ r.to \in Node /\ r.length \in Nat
      BY <1>8 DEF next
    <3>2. Even(Sum(r)) /\ Sum(r) \in Cost
      BY <1>1, <1>3, <1>6, <3>1, EvenSum, CostType DEF Sum
    <3>3. Sum(r).distance = D + r.length
      BY DEF Sum, Add, CostOf, D
    <3>4. [from |-> e.node, cost |-> Sum(r)] \in Label
      BY <1>3, <3>2 DEF Label
    <3> QED
      BY <3>1, <3>2, <3>3, <3>4, ReachAssumption
  <2>7. ASSUME NEW n \in Node
        PROVE  \/ parents'[w][n] = found[n] /\ \A r \in next : r.to = n => ~ Improves(found, e, r)
               \/ \E r \in next : /\ r.to = n /\ Improves(found, e, r) /\ parents'[w][n] # None
                                  /\ parents'[w][n].cost = Sum(r)
    <3>1. CASE \E r \in next : /\ r.to = n /\ Improves(found, e, r)
                               /\ parents'[w][n] = [from |-> e.node, cost |-> Sum(r)]
      <4>1. PICK r \in next : /\ r.to = n /\ Improves(found, e, r)
                              /\ parents'[w][n] = [from |-> e.node, cost |-> Sum(r)]
        BY <3>1
      <4>2. parents'[w][n] # None /\ parents'[w][n].cost = Sum(r)
        BY <4>1, <2>6
      <4> QED
        BY <4>1, <4>2
    <3> QED
      BY <2>5, <3>1, Zenon
  <2>8. (\A c : Even(c)' <=> Even(c)) /\ Root(w)' = Root(w)
        /\ \A n : Successors(n, bound)' = Successors(n, bound)
    BY SameLinks DEF Even, Root
  <2>9. ASSUME NEW f \in toSee'[w] PROVE Even(f.cost)
    <3>1. CASE f \in toSee[w]
      BY <3>1 DEF Ordered
    <3>2. CASE \E r \in next : f.cost = Sum(r)
      BY <3>2, <2>6
    <3> QED
      BY <2>5, <3>1, <3>2
  <2>10. ASSUME NEW n \in Node, parents'[w][n] # None PROVE Even(parents'[w][n].cost)
    BY <1>6, <2>6, <2>7, <2>10
  <2>11. parents'[w][Root(w)] # None
    <3>1. found[Root(w)] # None
      BY DEF Ordered, found
    <3> QED
      BY <1>root, <2>7, <3>1
  <2>12. ASSUME NEW n \in seen'[w] PROVE Entries(out'[w], n) # {}
    <3> DEFINE item == [node |-> e.node, parent |-> found[e.node].from]
               Pair == [node : Node, parent : Node \cup {None}]
    <3>1. out'[w] = Append(out[w], item)
      BY <1>2, <1>4, <1>11 DEF Settle, found
    <3>2. out[w] \in Seq(Pair) /\ item \in Pair /\ item.node = e.node
      BY <1>2, <1>3, <1>4 DEF ParentMap, Label
    <3> HIDE DEF item, Pair
    <3>3. /\ Len(out'[w]) = Len(out[w]) + 1 /\ Len(out[w]) \in Nat
          /\ out'[w][Len(out[w]) + 1] = item
          /\ \A i \in 1 .. Len(out[w]) : out'[w][i] = out[w][i]
      BY <3>1, <3>2, AppendFacts
    <3>4. CASE n = e.node
      <4>1. Len(out[w]) + 1 \in 1 .. Len(out'[w])
        BY <3>3
      <4> QED
        BY <3>2, <3>3, <3>4, <4>1 DEF Entries
    <3>5. CASE n \in seen[w]
      <4>1. PICK i \in 1 .. Len(out[w]) : out[w][i].node = n
        BY <3>5 DEF Ordered, Entries
      <4>2. i \in 1 .. Len(out'[w]) /\ out'[w][i].node = n
        BY <3>3, <4>1
      <4> QED
        BY <4>2 DEF Entries
    <3> QED
      BY <2>5, <3>4, <3>5
  <2>13. ASSUME NEW n \in Node \ seen'[w], parents'[w][n] # None
         PROVE  D <= parents'[w][n].cost.distance /\ parents'[w][n].cost.distance \in Nat
    <3>1. n \in Node \ seen[w]
      BY <2>5, <2>13
    <3>2. CASE parents'[w][n] = found[n]
      BY <1>5, <2>2, <2>13, <3>1, <3>2
    <3>3. CASE \E r \in next : parents'[w][n].cost = Sum(r)
      <4>1. PICK r \in next : parents'[w][n].cost = Sum(r)
        BY <3>3
      <4> QED
        BY <1>3, <2>6, <4>1
    <3> QED
      BY <2>7, <3>2, <3>3
  <2>14. ASSUME NEW s \in seen'[w], NEW n \in Node \ seen'[w], parents'[w][n] # None
         PROVE  near[s] <= parents'[w][n].cost.distance
    <3>1. near[s] <= D /\ near[s] \in Nat
      BY <1>3, <2>3, <2>4, <2>5
    <3> QED
      BY <1>3, <2>13, <2>14, <3>1
  <2>15. ASSUME NEW s \in seen'[w], NEW r \in Successors(s, bound), near[s] + r.length < Limit
         PROVE  /\ r.to \in seen'[w] => near[r.to] <= near[s] + r.length
                /\ r.to \notin seen'[w] => /\ parents'[w][r.to] # None
                                           /\ parents'[w][r.to].cost.distance <= near[s] + r.length
    <3> DEFINE n == r.to
    <3>1. n \in Node /\ r.length \in Nat /\ r \in roads
      BY <1>8
    <3> HIDE DEF n
    <3>2. CASE s = e.node
      <4>1. r \in next /\ near[s] = D
        BY <2>3, <3>2 DEF next
      <4>2. ASSUME n \in seen'[w] PROVE near[n] <= D + r.length
        <5>1. near[n] \in Nat /\ near[n] <= D
          BY <1>3, <2>3, <2>4, <2>5, <4>2
        <5> QED
          BY <1>3, <3>1, <5>1
      <4>3. ASSUME n \notin seen'[w]
            PROVE  parents'[w][n] # None /\ parents'[w][n].cost.distance <= D + r.length
        <5>1. CASE parents'[w][n] = found[n] /\ ~ Improves(found, e, r)
          <6>1. found[n] # None /\ ~ (Repr(found[n].cost) > Repr(Sum(r)))
            BY <5>1 DEF Improves, Sum, n
          <6>2. found[n].cost \in Cost /\ Even(found[n].cost) /\ Sum(r) \in Cost /\ Even(Sum(r))
            BY <1>5, <1>6, <2>6, <3>1, <4>1, <6>1
          <6>3. Repr(found[n].cost) <= Repr(Sum(r))
            BY <6>1, <6>2, ReprType
          <6>4. Sum(r).distance = D + r.length /\ Sum(r).distance < Limit
            BY <2>6, <2>15, <4>1
          <6>5. found[n].cost.distance <= Sum(r).distance
            BY <1>1, <6>2, <6>3, <6>4, CheaperIsCloser
          <6> QED
            BY <5>1, <6>1, <6>4, <6>5
        <5>2. CASE \E z \in next : z.to = n /\ parents'[w][n] # None /\ parents'[w][n].cost = Sum(z)
          <6>1. PICK z \in next : z.to = n /\ parents'[w][n] # None /\ parents'[w][n].cost = Sum(z)
            BY <5>2
          <6>2. z.from = r.from /\ z.to = r.to /\ z \in roads
            BY <4>1, <6>1 DEF next, Successors, n
          <6>3. z = r
            BY <3>1, <6>2 DEF Single
          <6>4. Sum(r).distance = D + r.length /\ D + r.length \in Nat
            BY <1>3, <2>6, <3>1, <4>1
          <6> QED
            BY <6>1, <6>3, <6>4
        <5> QED
          BY <2>7, <3>1, <4>1, <5>1, <5>2 DEF n
      <4> QED
        BY <4>1, <4>2, <4>3 DEF n
    <3>3. CASE s \in seen[w]
      <4>1. near[s] = d[s] /\ d[s] \in Nat /\ s \in Node
        BY <2>4, <3>3
      <4>2. /\ n \in seen[w] => d[n] <= d[s] + r.length
            /\ n \notin seen[w] => found[n] # None /\ found[n].cost.distance <= d[s] + r.length
        BY <2>15, <3>3, <4>1 DEF Ordered, found, n
      <4>3. ASSUME n \in seen'[w] PROVE near[n] <= d[s] + r.length
        <5>1. CASE n \in seen[w]
          BY <2>4, <4>2, <5>1
        <5>2. CASE n = e.node
          BY <1>4, <2>3, <4>2, <5>2 DEF D
        <5> QED
          BY <2>5, <4>3, <5>1, <5>2
      <4>4. ASSUME n \notin seen'[w]
            PROVE  parents'[w][n] # None /\ parents'[w][n].cost.distance <= d[s] + r.length
        <5>1. /\ found[n] # None /\ found[n].cost.distance <= d[s] + r.length
              /\ found[n].cost \in Cost /\ Even(found[n].cost) /\ found[n].cost.distance \in Nat
          BY <1>5, <1>6, <2>5, <3>1, <4>2, <4>4
        <5>2. CASE parents'[w][n] = found[n]
          BY <5>1, <5>2
        <5>3. CASE \E z \in next : /\ z.to = n /\ Improves(found, e, z)
                                   /\ parents'[w][n] # None /\ parents'[w][n].cost = Sum(z)
          <6>1. PICK z \in next : /\ z.to = n /\ Improves(found, e, z)
                                  /\ parents'[w][n] # None /\ parents'[w][n].cost = Sum(z)
            BY <5>3
          <6>2. Repr(found[n].cost) > Repr(Sum(z))
            BY <5>1, <6>1 DEF Improves, Sum
          <6>3. Sum(z) \in Cost /\ Even(Sum(z)) /\ Sum(z).distance \in Nat
            BY <1>3, <2>6
          <6>4. Repr(Sum(z)) <= Repr(found[n].cost)
            BY <5>1, <6>2, <6>3, ReprType
          <6>5. found[n].cost.distance < Limit
            BY <1>3, <2>15, <3>1, <4>1, <5>1
          <6>6. Sum(z).distance <= found[n].cost.distance
            BY <1>1, <5>1, <6>3, <6>4, <6>5, CheaperIsCloser
          <6> QED
            BY <3>1, <4>1, <5>1, <6>1, <6>3, <6>6
        <5> QED
          BY <2>7, <3>1, <5>2, <5>3
      <4> QED
        BY <4>1, <4>3, <4>4 DEF n
    <3> QED
      BY <2>5, <3>2, <3>3
  <2> QED
    BY <2>8, <2>9, <2>10, <2>11, <2>12, <2>14, <2>15 DEF Ordered, near
<1> QED
  BY <1>10, <1>11

\* Settling the least entry measures one more node, by its label, and the labels
\* found from it are as far from it as the roads are long.
LEMMA SettleMeasures ==
    ASSUME IInv, Single, NEW w \in Worker, pc[w] \in {"search", "keep"},
           NEW d, Measures(d, out[w], Root(w)), Labelled(w, d),
           NEW e \in Least(toSee[w]), e.node \notin seen[w],
           NEW next, next \subseteq Successors(e.node, bound), Settle(w, e, next),
           roads' = roads, bound' = bound, todo' = todo
    PROVE  \/ /\ pc'[w] = "put" /\ ~ Within(e.cost) /\ out'[w] = out[w]
              /\ Measures(d, out[w], Root(w))'
           \/ /\ pc'[w] = "search" /\ Within(e.cost)
              /\ Measures(Nearer(d, e), out[w], Root(w))' /\ Labelled(w, Nearer(d, e))'
<1> DEFINE found == parents[w]
           better == {r \in next : Improves(found, e, r)}
           Ends == {r.to : r \in better}
           Via(n) == CHOOSE r \in better : r.to = n
           New(n) == Add(e.cost, CostOf(Via(n)))
           item == [node |-> e.node, parent |-> found[e.node].from]
           near == Nearer(d, e)
<1>1. /\ TypeOK /\ Growing(w) /\ Grounded(out[w], Root(w)) /\ e \in toSee[w]
  BY DEF IInv, WorkOK, Least
<1>2. /\ roads \subseteq Road /\ toSee \in [Worker -> SUBSET Entry] /\ seen \in [Worker -> SUBSET Node]
      /\ parents \in [Worker -> [Node -> Label \cup {None}]] /\ out \in [Worker -> ParentMap]
      /\ pc \in [Worker -> {"idle", "bind", "search", "keep", "put", "panicked"}]
      /\ \A i \in 1 .. Len(out[w]) : out[w][i].node \in seen[w]
  BY <1>1 DEF TypeOK
<1>3. e \in Entry /\ e.node \in Node /\ e.cost \in Cost /\ e.cost.distance \in Nat
  BY <1>1, <1>2 DEF Entry, Cost
<1>4. /\ found \in [Node -> Label \cup {None}] /\ found[e.node] # None /\ found[e.node] \in Label
  BY <1>1, <1>2, <1>3 DEF Growing
<1>5. e.cost = found[e.node].cost
  BY LeastIsLabel
<1>6. /\ seen' = [seen EXCEPT ![w] = @ \cup {e.node}]
      /\ parents' = [parents EXCEPT ![w] = [n \in Node |->
            IF n \in Ends THEN [from |-> e.node, cost |-> New(n)] ELSE found[n]]]
      /\ toSee' = [toSee EXCEPT ![w] = (@ \ {e}) \cup {[cost |-> New(n), node |-> n] : n \in Ends}]
      /\ \/ /\ Within(found[e.node].cost) /\ out' = [out EXCEPT ![w] = Append(@, item)]
            /\ pc' = [pc EXCEPT ![w] = "search"]
         \/ /\ ~ Within(found[e.node].cost) /\ pc' = [pc EXCEPT ![w] = "put"] /\ out' = out
  BY Zenon DEF Settle
<1> HIDE DEF found, better, Ends, Via, New, item, near
<1>7. ASSUME NEW n \in Ends
      PROVE  /\ n \in Node /\ New(n) \in Cost /\ Via(n) \in Link(e.node, n, bound) /\ Via(n) \in Road
             /\ New(n).distance = e.cost.distance + Span(e.node, n)
             /\ found[n] = None \/ Repr(found[n].cost) > Repr(New(n))
  <2>1. Via(n) \in better /\ Via(n).to = n
    BY DEF Ends, Via
  <2>2. Via(n) \in Successors(e.node, bound) /\ Via(n) \in Road
    BY <2>1, <1>2 DEF better, Successors
  <2>3. Via(n) \in Link(e.node, n, bound)
    BY <2>1, <2>2 DEF Link
  <2>4. Span(e.node, n) = Via(n).length
    BY <2>3, SpanIs
  <2>5. New(n).distance = e.cost.distance + Via(n).length
    BY DEF New, Add, CostOf
  <2>6. found[n] = None \/ Repr(found[n].cost) > Repr(New(n))
    BY <2>1 DEF better, Improves, New
  <2> QED
    BY <2>1, <2>2, <2>3, <2>4, <2>5, <2>6, <1>3, CostType DEF New, Road
<1>8. /\ Root(w)' = Root(w) /\ \A m, n : Span(m, n)' = Span(m, n)
      /\ seen'[w] = seen[w] \cup {e.node}
      /\ \A n \in Node : parents'[w][n] =
            IF n \in Ends THEN [from |-> e.node, cost |-> New(n)] ELSE found[n]
      /\ toSee'[w] = (toSee[w] \ {e}) \cup {[cost |-> New(n), node |-> n] : n \in Ends}
  BY <1>2, <1>6, SameRoutes DEF Root
<1>9. CASE ~ Within(found[e.node].cost) /\ pc' = [pc EXCEPT ![w] = "put"] /\ out' = out
  <2>1. pc'[w] = "put" /\ out'[w] = out[w]
    BY <1>2, <1>9
  <2>2. Measures(d, out[w], Root(w))'
    BY <1>8, <2>1 DEF Measures
  <2> QED
    BY <1>5, <1>9, <2>1, <2>2
<1>10. CASE /\ Within(found[e.node].cost) /\ out' = [out EXCEPT ![w] = Append(@, item)]
            /\ pc' = [pc EXCEPT ![w] = "search"]
  <2>1. pc'[w] = "search" /\ out'[w] = Append(out[w], item) /\ out[w] \in ParentMap
    BY <1>2, <1>10
  <2>2. item \in [node : Node, parent : Node \cup {None}] /\ item.node = e.node /\ item.parent = found[e.node].from
    BY <1>3, <1>4 DEF item, Label
  <2>3. /\ Len(out'[w]) = Len(out[w]) + 1 /\ Len(out[w]) \in Nat /\ out'[w] # <<>>
        /\ out'[w][Len(out[w]) + 1] = item
        /\ \A i \in 1 .. Len(out[w]) : out'[w][i] = out[w][i]
        /\ out[w] = <<>> <=> Len(out[w]) = 0
    <3> DEFINE Pair == [node : Node, parent : Node \cup {None}]
    <3>1. out[w] \in Seq(Pair) /\ item \in Pair
      BY <2>1, <2>2 DEF ParentMap
    <3> HIDE DEF Pair
    <3>2. out[w] = <<>> <=> Len(out[w]) = 0
      BY <3>1
    <3>3. /\ Append(out[w], item) # <<>> /\ Len(Append(out[w], item)) = Len(out[w]) + 1
          /\ Len(out[w]) \in Nat /\ Append(out[w], item)[Len(out[w]) + 1] = item
          /\ \A i \in 1 .. Len(out[w]) : Append(out[w], item)[i] = out[w][i]
      BY <3>1, AppendFacts
    <3> QED
      BY <2>1, <3>2, <3>3, Zenon
  <2>4. d \in [Node -> Nat] /\ d[Root(w)] = 0
    BY DEF Measures
  <2>5. /\ near \in [Node -> Nat] /\ near[e.node] = e.cost.distance
        /\ \A n \in Node \ {e.node} : near[n] = d[n]
    BY <1>3, <2>4 DEF near, Nearer
  <2>6. out[w] = <<>> => e.node = Root(w) /\ e.cost.distance = 0
    BY <1>1, <1>3, <1>4, <1>5 DEF Growing, Labelled, found
  <2>7. out[w] # <<>> => e.node # Root(w)
    BY <1>1 DEF Growing
  <2>8. near[Root(w)] = 0
    <3>1. CASE out[w] = <<>>
      BY <3>1, <2>5, <2>6
    <3>2. CASE out[w] # <<>>
      <4>1. Root(w) \in Node
        <5>1. Root(w) \in seen[w]
          BY <3>2, <1>1 DEF Growing
        <5> QED
          BY <5>1, <1>2
      <4> QED
        BY <3>2, <4>1, <2>4, <2>5, <2>7
    <3> QED
      BY <3>1, <3>2
  <2>9. ASSUME NEW i \in 1 .. Len(out[w])
        PROVE  out[w][i].node \in Node \ {e.node} /\ near[out[w][i].node] = d[out[w][i].node]
    <3>1. out[w][i].node \in seen[w] /\ out[w][i].node \in Node
      BY <1>2
    <3> QED
      BY <3>1, <2>5
  <2>10. ASSUME NEW n \in Node, n \notin seen[w], found[n] # None, n # Root(w)
         PROVE  /\ found[n].cost.distance = near[found[n].from] + Span(found[n].from, n)
                /\ found[n].from # e.node
    <3>1. found[n].cost.distance = d[found[n].from] + Span(found[n].from, n)
      BY <2>10 DEF Labelled, found
    <3>2. PICK j \in 1 .. Len(out[w]) : out[w][j].node = found[n].from
      BY <1>1, <2>10 DEF Growing, found
    <3> QED
      BY <3>1, <3>2, <2>9
  <2>11. Measures(near, out[w], Root(w))'
    <3>1. \A i \in 1 .. Len(out'[w]) : near[out'[w][i].node] < Limit
      <4>1. ASSUME NEW i \in 1 .. Len(out'[w]) PROVE near[out'[w][i].node] < Limit
        <5>1. CASE i \in 1 .. Len(out[w])
          <6>1. d[out[w][i].node] < Limit
            BY <5>1 DEF Measures
          <6> QED
            BY <5>1, <6>1, <2>3, <2>9
        <5>2. CASE i = Len(out[w]) + 1
          <6>1. e.cost.distance < Limit
            BY <1>5, <1>10 DEF Within
          <6> QED
            BY <5>2, <6>1, <2>2, <2>3, <2>5
        <5> QED
          BY <5>1, <5>2, <2>3
      <4> QED
        BY <4>1
    <3>2. ASSUME NEW i \in 2 .. Len(out'[w])
          PROVE  near[out'[w][i].node] = near[out'[w][i].parent] + Span(out'[w][i].parent, out'[w][i].node)
      <4>1. CASE i \in 2 .. Len(out[w])
        <5>1. d[out[w][i].node] = d[out[w][i].parent] + Span(out[w][i].parent, out[w][i].node)
          BY <4>1 DEF Measures
        <5>2. PICK j \in 1 .. i - 1 : out[w][j].node = out[w][i].parent
          BY <4>1, <1>1 DEF Grounded
        <5>3. i \in 1 .. Len(out[w]) /\ j \in 1 .. Len(out[w])
          BY <4>1
        <5> QED
          BY SMTT(20), <5>1, <5>2, <5>3, <2>3, <2>9
      <4>2. CASE i = Len(out[w]) + 1
        <5>1. e.node # Root(w)
          BY <4>2, <2>3, <2>7
        <5>2. e.cost.distance = near[found[e.node].from] + Span(found[e.node].from, e.node)
          BY <5>1, <1>3, <1>4, <1>5, <2>10
        <5> QED
          BY <4>2, <5>2, <2>2, <2>3, <2>5
      <4> QED
        BY <4>1, <4>2, <2>3
    <3> QED
      BY <3>1, <3>2, <1>8, <2>5, <2>8 DEF Measures
  <2>12. ASSUME NEW n \in Ends
         PROVE  /\ parents'[w][n].from = e.node /\ parents'[w][n].cost = New(n)
                /\ [cost |-> New(n), node |-> n] \in toSee'[w]
    <3>1. parents'[w][n] = [from |-> e.node, cost |-> New(n)]
      BY <1>7, <1>8
    <3> QED
      BY <3>1, <1>8
  <2>13. ASSUME NEW n \in Node \ seen'[w], parents'[w][n] # None
         PROVE  [cost |-> parents'[w][n].cost, node |-> n] \in toSee'[w]
    <3>1. CASE n \in Ends
      BY <3>1, <2>12
    <3>2. CASE n \notin Ends
      <4>1. parents'[w][n] = found[n] /\ n \notin seen[w] /\ n # e.node
        BY <3>2, <1>8, <2>13
      <4> DEFINE f == [cost |-> found[n].cost, node |-> n]
      <4>2. f \in toSee[w]
        BY <4>1, <2>13 DEF Labelled, found
      <4>3. f # e
        BY <4>1
      <4> QED
        BY <4>1, <4>2, <4>3, <1>8
    <3> QED
      BY <3>1, <3>2
  <2>14. ASSUME NEW f \in toSee'[w], f.node \notin seen'[w]
         PROVE  f.cost = parents'[w][f.node].cost \/ Repr(f.cost) > Repr(parents'[w][f.node].cost)
    <3>1. CASE f \in toSee[w]
      <4>1. /\ f.node \in Node /\ f.cost \in Cost /\ f.node \notin seen[w]
            /\ found[f.node] # None
        BY <3>1, <1>1, <1>2, <1>8, <2>14 DEF Growing, Entry, found
      <4>2. f.cost = found[f.node].cost \/ Repr(f.cost) > Repr(found[f.node].cost)
        BY <3>1, <4>1 DEF Labelled, found
      <4>3. CASE f.node \in Ends
        <5>1. Repr(found[f.node].cost) > Repr(New(f.node)) /\ New(f.node) \in Cost
          BY <4>1, <4>3, <1>7
        <5>2. found[f.node].cost \in Cost
          BY <4>1, <1>4 DEF Label
        <5>3. Repr(f.cost) \in Nat /\ Repr(found[f.node].cost) \in Nat /\ Repr(New(f.node)) \in Nat
          BY <4>1, <5>1, <5>2, ReprType
        <5>4. parents'[w][f.node].cost = New(f.node)
          BY <4>3, <2>12
        <5>5. Repr(f.cost) > Repr(New(f.node))
          BY <4>2, <5>1, <5>3
        <5> QED
          BY <5>4, <5>5
      <4>4. CASE f.node \notin Ends
        BY <4>1, <4>2, <4>4, <1>8
      <4> QED
        BY <4>3, <4>4
    <3>2. CASE f \notin toSee[w]
      <4>1. PICK n \in Ends : f = [cost |-> New(n), node |-> n]
        BY <3>2, <1>8, <2>14
      <4>2. f.node = n /\ f.cost = New(n)
        BY <4>1
      <4> QED
        BY <4>1, <4>2, <2>12
    <3> QED
      BY <3>1, <3>2
  <2>15. ASSUME NEW n \in Node \ seen'[w], parents'[w][n] # None, n # Root(w)
         PROVE  parents'[w][n].cost.distance = near[parents'[w][n].from] + Span(parents'[w][n].from, n)
    <3>1. CASE n \in Ends
      BY <3>1, <1>7, <2>5, <2>12
    <3>2. CASE n \notin Ends
      <4>1. parents'[w][n] = found[n] /\ n \notin seen[w]
        BY <3>2, <1>8, <2>15
      <4> QED
        BY <4>1, <2>10, <2>15
    <3> QED
      BY <3>1, <3>2
  <2>16. Labelled(w, near)'
    BY <1>8, <2>3, <2>13, <2>14, <2>15 DEF Labelled
  <2> QED
    BY <1>5, <1>10, <2>1, <2>11, <2>16 DEF near
<1> QED
  BY <1>6, <1>9, <1>10

\* Settling the least entry keeps the search charted.
LEMMA SettleCharts ==
    ASSUME IInv, Single, NEW w \in Worker, pc[w] \in {"search", "keep"}, NEW d, Charting(w, d),
           NEW e \in Least(toSee[w]), e.node \notin seen[w],
           Settle(w, e, Successors(e.node, bound)),
           roads' = roads, bound' = bound, todo' = todo
    PROVE  SearchOK(w)'
<1>1. Measures(d, out[w], Root(w)) /\ Labelled(w, d) /\ (OneClass => Ordered(w, d))
  BY DEF Charting
<1>2. OneClass' <=> OneClass
  BY SameRoutes
<1>3. CASE /\ pc'[w] = "put" /\ ~ Within(e.cost) /\ out'[w] = out[w]
           /\ Measures(d, out[w], Root(w))'
  <2>1. OneClass => Closed(d, out[w], Root(w))
    BY <1>1, <1>3, SettleOrders
  <2>2. \A map, root : Closed(d, map, root)' <=> Closed(d, map, root)
    BY SameRoutes
  <2>3. Root(w)' = Root(w)
    BY DEF Root
  <2>4. OneClass => Closed(d, out[w], Root(w))'
    BY <1>3, <2>1, <2>2, <2>3
  <2> QED
    BY <1>2, <1>3, <2>4 DEF SearchOK, Charted
<1>4. CASE /\ pc'[w] = "search" /\ Within(e.cost)
           /\ Measures(Nearer(d, e), out[w], Root(w))' /\ Labelled(w, Nearer(d, e))'
  <2>1. OneClass => Ordered(w, Nearer(d, e))'
    BY <1>1, <1>4, SettleOrders
  <2>2. Charting(w, Nearer(d, e))'
    BY <1>2, <1>4, <2>1 DEF Charting
  <2> QED
    BY <1>4, <2>2 DEF SearchOK
<1> QED
  BY <1>1, <1>3, <1>4, SettleMeasures

\* When nothing is left to see, nothing within reach was missed.
LEMMA ExhaustedCloses ==
    ASSUME TypeOK, NEW w \in Worker, toSee[w] = {}, NEW d, Charting(w, d), Root(w) \in Node
    PROVE  Charted(d, out[w], Root(w))
<1>1. Measures(d, out[w], Root(w)) /\ Labelled(w, d) /\ (OneClass => Ordered(w, d))
  BY DEF Charting
<1>2. ASSUME Ordered(w, d) PROVE Closed(d, out[w], Root(w))
  <2>1. \A n \in Node : parents[w][n] # None => n \in seen[w]
    BY <1>1 DEF Labelled
  <2>2. Entries(out[w], Root(w)) # {}
    BY <1>2, <2>1 DEF Ordered
  <2>3. ASSUME NEW i \in 1 .. Len(out[w]), NEW r \in Successors(out[w][i].node, bound),
               d[out[w][i].node] + r.length < Limit
        PROVE  Entries(out[w], r.to) # {} /\ d[r.to] <= d[out[w][i].node] + r.length
    <3>1. out[w][i].node \in seen[w] /\ r.to \in Node
      BY DEF TypeOK, Successors, Road
    <3>2. r.to \in seen[w] /\ d[r.to] <= d[out[w][i].node] + r.length
      BY <1>2, <2>1, <2>3, <3>1 DEF Ordered
    <3> QED
      BY <1>2, <3>2 DEF Ordered
  <2> QED
    BY <2>2, <2>3 DEF Closed
<1> QED
  BY <1>1, <1>2 DEF Charted

\* A thread's answer and a cached map stay real while the network and the runtime do.
LEMMA AnswerFrame ==
    ASSUME RouteInv, roads' = roads, bound' = bound
    PROVE  /\ Single'
           /\ \A v \in Worker : answer'[v] = answer[v] => AnswerOK(v)'
           /\ \A n \in Node : (cache'[n] = cache[n] /\ cache[n] # None) => Mapped(cache[n], n)'
<1>1. \A p, q : IsRoute(p, q)' <=> IsRoute(p, q)
  BY SameRoutes
<1>2. \A map, root : Mapped(map, root)' <=> Mapped(map, root)
  BY SameRoutes
<1>s. (\A p, q : Shortest(p, q)' <=> Shortest(p, q)) /\ (OneClass' <=> OneClass)
  BY SameRoutes
<1>3. ASSUME NEW v \in Worker, answer'[v] = answer[v] PROVE AnswerOK(v)'
  <2>1. AnswerOK(v)
    BY DEF RouteInv
  <2> QED
    BY <1>1, <1>3, <1>s, <2>1 DEF AnswerOK
<1>4. Single'
  BY DEF RouteInv, Single
<1>5. ASSUME NEW n \in Node, cache'[n] = cache[n], cache[n] # None PROVE Mapped(cache[n], n)'
  <2>1. Mapped(cache[n], n)
    BY <1>5 DEF RouteInv
  <2> QED
    BY <1>2, <1>5, <2>1
<1> QED
  BY <1>3, <1>4, <1>5

\* A query that is answered from a charted map gets a real route, a shortest one where
\* all roads have one class.
LEMMA AnswerIsReal ==
    ASSUME TypeOK, RouteInv, roads' = roads, bound' = bound, NEW w \in Worker, todo[w] # <<>>,
           NEW map, Mapped(map, Root(w)), Answer(w, map)
    PROVE  /\ answer' = [v \in Worker |-> answer'[v]]
           /\ \A v \in Worker : AnswerOK(v)'
<1> DEFINE q == Head(todo[w])
           p == Path(map, q.root, q.leaf)
<1>1. q \in Query
  BY DEF TypeOK
<1>2. (p # <<>> => IsRoute(p, q)) /\ (OneClass => Shortest(p, q))
  <2>1. PICK d : Charted(d, map, q.root)
    BY DEF Mapped, Root
  <2>2. map \in ParentMap /\ Unique(map) /\ Grounded(map, q.root) /\ Measures(d, map, q.root) /\ Single
    BY <2>1 DEF Mapped, Root, Charted, RouteInv
  <2>3. ASSUME OneClass PROVE Shortest(p, q)
    BY <1>1, <2>1, <2>2, <2>3, PathIsShortest DEF Charted
  <2>4. ASSUME p # <<>> PROVE IsRoute(p, q)
    <3>1. q.leaf = q.root \/ Entries(map, q.leaf) # {}
      BY <2>4, NoPath
    <3> QED
      BY <1>1, <2>2, <3>1, PathIsRoute
  <2> QED
    BY <2>3, <2>4
<1>3. answer' = [answer EXCEPT ![w] = [query |-> q, route |-> p]] /\ answer = [v \in Worker |-> answer[v]]
  BY DEF Answer, RouteInv
<1> HIDE DEF q, p
<1>4. /\ answer' = [v \in Worker |-> answer'[v]] /\ answer'[w] = [query |-> q, route |-> p]
      /\ \A v \in Worker \ {w} : answer'[v] = answer[v]
  BY <1>3
<1>5. AnswerOK(w)'
  <2>1. answer'[w].query = q /\ answer'[w].route = p
    BY <1>4
  <2>2. /\ \A r, x : IsRoute(r, x)' <=> IsRoute(r, x)
        /\ \A r, x : Shortest(r, x)' <=> Shortest(r, x)
        /\ OneClass' <=> OneClass
    BY SameRoutes
  <2>3. /\ p # <<>> => IsRoute(answer[w].route, answer[w].query)'
        /\ OneClass' => Shortest(answer[w].route, answer[w].query)'
    BY <1>2, <2>1, <2>2
  <2> QED
    BY <2>1, <2>3 DEF AnswerOK
<1>6. ASSUME NEW v \in Worker \ {w} PROVE AnswerOK(v)'
  BY <1>4, AnswerFrame
<1> QED
  BY <1>4, <1>5, <1>6

\* Nothing is answered, cached or measured at the start.
LEMMA RouteInit == Init => RouteInv
<1> SUFFICES ASSUME Init PROVE RouteInv
  OBVIOUS
<1>1. PICK l \in Workloads : roads = l.roads
  BY DEF Init
<1>2. Single
  BY <1>1, ReachAssumption DEF Single
<1>3. /\ pc = [w \in Worker |-> "idle"] /\ cache = [n \in Node |-> None]
      /\ answer = [w \in Worker |-> None]
  BY DEF Init
<1> QED
  BY <1>2, <1>3 DEF RouteInv, SearchOK, AnswerOK

\* Every step of every thread keeps the routes real.
LEMMA RouteStep == IInv /\ IInv' /\ RouteInv /\ [Next]_vars => RouteInv'
<1> SUFFICES ASSUME IInv, IInv', RouteInv, [Next]_vars PROVE RouteInv'
  OBVIOUS
<1>typed. /\ TypeOK /\ todo \in [Worker -> Seq(Query)] /\ bound \in Runtime \cup {None}
          /\ pc \in [Worker -> {"idle", "bind", "search", "keep", "put", "panicked"}]
          /\ cache \in [Node -> ParentMap \cup {None}] /\ toSee \in [Worker -> SUBSET Entry]
          /\ held \in [Worker -> Entry \cup {None}]
          /\ seen \in [Worker -> SUBSET Node] /\ out \in [Worker -> ParentMap]
          /\ parents \in [Worker -> [Node -> Label \cup {None}]]
          /\ \A v \in Worker : Unique(out[v])
  BY DEF IInv, TypeOK, Unique
<1>work. \A v \in Worker : WorkOK(v) /\ SearchOK(v)
  BY DEF IInv, RouteInv
<1>route. /\ answer = [v \in Worker |-> answer[v]]
          /\ bound = None => \A v \in Worker : answer[v] = None
          /\ \A n \in Node : cache[n] # None => Mapped(cache[n], n)
  BY DEF RouteInv
<1>bound. ASSUME NEW v \in Worker, pc[v] \in {"search", "keep", "put"}
          PROVE  bound # None /\ Root(v) \in Node
  <2>1. todo[v] # <<>> /\ bound = Head(todo[v]).runtime
    BY <1>bound, <1>work DEF WorkOK
  <2>2. Head(todo[v]) \in Query
    BY <2>1, <1>typed
  <2> QED
    BY <2>1, <2>2, ReachAssumption DEF Query, Root
<1>same. ASSUME UNCHANGED <<roads, bound, cache, answer>>, \A v \in Worker : SearchOK(v)'
         PROVE  RouteInv'
  BY <1>same, <1>route, AnswerFrame DEF RouteInv
<1>1. ASSUME NEW w \in Worker, Hit(w) PROVE RouteInv'
  <2>1. /\ pc[w] = "idle" /\ todo[w] # <<>> /\ cache[Root(w)] # None /\ Answer(w, cache[Root(w)])
        /\ UNCHANGED <<roads, bound, succ, cache, toSee, seen, parents, out, held>>
    BY <1>1 DEF Hit, search, Root
  <2>2. Root(w) \in Node
    <3>1. Head(todo[w]) \in Query
      BY <2>1, <1>typed
    <3> QED
      BY <3>1 DEF Root, Query
  <2>3. Mapped(cache[Root(w)], Root(w))
    BY <2>1, <2>2, <1>route
  <2>4. /\ answer' = [v \in Worker |-> answer'[v]] /\ \A v \in Worker : AnswerOK(v)'
    BY <2>1, <2>3, <1>typed, AnswerIsReal
  <2>5. pc'[w] = "idle" /\ \A v \in Worker \ {w} : todo'[v] = todo[v] /\ pc'[v] = pc[v]
    BY <2>1, <1>typed, AnswerStep
  <2>6. \A v \in Worker : SearchOK(v)'
    <3>1. SearchOK(w)'
      BY <2>5 DEF SearchOK
    <3>2. ASSUME NEW v \in Worker \ {w} PROVE SearchOK(v)'
      BY <2>1, <2>5, <1>work, SearchFrame
    <3> QED
      BY <3>1, <3>2
  <2>7. bound # None
    BY <2>1, <2>2 DEF IInv, Unbound
  <2> QED
    BY <2>1, <2>4, <2>6, <2>7, AnswerFrame DEF RouteInv
<1>2. ASSUME NEW w \in Worker, Miss(w) PROVE RouteInv'
  <2>1. /\ pc' = [pc EXCEPT ![w] = "bind"]
        /\ UNCHANGED <<roads, todo, bound, succ, cache, toSee, seen, parents, out, held, answer>>
    BY <1>2 DEF Miss, search
  <2>2. pc'[w] = "bind" /\ \A v \in Worker \ {w} : pc'[v] = pc[v]
    BY <2>1, <1>typed
  <2>3. SearchOK(w)'
    BY <2>2 DEF SearchOK
  <2>4. ASSUME NEW v \in Worker \ {w} PROVE SearchOK(v)'
    BY <2>1, <2>2, <1>work, SearchFrame
  <2> QED
    BY <2>1, <2>3, <2>4, <1>same
<1>3. ASSUME NEW w \in Worker, Bind(w) PROVE RouteInv'
  <2>1. /\ pc[w] = "bind" /\ bound' = IF bound = None THEN Head(todo[w]).runtime ELSE bound
        /\ \/ pc' = [pc EXCEPT ![w] = "search"] /\ Begin(w)
           \/ /\ pc' = [pc EXCEPT ![w] = "panicked"]
              /\ UNCHANGED <<toSee, seen, parents, out>>
        /\ UNCHANGED <<roads, todo, succ, cache, held, answer>>
    BY <1>3 DEF Bind
  <2>2. todo[w] # <<>> /\ Head(todo[w]) \in Query
    BY <2>1, <1>typed, <1>work DEF WorkOK
  <2>3. Root(w) \in Node /\ bound' # None /\ Root(w)' = Root(w)
    BY <2>1, <2>2, ReachAssumption DEF Query, Root
  <2>4. /\ \A v \in Worker \ {w} : /\ pc'[v] = pc[v] /\ toSee'[v] = toSee[v] /\ seen'[v] = seen[v]
                                    /\ parents'[v] = parents[v] /\ out'[v] = out[v]
    BY <2>1, <1>typed DEF Begin
  <2>5. ASSUME NEW v \in Worker \ {w} PROVE SearchOK(v)'
    <3>1. bound' = bound \/ pc[v] \notin {"search", "keep", "put"}
      BY <2>1, <1>bound
    <3> QED
      BY <3>1, <2>1, <2>4, <1>work, SearchFrame
  <2>6. SearchOK(w)'
    <3>1. CASE pc' = [pc EXCEPT ![w] = "panicked"]
      BY <3>1, <1>typed DEF SearchOK
    <3>2. CASE pc' = [pc EXCEPT ![w] = "search"] /\ Begin(w)
      <4> DEFINE r == Root(w)
                 d == [n \in Node |-> 0]
      <4>1. /\ pc'[w] = "search" /\ toSee'[w] = {[cost |-> Zero, node |-> r]} /\ seen'[w] = {}
            /\ parents'[w] = [n \in Node |-> IF n = r THEN [from |-> None, cost |-> Zero] ELSE None]
            /\ out'[w] = <<>>
        BY <3>2, <1>typed DEF Begin, Root
      <4> HIDE DEF r
      <4>2. Measures(d, out[w], Root(w))'
        BY <4>1, <2>3 DEF Measures
      <4>3. ASSUME NEW n \in Node, parents'[w][n] # None
            PROVE  n = r /\ parents'[w][n].cost = Zero
        BY <4>1, <4>3
      <4>4. \A f \in toSee'[w] : f.node = r /\ f.cost = Zero /\ r \in Node /\ parents'[w][r].cost = Zero
        BY <4>1, <2>3 DEF r
      <4>5. Zero.distance = 0
        BY DEF Zero
      <4>6. Labelled(w, d)'
        <5>1. ASSUME NEW n \in Node, parents'[w][n] # None
              PROVE  /\ parents'[w][n].cost.distance = 0
                     /\ [cost |-> parents'[w][n].cost, node |-> n] \in toSee'[w]
                     /\ n = Root(w)'
          BY <4>1, <4>3, <4>5, <5>1, <2>3 DEF r
        <5>2. \A f \in toSee'[w] : f.cost = parents'[w][f.node].cost
          BY <4>4
        <5> QED
          BY <5>1, <5>2 DEF Labelled
      <4>7. Even(Zero)' /\ parents'[w][r] # None
        <5>1. [from |-> None, cost |-> Zero] \in Label
          BY CostType DEF Label
        <5> QED
          BY <4>1, <5>1, <2>3, ReachAssumption DEF Even, r
      <4>8. Ordered(w, d)'
        BY <4>1, <4>3, <4>4, <4>7, <2>3 DEF Ordered, r
      <4> QED
        BY <4>1, <4>2, <4>6, <4>8 DEF SearchOK, Charting
    <3> QED
      BY <2>1, <3>1, <3>2
  <2>7. CASE bound = None
    <3>1. \A n \in Node : cache'[n] = None
      BY <2>1, <2>7 DEF IInv, Unbound
    <3>2. \A v \in Worker : answer'[v] = None
      BY <2>1, <2>7, <1>route
    <3>3. Single'
      BY <2>1 DEF RouteInv, Single
    <3> QED
      BY <2>1, <2>3, <2>5, <2>6, <3>1, <3>2, <3>3, <1>route DEF RouteInv, AnswerOK
  <2>8. CASE bound # None
    <3>1. bound' = bound
      BY <2>1, <2>8
    <3> QED
      BY <2>1, <2>5, <2>6, <3>1, <1>same
  <2> QED
    BY <2>7, <2>8
<1>4. ASSUME NEW w \in Worker, Skip(w) PROVE RouteInv'
  <2>1. PICK e \in Least(toSee[w]) : ~ Fresh(w, e) /\ toSee' = [toSee EXCEPT ![w] = @ \ {e}]
    BY <1>4 DEF Skip
  <2>2. /\ pc[w] = "search"
        /\ UNCHANGED <<roads, todo, bound, succ, cache, pc, seen, parents, out, held, answer>>
    BY <1>4 DEF Skip
  <2>3. e.node \in seen[w] /\ toSee'[w] = toSee[w] \ {e} /\ \A v \in Worker \ {w} : toSee'[v] = toSee[v]
    BY <2>1, <1>typed DEF Fresh
  <2>4. SearchOK(w)'
    <3>1. PICK d : Measures(d, out[w], Root(w)) /\ Labelled(w, d) /\ (OneClass => Ordered(w, d))
      BY <2>2, <1>work DEF SearchOK, Charting
    <3>2. /\ Root(w)' = Root(w) /\ \A m, n : Span(m, n)' = Span(m, n)
          /\ OneClass' <=> OneClass
      BY <2>2, SameRoutes DEF Root
    <3>3. Measures(d, out[w], Root(w))'
      BY <2>2, <3>1, <3>2 DEF Measures
    <3>4. ASSUME NEW n \in Node \ seen[w], parents[w][n] # None
          PROVE  [cost |-> parents[w][n].cost, node |-> n] \in toSee'[w]
      <4> DEFINE f == [cost |-> parents[w][n].cost, node |-> n]
      <4>1. f \in toSee[w] /\ f # e
        BY <2>3, <3>1, <3>4 DEF Labelled
      <4> QED
        BY <4>1, <2>3
    <3>5. Labelled(w, d)'
      BY <2>2, <2>3, <3>1, <3>2, <3>4 DEF Labelled
    <3>6. ASSUME Ordered(w, d) PROVE Ordered(w, d)'
      <4>1. \A n : Successors(n, bound)' = Successors(n, bound)
        BY <2>2, SameLinks
      <4>2. (\A c : Even(c)' <=> Even(c)) /\ \A f \in toSee'[w] : f \in toSee[w]
        BY <2>2, <2>3 DEF Even
      <4> QED
        BY <2>2, <3>2, <3>6, <4>1, <4>2 DEF Ordered, Entries
    <3> QED
      BY <2>2, <3>1, <3>2, <3>3, <3>5, <3>6 DEF SearchOK, Charting
  <2>5. ASSUME NEW v \in Worker \ {w} PROVE SearchOK(v)'
    BY <2>2, <2>3, <1>work, SearchFrame
  <2> QED
    BY <2>2, <2>4, <2>5, <1>same
<1>5. ASSUME NEW w \in Worker, Pop(w) PROVE RouteInv'
  <2>1. PICK e \in Least(toSee[w]) :
           Fresh(w, e) /\ succ[e.node] # None /\ Settle(w, e, succ[e.node])
    BY <1>5 DEF Pop
  <2>2. pc[w] = "search" /\ UNCHANGED <<roads, todo, bound, succ, cache, held, answer>>
    BY <1>5 DEF Pop
  <2>3. e.node \notin seen[w] /\ e.node \in Node
    BY <2>1, <1>typed DEF Least, Fresh, Entry
  <2>4. Settle(w, e, Successors(e.node, bound))
    BY <2>1, <2>3 DEF IInv, CacheIsSound
  <2>5. PICK d : Charting(w, d)
    BY <2>2, <1>work DEF SearchOK
  <2>6. SearchOK(w)'
    BY <2>1, <2>2, <2>3, <2>4, <2>5, SettleCharts DEF RouteInv
  <2>7. \A v \in Worker \ {w} : /\ pc'[v] = pc[v] /\ toSee'[v] = toSee[v] /\ seen'[v] = seen[v]
                                 /\ parents'[v] = parents[v] /\ out'[v] = out[v]
    BY <2>1, <1>typed DEF Settle
  <2>8. ASSUME NEW v \in Worker \ {w} PROVE SearchOK(v)'
    BY <2>2, <2>7, <1>work, SearchFrame
  <2> QED
    BY <2>2, <2>6, <2>8, <1>same
<1>6. ASSUME NEW w \in Worker, PopMiss(w) PROVE RouteInv'
  <2>1. PICK e \in Least(toSee[w]) : held' = [held EXCEPT ![w] = e]
    BY <1>6 DEF PopMiss
  <2>2. /\ pc[w] = "search" /\ pc' = [pc EXCEPT ![w] = "keep"]
        /\ UNCHANGED <<roads, todo, bound, succ, cache, toSee, seen, parents, out, answer>>
    BY <1>6 DEF PopMiss
  <2>3. /\ pc'[w] = "keep" /\ held'[w] = e
        /\ \A v \in Worker \ {w} : pc'[v] = pc[v] /\ held'[v] = held[v]
    BY <2>1, <2>2, <1>typed
  <2>4. SearchOK(w)'
    <3>1. PICK d : Charting(w, d)
      BY <2>2, <1>work DEF SearchOK
    <3>2. Charting(w, d)'
      BY <2>2, <3>1, SameCharts
    <3>5. e \in Least(toSee[w])'
      BY <2>1, <2>2 DEF Least
    <3> QED
      BY <2>3, <3>2, <3>5 DEF SearchOK
  <2>5. ASSUME NEW v \in Worker \ {w} PROVE SearchOK(v)'
    BY <2>2, <2>3, <1>work, SearchFrame
  <2> QED
    BY <2>2, <2>4, <2>5, <1>same
<1>7. ASSUME NEW w \in Worker, Keep(w) PROVE RouteInv'
  <2> DEFINE e == held[w]
             next == Successors(e.node, Head(todo[w]).runtime)
  <2>1. /\ pc[w] = "keep" /\ Settle(w, e, next) /\ held' = [held EXCEPT ![w] = None]
        /\ UNCHANGED <<roads, todo, bound, cache, answer>>
    BY <1>7 DEF Keep
  <2>2. /\ e \in Least(toSee[w]) /\ e.node \notin seen[w] /\ next = Successors(e.node, bound)
    BY <2>1, <1>work DEF WorkOK, SearchOK
  <2> HIDE DEF e, next
  <2>3. PICK d : Charting(w, d)
    BY <2>1, <1>work DEF SearchOK
  <2>4. SearchOK(w)'
    BY <2>1, <2>2, <2>3, SettleCharts DEF RouteInv
  <2>5. \A v \in Worker \ {w} : /\ pc'[v] = pc[v] /\ toSee'[v] = toSee[v] /\ seen'[v] = seen[v]
                                 /\ parents'[v] = parents[v] /\ out'[v] = out[v] /\ held'[v] = held[v]
    BY <2>1, <1>typed DEF Settle
  <2>6. ASSUME NEW v \in Worker \ {w} PROVE SearchOK(v)'
    BY <2>1, <2>5, <1>work, SearchFrame
  <2> QED
    BY <2>1, <2>4, <2>6, <1>same
<1>8. ASSUME NEW w \in Worker, Exhausted(w) PROVE RouteInv'
  <2>1. /\ pc[w] = "search" /\ toSee[w] = {} /\ pc' = [pc EXCEPT ![w] = "put"]
        /\ UNCHANGED <<roads, todo, bound, succ, cache, toSee, seen, parents, out, held, answer>>
    BY <1>8 DEF Exhausted, search
  <2>2. pc'[w] = "put" /\ \A v \in Worker \ {w} : pc'[v] = pc[v]
    BY <2>1, <1>typed
  <2>3. SearchOK(w)'
    <3>1. PICK d : Charting(w, d)
      BY <2>1, <1>work DEF SearchOK
    <3>2. Charted(d, out[w], Root(w))
      BY <2>1, <3>1, <1>typed, <1>bound, ExhaustedCloses
    <3>3. Charted(d, out[w], Root(w))'
      BY <2>1, <3>2, SameCharts
    <3> QED
      BY <2>2, <3>3 DEF SearchOK
  <2>4. ASSUME NEW v \in Worker \ {w} PROVE SearchOK(v)'
    BY <2>1, <2>2, <1>work, SearchFrame
  <2> QED
    BY <2>1, <2>3, <2>4, <1>same
<1>9. ASSUME NEW w \in Worker, Put(w) PROVE RouteInv'
  <2>1. /\ pc[w] = "put" /\ cache' \in Inserted(cache, Root(w), out[w]) /\ Answer(w, out[w])
        /\ toSee' = [toSee EXCEPT ![w] = {}] /\ seen' = [seen EXCEPT ![w] = {}]
        /\ parents' = [parents EXCEPT ![w] = [n \in Node |-> None]]
        /\ out' = [out EXCEPT ![w] = <<>>]
        /\ UNCHANGED <<roads, bound, succ, held>>
    BY <1>9 DEF Put, Root
  <2>2. todo[w] # <<>> /\ Grounded(out[w], Root(w)) /\ \E d : Charted(d, out[w], Root(w))
    BY <2>1, <1>work DEF WorkOK, SearchOK
  <2>3. bound # None /\ Root(w) \in Node
    BY <2>1, <1>bound
  <2>4. Mapped(out[w], Root(w))
    BY <2>2, <1>typed DEF Mapped
  <2>5. /\ answer' = [v \in Worker |-> answer'[v]] /\ \A v \in Worker : AnswerOK(v)'
    BY <2>1, <2>2, <2>4, <1>typed, AnswerIsReal
  <2>6. pc'[w] = "idle" /\ \A v \in Worker \ {w} : todo'[v] = todo[v] /\ pc'[v] = pc[v]
    BY <2>1, <2>2, <1>typed, AnswerStep
  <2>7. \A v \in Worker \ {w} : /\ toSee'[v] = toSee[v] /\ seen'[v] = seen[v]
                                 /\ parents'[v] = parents[v] /\ out'[v] = out[v]
    BY <2>1, <1>typed
  <2>8. \A v \in Worker : SearchOK(v)'
    <3>1. SearchOK(w)'
      BY <2>6 DEF SearchOK
    <3>2. ASSUME NEW v \in Worker \ {w} PROVE SearchOK(v)'
      BY <2>1, <2>6, <2>7, <1>work, SearchFrame
    <3> QED
      BY <3>1, <3>2
  <2>9. \A n \in Node : cache'[n] # None => Mapped(cache'[n], n)
    <3>1. cache = [n \in Node |-> cache[n]]
      BY <1>typed
    <3>2. \A n \in Node : cache'[n] = None \/ cache'[n] = cache[n] \/ (n = Root(w) /\ cache'[n] = out[w])
      BY <2>1, <2>3, <3>1, InsertedEntries
    <3> QED
      BY <2>4, <3>2, <1>route
  <2>10. \A n \in Node : cache'[n] # None => Mapped(cache[n], n)'
    <3>1. \A map, root : Mapped(map, root)' <=> Mapped(map, root)
      BY <2>1, SameRoutes
    <3> QED
      BY <2>9, <3>1
  <2> QED
    BY <2>1, <2>3, <2>5, <2>8, <2>10, AnswerFrame DEF RouteInv
<1>10. CASE UNCHANGED vars
  <2>1. UNCHANGED <<roads, todo, bound, succ, cache, pc, toSee, seen, parents, out, held, answer>>
    BY <1>10 DEF vars
  <2>2. ASSUME NEW v \in Worker PROVE SearchOK(v)'
    BY <2>1, <1>work, SearchFrame
  <2> QED
    BY <2>1, <2>2, <1>same
<1> QED
  BY <1>1, <1>2, <1>3, <1>4, <1>5, <1>6, <1>7, <1>8, <1>9, <1>10 DEF Next

\* The invariant holds always.
LEMMA RouteInvariant == Spec => []RouteInv
  BY RouteInit, RouteStep, Invariant, PTL DEF Spec

\* For every network, reach and capacity, whatever threads race, evict and panic: a
\* route answered from any parent map runs from the root to the leaf over roads
\* open to the bound runtime and is shorter than the reach, although the order of
\* the search is not the order of the distance.
THEOREM RoutesAreReal == Spec => []RouteIsReal
<1>1. RouteInv => RouteIsReal
  BY DEF RouteInv, RouteIsReal, AnswerOK
<1> QED
  BY <1>1, RouteInvariant, PTL

\* For every network of one road class, with a reach below which costs do not
\* saturate: there is a route if and only if some way is shorter than the reach, and
\* the route is a shortest one - whichever map, cached or fresh, answered.
THEOREM UniformSearchIsExact == Spec => []UniformIsExact
<1>1. RouteInv => UniformIsExact
  BY DEF RouteInv, UniformIsExact, AnswerOK
<1> QED
  BY <1>1, RouteInvariant, PTL
=============================================================================
