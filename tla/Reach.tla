------------------------------- MODULE Reach --------------------------------
(***************************************************************************)
(* How candidates are linked over the road network. Weighing threads ask a *)
(* shared PredicateCache for the parent map rooted at a node; a miss runs a *)
(* Dijkstra search cut at the cache's reach, over a second read-through     *)
(* cache of successors. The cost that orders the search is the squared     *)
(* average road-class weight times the distance, which may fall along a    *)
(* path. Several threads search at once; entries are evicted at any time.  *)
(***************************************************************************)
EXTENDS Integers, Sequences, FiniteSets

CONSTANTS
    Node,           \* nodes of the road network
    Worker,         \* threads that weigh, sharing one cache
    Runtime,        \* routing configurations
    Limit,          \* the cache's reach_distance
    MaxRepr,        \* u32::MAX, at which repr saturates
    Capacity,       \* DEFAULT_CACHE_CAPACITY
    Workloads,      \* [roads, asks]: a network and each thread's queries
    None            \* no node, no entry, no runtime yet, no answer

\* A road has a class weight and a length; open says which runtimes may use it.
Road == [from : Node, to : Node, weight : Nat, length : Nat, open : SUBSET Runtime]

Query == [root : Node, leaf : Node, runtime : Runtime]

Cost == [numerator : Nat, denominator : Nat, distance : Nat]

Entry == [cost : Cost, node : Node]

Label == [from : Node \cup {None}, cost : Cost]

ASSUME ReachAssumption ==
    /\ Limit \in Nat /\ MaxRepr \in Nat /\ Capacity \in Nat \ {0}
    /\ None \notin Node /\ None \notin Runtime /\ None \notin Label
    /\ Workloads \subseteq [roads : SUBSET Road, asks : [Worker -> Seq(Query)]]
    \* one road from a node to another, as in the graph map
    /\ \A l \in Workloads : \A r, s \in l.roads :
          r.from = s.from /\ r.to = s.to => r = s

VARIABLES
    roads,      \* the network
    todo,       \* per thread, the queries ahead
    bound,      \* bound_runtime
    succ,       \* SuccessorsCache: node -> its open roads, or None
    cache,      \* PredicateCache: root -> parent map, or None
    pc,         \* per thread: idle, bind, search, keep, put, panicked
    toSee,      \* per thread, the heap: [cost, node]
    seen,       \* per thread, the settled nodes
    parents,    \* per thread: node -> [from, cost], or None
    out,        \* per thread, what the search yielded: [node, parent], in order
    held,       \* per thread, the heap entry whose successors were computed
    answer      \* per thread, the last query with its route

search == <<toSee, seen, parents, out, held>>
vars == <<roads, todo, bound, succ, cache, pc, toSee, seen, parents, out, held, answer>>

-----------------------------------------------------------------------------
(* WeightAndDistance. The sums stay far below their 32 bits; their product *)
(* need not, and the cast back to an integer saturates.                    *)

Zero == [numerator |-> 0, denominator |-> 0, distance |-> 0]

CostOf(r) == [numerator |-> r.weight, denominator |-> 1, distance |-> r.length]

Add(c, d) ==
    [numerator |-> c.numerator + d.numerator,
     denominator |-> c.denominator + d.denominator,
     distance |-> c.distance + d.distance]

Weight(c) == IF c.denominator = 0 THEN 0 ELSE c.numerator \div c.denominator

Exact(c) == Weight(c) * Weight(c) * c.distance

Repr(c) == IF Exact(c) > MaxRepr THEN MaxRepr ELSE Exact(c)

-----------------------------------------------------------------------------
(* The two caches and the walk over a parent map.                          *)

\* The roads out of n that the runtime may use.
Successors(n, runtime) == {r \in roads : r.from = n /\ runtime \in r.open}

\* HashCache::put keeps an entry that is already there, and otherwise may evict
\* one other entry - of the same bucket, hence also before the cache is full.
Inserted(map, k, v) ==
    IF map[k] # None
    THEN {map}
    ELSE {next \in {[map EXCEPT ![k] = v]} \cup
                   {[map EXCEPT ![k] = v, ![e] = None] : e \in {e \in Node \ {k} : map[e] # None}} :
             Cardinality({n \in Node : next[n] # None}) <= Capacity}

\* The places of a node in a parent map, at most one, and its parent.
Entries(map, n) == {i \in 1 .. Len(map) : map[i].node = n}

Parent(map, n) == map[CHOOSE i \in Entries(map, n) : TRUE].parent

\* ParentPath::path: from the leaf, every node is preceded by its parent. An empty
\* walk is no route.
Preceded(map, root, walk) ==
    IF walk = <<>> \/ walk[1] = root THEN walk
    ELSE IF Entries(map, walk[1]) = {} THEN <<>>
    ELSE <<Parent(map, walk[1])>> \o walk

\* A walk longer than the map does not end in the code; here it stops short of
\* the root.
Path(map, root, leaf) ==
    LET walk[k \in 0 .. Len(map)] ==
            IF k = 0 THEN <<leaf>> ELSE Preceded(map, root, walk[k - 1])
    IN IF leaf = root THEN <<leaf>>
       ELSE IF Entries(map, leaf) = {} THEN <<>>
       ELSE walk[Len(map)]

-----------------------------------------------------------------------------
Init ==
    /\ \E l \in Workloads : roads = l.roads /\ todo = l.asks
    /\ bound = None
    /\ succ = [n \in Node |-> None] /\ cache = [n \in Node |-> None]
    /\ pc = [w \in Worker |-> "idle"]
    /\ toSee = [w \in Worker |-> {}] /\ seen = [w \in Worker |-> {}]
    /\ parents = [w \in Worker |-> [n \in Node |-> None]]
    /\ out = [w \in Worker |-> <<>>]
    /\ held = [w \in Worker |-> None] /\ answer = [w \in Worker |-> None]

\* The query is answered from a parent map.
Answer(w, map) ==
    LET q == Head(todo[w])
    IN /\ answer' = [answer EXCEPT ![w] = [query |-> q, route |-> Path(map, q.root, q.leaf)]]
       /\ todo' = [todo EXCEPT ![w] = Tail(@)]
       /\ pc' = [pc EXCEPT ![w] = "idle"]

\* query: the entry is there.
Hit(w) ==
    /\ pc[w] = "idle" /\ todo[w] # <<>>
    /\ cache[Head(todo[w]).root] # None
    /\ Answer(w, cache[Head(todo[w]).root])
    /\ UNCHANGED <<roads, bound, succ, cache, search>>

Miss(w) ==
    /\ pc[w] = "idle" /\ todo[w] # <<>>
    /\ cache[Head(todo[w]).root] = None
    /\ pc' = [pc EXCEPT ![w] = "bind"]
    /\ UNCHANGED <<roads, todo, bound, succ, cache, search, answer>>

\* Dijkstra::reach: the start is the only node found and the only one to see.
Begin(w) ==
    LET root == Head(todo[w]).root
    IN /\ toSee' = [toSee EXCEPT ![w] = {[cost |-> Zero, node |-> root]}]
       /\ seen' = [seen EXCEPT ![w] = {}]
       /\ parents' = [parents EXCEPT ![w] =
              [n \in Node |-> IF n = root THEN [from |-> None, cost |-> Zero] ELSE None]]
       /\ out' = [out EXCEPT ![w] = <<>>]

\* Mutant: the cache is not bound to the runtime of its first search.
BindAny(w) ==
    /\ pc[w] = "bind"
    /\ bound' = IF bound = None THEN Head(todo[w]).runtime ELSE bound
    /\ pc' = [pc EXCEPT ![w] = "search"] /\ Begin(w)
    /\ UNCHANGED <<roads, todo, succ, cache, held, answer>>

\* calculate: the first search binds the cache to its runtime; a search for
\* another runtime panics.
Bind(w) ==
    /\ pc[w] = "bind"
    /\ bound' = IF bound = None THEN Head(todo[w]).runtime ELSE bound
    /\ \/ /\ bound' = Head(todo[w]).runtime
          /\ pc' = [pc EXCEPT ![w] = "search"] /\ Begin(w)
       \/ /\ bound' # Head(todo[w]).runtime
          /\ pc' = [pc EXCEPT ![w] = "panicked"] /\ UNCHANGED <<toSee, seen, parents, out>>
    /\ UNCHANGED <<roads, todo, succ, cache, held, answer>>

\* Mutant: a node is settled again for every entry it has on the heap.
AnyEntry(w, e) == TRUE

\* Whether the entry's node has not been settled before.
Fresh(w, e) == e.node \notin seen[w]

\* The heap's top: any entry of the least representation.
Least(heap) == {e \in heap : \A f \in heap : Repr(e.cost) <= Repr(f.cost)}

\* Mutant: an entry already found is never improved.
FirstOnly(found, e, r) == found[r.to] = None

\* Whether the road r from entry e improves what is known of its end.
Improves(found, e, r) ==
    found[r.to] = None \/ Repr(found[r.to].cost) > Repr(Add(e.cost, CostOf(r)))

\* Mutant: a node at the reach is still taken.
UpTo(cost) == cost.distance <= Limit

\* take_while: the search ends at the first node that is not within reach.
Within(cost) == cost.distance < Limit

\* next, for an entry not settled before: yield the node with the parent it has
\* now, then relax its successors.
Settle(w, e, next) ==
    LET found == parents[w]
        better == {r \in next : Improves(found, e, r)}
        Ends == {r.to : r \in better}
        Via(n) == CHOOSE r \in better : r.to = n
        New(n) == Add(e.cost, CostOf(Via(n)))
    IN /\ seen' = [seen EXCEPT ![w] = @ \cup {e.node}]
       /\ parents' = [parents EXCEPT ![w] = [n \in Node |->
              IF n \in Ends THEN [from |-> e.node, cost |-> New(n)] ELSE found[n]]]
       /\ toSee' = [toSee EXCEPT ![w] =
              (@ \ {e}) \cup {[cost |-> New(n), node |-> n] : n \in Ends}]
       /\ IF Within(found[e.node].cost)
          THEN /\ out' = [out EXCEPT ![w] =
                      Append(@, [node |-> e.node, parent |-> found[e.node].from])]
               /\ pc' = [pc EXCEPT ![w] = "search"]
          ELSE /\ pc' = [pc EXCEPT ![w] = "put"] /\ UNCHANGED out

\* next: an entry of a node already settled is dropped.
Skip(w) ==
    /\ pc[w] = "search"
    /\ \E e \in Least(toSee[w]) :
          /\ ~Fresh(w, e)
          /\ toSee' = [toSee EXCEPT ![w] = @ \ {e}]
    /\ UNCHANGED <<roads, todo, bound, succ, cache, pc, seen, parents, out, held, answer>>

\* next: the successors are cached.
Pop(w) ==
    /\ pc[w] = "search"
    /\ \E e \in Least(toSee[w]) :
          /\ Fresh(w, e) /\ succ[e.node] # None
          /\ Settle(w, e, succ[e.node])
    /\ UNCHANGED <<roads, todo, bound, succ, cache, held, answer>>

\* next: the successors have to be computed first.
PopMiss(w) ==
    /\ pc[w] = "search"
    /\ \E e \in Least(toSee[w]) :
          /\ Fresh(w, e) /\ succ[e.node] = None
          /\ held' = [held EXCEPT ![w] = e]
    /\ pc' = [pc EXCEPT ![w] = "keep"]
    /\ UNCHANGED <<roads, todo, bound, succ, cache, toSee, seen, parents, out, answer>>

\* The computed successors are put into their cache and used.
Keep(w) ==
    LET next == Successors(held[w].node, Head(todo[w]).runtime)
    IN /\ pc[w] = "keep"
       /\ succ' \in Inserted(succ, held[w].node, next)
       /\ Settle(w, held[w], next)
       /\ held' = [held EXCEPT ![w] = None]
       /\ UNCHANGED <<roads, todo, bound, cache, answer>>

\* Nothing is left to see.
Exhausted(w) ==
    /\ pc[w] = "search" /\ toSee[w] = {}
    /\ pc' = [pc EXCEPT ![w] = "put"]
    /\ UNCHANGED <<roads, todo, bound, succ, cache, search, answer>>

\* The map is put into the cache; the query is answered from the thread's own.
\* The search ends and its state is dropped.
Put(w) ==
    /\ pc[w] = "put"
    /\ cache' \in Inserted(cache, Head(todo[w]).root, out[w])
    /\ Answer(w, out[w])
    /\ toSee' = [toSee EXCEPT ![w] = {}] /\ seen' = [seen EXCEPT ![w] = {}]
    /\ parents' = [parents EXCEPT ![w] = [n \in Node |-> None]]
    /\ out' = [out EXCEPT ![w] = <<>>]
    /\ UNCHANGED <<roads, bound, succ, held>>

Next ==
    \E w \in Worker :
        Hit(w) \/ Miss(w) \/ Bind(w) \/ Skip(w) \/ Pop(w) \/ PopMiss(w) \/ Keep(w)
        \/ Exhausted(w) \/ Put(w)

Spec == Init /\ [][Next]_vars

-----------------------------------------------------------------------------
(* Properties.                                                             *)

ParentMap == Seq([node : Node, parent : Node \cup {None}])

\* Types; a node is settled once, and yielded only when it is settled.
TypeOK ==
    /\ roads \subseteq Road
    /\ todo \in [Worker -> Seq(Query)] /\ bound \in Runtime \cup {None}
    /\ succ \in [Node -> (SUBSET roads) \cup {None}]
    /\ cache \in [Node -> ParentMap \cup {None}]
    /\ pc \in [Worker -> {"idle", "bind", "search", "keep", "put", "panicked"}]
    /\ toSee \in [Worker -> SUBSET Entry] /\ seen \in [Worker -> SUBSET Node]
    /\ parents \in [Worker -> [Node -> Label \cup {None}]]
    /\ out \in [Worker -> ParentMap] /\ held \in [Worker -> Entry \cup {None}]
    /\ \A w \in Worker :
          /\ \A i \in 1 .. Len(out[w]) : out[w][i].node \in seen[w]
          /\ \A i, j \in 1 .. Len(out[w]) : out[w][i].node = out[w][j].node => i = j

\* The road from m to n, if the runtime may use it.
Link(m, n, runtime) == {r \in Successors(m, runtime) : r.to = n}

\* A parent map is a tree of open roads: it starts at its root, and every other
\* node follows its parent. Walking it back therefore ends at the root.
Grounded(map, root) ==
    /\ map # <<>> => map[1].node = root
    /\ \A i \in 2 .. Len(map) :
          /\ \E j \in 1 .. i - 1 : map[j].node = map[i].parent
          /\ Link(map[i].parent, map[i].node, bound) # {}

\* Whatever threads race, panic and evict, everything in the shared caches was
\* computed for the runtime the cache is bound to, and every parent map in it
\* leads back to its root - although costs fall along a path, so that a node
\* may find a better parent after it was yielded.
CacheIsSound ==
    /\ \A n \in Node : succ[n] # None => succ[n] = Successors(n, bound)
    /\ \A n \in Node : cache[n] # None => Grounded(cache[n], n)

\* The length of the road from m to n.
Span(m, n) == (CHOOSE r \in Link(m, n, bound) : TRUE).length

\* The length of a route over open roads.
RouteLength(p) ==
    LET total[k \in 1 .. Len(p)] == IF k = 1 THEN 0 ELSE total[k - 1] + Span(p[k - 1], p[k])
    IN total[Len(p)]

\* p runs from the root to the leaf over roads open to the bound runtime and is
\* shorter than the reach (a root that is the leaf is not asked for its length).
IsRoute(p, q) ==
    /\ p[1] = q.root /\ p[Len(p)] = q.leaf
    /\ \A k \in 2 .. Len(p) : Link(p[k - 1], p[k], bound) # {}
    /\ Len(p) > 1 => RouteLength(p) < Limit

\* A route that is answered, from a shared map or from the thread's own, runs from
\* the root to the leaf over open roads and is shorter than the reach.
RouteIsReal ==
    \A w \in Worker : (answer[w] # None /\ answer[w].route # <<>>) =>
        IsRoute(answer[w].route, answer[w].query)

\* The ways of k nodes from one node to another over open roads, and all their lengths.
Ways(from, to, k) ==
    {p \in [1 .. k -> Node] : /\ p[1] = from /\ p[k] = to
                              /\ \A i \in 2 .. k : Link(p[i - 1], p[i], bound) # {}}

Lengths(from, to) ==
    UNION {{RouteLength(p) : p \in Ways(from, to, k)} : k \in 1 .. Cardinality(Node)}

\* All roads have one class (a class weighs at least one), and no node within reach
\* is so far that its cost saturates.
OneClass ==
    \A r, s \in roads : /\ r.weight = s.weight /\ r.weight > 0
                        /\ r.weight * r.weight * Limit <= MaxRepr

\* p is as short as any way from the root to the leaf, and there is no p only if
\* none of them is within reach.
Shortest(p, q) ==
    \A d \in Lengths(q.root, q.leaf) : IF p = <<>> THEN d >= Limit ELSE RouteLength(p) <= d

\* Where all roads have one class the search is exact: there is a route if and
\* only if some way is shorter than the reach, and it is a shortest one.
UniformIsExact ==
    OneClass => \A w \in Worker : answer[w] # None => Shortest(answer[w].route, answer[w].query)
=============================================================================
