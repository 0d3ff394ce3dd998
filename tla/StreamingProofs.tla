-------------------------- MODULE StreamingProofs --------------------------
(***************************************************************************)
(* Theorems about Streaming, for every map of places and shards, every     *)
(* window, history and threshold, and any number of failures.              *)
(***************************************************************************)
EXTENDS Streaming, SetLemmas

Observation == [place : Places, timestamp : Int]
Revisions == 1 .. live
Stages == {"idle", "process", "publish", "commit", "archive", "push"}

\* The entries of s go up by one, or repeat.
Stairs(s) == \A i \in 1 .. Len(s) - 1 : s[i + 1] = s[i] \/ s[i + 1] = s[i] + 1

EndsWith(s, o) == s # <<>> /\ s[Len(s)] = o

StreamTypes ==
    /\ events \in Seq(Observation) /\ pc \in Stages /\ warmed \in BOOLEAN
    /\ lane \in Seq(Revisions) /\ tail \in Seq(Revisions) /\ trip \in Seq(Revisions)
    /\ live = 0 => pc = "idle"
    /\ pc \notin {"idle", "process"} => warmed

\* Every observation is later than the ones before it.
LaterIsLater == \A o, p \in Revisions : o < p => Time(o) < Time(p)

\* The record misses at most the live observation, and not that one between
\* two events.
TailReaches ==
    /\ Stairs(tail)
    /\ live > 0 => \/ EndsWith(tail, live)
                   \/ pc \notin {"idle", "push"} /\ (EndsWith(tail, live - 1) \/ (live = 1 /\ tail = <<>>))

\* A lane that is not empty does too, and is not ahead of the record.
LaneReaches ==
    /\ Stairs(lane)
    /\ ~ warmed => lane = <<>>
    /\ lane # <<>> => EndsWith(lane, live) \/ EndsWith(lane, live - 1)
    /\ EndsWith(lane, live) => EndsWith(tail, live)

\* Outside the steps that record it, the lane has the live observation when
\* the record has it: the gate will see it.
GateSees ==
    (warmed /\ pc \notin {"archive", "push"} /\ live > 0 /\ EndsWith(tail, live)) => EndsWith(lane, live)

\* The cached trip is in the order of time, and has the live observation only
\* when it is about to be recorded or is.
TripOrdered ==
    /\ Ascending(trip)
    /\ live \in ToSet(trip) => pc \in {"archive", "push"} \/ EndsWith(tail, live)

ReplyOrdered ==
    pc \in {"publish", "commit"} => reply.trip \in Seq(Revisions) /\ Ascending(reply.trip)

StreamInv ==
    /\ StreamTypes /\ LaterIsLater /\ TailReaches /\ LaneReaches /\ GateSees
    /\ TripOrdered /\ ReplyOrdered
    /\ ContextUnbroken /\ SolvesTheWindow /\ RestartIsNeeded

-----------------------------------------------------------------------------
(* Ascending sequences.                                                    *)

\* The place of an element is the number of those up to it.
LEMMA RankFacts ==
    ASSUME NEW s \in Seq(Int), Ascending(s), NEW i \in DOMAIN s
    PROVE  Cardinality({y \in ToSet(s) : y <= s[i]}) = i
<1> DEFINE below == {y \in ToSet(s) : y <= s[i]}
           f == [k \in 1 .. i |-> s[k]]
<1>1. i \in Nat /\ i \in 1 .. Len(s) /\ Len(s) \in Nat /\ DOMAIN s = 1 .. Len(s)
      /\ \A k \in DOMAIN s : s[k] \in Int
  OBVIOUS
<1>2. \A k \in 1 .. i : k \in DOMAIN s /\ s[k] \in below
  <2>1. \A k \in 1 .. i : k \in DOMAIN s /\ (k < i \/ k = i)
    BY <1>1
  <2>2. \A k \in 1 .. i : s[k] <= s[i]
    BY <1>1, <2>1 DEF Ascending
  <2> QED
    BY <2>1, <2>2 DEF ToSet
<1>3. \A y \in below : \E k \in 1 .. i : s[k] = y
  <2> SUFFICES ASSUME NEW y \in below PROVE \E k \in 1 .. i : s[k] = y
    OBVIOUS
  <2>1. PICK k \in DOMAIN s : s[k] = y
    BY DEF ToSet
  <2>2. ~ (i < k)
    BY <1>1, <2>1 DEF Ascending
  <2> QED
    BY <1>1, <2>1, <2>2
<1>4. \A j, k \in 1 .. i : s[j] = s[k] => j = k
  <2> SUFFICES ASSUME NEW j \in 1 .. i, NEW k \in 1 .. i, s[j] = s[k], j # k PROVE FALSE
    OBVIOUS
  <2>1. j < k \/ k < j
    BY <1>1
  <2> QED
    BY <1>1, <1>2, <2>1 DEF Ascending
<1> HIDE DEF below
<1>5. f \in Bijection(1 .. i, below)
  BY <1>2, <1>3, <1>4 DEF Bijection, Injection, IsInjective, Surjection
<1>6. IsFiniteSet(1 .. i) /\ Cardinality(1 .. i) = i
  BY <1>1, FS_Interval
<1>7. Cardinality(below) = i
  <2>1. ExistsBijection(1 .. i, below)
    BY <1>5 DEF ExistsBijection
  <2> QED
    BY <1>6, <2>1, FS_Bijection
<1> QED
  BY <1>7 DEF below

\* There is one ascending sequence of the elements of a set.
LEMMA AscendingUnique ==
    ASSUME NEW s \in Seq(Int), NEW t \in Seq(Int), Ascending(s), Ascending(t), ToSet(s) = ToSet(t)
    PROVE  s = t
<1>1. ASSUME NEW u \in Seq(Int), NEW w \in Seq(Int), Ascending(u), Ascending(w), ToSet(u) = ToSet(w),
             NEW i \in DOMAIN u
      PROVE  i \in DOMAIN w /\ w[i] = u[i]
  <2>1. PICK j \in DOMAIN w : w[j] = u[i]
    BY <1>1 DEF ToSet
  <2>2. i = j
    BY <1>1, <2>1, RankFacts
  <2> QED
    BY <2>1, <2>2
<1>2. \A i \in DOMAIN s : i \in DOMAIN t /\ t[i] = s[i]
  BY <1>1
<1>3. \A i \in DOMAIN t : i \in DOMAIN s
  BY <1>1
<1>4. Len(s) = Len(t)
  <2>1. Len(s) \in Nat /\ Len(t) \in Nat /\ DOMAIN s = 1 .. Len(s) /\ DOMAIN t = 1 .. Len(t)
    OBVIOUS
  <2>2. Len(s) <= Len(t)
    <3>1. CASE Len(s) = 0
      BY <2>1, <3>1
    <3>2. CASE Len(s) # 0
      <4>1. Len(s) \in DOMAIN s
        BY <2>1, <3>2
      <4>2. Len(s) \in 1 .. Len(t)
        BY <1>2, <2>1, <4>1
      <4> QED
        BY <2>1, <4>2
    <3> QED
      BY <3>1, <3>2
  <2>3. Len(t) <= Len(s)
    <3>1. CASE Len(t) = 0
      BY <2>1, <3>1
    <3>2. CASE Len(t) # 0
      <4>1. Len(t) \in DOMAIN t
        BY <2>1, <3>2
      <4>2. Len(t) \in 1 .. Len(s)
        BY <1>3, <2>1, <4>1
      <4> QED
        BY <2>1, <4>2
    <3> QED
      BY <3>1, <3>2
  <2>4. \A a, b \in Nat : a <= b /\ b <= a => a = b
    OBVIOUS
  <2>5. Len(s) \in Nat /\ Len(t) \in Nat
    BY <2>1
  <2> QED
    BY <2>2, <2>3, <2>4, <2>5, Zenon
<1>5. s = [i \in 1 .. Len(s) |-> s[i]] /\ t = [i \in 1 .. Len(t) |-> t[i]] /\ DOMAIN s = 1 .. Len(s)
  OBVIOUS
<1> QED
  BY <1>2, <1>4, <1>5

\* Sorted gives it.
LEMMA SortedFacts ==
    ASSUME NEW S, S \subseteq Int, IsFiniteSet(S)
    PROVE  /\ Sorted(S) \in Seq(S) /\ Sorted(S) \in Seq(Int) /\ Ascending(Sorted(S))
           /\ ToSet(Sorted(S)) = S
<1> DEFINE n == Cardinality(S)
           Upto(x) == {y \in S : y <= x}
           rank == [x \in S |-> Cardinality(Upto(x))]
           f == [i \in 1 .. n |-> CHOOSE x \in S : rank[x] = i]
<1>1. n \in Nat
  BY FS_CardinalityType
<1>2. ASSUME NEW x \in S
      PROVE  IsFiniteSet(Upto(x)) /\ Cardinality(Upto(x)) \in 1 .. n
  <2>1. Upto(x) \in SUBSET S /\ x \in Upto(x)
    <3>1. x <= x
      OBVIOUS
    <3> QED
      BY <3>1
  <2> HIDE DEF Upto
  <2>2. IsFiniteSet(Upto(x)) /\ Cardinality(Upto(x)) <= n
    BY <2>1, FS_Subset
  <2>3. Cardinality(Upto(x)) \in Nat /\ Cardinality(Upto(x)) # 0
    BY <2>1, <2>2, FS_CardinalityType, FS_EmptySet
  <2> QED
    BY <1>1, <2>2, <2>3
<1>3. ASSUME NEW x \in S, NEW y \in S, x < y
      PROVE  Cardinality(Upto(x)) < Cardinality(Upto(y))
  <2>1. Upto(x) \in SUBSET Upto(y) /\ y \in Upto(y) /\ y \notin Upto(x)
    <3>1. y <= y /\ ~ (y <= x) /\ \A z \in S : z <= x => z <= y
      BY <1>3
    <3> QED
      BY <3>1
  <2>2. IsFiniteSet(Upto(x)) /\ IsFiniteSet(Upto(y)) /\ Cardinality(Upto(x)) \in 1 .. n /\ Cardinality(Upto(y)) \in 1 .. n
    BY <1>2
  <2> HIDE DEF Upto
  <2>3. Cardinality(Upto(x)) <= Cardinality(Upto(y)) /\ Cardinality(Upto(x)) # Cardinality(Upto(y))
    BY <2>1, <2>2, FS_Subset
  <2> QED
    BY <2>2, <2>3
<1> HIDE DEF Upto
<1>4. rank \in [S -> 1 .. n] /\ \A x, y \in S : x < y => rank[x] < rank[y]
  BY <1>2, <1>3
<1> HIDE DEF rank
<1>5. rank \in Injection(S, 1 .. n)
  <2>1. \A x, y \in S : rank[x] = rank[y] => x = y
    BY <1>1, <1>4
  <2> QED
    BY <1>4, <2>1 DEF Injection, IsInjective
<1>6. IsFiniteSet(1 .. n) /\ Cardinality(1 .. n) = n
  BY <1>1, FS_Interval
<1>7. rank \in Surjection(S, 1 .. n)
  BY <1>5, <1>6, FS_Injection
<1>8. f \in [1 .. n -> S] /\ \A i \in 1 .. n : rank[f[i]] = i
  BY <1>7 DEF Surjection
<1> HIDE DEF f
<1>9. Ascending(f)
  <2> SUFFICES ASSUME NEW i \in 1 .. n, NEW j \in 1 .. n, i < j, ~ (f[i] < f[j]) PROVE FALSE
    BY <1>8 DEF Ascending
  <2>1. f[i] \in S /\ f[j] \in S /\ rank[f[i]] = i /\ rank[f[j]] = j
    BY <1>8
  <2>2. f[i] \in Int /\ f[j] \in Int /\ i \in Int /\ j \in Int
    <3>1. \A x \in S : x \in Int
      OBVIOUS
    <3>2. f[i] \in Int /\ f[j] \in Int
      BY <2>1, <3>1, Zenon
    <3> HIDE DEF n
    <3>3. i \in Int /\ j \in Int
      BY <1>1
    <3> QED
      BY <3>2, <3>3
  <2>3. f[j] < f[i] \/ f[j] = f[i]
    BY <2>2
  <2>4. f[j] < f[i] => j < i
    BY <1>4, <2>1
  <2>5. f[j] = f[i] => j = i
    BY <2>1
  <2> QED
    BY <2>2, <2>3, <2>4, <2>5
<1> DEFINE g == Sorted(S)
<1>10. g \in [1 .. n -> S] /\ Ascending(g)
  BY <1>8, <1>9 DEF Sorted
<1> HIDE DEF g
<1>11. g \in Injection(1 .. n, S)
  <2>1. \A i, j \in 1 .. n : g[i] = g[j] => i = j
    <3> SUFFICES ASSUME NEW i \in 1 .. n, NEW j \in 1 .. n, g[i] = g[j], i # j PROVE FALSE
      OBVIOUS
    <3>1. i < j \/ j < i
      BY <1>1
    <3>2. g[i] \in Int /\ g[j] \in Int
      BY <1>10
    <3> QED
      BY <1>10, <3>1, <3>2 DEF Ascending
  <2> QED
    BY <1>10, <2>1 DEF Injection, IsInjective
<1>12. g \in Surjection(1 .. n, S)
  BY <1>6, <1>11, FS_Injection
<1>13. ToSet(g) = S
  BY <1>10, <1>12 DEF ToSet, Surjection
<1>14. g \in Seq(S) /\ g \in Seq(Int)
  <2>1. g \in [1 .. n -> S] /\ g \in [1 .. n -> Int]
    BY <1>10
  <2> HIDE DEF n
  <2> QED
    BY <1>1, <2>1
<1> QED
  BY <1>10, <1>13, <1>14 DEF g

\* Of an ascending sequence, Among keeps the elements asked for, in order.
LEMMA AmongFacts ==
    ASSUME NEW s \in Seq(Int), Ascending(s), NEW S
    PROVE  /\ Among(s, S) \in Seq(Int) /\ Ascending(Among(s, S))
           /\ ToSet(Among(s, S)) = {o \in ToSet(s) : o \in S}
<1> DEFINE I == {i \in DOMAIN s : s[i] \in S}
           at == Sorted(I)
           a == [k \in DOMAIN at |-> s[at[k]]]
<1>1. Len(s) \in Nat /\ DOMAIN s = 1 .. Len(s) /\ \A i \in DOMAIN s : s[i] \in Int /\ i \in Int
  OBVIOUS
<1>2. IsFiniteSet(DOMAIN s)
  BY <1>1, FS_Interval
<1>3. I \in SUBSET (DOMAIN s) /\ I \subseteq Int /\ \A i \in I : s[i] \in S
  BY <1>1
<1>4. \A i \in DOMAIN s : s[i] \in S => i \in I
  OBVIOUS
<1> HIDE DEF I
<1>5. IsFiniteSet(I)
  BY <1>2, <1>3, FS_Subset
<1>6. at \in Seq(I) /\ Ascending(at) /\ ToSet(at) = I
  BY <1>3, <1>5, SortedFacts
<1> HIDE DEF at
<1>7. Len(at) \in Nat /\ DOMAIN at = 1 .. Len(at) /\ \A k \in DOMAIN at : at[k] \in I /\ at[k] \in DOMAIN s
  BY <1>3, <1>6
<1>8. DOMAIN a = DOMAIN at /\ \A k \in DOMAIN at : a[k] = s[at[k]] /\ a[k] \in Int
  BY <1>1, <1>7
<1>9. a \in Seq(Int)
  <2>1. a \in [1 .. Len(at) -> Int]
    BY <1>1, <1>7
  <2> HIDE DEF a
  <2> QED
    BY <1>7, <2>1
<1> HIDE DEF a
<1>10. Ascending(a)
  <2> SUFFICES ASSUME NEW j \in DOMAIN at, NEW k \in DOMAIN at, j < k PROVE a[j] < a[k]
    BY <1>8 DEF Ascending
  <2>1. at[j] < at[k]
    BY <1>6 DEF Ascending
  <2>2. s[at[j]] < s[at[k]]
    BY <1>7, <2>1 DEF Ascending
  <2> QED
    BY <1>8, <2>2
<1>11. ToSet(a) = {o \in ToSet(s) : o \in S}
  <2>1. \A k \in DOMAIN a : a[k] \in ToSet(s) /\ a[k] \in S
    BY <1>3, <1>7, <1>8 DEF ToSet
  <2>2. \A i \in DOMAIN s : s[i] \in S => \E k \in DOMAIN a : a[k] = s[i]
    <3> SUFFICES ASSUME NEW i \in DOMAIN s, s[i] \in S PROVE \E k \in DOMAIN a : a[k] = s[i]
      OBVIOUS
    <3>1. i \in ToSet(at)
      BY <1>4, <1>6
    <3> QED
      BY <1>8, <3>1 DEF ToSet
  <2> QED
    BY <2>1, <2>2 DEF ToSet
<1> QED
  BY <1>9, <1>10, <1>11 DEF Among, a, at, I

-----------------------------------------------------------------------------
(* Suffixes and stairs.                                                    *)

\* u is what is left of s without its first d elements.
Without(u, s, d) ==
    /\ d \in 0 .. Len(s) /\ Len(u) = Len(s) - d
    /\ \A i \in 1 .. Len(s) - d : u[i] = s[d + i]

\* LastN leaves out the oldest entries and nothing else.
LEMMA LastNFacts ==
    ASSUME NEW S, NEW s \in Seq(S), NEW n \in Nat
    PROVE  /\ LastN(s, n) \in Seq(S)
           /\ Without(LastN(s, n), s, IF Len(s) <= n THEN 0 ELSE Len(s) - n)
<1>1. Len(s) \in Nat
  OBVIOUS
<1>2. CASE Len(s) <= n
  <2>1. LastN(s, n) = s
    BY <1>2 DEF LastN
  <2> QED
    BY <1>1, <1>2, <2>1 DEF Without
<1>3. CASE ~ (Len(s) <= n)
  <2> DEFINE k == Len(s) - n + 1
             u == SubSeq(s, k, Len(s))
  <2>1. LastN(s, n) = u
    BY <1>3 DEF LastN
  <2>2. k \in 2 .. Len(s) + 1 /\ Len(s) - k + 1 = n
    BY <1>1, <1>3
  <2>3. u \in Seq(S) /\ Len(u) = n /\ \A i \in 1 .. n : u[i] = s[k + i - 1]
    BY <1>1, <2>2
  <2>4. Len(s) - (Len(s) - n) = n /\ Len(s) - n \in 0 .. Len(s) /\ \A i \in 1 .. n : (Len(s) - n) + i = k + i - 1
    BY <1>1, <1>3
  <2> HIDE DEF u
  <2> QED
    BY <1>3, <2>1, <2>3, <2>4 DEF Without
<1> QED
  BY <1>2, <1>3

\* What a suffix keeps.
LEMMA SuffixFacts ==
    ASSUME NEW u \in Seq(Int), NEW s \in Seq(Int), NEW d \in Nat, Without(u, s, d)
    PROVE  /\ Stairs(s) => Stairs(u)
           /\ Ascending(s) => Ascending(u)
           /\ ToSet(u) \subseteq ToSet(s)
           /\ d < Len(s) => (s # <<>> /\ EndsWith(u, s[Len(s)]))
           /\ u # <<>> => d < Len(s)
<1>1. /\ Len(s) \in Nat /\ Len(u) = Len(s) - d /\ Len(u) \in Nat
      /\ DOMAIN u = 1 .. Len(s) - d /\ DOMAIN s = 1 .. Len(s) /\ d <= Len(s)
      /\ \A i \in 1 .. Len(s) - d : u[i] = s[d + i]
  BY DEF Without
<1>2. \A i \in 1 .. Len(s) - d : d + i \in DOMAIN s
  BY SMTT(20), <1>1
<1>3. Stairs(s) => Stairs(u)
  <2> SUFFICES ASSUME Stairs(s), NEW i \in 1 .. Len(u) - 1 PROVE u[i + 1] = u[i] \/ u[i + 1] = u[i] + 1
    BY DEF Stairs
  <2>1. i \in 1 .. Len(s) - d /\ i + 1 \in 1 .. Len(s) - d /\ d + i \in 1 .. Len(s) - 1 /\ d + (i + 1) = (d + i) + 1
    BY <1>1
  <2>2. u[i] = s[d + i] /\ u[i + 1] = s[d + (i + 1)]
    BY <1>1, <2>1, Zenon
  <2>3. s[(d + i) + 1] = s[d + i] \/ s[(d + i) + 1] = s[d + i] + 1
    BY <2>1, Zenon DEF Stairs
  <2> QED
    BY <2>1, <2>2, <2>3, Zenon
<1>4. Ascending(s) => Ascending(u)
  <2> SUFFICES ASSUME Ascending(s), NEW i \in DOMAIN u, NEW j \in DOMAIN u, i < j PROVE u[i] < u[j]
    BY DEF Ascending
  <2>1. i \in 1 .. Len(s) - d /\ j \in 1 .. Len(s) - d
    BY <1>1, Zenon
  <2>2. d + i < d + j
    BY <1>1, <2>1
  <2>3. d + i \in DOMAIN s /\ d + j \in DOMAIN s /\ u[i] = s[d + i] /\ u[j] = s[d + j]
    BY <1>1, <1>2, <2>1, Zenon
  <2>4. s[d + i] < s[d + j]
    BY <2>2, <2>3, Zenon DEF Ascending
  <2> QED
    BY <2>3, <2>4, Zenon
<1>5. ToSet(u) \subseteq ToSet(s)
  BY <1>1, <1>2 DEF ToSet
<1>6. ASSUME d < Len(s) PROVE s # <<>> /\ EndsWith(u, s[Len(s)])
  <2>1. Len(u) \in 1 .. Len(s) - d /\ d + Len(u) = Len(s) /\ s # <<>> /\ u # <<>>
    BY <1>1, <1>6
  <2> QED
    BY <1>1, <2>1 DEF EndsWith
<1>7. u # <<>> => d < Len(s)
  BY <1>1
<1> QED
  BY <1>3, <1>4, <1>5, <1>6, <1>7

\* The stairs reach every step between their ends and no other.
LEMMA StairsFacts ==
    ASSUME NEW c \in Seq(Int), Stairs(c), c # <<>>
    PROVE  /\ \A i \in DOMAIN c : c[1] <= c[i] /\ c[i] <= c[Len(c)]
           /\ \A v \in c[1] .. c[Len(c)] - 1 : \E i \in 1 .. Len(c) - 1 : c[i] = v /\ c[i + 1] = v + 1
<1>1. /\ Len(c) \in Nat /\ Len(c) >= 1 /\ DOMAIN c = 1 .. Len(c)
      /\ \A i \in DOMAIN c : c[i] \in Int
  OBVIOUS
<1>2. \A i \in 1 .. Len(c) - 1 : i \in DOMAIN c /\ i + 1 \in DOMAIN c /\ (c[i + 1] = c[i] \/ c[i + 1] = c[i] + 1)
  BY <1>1 DEF Stairs
<1>3. \A i \in DOMAIN c : c[1] <= c[i]
  <2> DEFINE T == {i \in DOMAIN c : c[i] < c[1]}
  <2> SUFFICES ASSUME T # {} PROVE FALSE
    BY <1>1
  <2>1. T \subseteq Nat
    BY <1>1
  <2>2. PICK i \in T : \A j \in T : i <= j
    <3> HIDE DEF T
    <3> QED
      BY <2>1, NatMin
  <2>3. i \in DOMAIN c /\ c[i] < c[1] /\ i # 1
    BY <1>1
  <2>4. i - 1 \in 1 .. Len(c) - 1 /\ (i - 1) + 1 = i /\ i - 1 \notin T
    BY <1>1, <2>2, <2>3
  <2>5. i - 1 \in DOMAIN c /\ (c[i] = c[i - 1] \/ c[i] = c[i - 1] + 1)
    <3>1. i - 1 \in DOMAIN c /\ (c[(i - 1) + 1] = c[i - 1] \/ c[(i - 1) + 1] = c[i - 1] + 1)
      BY <1>2, <2>4, Zenon
    <3> QED
      BY <2>4, <3>1, Zenon
  <2>6. c[i - 1] \in Int /\ c[1] \in Int /\ ~ (c[i - 1] < c[1])
    <3>1. 1 \in DOMAIN c
      BY <1>1
    <3> QED
      BY <1>1, <2>4, <2>5, <3>1, Zenon
  <2> HIDE DEF T
  <2> QED
    BY <1>1, <2>3, <2>5, <2>6
<1>4. \A i \in DOMAIN c : c[i] <= c[Len(c)]
  <2> DEFINE T == {i \in DOMAIN c : c[i] > c[Len(c)]}
  <2> SUFFICES ASSUME T # {} PROVE FALSE
    BY <1>1
  <2>1. T \subseteq 0 .. Len(c)
    BY <1>1
  <2>2. PICK i \in T : \A j \in T : j <= i
    <3> HIDE DEF T
    <3> QED
      BY <1>1, <2>1, MaxFacts
  <2>3. i \in DOMAIN c /\ c[i] > c[Len(c)] /\ i # Len(c)
    BY <1>1
  <2>4. i \in 1 .. Len(c) - 1 /\ i + 1 \notin T
    BY <1>1, <2>2, <2>3
  <2>5. i + 1 \in DOMAIN c /\ (c[i + 1] = c[i] \/ c[i + 1] = c[i] + 1)
    BY <1>2, <2>4, Zenon
  <2>6. c[i + 1] \in Int /\ c[Len(c)] \in Int /\ ~ (c[i + 1] > c[Len(c)])
    <3>1. Len(c) \in DOMAIN c
      BY <1>1
    <3> QED
      BY <1>1, <2>4, <2>5, <3>1, Zenon
  <2> HIDE DEF T
  <2> QED
    BY <1>1, <2>3, <2>5, <2>6
<1>5. ASSUME NEW v \in c[1] .. c[Len(c)] - 1
      PROVE  \E i \in 1 .. Len(c) - 1 : c[i] = v /\ c[i + 1] = v + 1
  <2> DEFINE T == {i \in DOMAIN c : c[i] > v}
  <2>0. v \in Int /\ c[1] <= v /\ v < c[Len(c)] /\ 1 \in DOMAIN c /\ Len(c) \in DOMAIN c
    BY <1>1
  <2>1. T \subseteq Nat /\ T # {}
    BY <1>1, <2>0
  <2>2. PICK i \in T : \A j \in T : i <= j
    <3> HIDE DEF T
    <3> QED
      BY <2>1, NatMin
  <2>3. i \in DOMAIN c /\ c[i] > v /\ i # 1
    BY <1>1, <2>0
  <2>4. i - 1 \in 1 .. Len(c) - 1 /\ (i - 1) + 1 = i /\ i - 1 \notin T
    BY <1>1, <2>2, <2>3
  <2>5. c[i - 1] <= v /\ (c[i] = c[i - 1] \/ c[i] = c[i - 1] + 1) /\ c[i - 1] \in Int
    BY SMTT(20), <1>1, <1>2, <2>0, <2>4
  <2>6. c[i - 1] = v /\ c[(i - 1) + 1] = v + 1
    BY <1>1, <2>0, <2>3, <2>4, <2>5
  <2> QED
    BY <2>4, <2>6
<1> QED
  BY <1>3, <1>4, <1>5

-----------------------------------------------------------------------------
(* Concatenation.                                                          *)

\* A concatenation ascends when its parts do and the second lies above the
\* first.
LEMMA ConcatFacts ==
    ASSUME NEW p \in Seq(Int), NEW q \in Seq(Int)
    PROVE  /\ p \o q \in Seq(Int) /\ ToSet(p \o q) = ToSet(p) \cup ToSet(q)
           /\ Ascending(p \o q) <=> /\ Ascending(p) /\ Ascending(q)
                                    /\ \A x \in ToSet(p), y \in ToSet(q) : x < y
<1> DEFINE m == Len(p)
           n == Len(q)
           s == p \o q
<1>1. m \in Nat /\ n \in Nat /\ DOMAIN p = 1 .. m /\ DOMAIN q = 1 .. n
  OBVIOUS
<1>2. s \in Seq(Int) /\ Len(s) = m + n /\ DOMAIN s = 1 .. m + n
  OBVIOUS
<1>3. \A i \in 1 .. m : i \in DOMAIN s /\ s[i] = p[i]
  OBVIOUS
<1>4. \A i \in 1 .. n : m + i \in DOMAIN s /\ s[m + i] = q[i]
  OBVIOUS
<1>5. \A i \in DOMAIN s : i \in DOMAIN p \/ \E k \in DOMAIN q : i = m + k
  <2> SUFFICES ASSUME NEW i \in DOMAIN s, i \notin DOMAIN p PROVE \E k \in DOMAIN q : i = m + k
    OBVIOUS
  <2>1. i - m \in 1 .. n /\ i = m + (i - m)
    BY <1>1, <1>2
  <2> QED
    BY <1>1, <2>1
<1> HIDE DEF s, m, n
<1>6. ToSet(s) = ToSet(p) \cup ToSet(q)
  <2>1. ToSet(s) \subseteq ToSet(p) \cup ToSet(q)
    <3> SUFFICES ASSUME NEW i \in DOMAIN s PROVE s[i] \in ToSet(p) \cup ToSet(q)
      BY DEF ToSet
    <3>1. CASE i \in DOMAIN p
      BY <1>1, <1>3, <3>1 DEF ToSet
    <3>2. CASE \E k \in DOMAIN q : i = m + k
      BY <1>1, <1>4, <3>2 DEF ToSet
    <3> QED
      BY <1>5, <3>1, <3>2
  <2>2. ToSet(p) \cup ToSet(q) \subseteq ToSet(s)
    BY <1>1, <1>3, <1>4 DEF ToSet
  <2> QED
    BY <2>1, <2>2
<1>7. ASSUME Ascending(s)
      PROVE  Ascending(p) /\ Ascending(q) /\ \A x \in ToSet(p), y \in ToSet(q) : x < y
  <2>1. Ascending(p)
    BY <1>1, <1>3, <1>7 DEF Ascending
  <2>2. Ascending(q)
    <3> SUFFICES ASSUME NEW i \in DOMAIN q, NEW j \in DOMAIN q, i < j PROVE q[i] < q[j]
      BY DEF Ascending
    <3>1. m + i < m + j
      BY <1>1
    <3>2. m + i \in DOMAIN s /\ m + j \in DOMAIN s /\ s[m + i] = q[i] /\ s[m + j] = q[j]
      BY <1>1, <1>4, Zenon
    <3>3. s[m + i] < s[m + j]
      BY <1>7, <3>1, <3>2, Zenon DEF Ascending
    <3> QED
      BY <3>2, <3>3, Zenon
  <2>3. ASSUME NEW i \in DOMAIN p, NEW j \in DOMAIN q PROVE p[i] < q[j]
    <3>1. i < m + j
      BY <1>1
    <3>2. i \in DOMAIN s /\ m + j \in DOMAIN s /\ s[i] = p[i] /\ s[m + j] = q[j]
      BY <1>1, <1>3, <1>4, Zenon
    <3>3. s[i] < s[m + j]
      BY <1>7, <3>1, <3>2, Zenon DEF Ascending
    <3> QED
      BY <3>2, <3>3, Zenon
  <2> QED
    BY <2>1, <2>2, <2>3 DEF ToSet
<1>8. ASSUME Ascending(p), Ascending(q), \A x \in ToSet(p), y \in ToSet(q) : x < y
      PROVE  Ascending(s)
  <2> SUFFICES ASSUME NEW i \in DOMAIN s, NEW j \in DOMAIN s, i < j PROVE s[i] < s[j]
    BY DEF Ascending
  <2>1. CASE j \in DOMAIN p
    <3>1. i \in DOMAIN p
      BY <1>1, <1>2, <2>1
    <3> QED
      BY <1>1, <1>3, <1>8, <2>1, <3>1 DEF Ascending
  <2>2. CASE i \in DOMAIN p /\ \E l \in DOMAIN q : j = m + l
    <3>1. PICK l \in DOMAIN q : j = m + l
      BY <2>2
    <3>2. p[i] \in ToSet(p) /\ q[l] \in ToSet(q)
      BY <2>2 DEF ToSet
    <3>3. p[i] < q[l]
      BY <1>8, <3>2, Zenon
    <3> QED
      BY <1>1, <1>3, <1>4, <2>2, <3>1, <3>3, Zenon
  <2>3. CASE (\E k \in DOMAIN q : i = m + k) /\ (\E l \in DOMAIN q : j = m + l)
    <3>1. PICK k \in DOMAIN q, l \in DOMAIN q : i = m + k /\ j = m + l
      BY <2>3, Zenon
    <3>2. k < l
      BY <1>1, <3>1
    <3>3. q[k] < q[l]
      BY <1>8, <3>2, Zenon DEF Ascending
    <3>4. s[m + k] = q[k] /\ s[m + l] = q[l]
      BY <1>1, <1>4, Zenon
    <3> QED
      BY <3>1, <3>3, <3>4, Zenon
  <2> QED
    BY <1>5, <2>1, <2>2, <2>3, Zenon
<1> QED
  BY <1>2, <1>6, <1>7, <1>8 DEF s

\* A sequence cut in two.
LEMMA SplitFacts ==
    ASSUME NEW h \in Seq(Int), NEW k \in 0 .. Len(h)
    PROVE  /\ SubSeq(h, 1, k) \in Seq(Int) /\ SubSeq(h, k + 1, Len(h)) \in Seq(Int)
           /\ Len(SubSeq(h, 1, k)) = k
           /\ SubSeq(h, 1, k) \o SubSeq(h, k + 1, Len(h)) = h
<1> DEFINE p == SubSeq(h, 1, k)
           q == SubSeq(h, k + 1, Len(h))
<1>1. Len(h) \in Nat /\ k \in Nat /\ k <= Len(h)
  OBVIOUS
<1>2. p \in Seq(Int) /\ Len(p) = k /\ \A i \in 1 .. k : p[i] = h[i]
  BY <1>1
<1>3. q \in Seq(Int) /\ Len(q) = Len(h) - k /\ \A i \in 1 .. Len(h) - k : q[i] = h[k + i]
  BY <1>1
<1> HIDE DEF p, q
<1>4. p \o q \in Seq(Int) /\ Len(p \o q) = Len(h)
  <2>1. p \o q \in Seq(Int) /\ Len(p \o q) = Len(p) + Len(q)
    <3>1. p \in Seq(Int) /\ q \in Seq(Int)
      BY <1>2, <1>3
    <3> QED
      BY <3>1
  <2> QED
    BY <1>1, <1>2, <1>3, <2>1
<1>5. ASSUME NEW i \in 1 .. Len(h) PROVE (p \o q)[i] = h[i]
  <2>1. CASE i <= k
    BY <1>1, <1>2, <1>3, <2>1
  <2>2. CASE ~ (i <= k)
    <3>1. i - k \in 1 .. Len(h) - k /\ k + (i - k) = i
      BY <1>1, <2>2
    <3>2. (p \o q)[i] = q[i - k]
      <4>1. p \in Seq(Int) /\ q \in Seq(Int) /\ i \in 1 .. Len(p) + Len(q) /\ ~ (i <= Len(p)) /\ i - Len(p) = i - k
        BY <1>1, <1>2, <1>3, <2>2
      <4>2. (p \o q)[i] = q[i - Len(p)]
        BY <4>1
      <4> QED
        BY <1>2, <4>2
    <3>3. q[i - k] = h[k + (i - k)]
      BY <1>3, <3>1, Zenon
    <3> QED
      BY <3>1, <3>2, <3>3, Zenon
  <2> QED
    BY <2>1, <2>2
<1>6. p \o q = h
  <2>0. \A w \in Seq(Int) : w = [i \in 1 .. Len(w) |-> w[i]]
    OBVIOUS
  <2>1. h = [i \in 1 .. Len(h) |-> h[i]]
    OBVIOUS
  <2>2. p \o q = [i \in 1 .. Len(h) |-> (p \o q)[i]]
    <3>1. p \o q = [i \in 1 .. Len(p \o q) |-> (p \o q)[i]]
      BY <1>4, <2>0, Zenon
    <3>2. Len(p \o q) = Len(h)
      BY <1>4
    <3> QED
      BY <3>1, <3>2, Zenon
  <2> QED
    BY <1>5, <2>1, <2>2
<1> QED
  BY <1>2, <1>3, <1>6 DEF p, q

-----------------------------------------------------------------------------
(* The context.                                                            *)

\* The numbers from a to n.
RunOf(a, n) == [i \in 1 .. n - a + 1 |-> a + i - 1]

\* A run is ascending and has every number of its interval.
LEMMA RunFacts ==
    ASSUME NEW n \in Nat, NEW a \in 1 .. n
    PROVE  /\ RunOf(a, n) \in Seq(Int) /\ Len(RunOf(a, n)) = n - a + 1 /\ RunOf(a, n) # <<>>
           /\ Ascending(RunOf(a, n)) /\ ToSet(RunOf(a, n)) = a .. n
<1> DEFINE g == RunOf(a, n)
<1>1. n - a + 1 \in Nat /\ n - a + 1 # 0 /\ a \in Int
  OBVIOUS
<1>2. g \in [1 .. n - a + 1 -> Int]
  BY DEF RunOf
<1>3. DOMAIN g = 1 .. n - a + 1 /\ \A i \in 1 .. n - a + 1 : g[i] = a + i - 1
  BY DEF RunOf
<1> HIDE DEF g
<1>4. g \in Seq(Int) /\ Len(g) = n - a + 1
  BY <1>1, <1>2
<1>5. Ascending(g)
  <2> SUFFICES ASSUME NEW i \in DOMAIN g, NEW j \in DOMAIN g, i < j PROVE g[i] < g[j]
    BY DEF Ascending
  <2>1. g[i] = a + i - 1 /\ g[j] = a + j - 1 /\ i \in Int /\ j \in Int
    BY <1>3
  <2> QED
    BY <1>1, <2>1
<1>6. ToSet(g) = a .. n
  <2>1. \A i \in DOMAIN g : g[i] \in a .. n
    BY <1>3
  <2>2. ASSUME NEW v \in a .. n PROVE \E i \in DOMAIN g : g[i] = v
    <3>1. v - a + 1 \in 1 .. n - a + 1 /\ a + (v - a + 1) - 1 = v
      OBVIOUS
    <3>2. g[v - a + 1] = v
      BY <1>3, <3>1
    <3> QED
      BY <1>3, <3>1, <3>2
  <2> QED
    BY <2>1, <2>2 DEF ToSet
<1> QED
  BY <1>1, <1>4, <1>5, <1>6 DEF g

\* Revisions are numbers.
LEMMA RevisionsAreInts ==
    ASSUME live \in Nat, NEW s \in Seq(Revisions)
    PROVE  s \in Seq(Int)
<1>1. \A o \in Revisions : o \in Int
  BY DEF Revisions
<1>2. Len(s) \in Nat /\ s \in [1 .. Len(s) -> Revisions]
  OBVIOUS
<1>3. s \in [1 .. Len(s) -> Int]
  BY <1>1, <1>2
<1> QED
  BY <1>2, <1>3

\* The scan back stops at a suffix that is linked.
LEMMA ChainFacts ==
    ASSUME NEW e \in Seq(Int), e # <<>>
    PROVE  /\ Chain(e) \in Seq(Int) /\ Chain(e) # <<>> /\ Linked(Chain(e))
           /\ \E d \in Nat : Without(Chain(e), e, d)
<1> DEFINE n == Len(e)
           K == {i \in DOMAIN e : Linked(SubSeq(e, i, n))}
           k == Min(K)
           c == SubSeq(e, k, n)
<1>1. n \in Nat /\ n >= 1 /\ DOMAIN e = 1 .. n
  OBVIOUS
<1>2. n \in K
  <2>1. Len(SubSeq(e, n, n)) = 1 /\ n \in DOMAIN e
    BY <1>1
  <2>2. Linked(SubSeq(e, n, n))
    BY <2>1 DEF Linked
  <2> QED
    BY <2>1, <2>2
<1>3. K \subseteq Nat
  BY <1>1
<1>4. \A i \in K : i \in 1 .. n /\ Linked(SubSeq(e, i, n))
  BY <1>1
<1> HIDE DEF K
<1>5. k \in K
  BY <1>2, <1>3, MinFacts
<1>6. k \in 1 .. n /\ Linked(c)
  BY <1>4, <1>5
<1> HIDE DEF k
<1>7. c \in Seq(Int) /\ Len(c) = n - k + 1 /\ \A i \in 1 .. n - k + 1 : c[i] = e[k + i - 1]
  BY <1>1, <1>6
<1>8. n - k + 1 >= 1 /\ n - (k - 1) = n - k + 1 /\ k - 1 \in Nat /\ k - 1 \in 0 .. n
      /\ \A i \in 1 .. n - k + 1 : (k - 1) + i = k + i - 1
  BY <1>1, <1>6
<1> HIDE DEF c
<1>9. Without(c, e, k - 1) /\ c # <<>>
  <2>1. c # <<>>
    BY <1>7, <1>8
  <2>2. \A i \in 1 .. Len(e) - (k - 1) : c[i] = e[(k - 1) + i]
    <3> SUFFICES ASSUME NEW i \in 1 .. n - k + 1 PROVE c[i] = e[(k - 1) + i]
      BY <1>8 DEF n
    <3>1. (k - 1) + i = k + i - 1 /\ c[i] = e[k + i - 1]
      BY <1>7, <1>8, Zenon
    <3> QED
      BY <3>1, Zenon
  <2>3. Len(c) = Len(e) - (k - 1) /\ k - 1 \in 0 .. Len(e)
    BY <1>7, <1>8 DEF n
  <2> QED
    BY <2>1, <2>2, <2>3 DEF Without
<1>10. c = Chain(e)
  BY DEF Chain, c, k, K, n
<1> QED
  BY <1>6, <1>7, <1>8, <1>9, <1>10

\* A lane of stairs that reaches the live observation, or the one before,
\* gives an unbroken context.
LEMMA ContextFacts ==
    ASSUME live \in Nat \ {0}, lane \in Seq(Revisions), Stairs(lane),
           lane # <<>> => EndsWith(lane, live) \/ EndsWith(lane, live - 1)
    PROVE  \E a \in 1 .. live : Context(lane) = RunOf(a, live) /\ Linked(Context(lane))
<1> DEFINE w == LastN(lane, Window)
           e == Append(w, live)
           c == Chain(e)
           h == Sorted(ToSet(c))
<1>0. PICK d \in Nat : w \in Seq(Revisions) /\ Without(w, lane, d)
  <2>1. w \in Seq(Revisions) /\ Without(w, lane, IF Len(lane) <= Window THEN 0 ELSE Len(lane) - Window)
    BY LastNFacts, StreamAssumption
  <2>2. (IF Len(lane) <= Window THEN 0 ELSE Len(lane) - Window) \in Nat
    BY StreamAssumption
  <2> QED
    BY <2>1, <2>2
<1> HIDE DEF w
<1>2. w \in Seq(Int) /\ lane \in Seq(Int)
  BY <1>0, RevisionsAreInts
<1>3. Stairs(w) /\ (w # <<>> => EndsWith(w, live) \/ EndsWith(w, live - 1))
  <2>1. Stairs(w)
    BY <1>0, <1>2, SuffixFacts
  <2>2. ASSUME w # <<>> PROVE EndsWith(w, live) \/ EndsWith(w, live - 1)
    <3>1. lane # <<>> /\ EndsWith(w, lane[Len(lane)])
      BY <1>0, <1>2, <2>2, SuffixFacts
    <3> QED
      BY <3>1 DEF EndsWith
  <2> QED
    BY <2>1, <2>2
<1>4. /\ e \in Seq(Int) /\ e # <<>> /\ Len(e) = Len(w) + 1 /\ Len(w) \in Nat
      /\ e[Len(w) + 1] = live
      /\ \A i \in 1 .. Len(w) : e[i] = w[i]
  <2>1. live \in Int
    OBVIOUS
  <2> QED
    BY SMTT(20), <1>2, <2>1, AppendFacts
<1>5. e \in Seq(Revisions)
  <2>1. live \in Revisions
    BY DEF Revisions
  <2> QED
    BY <1>0, <2>1, AppendFacts
<1> HIDE DEF e
<1>6. Stairs(e)
  <2> SUFFICES ASSUME NEW i \in 1 .. Len(w) PROVE e[i + 1] = e[i] \/ e[i + 1] = e[i] + 1
    BY <1>4 DEF Stairs
  <2>1. CASE i = Len(w)
    <3>1. w # <<>> /\ e[i] = w[Len(w)] /\ e[i + 1] = live
      BY <1>4, <2>1
    <3> QED
      BY <1>3, <3>1 DEF EndsWith
  <2>2. CASE i # Len(w)
    <3>1. i \in 1 .. Len(w) - 1 /\ i + 1 \in 1 .. Len(w)
      BY <1>4, <2>2
    <3>2. e[i] = w[i] /\ e[i + 1] = w[i + 1]
      BY <1>4, <3>1, Zenon
    <3> QED
      BY <1>3, <3>1, <3>2, Zenon DEF Stairs
  <2> QED
    BY <2>1, <2>2
<1>7. c \in Seq(Int) /\ c # <<>> /\ Linked(c) /\ \E x \in Nat : Without(c, e, x)
  BY <1>4, ChainFacts
<1> HIDE DEF c
<1>8. Stairs(c) /\ c[Len(c)] = live /\ ToSet(c) \subseteq ToSet(e)
  <2>1. PICK x \in Nat : Without(c, e, x)
    BY <1>7
  <2>2. Stairs(c) /\ EndsWith(c, e[Len(e)]) /\ ToSet(c) \subseteq ToSet(e)
    BY <1>4, <1>6, <1>7, <2>1, SuffixFacts
  <2> QED
    BY <1>4, <2>2 DEF EndsWith
<1>9. /\ Len(c) \in Nat /\ Len(c) >= 1 /\ DOMAIN c = 1 .. Len(c) /\ 1 \in DOMAIN c /\ Len(c) \in DOMAIN c
      /\ \A i \in DOMAIN c : c[i] \in Int
  BY <1>7
<1> DEFINE a == c[1]
<1>10. a \in 1 .. live
  <2>1. a \in ToSet(e)
    BY <1>8, <1>9 DEF ToSet
  <2>2. ToSet(e) \subseteq Revisions
    BY <1>5 DEF ToSet
  <2> QED
    BY <2>1, <2>2 DEF Revisions
<1>11. /\ \A i \in DOMAIN c : a <= c[i] /\ c[i] <= live
       /\ \A v \in a .. live - 1 : \E i \in 1 .. Len(c) - 1 : c[i] = v /\ c[i + 1] = v + 1
  BY <1>7, <1>8, StairsFacts
<1>12. ToSet(c) = a .. live
  <2>1. \A i \in DOMAIN c : c[i] \in a .. live
    BY <1>9, <1>10, <1>11
  <2>2. ASSUME NEW v \in a .. live PROVE \E i \in DOMAIN c : c[i] = v
    <3>1. CASE v = live
      BY <1>8, <1>9, <3>1
    <3>2. CASE v # live
      <4>1. v \in a .. live - 1
        BY <1>10, <3>2
      <4>2. PICK i \in 1 .. Len(c) - 1 : c[i] = v
        BY <1>11, <4>1, Zenon
      <4> QED
        BY <1>9, <4>2
    <3> QED
      BY <3>1, <3>2
  <2> QED
    BY <2>1, <2>2 DEF ToSet
<1> HIDE DEF a
<1>13. h = RunOf(a, live)
  <2>1. a .. live \subseteq Int /\ IsFiniteSet(a .. live) /\ a \in Int
    BY <1>10, FS_Interval
  <2>2. h \in Seq(Int) /\ Ascending(h) /\ ToSet(h) = a .. live
    BY <1>12, <2>1, SortedFacts
  <2> HIDE DEF h
  <2>3. RunOf(a, live) \in Seq(Int) /\ Ascending(RunOf(a, live)) /\ ToSet(RunOf(a, live)) = a .. live
    BY <1>10, RunFacts
  <2> QED
    BY <2>2, <2>3, AscendingUnique
<1>14. Linked(RunOf(a, live))
  <2>1. Len(RunOf(a, live)) = live - a + 1
    BY <1>10, RunFacts
  <2> SUFFICES ASSUME NEW i \in 1 .. (live - a + 1) - 1 PROVE Near(RunOf(a, live)[i], RunOf(a, live)[i + 1])
    BY <2>1 DEF Linked
  <2> DEFINE v == a + i - 1
  <2>2. v \in a .. live - 1 /\ i \in 1 .. live - a + 1 /\ i + 1 \in 1 .. live - a + 1 /\ a + (i + 1) - 1 = v + 1
    BY <1>10
  <2>3. RunOf(a, live)[i] = v /\ RunOf(a, live)[i + 1] = v + 1
    BY <2>2 DEF RunOf
  <2> HIDE DEF v
  <2>4. PICK j \in 1 .. Len(c) - 1 : c[j] = v /\ c[j + 1] = v + 1
    BY <1>11, <2>2, Zenon
  <2>5. Near(c[j], c[j + 1])
    BY <1>7 DEF Linked
  <2> QED
    BY <2>3, <2>4, <2>5, Zenon
<1>15. Context(lane) = h
  BY DEF Context, h, c, e, w
<1> QED
  BY <1>10, <1>13, <1>14, <1>15

-----------------------------------------------------------------------------
(* Reconciling and solving.                                                *)

\* A sequence without elements is the empty one.
LEMMA EmptyFacts ==
    ASSUME NEW S, NEW s \in Seq(S), Len(s) = 0 PROVE s = <<>>
  OBVIOUS

\* The longest overlap is one, and every other is shorter.
LEMMA OverlapFacts ==
    ASSUME NEW old \in Seq(Int), NEW h \in Seq(Int)
    PROVE  /\ Max(Overlaps(old, h)) \in Overlaps(old, h)
           /\ \A k \in Overlaps(old, h) : k <= Max(Overlaps(old, h)) /\ k \in 0 .. Len(h) /\ LastN(old, k) = SubSeq(h, 1, k)
           /\ \A k \in Nat : (k <= Len(old) /\ k <= Len(h) /\ LastN(old, k) = SubSeq(h, 1, k)) => k \in Overlaps(old, h)
<1> DEFINE m == Min({Len(old), Len(h)})
<1>1. Len(old) \in Nat /\ Len(h) \in Nat
  OBVIOUS
<1>2. m \in {Len(old), Len(h)} /\ m <= Len(old) /\ m <= Len(h)
  BY <1>1, MinFacts
<1>3. m \in Nat
  BY <1>1, <1>2
<1> DEFINE T == Overlaps(old, h)
<1>4. T = {k \in 0 .. m : LastN(old, k) = SubSeq(h, 1, k)}
  BY DEF Overlaps
<1> HIDE DEF m, T
<1>5. 0 \in T
  <2>1. LastN(old, 0) = <<>>
    <3>1. LastN(old, 0) \in Seq(Int) /\ Without(LastN(old, 0), old, IF Len(old) <= 0 THEN 0 ELSE Len(old) - 0)
      BY LastNFacts
    <3>2. Len(LastN(old, 0)) = 0
      BY <1>1, <3>1 DEF Without
    <3> QED
      BY <3>1, <3>2, EmptyFacts
  <2>2. SubSeq(h, 1, 0) = <<>>
    <3>1. SubSeq(h, 1, 0) \in Seq(Int) /\ Len(SubSeq(h, 1, 0)) = 0
      BY <1>1
    <3> QED
      BY <3>1, EmptyFacts
  <2>3. 0 \in 0 .. m
    BY <1>3
  <2>4. LastN(old, 0) = SubSeq(h, 1, 0)
    BY <2>1, <2>2, Zenon
  <2> QED
    BY <1>4, <2>3, <2>4, Zenon
<1>6. T \subseteq 0 .. m
  BY <1>4
<1>7. Max(T) \in T /\ \A k \in T : k <= Max(T)
  BY <1>3, <1>5, <1>6, MaxFacts
<1>8. \A k \in T : k \in 0 .. Len(h) /\ LastN(old, k) = SubSeq(h, 1, k)
  BY <1>1, <1>2, <1>3, <1>4
<1>9. \A k \in Nat : (k <= Len(old) /\ k <= Len(h) /\ LastN(old, k) = SubSeq(h, 1, k)) => k \in T
  <2>1. \A k \in Nat : k <= Len(old) /\ k <= Len(h) => k \in 0 .. m
    BY <1>1, <1>2, <1>3
  <2> QED
    BY <1>4, <2>1
<1> QED
  BY <1>7, <1>8, <1>9 DEF T

\* What is left of a sequence was in it.
LEMMA SuffixOf ==
    ASSUME NEW s \in Seq(Int), NEW n \in Nat
    PROVE  ToSet(LastN(s, n)) \subseteq ToSet(s)
<1> DEFINE u == LastN(s, n)
           d == IF Len(s) <= n THEN 0 ELSE Len(s) - n
<1>1. u \in Seq(Int) /\ Without(u, s, d)
  BY LastNFacts
<1>2. d \in Nat
  OBVIOUS
<1> HIDE DEF u, d
<1>3. ToSet(u) \subseteq ToSet(s)
  BY <1>1, <1>2, SuffixFacts
<1> QED
  BY <1>3 DEF u

\* What is kept of the trip and what is fresh make up the history.
LEMMA ReconcileFacts ==
    ASSUME NEW old \in Seq(Int), NEW h \in Seq(Int)
    PROVE  LET c == Reconcile(old, h) IN
           /\ c.kind \in {"restart", "resume"} /\ c.trip \in Seq(Int) /\ c.fresh \in Seq(Int)
           /\ c.trip \o c.fresh = h /\ ToSet(c.trip) \subseteq ToSet(old)
           /\ c.kind = "restart" => c.trip = <<>> /\ \A k \in Overlaps(old, h) : k <= 0
<1> DEFINE o == Max(Overlaps(old, h))
           c == Reconcile(old, h)
<1>1. o \in 0 .. Len(h) /\ LastN(old, o) = SubSeq(h, 1, o) /\ \A k \in Overlaps(old, h) : k <= o
  BY OverlapFacts
<1> HIDE DEF o
<1>2. /\ SubSeq(h, 1, o) \in Seq(Int) /\ SubSeq(h, o + 1, Len(h)) \in Seq(Int)
      /\ SubSeq(h, 1, o) \o SubSeq(h, o + 1, Len(h)) = h
  BY <1>1, SplitFacts
<1>3. c = IF o = 0 THEN [kind |-> "restart", trip |-> <<>>, fresh |-> h]
          ELSE [kind |-> "resume", trip |-> LastN(old, o), fresh |-> SubSeq(h, o + 1, Len(h))]
  BY DEF Reconcile, o
<1>4. CASE o = 0
  <2>1. c.kind = "restart" /\ c.trip = <<>> /\ c.fresh = h
    BY <1>3, <1>4
  <2>2. <<>> \o h = h /\ <<>> \in Seq(Int) /\ ToSet(<<>>) = {}
    BY DEF ToSet
  <2> QED
    BY <1>1, <1>4, <2>1, <2>2
<1>5. CASE o # 0
  <2>1. c.kind = "resume" /\ c.trip = SubSeq(h, 1, o) /\ c.fresh = SubSeq(h, o + 1, Len(h))
    BY <1>1, <1>3, <1>5
  <2>2. c.trip = LastN(old, o)
    BY <1>1, <2>1
  <2>3. o \in Nat
    BY <1>1
  <2>4. ToSet(LastN(old, o)) \subseteq ToSet(old)
    BY <2>3, SuffixOf
  <2> QED
    BY <1>2, <2>1, <2>2, <2>4
<1> QED
  BY <1>4, <1>5

\* The matcher resumes a trip only where its candidates resolve, and has the
\* whole history in any case.
LEMMA AdoptFacts ==
    ASSUME NEW old \in Seq(Int), NEW h \in Seq(Int), NEW shard
    PROVE  LET c == Adopt(Reconcile(old, h), shard) IN
           /\ c.trip \in Seq(Int) /\ c.fresh \in Seq(Int) /\ c.trip \o c.fresh = h
           /\ ToSet(c.trip) \subseteq ToSet(old) /\ Supports(c.trip, shard)
           /\ c.kind # "resume" => ToSet(c.trip) = {}
           /\ c.kind = "restart" => \A k \in Overlaps(old, h) : k <= 0
<1> DEFINE r == Reconcile(old, h)
           c == Adopt(r, shard)
<1>1. /\ r.kind \in {"restart", "resume"} /\ r.trip \in Seq(Int) /\ r.fresh \in Seq(Int)
      /\ r.trip \o r.fresh = h /\ ToSet(r.trip) \subseteq ToSet(old)
      /\ r.kind = "restart" => r.trip = <<>> /\ \A k \in Overlaps(old, h) : k <= 0
  BY ReconcileFacts
<1>2. ToSet(<<>>) = {} /\ Supports(<<>>, shard) /\ <<>> \o h = h /\ <<>> \in Seq(Int)
  BY DEF ToSet, Supports
<1> HIDE DEF r
<1>3. CASE r.kind = "resume" /\ ~ Supports(r.trip, shard)
  <2>1. c.kind = "downgrade" /\ c.trip = <<>> /\ c.fresh = h
    BY <1>1, <1>3 DEF Adopt
  <2> QED
    BY <1>2, <2>1 DEF r
<1>4. CASE ~ (r.kind = "resume" /\ ~ Supports(r.trip, shard))
  <2>1. c = r
    BY <1>4 DEF Adopt
  <2>2. Supports(r.trip, shard) /\ (r.kind # "resume" => ToSet(r.trip) = {})
    BY <1>1, <1>2, <1>4
  <2> QED
    BY <1>1, <2>1, <2>2 DEF r
<1> QED
  BY <1>3, <1>4

\* A solve has a layer for each resumed observation, and for each fresh one with
\* a candidate.
LEMMA PushedFacts ==
    ASSUME NEW c, c.trip \in Seq(Int), c.fresh \in Seq(Int), Ascending(c.trip \o c.fresh), NEW shard
    PROVE  /\ Pushed(c, shard) \in Seq(Int) /\ Ascending(Pushed(c, shard))
           /\ ToSet(Pushed(c, shard)) = ToSet(c.trip) \cup {x \in ToSet(c.fresh) : Anchored(x, shard)}
           /\ ToSet(c.trip \o c.fresh) = ToSet(c.trip) \cup ToSet(c.fresh)
<1> DEFINE p == c.trip
           q == c.fresh
           A == {x \in ToSet(q) : Anchored(x, shard)}
           f == Among(q, A)
<1>1. /\ ToSet(p \o q) = ToSet(p) \cup ToSet(q) /\ Ascending(p) /\ Ascending(q)
      /\ \A x \in ToSet(p), y \in ToSet(q) : x < y
  BY ConcatFacts
<1>2. f \in Seq(Int) /\ Ascending(f) /\ ToSet(f) = {x \in ToSet(q) : x \in A}
  BY <1>1, AmongFacts
<1>3. ToSet(f) = A
  BY <1>2
<1> HIDE DEF f
<1>4. \A x \in ToSet(p), y \in ToSet(f) : x < y
  BY <1>1, <1>3
<1>5. p \o f \in Seq(Int) /\ Ascending(p \o f) /\ ToSet(p \o f) = ToSet(p) \cup ToSet(f)
  BY <1>1, <1>2, <1>4, ConcatFacts
<1>6. Pushed(c, shard) = p \o f
  BY DEF Pushed, f
<1> QED
  BY <1>1, <1>3, <1>5, <1>6

\* A trip that has the observations of the run before its last is overlapped
\* by all of them.
LEMMA FullOverlap ==
    ASSUME NEW n \in Nat, NEW a \in 1 .. n, a < n, NEW old \in Seq(Int), Ascending(old),
           \A x \in ToSet(old) : x < n, a .. n - 1 \subseteq ToSet(old)
    PROVE  n - a \in Overlaps(old, RunOf(a, n))
<1> DEFINE h == RunOf(a, n)
           front == SubSeq(h, 1, n - a)
<1>1. h \in Seq(Int) /\ Len(h) = n - a + 1
  BY RunFacts
<1>2. n - a \in 0 .. n - a + 1 /\ n - a \in Nat /\ n - a <= n - a + 1 /\ a \in Int /\ a \in a .. n - 1 /\ n - 1 \in Nat /\ a \in 1 .. n - 1
  OBVIOUS
<1>3. front = RunOf(a, n - 1)
  <2>1. front = [i \in 1 .. n - a |-> h[i]]
    <3> HIDE DEF h
    <3>1. front \in Seq(Int) /\ Len(front) = n - a /\ \A i \in 1 .. n - a : front[i] = h[i]
      BY <1>1, <1>2
    <3> HIDE DEF front
    <3>2. front = [i \in 1 .. Len(front) |-> front[i]]
      BY <3>1
    <3> QED
      BY <3>1, <3>2
  <2>2. \A i \in 1 .. n - a : h[i] = a + i - 1
    BY DEF RunOf
  <2>3. (n - 1) - a + 1 = n - a
    OBVIOUS
  <2> HIDE DEF front, h
  <2> QED
    BY <2>1, <2>2, <2>3 DEF RunOf
<1> HIDE DEF h, front
<1>4. front \in Seq(Int) /\ Ascending(front) /\ ToSet(front) = a .. n - 1 /\ Len(front) = n - a
  <2>1. (n - 1) - a + 1 = n - a
    OBVIOUS
  <2> QED
    BY <1>2, <1>3, <2>1, RunFacts
<1>5. PICK j \in DOMAIN old : old[j] = a
  BY <1>2 DEF ToSet
<1>6. Len(old) \in Nat /\ DOMAIN old = 1 .. Len(old) /\ \A i \in DOMAIN old : old[i] \in Int
  OBVIOUS
<1> DEFINE u == SubSeq(old, j, Len(old))
<1>7. u \in Seq(Int) /\ Len(u) = Len(old) - j + 1 /\ \A i \in 1 .. Len(old) - j + 1 : u[i] = old[j + i - 1]
  BY SMTT(20), <1>5, <1>6
<1> HIDE DEF u
<1>8. Without(u, old, j - 1)
  <2>1. j - 1 \in 0 .. Len(old) /\ Len(old) - (j - 1) = Len(old) - j + 1 /\ \A i \in 1 .. Len(old) - j + 1 : (j - 1) + i = j + i - 1
    BY <1>5, <1>6
  <2>2. ASSUME NEW i \in 1 .. Len(old) - j + 1 PROVE u[i] = old[(j - 1) + i]
    <3>1. (j - 1) + i = j + i - 1 /\ u[i] = old[j + i - 1]
      BY <1>7, <2>1, Zenon
    <3> QED
      BY <3>1, Zenon
  <2> QED
    BY <1>7, <2>1, <2>2 DEF Without
<1>9. Ascending(u)
  <2>1. j - 1 \in Nat
    BY <1>5, <1>6
  <2> QED
    BY <1>7, <1>8, <2>1, SuffixFacts
<1>10. ToSet(u) = a .. n - 1
  <2>1. ASSUME NEW i \in DOMAIN u PROVE u[i] \in a .. n - 1
    <3>1. j + i - 1 \in DOMAIN old /\ (j + i - 1 = j \/ j < j + i - 1) /\ u[i] = old[j + i - 1]
      <4>1. i \in 1 .. Len(old) - j + 1
        <5>1. DOMAIN u = 1 .. Len(u)
          BY <1>7
        <5> QED
          BY <1>7, <5>1, Zenon
      <4>2. j + i - 1 \in 1 .. Len(old) /\ (j + i - 1 = j \/ j < j + i - 1)
        BY SMTT(20), <1>5, <1>6, <4>1
      <4> QED
        BY <1>6, <1>7, <4>1, <4>2, Zenon
    <3>2. old[j + i - 1] \in Int /\ old[j + i - 1] < n
      BY <1>6, <3>1 DEF ToSet
    <3>3. a <= old[j + i - 1]
      <4>1. CASE j + i - 1 = j
        BY <1>2, <1>5, <4>1
      <4>2. CASE j < j + i - 1
        <5>1. old[j] < old[j + i - 1]
          BY <3>1, <4>2, Zenon DEF Ascending
        <5> QED
          BY <1>2, <1>5, <3>2, <5>1
      <4> QED
        BY <3>1, <4>1, <4>2
    <3> QED
      BY <1>2, <3>1, <3>2, <3>3
  <2>2. ASSUME NEW v \in a .. n - 1 PROVE \E i \in DOMAIN u : u[i] = v
    <3>1. PICK k \in DOMAIN old : old[k] = v
      BY DEF ToSet
    <3>2. ~ (k < j)
      <4>1. k < j => v < a
        BY <1>5, <3>1, Zenon DEF Ascending
      <4>2. ~ (v < a)
        BY <1>2
      <4> QED
        BY <4>1, <4>2
    <3>3. k - j + 1 \in 1 .. Len(old) - j + 1 /\ j + (k - j + 1) - 1 = k
      BY <1>5, <1>6, <3>1, <3>2
    <3>4. u[k - j + 1] = old[j + (k - j + 1) - 1] /\ k - j + 1 \in DOMAIN u
      BY <1>7, <3>3
    <3> QED
      BY <3>1, <3>3, <3>4
  <2> QED
    BY <2>1, <2>2 DEF ToSet
<1>11. u = front
  BY <1>4, <1>7, <1>9, <1>10, AscendingUnique
<1>12. Len(old) - j + 1 = n - a
  BY <1>4, <1>7, <1>11
<1>13. n - a <= Len(old) /\ j = Len(old) - (n - a) + 1
  BY <1>2, <1>5, <1>6, <1>12
<1>14. LastN(old, n - a) = u
  <2>1. CASE Len(old) <= n - a
    <3>1. j = 1
      BY <1>2, <1>6, <1>13, <2>1
    <3>2. SubSeq(old, 1, Len(old)) = old
      OBVIOUS
    <3> QED
      BY <2>1, <3>1, <3>2 DEF LastN, u
  <2>2. CASE ~ (Len(old) <= n - a)
    BY <1>13, <2>2 DEF LastN, u
  <2> QED
    BY <2>1, <2>2
<1> QED
  <2>1. n - a <= Len(h) /\ LastN(old, n - a) = SubSeq(h, 1, n - a)
    BY <1>1, <1>2, <1>11, <1>14 DEF front
  <2>2. n - a \in Overlaps(old, h)
    BY <1>1, <1>2, <1>13, <2>1, OverlapFacts
  <2> QED
    BY <2>2 DEF h

-----------------------------------------------------------------------------
(* The lane and the record.                                                *)

\* Cutting a sequence leaves its end.
LEMMA CutFacts ==
    ASSUME NEW S \in SUBSET Int, NEW s \in Seq(S), NEW m \in Nat \ {0}
    PROVE  /\ LastN(s, m) \in Seq(S)
           /\ Stairs(s) => Stairs(LastN(s, m))
           /\ Ascending(s) => Ascending(LastN(s, m))
           /\ s # <<>> => LastN(s, m) # <<>>
           /\ \A o : EndsWith(LastN(s, m), o) <=> EndsWith(s, o)
<1> DEFINE u == LastN(s, m)
           d == IF Len(s) <= m THEN 0 ELSE Len(s) - m
<1>1. u \in Seq(S) /\ Without(u, s, d)
  BY LastNFacts
<1>2. Len(s) \in Nat /\ d \in Nat /\ (s # <<>> => Len(s) # 0)
  OBVIOUS
<1>3. Len(s) # 0 => d < Len(s)
  BY <1>2
<1>4. u \in Seq(Int) /\ s \in Seq(Int)
  <2>1. ASSUME NEW w \in Seq(S) PROVE w \in Seq(Int)
    <3>1. Len(w) \in Nat /\ w \in [1 .. Len(w) -> S]
      OBVIOUS
    <3>2. w \in [1 .. Len(w) -> Int]
      BY <3>1
    <3> QED
      BY <3>1, <3>2
  <2> QED
    BY <1>1, <2>1
<1> HIDE DEF u, d
<1>5. /\ Stairs(s) => Stairs(u)
      /\ Ascending(s) => Ascending(u)
      /\ d < Len(s) => (s # <<>> /\ EndsWith(u, s[Len(s)]))
      /\ u # <<>> => d < Len(s)
  BY <1>1, <1>2, <1>4, SuffixFacts
<1>6. s # <<>> => EndsWith(u, s[Len(s)])
  BY <1>2, <1>3, <1>5
<1>7. u # <<>> => s # <<>>
  BY <1>5
<1>8. \A o : EndsWith(u, o) <=> EndsWith(s, o)
  BY <1>6, <1>7 DEF EndsWith
<1> QED
  BY <1>1, <1>5, <1>6, <1>8 DEF u, EndsWith

\* Adding the live observation to a sequence that reaches it, or the one
\* before.
LEMMA ClimbFacts ==
    ASSUME NEW n \in Nat \ {0}, NEW s \in Seq(1 .. n), Stairs(s),
           s # <<>> => EndsWith(s, n) \/ EndsWith(s, n - 1), NEW m \in Nat \ {0}
    PROVE  /\ LastN(Append(s, n), m) \in Seq(1 .. n) /\ Stairs(LastN(Append(s, n), m))
           /\ EndsWith(LastN(Append(s, n), m), n)
<1> DEFINE e == Append(s, n)
<1>1. /\ e \in Seq(1 .. n) /\ e # <<>> /\ Len(e) = Len(s) + 1 /\ Len(s) \in Nat
      /\ e[Len(s) + 1] = n
      /\ \A i \in 1 .. Len(s) : e[i] = s[i]
  <2> DEFINE S == 1 .. n
  <2>1. n \in S /\ s \in Seq(S)
    OBVIOUS
  <2> HIDE DEF S
  <2>2. /\ e \in Seq(S) /\ e # <<>> /\ Len(e) = Len(s) + 1 /\ Len(s) \in Nat
        /\ e[Len(s) + 1] = n
        /\ \A i \in 1 .. Len(s) : e[i] = s[i]
    BY <2>1, AppendFacts
  <2> QED
    BY <2>2 DEF S
<1> HIDE DEF e
<1>2. Stairs(e)
  <2> SUFFICES ASSUME NEW i \in 1 .. Len(s) PROVE e[i + 1] = e[i] \/ e[i + 1] = e[i] + 1
    BY <1>1 DEF Stairs
  <2>1. CASE i = Len(s)
    <3>1. s # <<>> /\ e[i] = s[Len(s)] /\ e[i + 1] = n
      BY <1>1, <2>1
    <3> QED
      BY <3>1 DEF EndsWith
  <2>2. CASE i # Len(s)
    <3>1. i \in 1 .. Len(s) - 1 /\ i + 1 \in 1 .. Len(s)
      BY <1>1, <2>2
    <3>2. e[i] = s[i] /\ e[i + 1] = s[i + 1]
      BY <1>1, <3>1, Zenon
    <3> QED
      BY <3>1, <3>2, Zenon DEF Stairs
  <2> QED
    BY <2>1, <2>2
<1>3. EndsWith(e, n)
  BY <1>1 DEF EndsWith
<1>4. 1 .. n \in SUBSET Int
  OBVIOUS
<1> QED
  BY <1>1, <1>2, <1>3, <1>4, CutFacts DEF e

\* What the step lemmas use of the types.
LEMMA InvFacts ==
    ASSUME StreamInv
    PROVE  /\ live \in Nat /\ (pc # "idle" => live \in Nat \ {0}) /\ Revisions \in SUBSET Int
           /\ \A o \in Revisions : Time(o) \in Int /\ Place(o) \in Places
           /\ \A o : EndsWith(lane, o) \/ EndsWith(tail, o) => o \in Revisions
<1>1. events \in Seq(Observation) /\ lane \in Seq(Revisions) /\ tail \in Seq(Revisions) /\ (live = 0 => pc = "idle")
  BY DEF StreamInv, StreamTypes
<1>2. live \in Nat
  BY <1>1 DEF live
<1>3. Revisions \in SUBSET Int
  BY DEF Revisions
<1>4. \A o \in Revisions : events[o] \in Observation
  BY <1>1 DEF Revisions, live
<1>5. \A o \in Revisions : Time(o) \in Int /\ Place(o) \in Places
  BY <1>4 DEF Time, Place, Observation
<1>6. ASSUME NEW S, NEW s \in Seq(S), NEW o, EndsWith(s, o) PROVE o \in S
  <2>1. s # <<>> /\ s[Len(s)] = o
    BY <1>6 DEF EndsWith
  <2>2. Len(s) \in 1 .. Len(s)
    BY <2>1
  <2> QED
    BY <2>1, <2>2
<1> QED
  BY <1>1, <1>2, <1>3, <1>5, <1>6

-----------------------------------------------------------------------------
(* The steps.                                                              *)

\* The invariant holds initially.
LEMMA StreamInit == Init => StreamInv
<1> SUFFICES ASSUME Init PROVE StreamInv
  OBVIOUS
<1>1. live = 0 /\ pc = "idle" /\ events = <<>> /\ lane = <<>> /\ tail = <<>> /\ trip = <<>> /\ warmed = FALSE
  BY DEF Init, live
<1>2. <<>> \in Seq(Revisions) /\ <<>> \in Seq(Observation) /\ Len(<<>>) = 0 /\ DOMAIN <<>> = {}
  OBVIOUS
<1>3. StreamTypes
  BY <1>1, <1>2 DEF StreamTypes, Stages
<1>4. LaterIsLater
  BY <1>1 DEF LaterIsLater, Revisions
<1>5. TailReaches /\ LaneReaches /\ GateSees
  BY <1>1, <1>2 DEF TailReaches, LaneReaches, GateSees, Stairs, EndsWith
<1>6. TripOrdered
  BY <1>1, <1>2 DEF TripOrdered, Ascending, ToSet
<1> QED
  BY <1>1, <1>3, <1>4, <1>5, <1>6 DEF StreamInv, ReplyOrdered, ContextUnbroken, SolvesTheWindow, RestartIsNeeded

\* Where the observations stay, it is enough to look at what the step assigns,
\* and at the reply where the worker comes to publish.
LEMMA Quiet ==
    ASSUME StreamInv, events' = events,
           pc' # "publish" \/ (ContextUnbroken' /\ SolvesTheWindow' /\ RestartIsNeeded'),
           pc' \in Stages, warmed' \in BOOLEAN, lane' \in Seq(Revisions), tail' \in Seq(Revisions),
           trip' \in Seq(Revisions), live = 0 => pc' = "idle", pc' \notin {"idle", "process"} => warmed',
           TailReaches', LaneReaches', GateSees', TripOrdered', ReplyOrdered'
    PROVE  StreamInv'
<1>1. live' = live /\ Revisions' = Revisions
  BY DEF live, Revisions
<1>2. StreamTypes'
  <2>1. events' \in Seq(Observation)
    BY DEF StreamInv, StreamTypes
  <2>2. lane' \in Seq(Revisions') /\ tail' \in Seq(Revisions') /\ trip' \in Seq(Revisions') /\ (live' = 0 => pc' = "idle")
    BY <1>1
  <2> QED
    BY <2>1, <2>2 DEF StreamTypes
<1>3. LaterIsLater'
  BY <1>1 DEF StreamInv, LaterIsLater, Time
<1> QED
  BY <1>2, <1>3 DEF StreamInv, ContextUnbroken, SolvesTheWindow, RestartIsNeeded

\* A new event lies above everything the vehicle has.
LEMMA StreamArrive == StreamInv /\ Arrive => StreamInv'
<1> SUFFICES ASSUME StreamInv, Arrive PROVE StreamInv'
  OBVIOUS
<1>1. live \in Nat /\ \A o : EndsWith(lane, o) \/ EndsWith(tail, o) => o \in Revisions
  BY InvFacts
<1>2. \A o \in Revisions : Time(o) \in Int
  BY InvFacts
<1>3. PICK p \in Places, d \in Steps :
         events' = Append(events, [place |-> p, timestamp |-> d + (IF live = 0 THEN 0 ELSE Time(live))])
  BY DEF Arrive
<1>4. /\ pc = "idle" /\ pc' = "process" /\ warmed' = warmed /\ lane' = lane /\ trip' = trip
      /\ tail' = tail /\ reply' = reply
  BY DEF Arrive
<1>5. /\ events \in Seq(Observation) /\ warmed \in BOOLEAN /\ lane \in Seq(Revisions)
      /\ tail \in Seq(Revisions) /\ trip \in Seq(Revisions)
  BY DEF StreamInv, StreamTypes
<1> DEFINE t == d + (IF live = 0 THEN 0 ELSE Time(live))
<1>6. t \in Int /\ (live # 0 => Time(live) < t)
  <2>1. d \in Nat \ {0}
    BY StreamAssumption
  <2>2. live # 0 => live \in Revisions
    BY <1>1 DEF Revisions
  <2> QED
    BY <1>2, <2>1, <2>2
<1> HIDE DEF t
<1>7. [place |-> p, timestamp |-> t] \in Observation
  BY <1>6 DEF Observation
<1>8. /\ events' \in Seq(Observation) /\ live' = live + 1 /\ events'[live + 1].timestamp = t
      /\ \A i \in 1 .. live : events'[i] = events[i]
  <2>1. events' = Append(events, [place |-> p, timestamp |-> t])
    BY <1>3 DEF t
  <2> QED
    BY <1>5, <1>7, <2>1, AppendFacts DEF live
<1>9. ASSUME NEW s \in Seq(Revisions) PROVE s \in Seq(Revisions')
  <2>1. \A o \in Revisions : o \in Revisions'
    BY <1>1, <1>8 DEF Revisions
  <2>2. Len(s) \in Nat /\ s \in [1 .. Len(s) -> Revisions]
    OBVIOUS
  <2>3. s \in [1 .. Len(s) -> Revisions']
    BY <2>1, <2>2
  <2> QED
    BY <2>2, <2>3
<1>10. StreamTypes'
  <2>1. lane' \in Seq(Revisions') /\ tail' \in Seq(Revisions') /\ trip' \in Seq(Revisions')
    BY <1>4, <1>5, <1>9
  <2>2. live' # 0
    BY <1>1, <1>8
  <2> QED
    BY <1>4, <1>5, <1>8, <2>1, <2>2 DEF StreamTypes, Stages
<1>11. LaterIsLater'
  <2> SUFFICES ASSUME NEW o \in 1 .. live + 1, NEW q \in 1 .. live + 1, o < q
               PROVE  events'[o].timestamp < events'[q].timestamp
    BY <1>8 DEF LaterIsLater, Revisions, Time
  <2>1. \A x, y \in 1 .. live : x < y => events[x].timestamp < events[y].timestamp
    BY DEF StreamInv, LaterIsLater, Revisions, Time
  <2>2. \A x \in 1 .. live : events[x].timestamp \in Int
    BY <1>2 DEF Revisions, Time
  <2>3. o \in 1 .. live
    BY <1>1
  <2>4. CASE q = live + 1
    <3>1. live \in 1 .. live /\ live # 0 /\ (o = live \/ o < live)
      BY <1>1, <2>3
    <3>2. events[live].timestamp < t
      BY <1>6, <3>1 DEF Time
    <3>3. o < live => events[o].timestamp < events[live].timestamp
      BY <2>1, <2>3, <3>1
    <3>4. events[o].timestamp \in Int /\ events[live].timestamp \in Int
      BY <2>2, <2>3, <3>1
    <3>5. events[o].timestamp < t
      BY <1>6, <3>1, <3>2, <3>3, <3>4
    <3> QED
      BY <1>8, <2>3, <2>4, <3>5
  <2>5. CASE q # live + 1
    <3>1. q \in 1 .. live
      BY <1>1, <2>5
    <3> QED
      BY <1>8, <2>1, <2>3, <3>1
  <2> QED
    BY <2>4, <2>5
<1>12. live + 1 \notin Revisions /\ live \in Int /\ (live + 1) - 1 = live /\ live + 1 > 0
  BY <1>1 DEF Revisions
<1>13. live = 0 => lane = <<>> /\ tail = <<>>
  BY <1>5 DEF Revisions
<1>14. live # 0 => EndsWith(tail, live)
  BY <1>1, <1>4 DEF StreamInv, TailReaches
<1>15. TailReaches'
  <2>1. live # 0 => EndsWith(tail, (live + 1) - 1)
    BY <1>12, <1>14
  <2>2. Stairs(tail)
    BY DEF StreamInv, TailReaches
  <2> QED
    BY <1>4, <1>8, <1>13, <2>1, <2>2 DEF TailReaches, Stairs, EndsWith
<1>16. lane # <<>> => EndsWith(lane, live)
  <2>1. lane # <<>> => warmed
    BY DEF StreamInv, LaneReaches
  <2>2. (warmed /\ live > 0 /\ EndsWith(tail, live)) => EndsWith(lane, live)
    BY <1>4 DEF StreamInv, GateSees
  <2>3. live # 0 => live > 0
    BY <1>1
  <2> QED
    BY <1>13, <1>14, <2>1, <2>2, <2>3
<1>17. LaneReaches'
  <2>1. lane # <<>> => EndsWith(lane, (live + 1) - 1)
    BY <1>12, <1>16
  <2>2. Stairs(lane) /\ (~ warmed => lane = <<>>) /\ ~ EndsWith(lane, live + 1)
    BY <1>1, <1>12 DEF StreamInv, LaneReaches
  <2> QED
    BY <1>4, <1>8, <2>1, <2>2 DEF LaneReaches, Stairs, EndsWith
<1>18. GateSees'
  <2>1. ~ EndsWith(tail, live + 1)
    BY <1>1, <1>12
  <2> QED
    BY <1>4, <1>8, <2>1 DEF GateSees, EndsWith
<1>19. TripOrdered'
  <2>1. live + 1 \notin ToSet(trip)
    BY <1>5, <1>12 DEF ToSet
  <2>2. Ascending(trip)
    BY DEF StreamInv, TripOrdered
  <2> QED
    BY <1>4, <1>8, <2>1, <2>2 DEF TripOrdered, Ascending, ToSet
<1> QED
  BY <1>4, <1>10, <1>11, <1>15, <1>17, <1>18, <1>19
     DEF StreamInv, ReplyOrdered, ContextUnbroken, SolvesTheWindow, RestartIsNeeded

\* Eviction forgets lane and trip together.
LEMMA StreamEvict == StreamInv /\ Evict => StreamInv'
<1> SUFFICES ASSUME StreamInv, Evict PROVE StreamInv'
  OBVIOUS
<1>1. pc = "idle" /\ pc' = pc /\ events' = events /\ tail' = tail /\ reply' = reply /\ live' = live
  BY DEF Evict, live
<1>2. /\ warmed \in BOOLEAN /\ lane \in Seq(Revisions) /\ tail \in Seq(Revisions) /\ trip \in Seq(Revisions)
  BY DEF StreamInv, StreamTypes
<1>3. \/ warmed' = FALSE /\ lane' = <<>> /\ trip' = trip
      \/ trip' = <<>> /\ warmed' = warmed /\ lane' = lane
  BY DEF Evict
<1>4. warmed' \in BOOLEAN /\ lane' \in Seq(Revisions) /\ trip' \in Seq(Revisions) /\ pc' \in Stages
  <2>1. <<>> \in Seq(Revisions)
    OBVIOUS
  <2>2. lane' \in Seq(Revisions) /\ trip' \in Seq(Revisions)
    BY <1>2, <1>3, <2>1
  <2>3. warmed' \in BOOLEAN
    BY <1>2, <1>3
  <2> QED
    BY <1>1, <2>2, <2>3 DEF Stages
<1>5. TailReaches'
  BY <1>1 DEF StreamInv, TailReaches, Stairs, EndsWith
<1>6. LaneReaches'
  BY <1>1, <1>3 DEF StreamInv, LaneReaches, Stairs, EndsWith
<1>7. GateSees'
  BY <1>1, <1>3 DEF StreamInv, GateSees, EndsWith
<1>8. TripOrdered'
  BY <1>1, <1>3 DEF StreamInv, TripOrdered, Ascending, ToSet, EndsWith
<1> QED
  BY <1>1, <1>2, <1>4, <1>5, <1>6, <1>7, <1>8, Quiet DEF ReplyOrdered

\* A lane is warmed from the end of the stored tail.
LEMMA StreamWarm == StreamInv /\ Warm => StreamInv'
<1> SUFFICES ASSUME StreamInv, Warm PROVE StreamInv'
  OBVIOUS
<1>1. /\ pc = "process" /\ pc' = pc /\ events' = events /\ tail' = tail /\ trip' = trip /\ reply' = reply
      /\ live' = live /\ warmed' = TRUE /\ lane' = LastN(tail, 3 * Window)
  BY DEF Warm, live
<1>2. tail \in Seq(Revisions) /\ trip \in Seq(Revisions) /\ Revisions \in SUBSET Int /\ live \in Nat \ {0}
  BY <1>1, InvFacts DEF StreamInv, StreamTypes
<1>3. 3 * Window \in Nat \ {0}
  BY StreamAssumption
<1>4. PICK l : l = LastN(tail, 3 * Window)
  OBVIOUS
<1>5. /\ l \in Seq(Revisions)
      /\ Stairs(tail) => Stairs(l)
      /\ tail # <<>> => l # <<>>
      /\ \A o : EndsWith(l, o) <=> EndsWith(tail, o)
  <2>1. PICK m \in Nat \ {0} : m = 3 * Window
    BY <1>3
  <2>2. /\ LastN(tail, m) \in Seq(Revisions)
        /\ Stairs(tail) => Stairs(LastN(tail, m))
        /\ tail # <<>> => LastN(tail, m) # <<>>
        /\ \A o : EndsWith(LastN(tail, m), o) <=> EndsWith(tail, o)
    BY <1>2, CutFacts, Zenon
  <2>3. l = LastN(tail, m)
    BY <1>4, <2>1
  <2> QED
    BY <2>2, <2>3, Zenon
<1>6. lane' = l
  BY <1>1, <1>4
<1>7. Stairs(tail) /\ (EndsWith(tail, live) \/ EndsWith(tail, live - 1) \/ tail = <<>>)
  BY <1>2 DEF StreamInv, TailReaches
<1>8. TailReaches'
  BY <1>1 DEF StreamInv, TailReaches, Stairs, EndsWith
<1>9. LaneReaches'
  <2>1. l # <<>> => EndsWith(l, live) \/ EndsWith(l, live - 1)
    <3>1. l # <<>> => tail # <<>>
      <4>1. l # <<>> => EndsWith(l, l[Len(l)])
        BY DEF EndsWith
      <4> QED
        BY <1>5, <4>1 DEF EndsWith
    <3> QED
      BY <1>5, <1>7, <3>1
  <2> QED
    BY <1>1, <1>5, <1>6, <1>7, <2>1 DEF LaneReaches, Stairs, EndsWith
<1>10. GateSees'
  <2>1. EndsWith(tail, live) => EndsWith(l, live)
    BY <1>5
  <2> QED
    BY <1>1, <1>6, <2>1 DEF GateSees, EndsWith
<1>11. TripOrdered'
  BY <1>1 DEF StreamInv, TripOrdered, Ascending, ToSet, EndsWith
<1> QED
  BY <1>1, <1>2, <1>5, <1>6, <1>8, <1>9, <1>10, <1>11, Quiet DEF ReplyOrdered, Stages

\* An event the gate drops has been recorded.
LEMMA StreamDrop == StreamInv /\ Drop => StreamInv'
<1> SUFFICES ASSUME StreamInv, Drop PROVE StreamInv'
  OBVIOUS
<1>1. /\ pc = "process" /\ pc' = "idle" /\ events' = events /\ tail' = tail /\ trip' = trip /\ reply' = reply
      /\ live' = live /\ warmed' = warmed /\ lane' = lane /\ Stale
  BY DEF Drop, live
<1>2. /\ tail \in Seq(Revisions) /\ trip \in Seq(Revisions) /\ lane \in Seq(Revisions) /\ warmed \in BOOLEAN
      /\ live \in Nat \ {0}
  BY <1>1, InvFacts DEF StreamInv, StreamTypes
<1>3. EndsWith(tail, live)
  <2>1. lane # <<>> /\ Time(live) <= Time(lane[Len(lane)])
    BY <1>1 DEF Stale, Last
  <2>2. EndsWith(lane, live) \/ EndsWith(lane, live - 1)
    BY <2>1 DEF StreamInv, LaneReaches
  <2>3. CASE EndsWith(lane, live)
    BY <2>3 DEF StreamInv, LaneReaches
  <2>4. CASE EndsWith(lane, live - 1)
    <3>1. live - 1 \in Revisions /\ live \in Revisions
      BY <1>2, <2>4, InvFacts DEF Revisions
    <3>2. Time(live - 1) < Time(live)
      BY <1>2, <3>1 DEF StreamInv, LaterIsLater
    <3>3. Time(live) <= Time(live - 1)
      BY <2>1, <2>4 DEF EndsWith
    <3>4. Time(live - 1) \in Int /\ Time(live) \in Int
      BY <3>1, InvFacts
    <3> QED
      BY <3>2, <3>3, <3>4
  <2> QED
    BY <2>2, <2>3, <2>4
<1>4. TailReaches'
  BY <1>1, <1>3 DEF StreamInv, TailReaches, Stairs, EndsWith
<1>5. LaneReaches'
  BY <1>1 DEF StreamInv, LaneReaches, Stairs, EndsWith
<1>6. GateSees'
  BY <1>1 DEF StreamInv, GateSees, EndsWith
<1>7. TripOrdered'
  BY <1>1, <1>3 DEF StreamInv, TripOrdered, Ascending, ToSet, EndsWith
<1> QED
  BY <1>1, <1>2, <1>4, <1>5, <1>6, <1>7, Quiet DEF ReplyOrdered, Stages

\* A publish changes no history.
LEMMA StreamPublish == StreamInv /\ Publish => StreamInv'
<1> SUFFICES ASSUME StreamInv, Publish PROVE StreamInv'
  OBVIOUS
<1>1. /\ pc = "publish" /\ pc' = "commit" /\ events' = events /\ tail' = tail /\ trip' = trip /\ reply' = reply
      /\ live' = live /\ Revisions' = Revisions /\ warmed' = warmed /\ lane' = lane
  BY DEF Publish, live, Revisions
<1>2. /\ tail \in Seq(Revisions) /\ trip \in Seq(Revisions) /\ lane \in Seq(Revisions) /\ warmed \in BOOLEAN
      /\ live # 0 /\ warmed
  BY <1>1, InvFacts DEF StreamInv, StreamTypes
<1>3. TailReaches'
  BY <1>1 DEF StreamInv, TailReaches, Stairs, EndsWith
<1>4. LaneReaches'
  BY <1>1 DEF StreamInv, LaneReaches, Stairs, EndsWith
<1>5. GateSees'
  BY <1>1 DEF StreamInv, GateSees, EndsWith
<1>6. TripOrdered'
  BY <1>1 DEF StreamInv, TripOrdered, Ascending, ToSet, EndsWith
<1>7. ReplyOrdered'
  BY <1>1 DEF StreamInv, ReplyOrdered, Ascending
<1> QED
  BY <1>1, <1>2, <1>3, <1>4, <1>5, <1>6, <1>7, Quiet DEF Stages

\* A repeated solve starts from what the first one started from.
LEMMA StreamRetry == StreamInv /\ Retry => StreamInv'
<1> SUFFICES ASSUME StreamInv, Retry PROVE StreamInv'
  OBVIOUS
<1>1. /\ pc \in {"publish", "commit"} /\ pc' = "process" /\ events' = events /\ tail' = tail /\ trip' = trip
      /\ live' = live /\ warmed' = warmed /\ lane' = lane
  BY DEF Retry, live
<1>2. /\ tail \in Seq(Revisions) /\ trip \in Seq(Revisions) /\ lane \in Seq(Revisions) /\ warmed \in BOOLEAN
      /\ live # 0
  BY <1>1, InvFacts DEF StreamInv, StreamTypes
<1>3. TailReaches'
  BY <1>1 DEF StreamInv, TailReaches, Stairs, EndsWith
<1>4. LaneReaches'
  BY <1>1 DEF StreamInv, LaneReaches, Stairs, EndsWith
<1>5. GateSees'
  BY <1>1 DEF StreamInv, GateSees, EndsWith
<1>6. TripOrdered'
  BY <1>1 DEF StreamInv, TripOrdered, Ascending, ToSet, EndsWith
<1> QED
  BY <1>1, <1>2, <1>3, <1>4, <1>5, <1>6, Quiet DEF Stages, ReplyOrdered

\* The committed trip is the one that was solved.
LEMMA StreamCommit == StreamInv /\ Commit => StreamInv'
<1> SUFFICES ASSUME StreamInv, Commit PROVE StreamInv'
  OBVIOUS
<1>1. /\ pc = "commit" /\ pc' = "archive" /\ events' = events /\ tail' = tail /\ trip' = reply.trip
      /\ live' = live /\ warmed' = warmed /\ lane' = lane
  BY DEF Commit, live
<1>2. /\ tail \in Seq(Revisions) /\ lane \in Seq(Revisions) /\ warmed \in BOOLEAN
      /\ live # 0 /\ warmed
  BY <1>1, InvFacts DEF StreamInv, StreamTypes
<1>3. trip' \in Seq(Revisions) /\ Ascending(reply.trip)
  BY <1>1 DEF StreamInv, ReplyOrdered
<1>4. TailReaches'
  BY <1>1 DEF StreamInv, TailReaches, Stairs, EndsWith
<1>5. LaneReaches'
  BY <1>1 DEF StreamInv, LaneReaches, Stairs, EndsWith
<1>6. GateSees'
  BY <1>1 DEF GateSees
<1>7. TripOrdered'
  BY <1>1, <1>3 DEF TripOrdered, Ascending
<1> QED
  BY <1>1, <1>2, <1>3, <1>4, <1>5, <1>6, <1>7, Quiet DEF Stages, ReplyOrdered

\* Both outcomes of an append.
LEMMA StreamRecord == StreamInv /\ (Record \/ RecordAgain) => StreamInv'
<1> SUFFICES ASSUME StreamInv, Record \/ RecordAgain PROVE StreamInv'
  OBVIOUS
<1>1. /\ pc = "archive" /\ pc' \in {"archive", "push"} /\ events' = events /\ trip' = trip
      /\ live' = live /\ warmed' = warmed /\ lane' = lane
      /\ XAdd
  BY DEF Record, RecordAgain, live
<1>2. /\ tail \in Seq(Revisions) /\ trip \in Seq(Revisions) /\ lane \in Seq(Revisions) /\ warmed \in BOOLEAN
      /\ live \in Nat \ {0} /\ warmed
  BY <1>1, InvFacts DEF StreamInv, StreamTypes
<1>3. PICK n \in {History, Len(Append(tail, live))} : tail' = LastN(Append(tail, live), n)
  BY <1>1 DEF XAdd
<1>4. n \in Nat \ {0}
  <2>1. live \in Revisions
    BY <1>2 DEF Revisions
  <2>2. Len(Append(tail, live)) = Len(tail) + 1 /\ Len(tail) \in Nat
    BY <1>2, <2>1, AppendFacts
  <2> QED
    BY <1>3, <2>2, StreamAssumption
<1>5. PICK u : u = LastN(Append(tail, live), n)
  OBVIOUS
<1>6. u \in Seq(Revisions) /\ Stairs(u) /\ EndsWith(u, live)
  <2>1. Stairs(tail) /\ (tail # <<>> => EndsWith(tail, live) \/ EndsWith(tail, live - 1))
    BY <1>2 DEF StreamInv, TailReaches
  <2>2. tail \in Seq(1 .. live)
    BY <1>2 DEF Revisions
  <2>3. LastN(Append(tail, live), n) \in Seq(1 .. live) /\ Stairs(LastN(Append(tail, live), n))
        /\ EndsWith(LastN(Append(tail, live), n), live)
    BY <1>2, <1>4, <2>1, <2>2, ClimbFacts
  <2> QED
    BY <1>5, <2>3 DEF Revisions
<1>7. tail' = u
  BY <1>3, <1>5
<1>8. TailReaches'
  BY <1>1, <1>6, <1>7 DEF TailReaches, Stairs, EndsWith
<1>9. LaneReaches'
  BY <1>1, <1>6, <1>7 DEF StreamInv, LaneReaches, Stairs, EndsWith
<1>10. GateSees'
  BY <1>1 DEF GateSees
<1>11. TripOrdered'
  BY <1>1 DEF StreamInv, TripOrdered, Ascending
<1> QED
  BY <1>1, <1>2, <1>6, <1>7, <1>8, <1>9, <1>10, <1>11, Quiet DEF Stages, ReplyOrdered

\* The live event enters the lane above all of it.
LEMMA StreamPush == StreamInv /\ Push => StreamInv'
<1> SUFFICES ASSUME StreamInv, Push PROVE StreamInv'
  OBVIOUS
<1>1. /\ pc = "push" /\ pc' = "idle" /\ events' = events /\ trip' = trip /\ tail' = tail
      /\ live' = live /\ warmed' = warmed /\ lane' = LastN(Append(lane, live), 3 * Window)
  BY DEF Push, live
<1>2. /\ tail \in Seq(Revisions) /\ trip \in Seq(Revisions) /\ lane \in Seq(Revisions) /\ warmed \in BOOLEAN
      /\ live \in Nat \ {0} /\ warmed
  BY <1>1, InvFacts DEF StreamInv, StreamTypes
<1>3. PICK u : u = LastN(Append(lane, live), 3 * Window)
  OBVIOUS
<1>4. u \in Seq(Revisions) /\ Stairs(u) /\ EndsWith(u, live)
  <2>1. Stairs(lane) /\ (lane # <<>> => EndsWith(lane, live) \/ EndsWith(lane, live - 1))
    BY DEF StreamInv, LaneReaches
  <2>2. lane \in Seq(1 .. live) /\ 3 * Window \in Nat \ {0}
    BY <1>2, StreamAssumption DEF Revisions
  <2>3. LastN(Append(lane, live), 3 * Window) \in Seq(1 .. live) /\ Stairs(LastN(Append(lane, live), 3 * Window))
        /\ EndsWith(LastN(Append(lane, live), 3 * Window), live)
    BY <1>2, <2>1, <2>2, ClimbFacts
  <2> QED
    BY <1>3, <2>3 DEF Revisions
<1>5. lane' = u
  BY <1>1, <1>3
<1>6. EndsWith(tail, live)
  BY <1>1, <1>2 DEF StreamInv, TailReaches
<1>7. TailReaches'
  BY <1>1, <1>6 DEF StreamInv, TailReaches, Stairs, EndsWith
<1>8. LaneReaches'
  BY <1>1, <1>2, <1>4, <1>5, <1>6 DEF LaneReaches, Stairs, EndsWith
<1>9. GateSees'
  BY <1>1, <1>4, <1>5 DEF GateSees, EndsWith
<1>10. TripOrdered'
  BY <1>1, <1>6 DEF StreamInv, TripOrdered, Ascending, EndsWith
<1> QED
  BY <1>1, <1>2, <1>4, <1>5, <1>7, <1>8, <1>9, <1>10, Quiet DEF Stages, ReplyOrdered

\* A redelivery starts over with the same event.
LEMMA StreamRedeliver == StreamInv /\ Redeliver => StreamInv'
<1> SUFFICES ASSUME StreamInv, Redeliver PROVE StreamInv'
  OBVIOUS
<1>1. /\ pc = "idle" /\ pc' = "process" /\ events' = events /\ tail' = tail /\ trip' = trip
      /\ live' = live /\ live > 0 /\ warmed' = warmed /\ lane' = lane
  BY DEF Redeliver, live
<1>2. /\ tail \in Seq(Revisions) /\ trip \in Seq(Revisions) /\ lane \in Seq(Revisions) /\ warmed \in BOOLEAN
      /\ live # 0
  BY <1>1, InvFacts DEF StreamInv, StreamTypes
<1>3. TailReaches'
  BY <1>1 DEF StreamInv, TailReaches, Stairs, EndsWith
<1>4. LaneReaches'
  BY <1>1 DEF StreamInv, LaneReaches, Stairs, EndsWith
<1>5. GateSees'
  BY <1>1 DEF StreamInv, GateSees, EndsWith
<1>6. TripOrdered'
  BY <1>1 DEF StreamInv, TripOrdered, Ascending, ToSet, EndsWith
<1> QED
  BY <1>1, <1>2, <1>3, <1>4, <1>5, <1>6, Quiet DEF Stages, ReplyOrdered

\* A crash forgets lane and trip; the tail stays.
LEMMA StreamCrash == StreamInv /\ Crash => StreamInv'
<1> SUFFICES ASSUME StreamInv, Crash PROVE StreamInv'
  OBVIOUS
<1>1. /\ pc' = (IF pc = "idle" THEN "idle" ELSE "process") /\ events' = events /\ tail' = tail /\ trip' = <<>>
      /\ live' = live /\ warmed' = FALSE /\ lane' = <<>>
  BY DEF Crash, live
<1>2. tail \in Seq(Revisions) /\ <<>> \in Seq(Revisions) /\ (live = 0 => pc = "idle") /\ Len(<<>>) = 0 /\ DOMAIN <<>> = {}
  BY DEF StreamInv, StreamTypes
<1>3. TailReaches'
  BY <1>1 DEF StreamInv, TailReaches, Stairs, EndsWith
<1>4. LaneReaches'
  BY <1>1, <1>2 DEF LaneReaches, Stairs, EndsWith
<1>5. GateSees'
  BY <1>1 DEF GateSees
<1>6. TripOrdered'
  BY <1>1, <1>2 DEF TripOrdered, Ascending, ToSet
<1> QED
  BY <1>1, <1>2, <1>3, <1>4, <1>5, <1>6, Quiet DEF Stages, ReplyOrdered

\* The request is for an unbroken context, and what comes back is a solve of it.
LEMMA StreamSolve == StreamInv /\ Solve => StreamInv'
<1> SUFFICES ASSUME StreamInv, Solve PROVE StreamInv'
  OBVIOUS
<1>1. /\ pc = "process" /\ pc' \in {"archive", "publish"} /\ events' = events /\ tail' = tail /\ trip' = trip
      /\ live' = live /\ warmed' = warmed /\ lane' = lane /\ warmed /\ ~ Stale
  BY DEF Solve, live
<1>2. /\ tail \in Seq(Revisions) /\ trip \in Seq(Revisions) /\ lane \in Seq(Revisions)
      /\ live \in Nat \ {0} /\ live \in Revisions /\ warmed \in BOOLEAN
  BY <1>1, InvFacts DEF StreamInv, StreamTypes, Revisions
<1>3. TailReaches'
  BY <1>1 DEF StreamInv, TailReaches, Stairs, EndsWith
<1>4. LaneReaches'
  BY <1>1 DEF StreamInv, LaneReaches, Stairs, EndsWith
<1>5. GateSees'
  BY <1>1 DEF StreamInv, GateSees, EndsWith
<1>6. live \notin ToSet(trip)
  <2> SUFFICES ASSUME live \in ToSet(trip) PROVE FALSE
    OBVIOUS
  <2>1. EndsWith(tail, live)
    BY <1>1 DEF StreamInv, TripOrdered
  <2>2. EndsWith(lane, live)
    BY <1>1, <1>2, <2>1 DEF StreamInv, GateSees
  <2>3. Time(live) \in Int
    BY <1>2, InvFacts
  <2>4. lane # <<>> /\ Last(lane) = live /\ Time(live) <= Time(live)
    BY <2>2, <2>3 DEF EndsWith, Last
  <2> QED
    BY <1>1, <2>4 DEF Stale
<1>7. TripOrdered'
  BY <1>1 DEF StreamInv, TripOrdered, Ascending, ToSet, EndsWith
<1>8. PICK a \in 1 .. live : Context(lane) = RunOf(a, live) /\ Linked(RunOf(a, live))
  <2>1. Stairs(lane) /\ (lane # <<>> => EndsWith(lane, live) \/ EndsWith(lane, live - 1))
    BY DEF StreamInv, LaneReaches
  <2> QED
    BY <1>2, <2>1, ContextFacts
<1>9. PICK h : h = RunOf(a, live)
  OBVIOUS
<1>10. /\ h \in Seq(Int) /\ Len(h) = live - a + 1 /\ h # <<>> /\ Ascending(h) /\ ToSet(h) = a .. live
       /\ Linked(h)
  BY <1>2, <1>8, <1>9, RunFacts
<1>11. PICK shard : shard = ShardOf[Place(live)]
  OBVIOUS
<1>12. PICK c : c = Adopt(Reconcile(trip, h), shard)
  OBVIOUS
<1>13. PICK solved : solved = Pushed(c, shard)
  OBVIOUS
<1>14. trip \in Seq(Int)
  BY <1>2, RevisionsAreInts
<1>15. /\ c.trip \in Seq(Int) /\ c.fresh \in Seq(Int) /\ c.trip \o c.fresh = h
       /\ ToSet(c.trip) \subseteq ToSet(trip)
       /\ c.kind # "resume" => ToSet(c.trip) = {}
       /\ c.kind = "restart" => \A k \in Overlaps(trip, h) : k <= 0
  <2>0. h \in Seq(Int)
    BY <1>10
  <2>1. c.trip \in Seq(Int) /\ c.fresh \in Seq(Int) /\ c.trip \o c.fresh = h
    BY ZenonT(40), <1>12, <1>14, <2>0, AdoptFacts
  <2>2. ToSet(c.trip) \subseteq ToSet(trip)
    BY ZenonT(40), <1>12, <1>14, <2>0, AdoptFacts
  <2>3. c.kind # "resume" => ToSet(c.trip) = {}
    BY ZenonT(40), <1>12, <1>14, <2>0, AdoptFacts
  <2>4. c.kind = "restart" => \A k \in Overlaps(trip, h) : k <= 0
    BY ZenonT(40), <1>12, <1>14, <2>0, AdoptFacts
  <2> QED
    BY <2>1, <2>2, <2>3, <2>4
<1>16. /\ solved \in Seq(Int) /\ Ascending(solved)
       /\ ToSet(solved) = ToSet(c.trip) \cup {x \in ToSet(c.fresh) : Anchored(x, shard)}
       /\ ToSet(h) = ToSet(c.trip) \cup ToSet(c.fresh)
  BY <1>10, <1>13, <1>15, PushedFacts
<1>17. \/ pc' = "archive" /\ reply' = reply
       \/ /\ solved # <<>> /\ pc' = "publish"
          /\ \E convergence \in 0 .. Len(solved) - 1 :
                reply' = [kind |-> c.kind, history |-> h, layers |-> solved,
                          edges |-> Carry(solved, c.trip, shard),
                          trip |-> LastN(solved, Len(solved) - convergence)]
  BY <1>8, <1>9, <1>11, <1>12, <1>13 DEF Solve
<1>18. CASE pc' = "archive"
  BY <1>1, <1>2, <1>3, <1>4, <1>5, <1>7, <1>18, Quiet DEF Stages, ReplyOrdered
<1>19. CASE pc' = "publish" /\ \E convergence \in 0 .. Len(solved) - 1 :
                reply' = [kind |-> c.kind, history |-> h, layers |-> solved,
                          edges |-> Carry(solved, c.trip, shard),
                          trip |-> LastN(solved, Len(solved) - convergence)]
  <2>1. PICK k \in 0 .. Len(solved) - 1 :
                reply' = [kind |-> c.kind, history |-> h, layers |-> solved,
                          edges |-> Carry(solved, c.trip, shard),
                          trip |-> LastN(solved, Len(solved) - k)]
    BY <1>19
  <2>2. reply'.kind = c.kind /\ reply'.history = h /\ reply'.layers = solved
        /\ reply'.trip = LastN(solved, Len(solved) - k)
    BY <2>1
  <2>3. solved \in Seq(Revisions)
    <3>1. \A i \in DOMAIN solved : solved[i] \in Revisions
      <4>1. ToSet(solved) \subseteq a .. live
        BY <1>10, <1>16
      <4>2. \A v \in a .. live : v \in Revisions
        BY <1>2, <1>8 DEF Revisions
      <4> QED
        BY <4>1, <4>2 DEF ToSet
    <3>2. Len(solved) \in Nat /\ DOMAIN solved = 1 .. Len(solved) /\ solved = [i \in 1 .. Len(solved) |-> solved[i]]
      BY <1>16
    <3>3. solved \in [1 .. Len(solved) -> Revisions]
      BY <3>1, <3>2
    <3> QED
      BY <3>2, <3>3
  <2>4. LastN(solved, Len(solved) - k) \in Seq(Revisions) /\ Ascending(LastN(solved, Len(solved) - k))
    <3>1. Len(solved) - k \in Nat \ {0}
      <4>1. Len(solved) \in Nat
        BY <1>16
      <4> QED
        BY <2>1, <4>1
    <3>2. Revisions \in SUBSET Int
      BY InvFacts
    <3> QED
      BY <1>16, <2>3, <3>1, <3>2, CutFacts
  <2>5. ReplyOrdered'
    <3>1. Revisions' = Revisions
      BY <1>1 DEF Revisions
    <3> QED
      BY <2>2, <2>4, <3>1 DEF ReplyOrdered, Ascending
  <2>6. ContextUnbroken'
    <3>1. \A i \in DOMAIN h : h[i] = live - (Len(h) - i)
      <4> SUFFICES ASSUME NEW i \in DOMAIN h PROVE h[i] = live - (Len(h) - i)
        OBVIOUS
      <4>1. i \in 1 .. live - a + 1
        BY <1>9 DEF RunOf
      <4>2. h[i] = a + i - 1
        BY <1>9, <4>1 DEF RunOf
      <4> QED
        BY <1>2, <1>8, <1>10, <4>1, <4>2
    <3>2. (Linked(reply.history))'
      BY <1>1, <1>10, <2>2 DEF Linked, Near, Place, Time
    <3> QED
      BY <1>1, <1>10, <2>2, <3>1, <3>2 DEF ContextUnbroken
  <2>7. SolvesTheWindow'
    <3> DEFINE here == {x \in ToSet(h) : Anchored(x, shard)}
    <3>1. here \subseteq ToSet(solved)
      BY <1>16
    <3>2. ToSet(solved) \subseteq here \cup (IF c.kind = "resume" THEN ToSet(trip) \cap ToSet(h) ELSE {})
      BY <1>15, <1>16
    <3>3. ({o \in ToSet(reply.history) : Anchored(o, ShardOf[Place(live)])})' = here
      BY <1>1, <1>11, <2>2 DEF Anchored, Found, Place, ToSet
    <3>4. ToSet(reply.layers)' = ToSet(solved) /\ ToSet(reply.history)' = ToSet(h) /\ ToSet(trip)' = ToSet(trip)
      BY <1>1, <2>2 DEF ToSet
    <3>5. Ascending(reply.layers)'
      BY <1>16, <2>2 DEF Ascending
    <3> HIDE DEF here
    <3> QED
      BY <2>2, <3>1, <3>2, <3>3, <3>4, <3>5 DEF SolvesTheWindow
  <2>8. RestartIsNeeded'
    <3> SUFFICES ASSUME c.kind = "restart", Len(h) # 1, \A i \in 1 .. Len(h) - 1 : h[i] \in ToSet(trip)
                 PROVE  FALSE
      BY <1>1, <2>2 DEF RestartIsNeeded, ToSet
    <3>1. a < live
      BY <1>2, <1>8, <1>10
    <3>2. a .. live - 1 \subseteq ToSet(trip)
      <4> SUFFICES ASSUME NEW v \in a .. live - 1 PROVE v \in ToSet(trip)
        OBVIOUS
      <4>1. v - a + 1 \in 1 .. Len(h) - 1 /\ v - a + 1 \in 1 .. live - a + 1 /\ a + (v - a + 1) - 1 = v
        BY <1>2, <1>8, <1>10
      <4>2. h[v - a + 1] = v
        BY <1>9, <4>1 DEF RunOf
      <4> QED
        BY <4>1, <4>2, Zenon
    <3>3. \A x \in ToSet(trip) : x < live
      <4>1. \A x \in ToSet(trip) : x \in Revisions /\ x # live
        BY <1>2, <1>6 DEF ToSet
      <4> QED
        BY <1>2, <4>1 DEF Revisions
    <3>4. Ascending(trip)
      BY DEF StreamInv, TripOrdered
    <3>5. live - a \in Overlaps(trip, h)
      BY <1>2, <1>8, <1>9, <1>14, <3>1, <3>2, <3>3, <3>4, FullOverlap
    <3>6. live - a <= 0
      BY <1>15, <3>5
    <3> QED
      BY <1>2, <1>8, <3>1, <3>6
  <2> QED
    BY <1>1, <1>2, <1>3, <1>4, <1>5, <1>7, <1>19, <2>5, <2>6, <2>7, <2>8, Quiet DEF Stages
<1> QED
  BY <1>17, <1>18, <1>19

\* Every step preserves the invariant.
LEMMA StreamStep == StreamInv /\ [Next]_vars => StreamInv'
<1> SUFFICES ASSUME StreamInv, [Next]_vars PROVE StreamInv'
  OBVIOUS
<1>1. CASE Next
  BY <1>1, StreamArrive, StreamEvict, StreamWarm, StreamDrop, StreamSolve, StreamPublish, StreamRetry,
     StreamCommit, StreamRecord, StreamPush, StreamRedeliver, StreamCrash DEF Next
<1>2. CASE UNCHANGED vars
  <2>1. SolvesTheWindow'
    <3>1. pc' = pc /\ reply' = reply /\ trip' = trip /\ events' = events
      BY <1>2 DEF vars
    <3>2. ({o \in ToSet(reply.history) : Anchored(o, ShardOf[Place(live)])})'
          = {o \in ToSet(reply.history) : Anchored(o, ShardOf[Place(live)])}
      BY <3>1 DEF Anchored, Found, Place, live, ToSet
    <3>3. /\ ToSet(reply.layers)' = ToSet(reply.layers) /\ ToSet(reply.history)' = ToSet(reply.history)
          /\ ToSet(trip)' = ToSet(trip)
      BY <3>1 DEF ToSet
    <3>4. Ascending(reply.layers)' <=> Ascending(reply.layers)
      BY <3>1 DEF Ascending
    <3> QED
      BY <3>1, <3>2, <3>3, <3>4 DEF StreamInv, SolvesTheWindow
  <2>2. ContextUnbroken' /\ RestartIsNeeded'
    BY <1>2 DEF vars, StreamInv, ContextUnbroken, RestartIsNeeded, live, Time, Place, ToSet, Linked, Near
  <2> QED
    BY <1>2, <2>1, <2>2 DEF vars, StreamInv, StreamTypes, LaterIsLater, TailReaches, LaneReaches, GateSees,
       TripOrdered, ReplyOrdered, live, Revisions, Time, Stairs, EndsWith, Ascending, ToSet
<1> QED
  BY <1>1, <1>2

-----------------------------------------------------------------------------
(* The candidates of a trip.                                               *)

\* Every observation a trip is cached or sent back with has a candidate, and so
\* has every layer of a solve, with edges of the shard's network.
Carried ==
    /\ \A o \in ToSet(trip) : carried[o] # {}
    /\ pc \in {"publish", "commit"} => \A o \in ToSet(reply.trip) : reply.edges[o] # {}
    /\ LayersResolve

\* What the generator finds resolves.
LEMMA FoundFacts ==
    ASSUME StreamInv, NEW o \in Revisions, NEW shard \in Shards
    PROVE  \A edge \in Found(o, shard) : Resolves(edge, shard)
<1>1. Place(o) \in Places
  BY InvFacts
<1>2. Found(o, shard) \subseteq Ground[shard] \X Ground[shard]
  BY <1>1, StreamAssumption DEF Found
<1> QED
  BY <1>2 DEF Resolves

\* Where neither the trip changes nor a reply comes in, there is nothing to show.
LEMMA CarriedQuiet ==
    ASSUME Carried, trip' = trip, carried' = carried, pc' \notin {"publish", "commit"}
    PROVE  Carried'
  BY DEF Carried, LayersResolve, ToSet

\* Nor where the trip is forgotten.
LEMMA Emptied ==
    ASSUME trip' = <<>>, pc' \notin {"publish", "commit"}
    PROVE  Carried'
<1>1. ToSet(trip)' = {}
  BY DEF ToSet
<1> QED
  BY <1>1 DEF Carried, LayersResolve

\* A solve carries candidates from the cached trip, when it resumes that, and new
\* ones for what it pushes.
LEMMA CarriedSolve == StreamInv /\ Carried /\ Solve => Carried'
<1> SUFFICES ASSUME StreamInv, Carried, Solve PROVE Carried'
  OBVIOUS
<1>1. /\ pc = "process" /\ pc' \in {"archive", "publish"} /\ events' = events /\ trip' = trip
      /\ carried' = carried /\ live' = live
  BY DEF Solve, live
<1>2. /\ trip \in Seq(Int) /\ lane \in Seq(Revisions) /\ live \in Nat \ {0} /\ live \in Revisions
  BY <1>1, InvFacts, RevisionsAreInts DEF StreamInv, StreamTypes, Revisions
<1>3. PICK h : h = Context(lane)
  OBVIOUS
<1>4. h \in Seq(Int) /\ Ascending(h) /\ ToSet(h) \subseteq Revisions
  <2>1. Stairs(lane) /\ (lane # <<>> => EndsWith(lane, live) \/ EndsWith(lane, live - 1))
    BY DEF StreamInv, LaneReaches
  <2>2. PICK a \in 1 .. live : Context(lane) = RunOf(a, live) /\ Linked(RunOf(a, live))
    BY <1>2, <2>1, ContextFacts
  <2>3. h \in Seq(Int) /\ Ascending(h) /\ ToSet(h) = a .. live
    BY <1>2, <1>3, <2>2, RunFacts
  <2>4. \A v \in a .. live : v \in Revisions
    BY <1>2, <2>2 DEF Revisions
  <2> QED
    BY <2>3, <2>4
<1>5. PICK shard : shard = ShardOf[Place(live)]
  OBVIOUS
<1>6. shard \in Shards
  <2>1. Place(live) \in Places
    BY <1>2, InvFacts
  <2> QED
    BY <1>5, <2>1, StreamAssumption
<1>7. PICK c : c = Adopt(Reconcile(trip, h), shard)
  OBVIOUS
<1>8. PICK solved : solved = Pushed(c, shard)
  OBVIOUS
<1>9. /\ c.trip \in Seq(Int) /\ c.fresh \in Seq(Int) /\ c.trip \o c.fresh = h
      /\ ToSet(c.trip) \subseteq ToSet(trip) /\ Supports(c.trip, shard)
  BY <1>2, <1>4, <1>7, AdoptFacts
<1>10. /\ solved \in Seq(Int)
       /\ ToSet(solved) = ToSet(c.trip) \cup {x \in ToSet(c.fresh) : Anchored(x, shard)}
       /\ ToSet(h) = ToSet(c.trip) \cup ToSet(c.fresh)
  BY <1>4, <1>8, <1>9, PushedFacts
<1>11. PICK e : e = Carry(solved, c.trip, shard)
  OBVIOUS
<1>12. ASSUME NEW o \in ToSet(solved)
       PROVE  e[o] # {} /\ \A edge \in e[o] : Resolves(edge, shard)
  <2>1. e[o] = IF o \in ToSet(c.trip) THEN carried[o] ELSE Found(o, shard)
    BY <1>11 DEF Carry
  <2>2. CASE o \in ToSet(c.trip)
    BY <1>9, <2>1, <2>2 DEF Carried, Supports
  <2>3. CASE o \notin ToSet(c.trip)
    <3>1. o \in Revisions /\ Anchored(o, shard)
      BY <1>4, <1>10, <2>3
    <3> QED
      BY <1>6, <2>1, <2>3, <3>1, FoundFacts DEF Anchored
  <2> QED
    BY <2>2, <2>3
<1>13. CASE pc' = "archive"
  BY <1>1, <1>13, CarriedQuiet
<1>14. CASE pc' = "publish"
  <2>1. PICK k \in 0 .. Len(solved) - 1 :
                reply' = [kind |-> c.kind, history |-> h, layers |-> solved, edges |-> e,
                          trip |-> LastN(solved, Len(solved) - k)]
    BY <1>3, <1>5, <1>7, <1>8, <1>11, <1>14 DEF Solve
  <2>2. reply'.layers = solved /\ reply'.edges = e /\ reply'.trip = LastN(solved, Len(solved) - k)
    BY <2>1
  <2>3. ToSet(LastN(solved, Len(solved) - k)) \subseteq ToSet(solved)
    <3>1. Len(solved) \in Nat
      BY <1>10
    <3>2. Len(solved) - k \in Nat
      BY <2>1, <3>1
    <3> QED
      BY <1>10, <3>2, SuffixOf
  <2>4. ToSet(reply.trip)' \subseteq ToSet(solved) /\ ToSet(reply.layers)' = ToSet(solved) /\ ToSet(trip)' = ToSet(trip)
    BY <1>1, <2>2, <2>3 DEF ToSet
  <2>5. ShardOf[Place(live)]' = shard
    BY <1>1, <1>5 DEF Place
  <2>6. LayersResolve'
    BY <1>12, <2>2, <2>4, <2>5 DEF LayersResolve, Resolves
  <2> QED
    BY <1>1, <1>12, <2>2, <2>4, <2>6 DEF Carried
<1> QED
  BY <1>1, <1>13, <1>14

\* Every step preserves it: all but a solve keep, drop or adopt what was carried.
LEMMA CarriedStep == StreamInv /\ Carried /\ [Next]_vars => Carried'
<1> SUFFICES ASSUME StreamInv, Carried, [Next]_vars PROVE Carried'
  OBVIOUS
<1>1. CASE Arrive \/ Warm \/ Drop \/ Retry \/ Record \/ RecordAgain \/ Push \/ Redeliver
  BY <1>1, CarriedQuiet DEF Arrive, Warm, Drop, Retry, Record, RecordAgain, Push, Redeliver
<1>2. CASE Evict
  <2>1. pc' = "idle" /\ ((trip' = trip /\ carried' = carried) \/ trip' = <<>>)
    BY <1>2 DEF Evict
  <2> QED
    BY <2>1, CarriedQuiet, Emptied
<1>3. CASE Solve
  BY <1>3, CarriedSolve
<1>4. CASE Publish
  BY <1>4 DEF Publish, Carried, LayersResolve, ToSet
<1>5. CASE Commit
  <2>1. pc = "commit" /\ pc' = "archive" /\ trip' = reply.trip /\ carried' = [o \in ToSet(reply.trip) |-> reply.edges[o]]
    BY <1>5 DEF Commit
  <2>2. ToSet(trip)' = ToSet(reply.trip)
    BY <2>1 DEF ToSet
  <2>3. \A o \in ToSet(reply.trip) : reply.edges[o] # {}
    BY <2>1 DEF Carried
  <2> QED
    BY <2>1, <2>2, <2>3 DEF Carried, LayersResolve
<1>6. CASE Crash
  <2>1. pc' \in {"idle", "process"} /\ trip' = <<>>
    BY <1>6 DEF Crash
  <2> QED
    BY <2>1, Emptied
<1>7. CASE UNCHANGED vars
  <2>1. pc' = pc /\ reply' = reply /\ trip' = trip /\ carried' = carried /\ events' = events
    BY <1>7 DEF vars
  <2>2. ShardOf[Place(live)]' = ShardOf[Place(live)]
    BY <2>1 DEF Place, live
  <2>3. LayersResolve'
    BY <2>1, <2>2 DEF Carried, LayersResolve, Resolves, ToSet
  <2> QED
    BY <2>1, <2>3 DEF Carried, ToSet
<1> QED
  BY <1>1, <1>2, <1>3, <1>4, <1>5, <1>6, <1>7 DEF Next

-----------------------------------------------------------------------------
\* The invariant holds in every state: lane, cached trip, stored tail and reply
\* of a vehicle are ascending runs of one stream of accepted events.
THEOREM StreamIsOrderly == Spec => []StreamInv
  BY StreamInit, StreamStep, PTL DEF Spec

\* Worker::create_context cuts an unbroken run of the vehicle's observations
\* out of its lane, whatever was lost, repeated or trimmed before.
THEOREM ContextStaysUnbroken == Spec => []ContextUnbroken
<1>1. StreamInv => ContextUnbroken
  BY DEF StreamInv
<1> QED
  BY <1>1, StreamIsOrderly, PTL

\* Continuation::reconcile and the matcher's adopt lead to a solve of the
\* observations of the context that the shard can anchor and, when the trip is
\* resumed, of others of the context that came with it: once each and in order.
THEOREM SolveIsTheWindow == Spec => []SolvesTheWindow
<1>1. StreamInv => SolvesTheWindow
  BY DEF StreamInv
<1> QED
  BY <1>1, StreamIsOrderly, PTL

\* However often a trip has gone from shard to shard, it was cut and extended: no
\* solve has a layer without a candidate, and the edges of all of them resolve in
\* the network of the shard that solves it (ensure_continuation_support).
THEOREM LayersAlwaysResolve == Spec => []LayersResolve
<1>1. Init => Carried
  <2>1. ToSet(<<>>) = {}
    BY DEF ToSet
  <2> QED
    BY <2>1 DEF Init, Carried, LayersResolve
<1>2. Carried => LayersResolve
  BY DEF Carried
<1> QED
  BY <1>1, <1>2, StreamIsOrderly, CarriedStep, PTL DEF Spec

\* Continuation::reconcile throws a trip away only when the context has an
\* older observation it lacks.
THEOREM RestartsAreNeeded == Spec => []RestartIsNeeded
<1>1. StreamInv => RestartIsNeeded
  BY DEF StreamInv
<1> QED
  BY <1>1, StreamIsOrderly, PTL
============================================================================
