---------------------------- MODULE CodecProofs ----------------------------
(***************************************************************************)
(* What a program is served is what a file says, read from front to back,  *)
(* for all files, all ways to split and join the work and all histories of *)
(* the saved file.                                                         *)
(***************************************************************************)
EXTENDS Codec, SetLemmas, SequenceTheorems

-----------------------------------------------------------------------------
(* Sequences of sequences, one after the other.                            *)

IsFlat(f, ss) == f = [i \in 1 .. Len(ss) |-> IF i = 1 THEN ss[i] ELSE f[i - 1] \o ss[i]]
Flat(ss) == CHOOSE f : IsFlat(f, ss)

\* How the library joins them.
LEMMA FlattenIs ==
    ASSUME NEW ss
    PROVE  FlattenSeq(ss) = IF Len(ss) = 0 THEN ss ELSE Flat(ss)[Len(ss)]
  BY Zenon DEF FlattenSeq, Flat, IsFlat

\* The joined parts up to each.
LEMMA FlatIs ==
    ASSUME NEW n \in Nat, NEW ss, Len(ss) = n
    PROVE  \A i \in 1 .. n : Flat(ss)[i] = IF i = 1 THEN ss[i] ELSE Flat(ss)[i - 1] \o ss[i]
<1> DEFINE T == {m \in 0 .. n : \E f : f = [i \in 1 .. m |-> IF i = 1 THEN ss[i] ELSE f[i - 1] \o ss[i]]}
<1>1. 0 \in T
  <2> DEFINE e == <<>>
  <2>1. e = [i \in 1 .. 0 |-> IF i = 1 THEN ss[i] ELSE e[i - 1] \o ss[i]]
    OBVIOUS
  <2> HIDE DEF e
  <2>2. \E f : f = [i \in 1 .. 0 |-> IF i = 1 THEN ss[i] ELSE f[i - 1] \o ss[i]]
    BY <2>1
  <2>3. 0 \in 0 .. n
    OBVIOUS
  <2> QED
    BY <2>2, <2>3
<1>2. ASSUME NEW m \in 0 + 1 .. n, m - 1 \in T PROVE m \in T
  <2>1. PICK f : f = [i \in 1 .. m - 1 |-> IF i = 1 THEN ss[i] ELSE f[i - 1] \o ss[i]]
    BY <1>2
  <2> DEFINE g == [i \in 1 .. m |-> IF i = m THEN (IF m = 1 THEN ss[m] ELSE f[m - 1] \o ss[m]) ELSE f[i]]
  <2>2. \A i \in 1 .. m : i = m \/ (i \in 1 .. m - 1 /\ i # m)
    OBVIOUS
  <2>3. \A i \in 1 .. m : i # 1 => i - 1 \in 1 .. m - 1 /\ i - 1 \in 1 .. m /\ i - 1 # m
    OBVIOUS
  <2>4. g[m] = (IF m = 1 THEN ss[m] ELSE f[m - 1] \o ss[m]) /\ m \in 1 .. m
        /\ \A i \in 1 .. m : i # m => g[i] = f[i]
    OBVIOUS
  <2>5. g = [i \in 1 .. m |-> g[i]]
    OBVIOUS
  <2> HIDE DEF g
  <2>6. \A i \in 1 .. m - 1 : f[i] = IF i = 1 THEN ss[i] ELSE f[i - 1] \o ss[i]
    BY <2>1, Zenon
  <2>7. ASSUME NEW i \in 1 .. m PROVE g[i] = IF i = 1 THEN ss[i] ELSE g[i - 1] \o ss[i]
    <3>1. i # 1 => g[i - 1] = f[i - 1]
      BY <2>3, <2>4
    <3>2. CASE i = m
      BY <2>4, <3>1, <3>2
    <3>3. CASE i # m
      <4>1. i \in 1 .. m - 1 /\ g[i] = f[i]
        BY <2>2, <2>4, <3>3
      <4> QED
        BY <2>6, <3>1, <4>1
    <3> QED
      BY <3>2, <3>3
  <2>8. g = [i \in 1 .. m |-> IF i = 1 THEN ss[i] ELSE g[i - 1] \o ss[i]]
    BY <2>5, <2>7
  <2>9. m \in 0 .. n
    OBVIOUS
  <2> QED
    BY <2>8, <2>9
<1> HIDE DEF T
<1>3. 0 .. n \subseteq T
  BY <1>1, <1>2, RangeInd
<1>4. \E f : f = [i \in 1 .. n |-> IF i = 1 THEN ss[i] ELSE f[i - 1] \o ss[i]]
  <2>1. n \in 0 .. n
    OBVIOUS
  <2> QED
    BY <1>3, <2>1 DEF T
<1>5. IsFlat(Flat(ss), ss)
  BY <1>4, Zenon DEF Flat, IsFlat
<1> DEFINE c == Flat(ss)
<1> HIDE DEF c
<1>6. c = [i \in 1 .. n |-> IF i = 1 THEN ss[i] ELSE c[i - 1] \o ss[i]]
  BY <1>5 DEF IsFlat, c
<1>7. \A i \in 1 .. n : c[i] = IF i = 1 THEN ss[i] ELSE c[i - 1] \o ss[i]
  BY <1>6, Zenon
<1> QED
  BY <1>7 DEF c

\* A sequence of n sequences over S.
Rows(ss, n, S) == n \in Nat /\ ss = [i \in 1 .. n |-> ss[i]] /\ \A i \in 1 .. n : ss[i] \in Seq(S)

LEMMA RowsLen ==
    ASSUME NEW ss, NEW n, NEW S, Rows(ss, n, S)
    PROVE  Len(ss) = n /\ DOMAIN ss = 1 .. n /\ n \in Nat
  BY DEF Rows

\* What is joined is over S too.
LEMMA FlatInSeq ==
    ASSUME NEW ss, NEW n, NEW S, Rows(ss, n, S)
    PROVE  \A i \in 1 .. n : Flat(ss)[i] \in Seq(S)
<1> DEFINE c == Flat(ss)
           T == {i \in 0 .. n : i # 0 => c[i] \in Seq(S)}
<1>0. n \in Nat /\ Len(ss) = n
  BY RowsLen
<1>1. \A i \in 1 .. n : c[i] = IF i = 1 THEN ss[i] ELSE c[i - 1] \o ss[i]
  BY <1>0, FlatIs
<1> HIDE DEF c
<1>2. 0 \in T
  BY <1>0
<1>3. ASSUME NEW i \in 0 + 1 .. n, i - 1 \in T PROVE i \in T
  <2>1. i \in 1 .. n /\ i \in 0 .. n /\ ss[i] \in Seq(S)
    BY DEF Rows
  <2>2. CASE i = 1
    BY <1>1, <2>1, <2>2
  <2>3. CASE i # 1
    <3>1. i - 1 # 0
      BY <2>1, <2>3
    <3>2. c[i - 1] \in Seq(S) /\ c[i] = c[i - 1] \o ss[i]
      BY <1>1, <1>3, <2>1, <2>3, <3>1
    <3>3. c[i - 1] \o ss[i] \in Seq(S)
      BY <2>1, <3>2
    <3> QED
      BY <2>1, <3>2, <3>3
  <2> QED
    BY <2>2, <2>3
<1> HIDE DEF T
<1>4. 0 .. n \subseteq T
  <2>1. 0 \in Int /\ n \in Int
    BY <1>0
  <2> QED
    BY <2>1, <1>2, <1>3, RangeInd
<1> QED
  BY <1>0, <1>4 DEF T, c

LEMMA FlattenInSeq ==
    ASSUME NEW ss, NEW n, NEW S, Rows(ss, n, S)
    PROVE  FlattenSeq(ss) \in Seq(S)
<1>0. n \in Nat /\ Len(ss) = n
  BY RowsLen
<1>1. CASE n = 0
  <2>1. ss = <<>>
    BY <1>1 DEF Rows
  <2>2. FlattenSeq(ss) = ss
    BY <1>0, <1>1, FlattenIs
  <2>3. <<>> \in Seq(S)
    OBVIOUS
  <2> QED
    BY <2>1, <2>2, <2>3
<1>2. CASE n # 0
  <2>1. FlattenSeq(ss) = Flat(ss)[n] /\ n \in 1 .. n
    BY <1>0, <1>2, FlattenIs
  <2> QED
    BY <2>1, FlatInSeq
<1> QED
  BY <1>1, <1>2

\* The first i of the sequences.
Upto(ss, i) == [k \in 1 .. i |-> ss[k]]

LEMMA UptoIs ==
    ASSUME NEW ss, NEW n, NEW S, Rows(ss, n, S), NEW i \in 0 .. n
    PROVE  Rows(Upto(ss, i), i, S) /\ Upto(ss, n) = ss /\ \A k \in 1 .. i : Upto(ss, i)[k] = ss[k]
  BY DEF Rows, Upto

\* What is joined up to i is the front joined.
LEMMA FlatOfUpto ==
    ASSUME NEW ss, NEW n, NEW S, Rows(ss, n, S), NEW i \in 1 .. n
    PROVE  \A k \in 1 .. i : Flat(Upto(ss, i))[k] = Flat(ss)[k]
<1> DEFINE c == Flat(ss)
           d == Flat(Upto(ss, i))
           T == {k \in 0 .. i : k # 0 => d[k] = c[k]}
<1>0. n \in Nat /\ Len(ss) = n /\ i \in 0 .. n /\ i \in Nat
  BY RowsLen
<1>1. \A k \in 1 .. n : c[k] = IF k = 1 THEN ss[k] ELSE c[k - 1] \o ss[k]
  BY <1>0, FlatIs
<1>2. Rows(Upto(ss, i), i, S) /\ \A k \in 1 .. i : Upto(ss, i)[k] = ss[k]
  BY <1>0, UptoIs
<1>3. \A k \in 1 .. i : d[k] = IF k = 1 THEN Upto(ss, i)[k] ELSE d[k - 1] \o Upto(ss, i)[k]
  <2>1. Len(Upto(ss, i)) = i
    BY <1>2, RowsLen
  <2> QED
    BY <1>0, <2>1, FlatIs
<1> HIDE DEF c, d
<1>4. 0 \in T
  BY <1>0
<1>5. ASSUME NEW k \in 0 + 1 .. i, k - 1 \in T PROVE k \in T
  <2>1. k \in 1 .. i /\ k \in 0 .. i /\ k \in 1 .. n /\ (k # 1 => k - 1 # 0)
    BY <1>0
  <2> QED
    BY <1>1, <1>2, <1>3, <1>5, <2>1
<1> HIDE DEF T
<1>6. 0 .. i \subseteq T
  BY <1>0, <1>4, <1>5, RangeInd
<1> QED
  BY <1>0, <1>6 DEF T, c, d

\* One sequence more is one more to join.
LEMMA FlattenOneMore ==
    ASSUME NEW ss, NEW n, NEW S, Rows(ss, n, S), n # 0
    PROVE  FlattenSeq(ss) = FlattenSeq(Upto(ss, n - 1)) \o ss[n]
<1>0. n \in Nat /\ Len(ss) = n /\ n - 1 \in 0 .. n /\ n - 1 \in Nat /\ n \in 1 .. n
  BY RowsLen
<1>1. Rows(Upto(ss, n - 1), n - 1, S)
  BY <1>0, UptoIs
<1>2. Len(Upto(ss, n - 1)) = n - 1
  BY <1>1, RowsLen
<1>3. FlattenSeq(ss) = Flat(ss)[n]
  BY <1>0, FlattenIs
<1>4. Flat(ss)[n] = IF n = 1 THEN ss[n] ELSE Flat(ss)[n - 1] \o ss[n]
  BY <1>0, FlatIs
<1>5. CASE n = 1
  <2>1. FlattenSeq(Upto(ss, n - 1)) = Upto(ss, n - 1)
    BY <1>2, <1>5, FlattenIs
  <2>2. Upto(ss, n - 1) = <<>>
    BY <1>5 DEF Upto
  <2>3. ss[n] \in Seq(S)
    BY <1>0 DEF Rows
  <2>4. <<>> \o ss[n] = ss[n]
    BY <2>3
  <2> QED
    BY <1>3, <1>4, <1>5, <2>1, <2>2, <2>4
<1>6. CASE n # 1
  <2>1. FlattenSeq(Upto(ss, n - 1)) = Flat(Upto(ss, n - 1))[n - 1]
    BY <1>0, <1>2, <1>6, FlattenIs
  <2>2. n - 1 \in 1 .. n /\ n - 1 \in 1 .. n - 1
    BY <1>0, <1>6
  <2>3. Flat(Upto(ss, n - 1))[n - 1] = Flat(ss)[n - 1]
    BY <2>2, FlatOfUpto
  <2> QED
    BY <1>3, <1>4, <1>6, <2>1, <2>3
<1> QED
  BY <1>5, <1>6


\* The places of the joined sequences, in order.
Places(ss, n) == {p \in (1 .. n) \X Nat : p[2] \in 1 .. Len(ss[p[1]])}
Before(p, q) == p[1] < q[1] \/ (p[1] = q[1] /\ p[2] < q[2])

\* c says which place each element comes from.
Orders(c, f, ss, n) ==
    /\ c \in [1 .. Len(f) -> Places(ss, n)]
    /\ \A p \in Places(ss, n) : \E x \in 1 .. Len(f) : c[x] = p
    /\ \A x, y \in 1 .. Len(f) : x < y => Before(c[x], c[y])
    /\ \A x \in 1 .. Len(f) : f[x] = ss[c[x][1]][c[x][2]]

LEMMA PlaceIs ==
    ASSUME NEW ss, NEW n \in Nat, NEW p
    PROVE  p \in Places(ss, n) <=> /\ p = <<p[1], p[2]>> /\ p[1] \in 1 .. n
                                   /\ p[2] \in Nat /\ p[2] \in 1 .. Len(ss[p[1]])
  BY DEF Places


\* One sequence more adds its places at the end.
LEMMA OneMoreOrders ==
    ASSUME NEW ss, NEW n, NEW S, Rows(ss, n, S), NEW m \in 1 .. n,
           NEW g \in Seq(S), NEW c, Orders(c, g, ss, m - 1)
    PROVE  \E d : Orders(d, g \o ss[m], ss, m)
<1> DEFINE f == g \o ss[m]
           d == [x \in 1 .. Len(f) |-> IF x <= Len(g) THEN c[x] ELSE <<m, x - Len(g)>>]
<1>0. /\ m \in Nat /\ m - 1 \in Nat /\ ss[m] \in Seq(S) /\ Len(g) \in Nat /\ Len(ss[m]) \in Nat
      /\ n \in Nat
  BY DEF Rows
<1>1. /\ Len(f) = Len(g) + Len(ss[m])
      /\ \A x \in 1 .. Len(f) : f[x] = IF x <= Len(g) THEN g[x] ELSE ss[m][x - Len(g)]
  BY <1>0, ConcatProperties
<1>2. /\ \A x \in 1 .. Len(f) : x <= Len(g) => x \in 1 .. Len(g) /\ d[x] = c[x]
      /\ \A x \in 1 .. Len(f) : ~ (x <= Len(g)) => x - Len(g) \in 1 .. Len(ss[m]) /\ d[x] = <<m, x - Len(g)>>
      /\ \A x \in 1 .. Len(g) : x \in 1 .. Len(f) /\ x <= Len(g)
      /\ \A k \in 1 .. Len(ss[m]) : /\ k + Len(g) \in 1 .. Len(f) /\ ~ (k + Len(g) <= Len(g))
                                    /\ (k + Len(g)) - Len(g) = k
  BY <1>0, <1>1, SMTT(20)
<1>3. d = [x \in 1 .. Len(f) |-> d[x]]
  OBVIOUS
<1> HIDE DEF d, f
<1>4. \A x \in 1 .. Len(g) : c[x] \in Places(ss, m - 1) /\ g[x] = ss[c[x][1]][c[x][2]]
  BY DEF Orders
<1>5. \A p \in Places(ss, m - 1) : p \in Places(ss, m) /\ p[1] \in 1 .. m - 1 /\ p[1] < m
  <2> SUFFICES ASSUME NEW p \in Places(ss, m - 1)
               PROVE  p \in Places(ss, m) /\ p[1] \in 1 .. m - 1 /\ p[1] < m
    OBVIOUS
  <2>1. /\ p = <<p[1], p[2]>> /\ p[1] \in 1 .. m - 1
        /\ p[2] \in Nat /\ p[2] \in 1 .. Len(ss[p[1]])
    BY <1>0, PlaceIs
  <2>2. p[1] \in 1 .. m /\ p[1] < m
    BY <1>0, <2>1
  <2> QED
    BY <1>0, <2>1, <2>2, PlaceIs
<1>6. \A k \in 1 .. Len(ss[m]) : <<m, k>> \in Places(ss, m)
  <2> SUFFICES ASSUME NEW k \in 1 .. Len(ss[m]) PROVE <<m, k>> \in Places(ss, m)
    OBVIOUS
  <2>1. k \in Nat /\ m \in 1 .. m /\ <<m, k>>[1] = m /\ <<m, k>>[2] = k
    BY <1>0
  <2> QED
    BY <1>0, <2>1, PlaceIs
<1>7. ASSUME NEW x \in 1 .. Len(f) PROVE d[x] \in Places(ss, m)
  <2>1. CASE x <= Len(g)
    <3>1. x \in 1 .. Len(g) /\ d[x] = c[x]
      BY <1>2, <2>1
    <3>2. c[x] \in Places(ss, m - 1)
      BY <1>4, <3>1
    <3> QED
      BY <1>5, <3>1, <3>2
  <2>2. CASE ~ (x <= Len(g))
    <3>1. x - Len(g) \in 1 .. Len(ss[m]) /\ d[x] = <<m, x - Len(g)>>
      BY <1>2, <2>2
    <3> QED
      BY <1>6, <3>1
  <2> QED
    BY <2>1, <2>2
<1>8. ASSUME NEW p \in Places(ss, m) PROVE \E x \in 1 .. Len(f) : d[x] = p
  <2>1. p = <<p[1], p[2]>> /\ p[1] \in 1 .. m /\ p[2] \in Nat /\ p[2] \in 1 .. Len(ss[p[1]])
    BY <1>0, PlaceIs
  <2>2. CASE p[1] = m
    <3>1. p[2] + Len(g) \in 1 .. Len(f) /\ d[p[2] + Len(g)] = <<m, p[2]>>
      BY <1>2, <2>1, <2>2
    <3> QED
      BY <2>1, <2>2, <3>1
  <2>3. CASE p[1] # m
    <3>1. p[1] \in 1 .. m - 1
      BY <1>0, <2>1, <2>3
    <3>2. p \in Places(ss, m - 1)
      BY <1>0, <2>1, <3>1, PlaceIs
    <3>3. PICK x \in 1 .. Len(g) : c[x] = p
      BY <3>2 DEF Orders
    <3> QED
      BY <1>2, <3>3
  <2> QED
    BY <2>2, <2>3
<1>9. ASSUME NEW x \in 1 .. Len(f), NEW y \in 1 .. Len(f), x < y
      PROVE  Before(d[x], d[y])
  <2>1. CASE y <= Len(g)
    <3>1. x <= Len(g)
      BY <1>0, <1>9, <2>1
    <3>2. x \in 1 .. Len(g) /\ y \in 1 .. Len(g) /\ d[x] = c[x] /\ d[y] = c[y]
      BY <1>2, <2>1, <3>1
    <3>3. \A u, v \in 1 .. Len(g) : u < v => Before(c[u], c[v])
      BY DEF Orders
    <3> QED
      BY <1>9, <3>2, <3>3
  <2>2. CASE ~ (y <= Len(g)) /\ x <= Len(g)
    <3>1. d[y] = <<m, y - Len(g)>> /\ d[x] = c[x] /\ c[x][1] < m
      BY <1>2, <1>4, <1>5, <2>2
    <3>2. d[y][1] = m /\ d[x][1] < m
      BY <3>1
    <3> QED
      BY <3>2 DEF Before
  <2>3. CASE ~ (y <= Len(g)) /\ ~ (x <= Len(g))
    <3>1. d[y] = <<m, y - Len(g)>> /\ d[x] = <<m, x - Len(g)>>
      BY <1>2, <2>3
    <3>2. d[y][1] = m /\ d[x][1] = m /\ d[x][2] = x - Len(g) /\ d[y][2] = y - Len(g)
      BY <3>1
    <3>3. x - Len(g) < y - Len(g)
      BY <1>0, <1>9
    <3> QED
      BY <3>2, <3>3 DEF Before
  <2> QED
    BY <2>1, <2>2, <2>3
<1>10. ASSUME NEW x \in 1 .. Len(f) PROVE f[x] = ss[d[x][1]][d[x][2]]
  <2>1. CASE x <= Len(g)
    BY <1>1, <1>2, <1>4, <2>1
  <2>2. CASE ~ (x <= Len(g))
    <3>1. d[x] = <<m, x - Len(g)>> /\ f[x] = ss[m][x - Len(g)]
      BY <1>1, <1>2, <2>2
    <3>2. d[x][1] = m /\ d[x][2] = x - Len(g)
      BY <3>1
    <3> QED
      BY <3>1, <3>2
  <2> QED
    BY <2>1, <2>2
<1>11. d \in [1 .. Len(f) -> Places(ss, m)]
  BY <1>3, <1>7
<1>12. Orders(d, f, ss, m)
  BY <1>8, <1>9, <1>10, <1>11 DEF Orders
<1> QED
  BY <1>12 DEF f

\* The elements of the joined sequence come from all places, in order.
LEMMA FlattenOrders ==
    ASSUME NEW ss, NEW n, NEW S, Rows(ss, n, S)
    PROVE  \E c : Orders(c, FlattenSeq(ss), ss, n)
<1> DEFINE fl(m) == FlattenSeq(Upto(ss, m))
           T == {m \in 0 .. n : \E c : Orders(c, fl(m), ss, m)}
<1>0. n \in Nat /\ Len(ss) = n /\ Upto(ss, n) = ss
  BY RowsLen, UptoIs
<1>1. 0 \in T
  <2>1. Rows(Upto(ss, 0), 0, S)
    BY <1>0, UptoIs
  <2>2. Len(Upto(ss, 0)) = 0
    BY <2>1, RowsLen
  <2>3. fl(0) = Upto(ss, 0)
    BY <2>2, FlattenIs
  <2>4. \A p : p \notin Places(ss, 0)
    BY PlaceIs
  <2> DEFINE c == [x \in 1 .. 0 |-> x]
  <2>5. Orders(c, fl(0), ss, 0)
    BY <2>2, <2>3, <2>4 DEF Orders
  <2> HIDE DEF c, fl
  <2> QED
    BY <1>0, <2>5
<1>2. ASSUME NEW m \in 0 + 1 .. n, m - 1 \in T PROVE m \in T
  <2>1. PICK c : Orders(c, fl(m - 1), ss, m - 1)
    BY <1>2
  <2>2. m \in 1 .. n /\ m \in 0 .. n /\ m - 1 \in 0 .. n /\ m # 0 /\ m \in Nat /\ m \in 1 .. m
    BY <1>0
  <2>3. /\ Rows(Upto(ss, m), m, S) /\ Rows(Upto(ss, m - 1), m - 1, S)
        /\ \A k \in 1 .. m : Upto(ss, m)[k] = ss[k]
    BY <2>2, UptoIs
  <2>4. Upto(Upto(ss, m), m - 1) = Upto(ss, m - 1)
    <3>1. \A k \in 1 .. m - 1 : k \in 1 .. m
      BY <2>2
    <3> QED
      BY <2>3, <3>1 DEF Upto
  <2>5. fl(m) = FlattenSeq(Upto(Upto(ss, m), m - 1)) \o Upto(ss, m)[m]
    BY <2>2, <2>3, FlattenOneMore
  <2>6. fl(m) = fl(m - 1) \o ss[m]
    BY <2>2, <2>3, <2>4, <2>5
  <2>7. fl(m - 1) \in Seq(S)
    BY <2>3, FlattenInSeq
  <2> HIDE DEF fl
  <2>8. \E d : Orders(d, fl(m - 1) \o ss[m], ss, m)
    BY <2>1, <2>2, <2>7, OneMoreOrders
  <2> QED
    BY <2>2, <2>6, <2>8
<1>3. 0 .. n \subseteq T
  <2>1. 0 \in Int /\ n \in Int
    BY <1>0
  <2> HIDE DEF T
  <2> QED
    BY <2>1, <1>1, <1>2, RangeInd
<1>4. n \in 0 .. n
  BY <1>0
<1> QED
  BY <1>0, <1>3, <1>4


-----------------------------------------------------------------------------
(* Entries put over one another.                                           *)

IsPut(f, es) == f = [i \in 0 .. Len(es) |-> IF i = 0 THEN <<>> ELSE Over(es[i], f[i - 1])]
Put(es) == CHOOSE f : IsPut(f, es)

LEMMA PutAllIs ==
    ASSUME NEW es
    PROVE  PutAll(es) = Put(es)[Len(es)]
  BY Zenon DEF PutAll, Put, IsPut

\* What is there after each entry.
LEMMA PutIs ==
    ASSUME NEW n \in Nat, NEW es, Len(es) = n
    PROVE  /\ Put(es)[0] = <<>>
           /\ \A i \in 1 .. n : Put(es)[i] = Over(es[i], Put(es)[i - 1])
<1> DEFINE T == {m \in 0 .. n : \E f : f = [i \in 0 .. m |-> IF i = 0 THEN <<>> ELSE Over(es[i], f[i - 1])]}
<1>1. 0 \in T
  <2> DEFINE e == [i \in 0 .. 0 |-> <<>>]
  <2>1. \A i \in 0 .. 0 : i = 0
    OBVIOUS
  <2>2. e = [i \in 0 .. 0 |-> IF i = 0 THEN <<>> ELSE Over(es[i], e[i - 1])]
    BY <2>1
  <2> HIDE DEF e
  <2>3. \E f : f = [i \in 0 .. 0 |-> IF i = 0 THEN <<>> ELSE Over(es[i], f[i - 1])]
    BY <2>2
  <2>4. 0 \in 0 .. n
    OBVIOUS
  <2> QED
    BY <2>3, <2>4
<1>2. ASSUME NEW m \in 0 + 1 .. n, m - 1 \in T PROVE m \in T
  <2>1. PICK f : f = [i \in 0 .. m - 1 |-> IF i = 0 THEN <<>> ELSE Over(es[i], f[i - 1])]
    BY <1>2
  <2> DEFINE g == [i \in 0 .. m |-> IF i = m THEN Over(es[m], f[m - 1]) ELSE f[i]]
  <2>2. \A i \in 0 .. m : i = m \/ (i \in 0 .. m - 1 /\ i # m)
    OBVIOUS
  <2>3. \A i \in 0 .. m : i # 0 => i - 1 \in 0 .. m - 1 /\ i - 1 \in 0 .. m /\ i - 1 # m
    OBVIOUS
  <2>4. g[m] = Over(es[m], f[m - 1]) /\ m \in 0 .. m /\ m # 0
        /\ \A i \in 0 .. m : i # m => g[i] = f[i]
    OBVIOUS
  <2>5. g = [i \in 0 .. m |-> g[i]]
    OBVIOUS
  <2> HIDE DEF g
  <2>6. \A i \in 0 .. m - 1 : f[i] = IF i = 0 THEN <<>> ELSE Over(es[i], f[i - 1])
    BY <2>1, Zenon
  <2>7. ASSUME NEW i \in 0 .. m PROVE g[i] = IF i = 0 THEN <<>> ELSE Over(es[i], g[i - 1])
    <3>1. i # 0 => g[i - 1] = f[i - 1]
      BY <2>3, <2>4
    <3>2. CASE i = m
      BY <2>4, <3>1, <3>2
    <3>3. CASE i # m
      <4>1. i \in 0 .. m - 1 /\ g[i] = f[i]
        BY <2>2, <2>4, <3>3
      <4> QED
        BY <2>6, <3>1, <4>1
    <3> QED
      BY <3>2, <3>3
  <2>8. g = [i \in 0 .. m |-> IF i = 0 THEN <<>> ELSE Over(es[i], g[i - 1])]
    BY <2>5, <2>7
  <2>9. m \in 0 .. n
    OBVIOUS
  <2> QED
    BY <2>8, <2>9
<1> HIDE DEF T
<1>3. 0 .. n \subseteq T
  BY <1>1, <1>2, RangeInd
<1>4. \E f : f = [i \in 0 .. n |-> IF i = 0 THEN <<>> ELSE Over(es[i], f[i - 1])]
  <2>1. n \in 0 .. n
    OBVIOUS
  <2> QED
    BY <1>3, <2>1 DEF T
<1>5. IsPut(Put(es), es)
  BY <1>4, Zenon DEF Put, IsPut
<1> DEFINE c == Put(es)
<1> HIDE DEF c
<1>6. c = [i \in 0 .. n |-> IF i = 0 THEN <<>> ELSE Over(es[i], c[i - 1])]
  BY <1>5 DEF IsPut, c
<1>7. \A i \in 0 .. n : c[i] = IF i = 0 THEN <<>> ELSE Over(es[i], c[i - 1])
  BY <1>6, Zenon
<1>8. 0 \in 0 .. n /\ \A i \in 1 .. n : i \in 0 .. n /\ i # 0
  OBVIOUS
<1>9. c[0] = <<>> /\ \A i \in 1 .. n : c[i] = Over(es[i], c[i - 1])
  BY <1>7, <1>8
<1> QED
  BY <1>9 DEF c

\* After the entries up to m: what the last of them says of each key.
LastUpTo(f, es, m) ==
    /\ DOMAIN f = UNION {DOMAIN es[i] : i \in 1 .. m}
    /\ \A i \in 1 .. m : \A k \in DOMAIN es[i] :
         (\A j \in 1 .. m : i < j => k \notin DOMAIN es[j]) => f[k] = es[i][k]

\* The last entry with a key is kept.
LEMMA PutAllKeepsLast ==
    ASSUME NEW n \in Nat, NEW es, Len(es) = n
    PROVE  LastUpTo(PutAll(es), es, n)
<1> DEFINE c == Put(es)
           T == {m \in 0 .. n : LastUpTo(c[m], es, m)}
<1>0. c[0] = <<>> /\ \A i \in 1 .. n : c[i] = Over(es[i], c[i - 1])
  BY PutIs
<1> HIDE DEF c
<1>1. 0 \in T
  <2>1. DOMAIN <<>> = {} /\ 0 \in 0 .. n
    OBVIOUS
  <2>2. LastUpTo(<<>>, es, 0)
    BY <2>1 DEF LastUpTo
  <2> QED
    BY <1>0, <2>1, <2>2
<1>2. ASSUME NEW m \in 0 + 1 .. n, m - 1 \in T PROVE m \in T
  <2> DEFINE f == c[m - 1]
             g == c[m]
  <2>1. m \in 1 .. n /\ m \in 0 .. n /\ m \in 1 .. m
    OBVIOUS
  <2>2. /\ DOMAIN f = UNION {DOMAIN es[i] : i \in 1 .. m - 1}
        /\ \A i \in 1 .. m - 1 : \A k \in DOMAIN es[i] :
             (\A j \in 1 .. m - 1 : i < j => k \notin DOMAIN es[j]) => f[k] = es[i][k]
    BY <1>2 DEF LastUpTo
  <2>3. g = Over(es[m], f)
    BY <1>0, <2>1
  <2> HIDE DEF f, g
  <2>4. /\ DOMAIN g = DOMAIN es[m] \cup DOMAIN f
        /\ \A k \in DOMAIN es[m] : g[k] = es[m][k]
        /\ \A k \in DOMAIN f : k \notin DOMAIN es[m] => g[k] = f[k]
    BY <2>3 DEF Over
  <2>5. \A i : i \in 1 .. m <=> i = m \/ i \in 1 .. m - 1
    BY <2>1
  <2>6. DOMAIN g = UNION {DOMAIN es[i] : i \in 1 .. m}
    BY <2>2, <2>4, <2>5
  <2>7. ASSUME NEW i \in 1 .. m, NEW k \in DOMAIN es[i], \A j \in 1 .. m : i < j => k \notin DOMAIN es[j]
        PROVE  g[k] = es[i][k]
    <3>1. CASE i = m
      BY <2>4, <3>1
    <3>2. CASE i \in 1 .. m - 1
      <4>1. k \notin DOMAIN es[m]
        BY <2>1, <2>7, <3>2
      <4>2. \A j \in 1 .. m - 1 : i < j => k \notin DOMAIN es[j]
        BY <2>5, <2>7
      <4>3. f[k] = es[i][k] /\ k \in DOMAIN f
        BY <2>2, <3>2, <4>2
      <4> QED
        BY <2>4, <4>1, <4>3
    <3> QED
      BY <2>5, <3>1, <3>2
  <2>8. LastUpTo(g, es, m)
    BY <2>6, <2>7 DEF LastUpTo
  <2> QED
    BY <2>1, <2>8 DEF g
<1>3. 0 .. n \subseteq T
  <2> HIDE DEF T
  <2> QED
    BY <1>1, <1>2, RangeInd
<1>4. n \in 0 .. n
  OBVIOUS
<1>5. PutAll(es) = c[n]
  BY PutAllIs DEF c
<1> QED
  BY <1>3, <1>4, <1>5

\* Entries made of the elements of joined sequences: what the last place with
\* a key says of it.
Entries(fl, en) == [x \in 1 .. Len(fl) |-> en[fl[x]]]
LastOf(g, ss, n, en) ==
    /\ \A k : k \in DOMAIN g <=> \E p \in Places(ss, n) : k \in DOMAIN en[ss[p[1]][p[2]]]
    /\ \A k \in DOMAIN g : \E p \in Places(ss, n) :
         /\ k \in DOMAIN en[ss[p[1]][p[2]]]
         /\ \A q \in Places(ss, n) : Before(p, q) => k \notin DOMAIN en[ss[q[1]][q[2]]]
         /\ g[k] = en[ss[p[1]][p[2]]][k]

LEMMA PutAllOfFlat ==
    ASSUME NEW ss, NEW n, NEW S, Rows(ss, n, S), NEW en
    PROVE  LastOf(PutAll(Entries(FlattenSeq(ss), en)), ss, n, en)
<1> DEFINE es == Entries(FlattenSeq(ss), en)
<1> DEFINE fl == FlattenSeq(ss)
           E(p) == en[ss[p[1]][p[2]]]
           N == Len(fl)
<1>1. fl \in Seq(S) /\ N \in Nat
  BY FlattenInSeq
<1>2. PICK c : Orders(c, fl, ss, n)
  BY FlattenOrders
<1>3. es = [x \in 1 .. N |-> en[fl[x]]]
  BY DEF Entries
<1> HIDE DEF fl, es
<1>4. \A x \in 1 .. N : es[x] = en[fl[x]]
  BY <1>3, Zenon
<1>5. Len(es) = N
  BY <1>1, <1>3
<1>6. LastUpTo(PutAll(es), es, N)
  BY <1>1, <1>5, PutAllKeepsLast
<1> HIDE DEF N
<1>7. /\ \A x \in 1 .. N : c[x] \in Places(ss, n) /\ es[x] = E(c[x])
      /\ \A p \in Places(ss, n) : \E x \in 1 .. N : c[x] = p
      /\ \A x, y \in 1 .. N : x < y => Before(c[x], c[y])
  <2>1. /\ c \in [1 .. N -> Places(ss, n)]
        /\ \A p \in Places(ss, n) : \E x \in 1 .. N : c[x] = p
        /\ \A x, y \in 1 .. N : x < y => Before(c[x], c[y])
        /\ \A x \in 1 .. N : fl[x] = ss[c[x][1]][c[x][2]]
    BY <1>2 DEF Orders, N
  <2> QED
    BY <1>4, <2>1
<1> HIDE DEF E
<1>8. ASSUME NEW k PROVE k \in DOMAIN PutAll(es) <=> \E p \in Places(ss, n) : k \in DOMAIN E(p)
  <2>1. k \in DOMAIN PutAll(es) <=> \E x \in 1 .. N : k \in DOMAIN es[x]
    BY <1>6 DEF LastUpTo
  <2>2. ASSUME NEW x \in 1 .. N, k \in DOMAIN es[x]
        PROVE  \E p \in Places(ss, n) : k \in DOMAIN E(p)
    BY <1>7, <2>2
  <2>3. ASSUME NEW p \in Places(ss, n), k \in DOMAIN E(p)
        PROVE  \E x \in 1 .. N : k \in DOMAIN es[x]
    <3>1. PICK x \in 1 .. N : c[x] = p
      BY <1>7
    <3> QED
      BY <1>7, <2>3, <3>1
  <2> QED
    BY <2>1, <2>2, <2>3
<1>9. ASSUME NEW p \in Places(ss, n), NEW k \in DOMAIN E(p),
             \A q \in Places(ss, n) : Before(p, q) => k \notin DOMAIN E(q)
      PROVE  PutAll(es)[k] = E(p)[k]
  <2>1. PICK x \in 1 .. N : c[x] = p
    BY <1>7
  <2>2. \A y \in 1 .. N : x < y => k \notin DOMAIN es[y]
    BY <1>7, <1>9, <2>1
  <2>3. k \in DOMAIN es[x]
    BY <1>7, <2>1
  <2>4. PutAll(es)[k] = es[x][k]
    BY <1>6, <2>2, <2>3 DEF LastUpTo
  <2> QED
    BY <1>7, <2>1, <2>4
<1>10. ASSUME NEW k \in DOMAIN PutAll(es)
       PROVE  \E p \in Places(ss, n) : /\ k \in DOMAIN E(p)
                                       /\ \A q \in Places(ss, n) : Before(p, q) => k \notin DOMAIN E(q)
                                       /\ PutAll(es)[k] = E(p)[k]
  <2> DEFINE T == {x \in 1 .. N : k \in DOMAIN es[x]}
             m == Max(T)
  <2>1. T # {} /\ T \subseteq 0 .. N
    <3>1. \E x \in 1 .. N : k \in DOMAIN es[x]
      BY <1>6 DEF LastUpTo
    <3>2. T # {}
      BY <3>1
    <3>3. N \in Nat
      BY <1>1
    <3>4. T \subseteq 0 .. N
      BY <3>3
    <3> QED
      BY <3>2, <3>4
  <2>2. m \in T /\ \A y \in T : y <= m
    BY <1>1, <2>1, MaxFacts
  <2> HIDE DEF m
  <2>3. m \in 1 .. N /\ k \in DOMAIN E(c[m]) /\ c[m] \in Places(ss, n)
    BY <1>7, <2>2
  <2>4. ASSUME NEW q \in Places(ss, n), Before(c[m], q), k \in DOMAIN E(q) PROVE FALSE
    <3>1. PICK y \in 1 .. N : c[y] = q
      BY <1>7
    <3>2. y \in T
      BY <1>7, <2>4, <3>1
    <3>3. y = m \/ y < m
      BY <1>1, <2>2, <2>3, <3>1, <3>2
    <3>4. y < m => Before(q, c[m])
      BY <1>7, <2>3, <3>1
    <3>5. /\ c[m][1] \in Int /\ c[m][2] \in Int /\ q[1] \in Int /\ q[2] \in Int
      <4>1. n \in Nat
        BY RowsLen
      <4>2. /\ c[m][1] \in 1 .. n /\ c[m][2] \in Nat /\ q[1] \in 1 .. n /\ q[2] \in Nat
        BY <2>3, <4>1, PlaceIs
      <4> QED
        BY <4>1, <4>2
    <3> QED
      BY <2>4, <3>1, <3>3, <3>4, <3>5 DEF Before
  <2> QED
    BY <1>9, <2>3, <2>4
<1> QED
  BY <1>8, <1>10 DEF E, LastOf, es


-----------------------------------------------------------------------------
(* The elements of a file.                                                 *)

\* A sequence of sequences of anything, joined, has what they have.
AllOf(ss, n) == UNION {ToSet(ss[i]) : i \in 1 .. n}

LEMMA SeqOfItsOwn ==
    ASSUME NEW m \in Nat, NEW s, s = [i \in 1 .. m |-> s[i]]
    PROVE  s \in Seq(ToSet(s)) /\ Len(s) = m /\ DOMAIN s = 1 .. m
<1>1. DOMAIN s = 1 .. m
  OBVIOUS
<1>2. \A i \in 1 .. m : s[i] \in ToSet(s)
  BY <1>1 DEF ToSet
<1> QED
  BY <1>1, <1>2

IsSeq(s) == s \in Seq(ToSet(s))
Joinable(ss, n) == n \in Nat /\ ss = [i \in 1 .. n |-> ss[i]] /\ \A i \in 1 .. n : IsSeq(ss[i])
ComesFrom(f, ss, n) == \A x \in DOMAIN f : \E i \in 1 .. n : \E k \in DOMAIN ss[i] : f[x] = ss[i][k]

LEMMA RowsOfOwn ==
    ASSUME NEW n, NEW ss, Joinable(ss, n)
    PROVE  Rows(ss, n, AllOf(ss, n))
<1>1. ASSUME NEW i \in 1 .. n PROVE ss[i] \in Seq(AllOf(ss, n))
  <2>1. ToSet(ss[i]) \subseteq AllOf(ss, n)
    BY DEF AllOf
  <2>2. ss[i] \in Seq(ToSet(ss[i]))
    BY DEF Joinable, IsSeq
  <2> QED
    BY <2>1, <2>2
<1> QED
  BY <1>1 DEF Rows, Joinable

LEMMA FlattenHas ==
    ASSUME NEW n, NEW ss, Joinable(ss, n)
    PROVE  IsSeq(FlattenSeq(ss)) /\ ComesFrom(FlattenSeq(ss), ss, n)
<1> DEFINE fl == FlattenSeq(ss)
<1>1. Rows(ss, n, AllOf(ss, n)) /\ n \in Nat
  BY RowsOfOwn DEF Joinable
<1>2. fl \in Seq(AllOf(ss, n))
  BY <1>1, FlattenInSeq
<1>3. PICK c : Orders(c, fl, ss, n)
  BY <1>1, FlattenOrders
<1> HIDE DEF fl
<1>4. Len(fl) \in Nat /\ DOMAIN fl = 1 .. Len(fl) /\ fl = [x \in 1 .. Len(fl) |-> fl[x]]
  BY <1>2
<1>5. fl \in Seq(ToSet(fl))
  BY <1>4, SeqOfItsOwn
<1>6. ASSUME NEW x \in DOMAIN fl
      PROVE  \E i \in 1 .. n : \E k \in DOMAIN ss[i] : fl[x] = ss[i][k]
  <2>1. c[x] \in Places(ss, n) /\ fl[x] = ss[c[x][1]][c[x][2]]
    BY <1>3, <1>4 DEF Orders
  <2>2. c[x][1] \in 1 .. n /\ c[x][2] \in 1 .. Len(ss[c[x][1]])
    BY <1>1, <2>1, PlaceIs
  <2>3. DOMAIN ss[c[x][1]] = 1 .. Len(ss[c[x][1]])
    BY <2>2 DEF Joinable, IsSeq
  <2> QED
    BY <2>1, <2>2, <2>3
<1> QED
  BY <1>5, <1>6 DEF fl, IsSeq, ComesFrom

\* A set of one at most, as a sequence.
LEMMA SetToSeqOfOne ==
    ASSUME NEW S, \A x, y \in S : x = y
    PROVE  SetToSeq(S) \in Seq(S)
<1>1. \E f : f \in [1 .. Cardinality(S) -> S] /\ IsInjective(f) /\ Cardinality(S) \in Nat
  <2>1. CASE S = {}
    <3>1. Cardinality(S) = 0
      BY <2>1, FS_EmptySet
    <3> DEFINE f == [i \in 1 .. 0 |-> i]
    <3>2. f \in [1 .. 0 -> S] /\ IsInjective(f)
      BY <2>1 DEF IsInjective
    <3> HIDE DEF f
    <3>3. f \in [1 .. Cardinality(S) -> S] /\ Cardinality(S) \in Nat
      BY <3>1, <3>2
    <3> QED
      BY <3>2, <3>3
  <2>2. CASE S # {}
    <3>1. PICK x : S = {x}
      BY <2>2
    <3>2. Cardinality(S) = 1
      BY <3>1, FS_Singleton
    <3> DEFINE f == [i \in 1 .. 1 |-> x]
    <3>3. f \in [1 .. 1 -> S]
      BY <3>1
    <3>4. \A i, j \in 1 .. 1 : i = j
      OBVIOUS
    <3>5. IsInjective(f)
      BY <3>4 DEF IsInjective
    <3> HIDE DEF f
    <3> QED
      BY <3>2, <3>3, <3>5
  <2> QED
    BY <2>1, <2>2
<1>2. SetToSeq(S) \in [1 .. Cardinality(S) -> S] /\ Cardinality(S) \in Nat
  BY <1>1, Zenon DEF SetToSeq
<1> QED
  BY <1>2

LEMMA InOwnSeq ==
    ASSUME NEW S, NEW s \in Seq(S)
    PROVE  s \in Seq(ToSet(s)) /\ Len(s) \in Nat /\ DOMAIN s = 1 .. Len(s) /\ s = [i \in 1 .. Len(s) |-> s[i]]
<1>1. Len(s) \in Nat /\ DOMAIN s = 1 .. Len(s) /\ s = [i \in 1 .. Len(s) |-> s[i]]
  OBVIOUS
<1> QED
  BY <1>1, SeqOfItsOwn

\* Running sums of integers are integers.
LEMMA SumsIs ==
    ASSUME NEW deltas \in Seq(Int)
    PROVE  Sums(deltas) \in Seq(Int)
<1> DEFINE n == Len(deltas)
           V == [k \in 0 .. n |-> Int]
           G == [k \in 1 .. n |-> [v \in Int |-> v + deltas[k]]]
           IsSum(f) == f = [i \in 0 .. n |-> IF i = 0 THEN 0 ELSE f[i - 1] + deltas[i]]
           c == CHOOSE f : IsSum(f)
<1>1. n \in Nat /\ DOMAIN deltas = 1 .. n /\ \A k \in 1 .. n : deltas[k] \in Int
  OBVIOUS
<1>2. Sums(deltas) = [i \in DOMAIN deltas |-> c[i]]
  BY Zenon DEF Sums
<1>3. \A k \in 1 .. n : k \in 0 .. n /\ k - 1 \in 0 .. n /\ k # 0
  BY <1>1
<1>4. \A k \in 0 .. n : V[k] = Int
  OBVIOUS
<1>5. \A k \in 1 .. n : \A v \in Int : G[k][v] = v + deltas[k]
  OBVIOUS
<1> HIDE DEF n, V, G, c
<1>6. 0 \in V[0]
  <2>1. 0 \in 0 .. n
    BY <1>1
  <2> QED
    BY <1>4, <2>1
<1>7. Leads(G, V, 0, n)
  <2>1. ASSUME NEW k \in 0 + 1 .. n, NEW v \in V[k - 1] PROVE G[k][v] \in V[k]
    <3>1. k \in 1 .. n
      BY <1>1
    <3>2. v \in Int /\ V[k] = Int /\ deltas[k] \in Int
      BY <1>1, <1>3, <1>4, <3>1
    <3>3. G[k][v] = v + deltas[k]
      BY <1>5, <3>1, <3>2
    <3> QED
      BY <3>2, <3>3
  <2> QED
    BY <2>1 DEF Leads
<1>8. PICK f : Unrolls(f, 0, G, V, 0, n)
  <2>1. 0 \in Int /\ n \in Int /\ 0 <= n
    BY <1>1
  <2> QED
    BY <1>6, <1>7, <2>1, RecursiveFunction
<1>9. \A k \in 0 .. n : f[k] = IF k = 0 THEN 0 ELSE f[k - 1] + deltas[k]
  <2> SUFFICES ASSUME NEW k \in 0 .. n PROVE f[k] = IF k = 0 THEN 0 ELSE f[k - 1] + deltas[k]
    OBVIOUS
  <2>1. CASE k = 0
    BY <1>8, <2>1 DEF Unrolls
  <2>2. CASE k # 0
    <3>1. k \in 0 + 1 .. n /\ k \in 1 .. n
      BY <1>1, <2>2
    <3>2. f[k] = G[k][f[k - 1]]
      BY <1>8, <3>1 DEF Unrolls
    <3>3. f[k - 1] \in Int
      BY <1>3, <1>4, <1>8, <3>1 DEF Unrolls
    <3> QED
      BY <1>5, <2>2, <3>1, <3>2, <3>3
  <2> QED
    BY <2>1, <2>2
<1>10. IsSum(f)
  <2>1. f = [k \in 0 .. n |-> f[k]]
    BY <1>8 DEF Unrolls
  <2> QED
    BY <1>9, <2>1
<1>11. IsSum(c)
  BY <1>10, Zenon DEF c
<1>12. \A k \in 0 .. n : c[k] = IF k = 0 THEN 0 ELSE c[k - 1] + deltas[k]
  BY <1>11, Zenon
<1> DEFINE T == {k \in 0 .. n : c[k] \in Int}
<1>13. 0 \in T
  BY <1>1, <1>12
<1>14. ASSUME NEW k \in 0 + 1 .. n, k - 1 \in T PROVE k \in T
  <2>1. k \in 1 .. n
    BY <1>1
  <2>2. k \in 0 .. n /\ c[k] = c[k - 1] + deltas[k]
    BY <1>3, <1>12, <2>1
  <2>3. c[k - 1] \in Int /\ deltas[k] \in Int
    BY <1>1, <1>14, <2>1
  <2> QED
    BY <2>2, <2>3
<1>15. 0 .. n \subseteq T
  <2>1. 0 \in Int /\ n \in Int
    BY <1>1
  <2> HIDE DEF T
  <2> QED
    BY <1>13, <1>14, <2>1, RangeInd
<1>16. \A k \in 1 .. n : c[k] \in Int
  BY <1>3, <1>15
<1> QED
  BY <1>1, <1>2, <1>16


LEMMA ConcatHas ==
    ASSUME NEW s, NEW t, IsSeq(s), IsSeq(t)
    PROVE  /\ IsSeq(s \o t)
           /\ \A x \in DOMAIN (s \o t) :
                (\E i \in DOMAIN s : (s \o t)[x] = s[i]) \/ (\E i \in DOMAIN t : (s \o t)[x] = t[i])
<1> DEFINE S == ToSet(s) \cup ToSet(t)
           u == s \o t
<1>1. s \in Seq(S) /\ t \in Seq(S)
  BY DEF IsSeq
<1> HIDE DEF S
<1>2. /\ u \in Seq(S) /\ Len(u) = Len(s) + Len(t) /\ Len(s) \in Nat /\ Len(t) \in Nat
      /\ DOMAIN s = 1 .. Len(s) /\ DOMAIN t = 1 .. Len(t) /\ DOMAIN u = 1 .. Len(u)
      /\ \A i \in 1 .. Len(s) + Len(t) : u[i] = IF i <= Len(s) THEN s[i] ELSE t[i - Len(s)]
  BY <1>1, ConcatProperties
<1> HIDE DEF u
<1>3. IsSeq(u)
  BY <1>2, InOwnSeq DEF IsSeq
<1>4. ASSUME NEW x \in DOMAIN u
      PROVE  (\E i \in DOMAIN s : u[x] = s[i]) \/ (\E i \in DOMAIN t : u[x] = t[i])
  <2>1. x \in 1 .. Len(s) + Len(t)
    BY <1>2
  <2>2. CASE x <= Len(s)
    <3>1. x \in DOMAIN s /\ u[x] = s[x]
      BY <1>2, <2>1, <2>2
    <3> QED
      BY <3>1
  <2>3. CASE ~ (x <= Len(s))
    <3>1. x - Len(s) \in DOMAIN t /\ u[x] = t[x - Len(s)]
      BY <1>2, <2>1, <2>3
    <3> QED
      BY <3>1
  <2> QED
    BY <2>2, <2>3
<1> QED
  BY <1>3, <1>4 DEF u

\* What the parts of a file decode to.
ItemOK(it) == it.kind = "header" \/ (it.kind = "primitive" /\ IsBlock(it.block))
RawOK(r) ==
    \/ r.kind = "way" /\ r.raw.refs \in Seq(Int)
    \/ r.kind = "node" /\ r.raw.lon \in Int /\ r.raw.lat \in Int
    \/ r.kind = "relation"
    \/ r.kind = "dense" /\ {r.raw.id, r.raw.lon, r.raw.lat} \subseteq Seq(Int)
ElementOK(e) ==
    \/ e.kind = "node" /\ e.node.position \in Int \X Int
    \/ e.kind = "way" /\ e.refs \in Seq(Int)

LEMMA BlobsOf ==
    ASSUME NEW f \in Files
    PROVE  /\ IsSeq(Blobs(f))
           /\ \A i \in DOMAIN Blobs(f) : Blobs(f)[i].data = "zlib" => IsBlock(Blobs(f)[i].block)
<1> DEFINE bad == {i \in DOMAIN f : ~ f[i].header}
<1>1. f \in Seq(ToSet(f)) /\ \A i \in DOMAIN f : f[i].data = "zlib" => IsBlock(f[i].block)
  BY FilesAssumption
<1>2. CASE bad = {}
  <2>1. Blobs(f) = f
    BY <1>2 DEF Blobs
  <2> QED
    BY <1>1, <2>1 DEF IsSeq
<1>3. CASE bad # {}
  <2>1. bad \subseteq Nat /\ bad \subseteq 1 .. Len(f) /\ Len(f) \in Nat
    BY <1>1
  <2>2. Blobs(f) = SubSeq(f, 1, Min(bad) - 1)
    BY <1>3 DEF Blobs
  <2> DEFINE m == Min(bad) - 1
  <2>3. Min(bad) \in bad
    BY <1>3, <2>1, MinFacts
  <2>4. m \in 0 .. Len(f) /\ m \in Nat
    <3> DEFINE b == Min(bad)
    <3>1. b \in 1 .. Len(f)
      BY <2>1, <2>3, Zenon
    <3> HIDE DEF b
    <3>2. b - 1 \in 0 .. Len(f) /\ b - 1 \in Nat
      BY <2>1, <3>1
    <3> QED
      BY <3>2 DEF b
  <2> HIDE DEF bad
  <2> HIDE DEF m
  <2>5. 1 \in 1 .. Len(f) + 1 /\ m \in 1 - 1 .. Len(f) /\ (m - 1) + 1 = m
    BY <2>1, <2>4
  <2>6. /\ SubSeq(f, 1, m) \in Seq(ToSet(f)) /\ Len(SubSeq(f, 1, m)) = m
        /\ \A k \in 1 .. m : SubSeq(f, 1, m)[k] = f[(1 - 1) + k]
    BY <1>1, <2>5, SubSeqFacts
  <2>7. /\ IsSeq(SubSeq(f, 1, m)) /\ DOMAIN SubSeq(f, 1, m) = 1 .. m
    BY <2>6, InOwnSeq DEF IsSeq
  <2>8. \A k \in 1 .. m : k \in DOMAIN f /\ (1 - 1) + k = k
    BY <1>1, <2>1, <2>4
  <2> QED
    BY <1>1, <2>2, <2>6, <2>7, <2>8 DEF m
<1> QED
  BY <1>2, <1>3

LEMMA BlocksOf ==
    ASSUME NEW f \in Files
    PROVE  IsSeq(Blocks(f)) /\ \A i \in DOMAIN Blocks(f) : ItemOK(Blocks(f)[i])
<1> DEFINE blobs == Blobs(f)
           n == Len(blobs)
           ss == [i \in 1 .. n |-> SetToSeq(from_blob_item(blobs[i]))]
<1>1. /\ n \in Nat /\ DOMAIN blobs = 1 .. n
      /\ \A i \in 1 .. n : blobs[i].data = "zlib" => IsBlock(blobs[i].block)
  BY BlobsOf, InOwnSeq DEF IsSeq
<1>2. Blocks(f) = FlattenSeq(ss)
  BY <1>1 DEF Blocks
<1>3. ASSUME NEW i \in 1 .. n
      PROVE  /\ ss[i] \in Seq(from_blob_item(blobs[i]))
             /\ \A x \in from_blob_item(blobs[i]) : ItemOK(x)
  <2> DEFINE b == blobs[i]
  <2>1. b.data = "zlib" => IsBlock(b.block)
    BY <1>1
  <2>2. ss[i] = SetToSeq(from_blob_item(b))
    OBVIOUS
  <2> HIDE DEF b, ss, blobs, n
  <2>3. \A x \in from_blob_item(b) : ItemOK(x)
    BY <2>1 DEF from_blob_item, from_blob, ItemOK
  <2>4. \A x, y \in from_blob_item(b) : x = y
    BY DEF from_blob_item, from_blob
  <2>5. SetToSeq(from_blob_item(b)) \in Seq(from_blob_item(b))
    BY <2>4, SetToSeqOfOne
  <2> QED
    BY <2>2, <2>3, <2>5 DEF b
<1>4. ss = [i \in 1 .. n |-> ss[i]]
  OBVIOUS
<1> HIDE DEF blobs, n, ss
<1>5. ASSUME NEW i \in 1 .. n
      PROVE  IsSeq(ss[i]) /\ \A k \in DOMAIN ss[i] : ItemOK(ss[i][k])
  <2>1. ss[i] \in Seq(ToSet(ss[i]))
    BY <1>3, InOwnSeq
  <2>2. \A k \in DOMAIN ss[i] : ss[i][k] \in from_blob_item(blobs[i])
    BY <1>3
  <2> QED
    BY <1>3, <2>1, <2>2 DEF IsSeq
<1>6. Joinable(ss, n)
  BY <1>1, <1>4, <1>5 DEF Joinable
<1>7. IsSeq(FlattenSeq(ss)) /\ ComesFrom(FlattenSeq(ss), ss, n)
  BY <1>6, FlattenHas
<1> QED
  BY <1>2, <1>5, <1>7 DEF ComesFrom

\* A sequence made index by index.
LEMMA ListHas ==
    ASSUME NEW m \in Nat, NEW s, s = [i \in 1 .. m |-> s[i]]
    PROVE  IsSeq(s) /\ Len(s) = m /\ DOMAIN s = 1 .. m
  BY SeqOfItsOwn DEF IsSeq

LEMMA IsSeqHas ==
    ASSUME NEW s, IsSeq(s)
    PROVE  Len(s) \in Nat /\ DOMAIN s = 1 .. Len(s) /\ s = [i \in 1 .. Len(s) |-> s[i]]
  BY InOwnSeq DEF IsSeq

LEMMA GroupOf ==
    ASSUME NEW g, IsGroup(g)
    PROVE  IsSeq(from_group(g)) /\ \A i \in DOMAIN from_group(g) : RawOK(from_group(g)[i])
<1> DEFINE W == [i \in DOMAIN g.ways |-> [kind |-> "way", raw |-> g.ways[i]]]
           N == [i \in DOMAIN g.nodes |-> [kind |-> "node", raw |-> g.nodes[i]]]
           R == [i \in DOMAIN g.relations |-> [kind |-> "relation", raw |-> g.relations[i]]]
           D == SetToSeq({[kind |-> "dense", raw |-> d] : d \in g.dense})
<1>1. IsSeq(W) /\ \A i \in DOMAIN W : RawOK(W[i])
  <2>1. IsSeq(g.ways) /\ \A i \in DOMAIN g.ways : g.ways[i].refs \in Seq(Int)
    BY DEF IsGroup, IsSeq
  <2>2. W = [i \in 1 .. Len(g.ways) |-> W[i]] /\ Len(g.ways) \in Nat
    BY <2>1, IsSeqHas
  <2>3. IsSeq(W)
    <3> HIDE DEF W
    <3> QED
      BY <2>2, ListHas
  <2> QED
    BY <2>1, <2>3 DEF RawOK
<1>2. IsSeq(N) /\ \A i \in DOMAIN N : RawOK(N[i])
  <2>1. IsSeq(g.nodes) /\ \A i \in DOMAIN g.nodes : g.nodes[i].lon \in Int /\ g.nodes[i].lat \in Int
    BY DEF IsGroup, IsSeq
  <2>2. N = [i \in 1 .. Len(g.nodes) |-> N[i]] /\ Len(g.nodes) \in Nat
    BY <2>1, IsSeqHas
  <2>3. IsSeq(N)
    <3> HIDE DEF N
    <3> QED
      BY <2>2, ListHas
  <2> QED
    BY <2>1, <2>3 DEF RawOK
<1>3. IsSeq(R) /\ \A i \in DOMAIN R : RawOK(R[i])
  <2>1. IsSeq(g.relations)
    BY DEF IsGroup, IsSeq
  <2>2. R = [i \in 1 .. Len(g.relations) |-> R[i]] /\ Len(g.relations) \in Nat
    BY <2>1, IsSeqHas
  <2>3. IsSeq(R)
    <3> HIDE DEF R
    <3> QED
      BY <2>2, ListHas
  <2> QED
    BY <2>3 DEF RawOK
<1>4. IsSeq(D) /\ \A i \in DOMAIN D : RawOK(D[i])
  <2> DEFINE ds == {[kind |-> "dense", raw |-> d] : d \in g.dense}
  <2>1. \A d, e \in g.dense : d = e /\ {d.id, d.lon, d.lat} \subseteq Seq(Int)
    BY DEF IsGroup
  <2>2. \A x, y \in ds : x = y
    BY <2>1
  <2>3. \A x \in ds : RawOK(x)
    BY <2>1 DEF RawOK
  <2>4. D = SetToSeq(ds)
    OBVIOUS
  <2> HIDE DEF ds, D
  <2>5. D \in Seq(ds)
    BY <2>2, <2>4, SetToSeqOfOne
  <2>6. IsSeq(D) /\ \A i \in DOMAIN D : D[i] \in ds
    BY <2>5, InOwnSeq DEF IsSeq
  <2> QED
    BY <2>3, <2>6
<1>5. from_group(g) = ((W \o N) \o R) \o D
  BY DEF from_group
<1> HIDE DEF W, N, R, D
<1>6. IsSeq(W \o N) /\ \A i \in DOMAIN (W \o N) : RawOK((W \o N)[i])
  BY <1>1, <1>2, ConcatHas
<1> DEFINE X == W \o N
           Y == X \o R
<1> HIDE DEF X
<1>7. IsSeq(X) /\ \A i \in DOMAIN X : RawOK(X[i])
  BY <1>6 DEF X
<1>8. IsSeq(X \o R) /\ \A i \in DOMAIN (X \o R) : RawOK((X \o R)[i])
  BY <1>3, <1>7, ConcatHas
<1> HIDE DEF Y
<1>9. IsSeq(Y) /\ \A i \in DOMAIN Y : RawOK(Y[i])
  BY <1>8 DEF Y
<1>10. IsSeq(Y \o D) /\ \A i \in DOMAIN (Y \o D) : RawOK((Y \o D)[i])
  BY <1>4, <1>9, ConcatHas
<1> QED
  BY <1>5, <1>10 DEF X, Y

LEMMA DenseOf ==
    ASSUME NEW d, {d.id, d.lon, d.lat} \subseteq Seq(Int), NEW g \in Int
    PROVE  IsSeq(DenseNodes(d, g)) /\ \A i \in DOMAIN DenseNodes(d, g) : DenseNodes(d, g)[i].position \in Int \X Int
<1> DEFINE n == Least(Len(d.id), Least(Len(d.lon), Len(d.lat)))
           Column(c) == Sums(SubSeq(c, 1, n))
<1>1. /\ n \in Nat /\ n \in 0 .. Len(d.lon) /\ n \in 0 .. Len(d.lat)
      /\ d.lon \in Seq(Int) /\ d.lat \in Seq(Int)
      /\ Len(d.lon) \in Nat /\ Len(d.lat) \in Nat
  BY SMTT(20) DEF Least
<1>2. DenseNodes(d, g) = [i \in 1 .. n |-> Node(Column(d.id)[i], <<Column(d.lon)[i] * g, Column(d.lat)[i] * g>>)]
  BY DEF DenseNodes
<1> HIDE DEF n
<1>3. ASSUME NEW c \in Seq(Int), n \in 0 .. Len(c), Len(c) \in Nat
      PROVE  \A i \in 1 .. n : Column(c)[i] \in Int
  <2>1. 1 \in 1 .. Len(c) + 1 /\ n \in 1 - 1 .. Len(c) /\ (n - 1) + 1 = n
    BY <1>1, <1>3
  <2>2. SubSeq(c, 1, n) \in Seq(Int) /\ Len(SubSeq(c, 1, n)) = n
    BY <2>1, SubSeqFacts
  <2>3. Sums(SubSeq(c, 1, n)) \in Seq(Int)
    BY <2>2, SumsIs
  <2>4. DOMAIN Sums(SubSeq(c, 1, n)) = 1 .. n
    BY <1>1, <2>2 DEF Sums
  <2> DEFINE s == Sums(SubSeq(c, 1, n))
  <2> HIDE DEF s
  <2>5. s \in Seq(Int) /\ DOMAIN s = 1 .. n
    BY <2>3, <2>4 DEF s
  <2>6. DOMAIN s = 1 .. Len(s)
    BY <2>5, InOwnSeq
  <2>7. \A i \in 1 .. n : s[i] \in Int
    BY <2>5, <2>6, ElementIsIn
  <2> QED
    BY <2>7 DEF s
<1>4. (\A i \in 1 .. n : Column(d.lon)[i] \in Int) /\ (\A i \in 1 .. n : Column(d.lat)[i] \in Int)
  BY <1>1, <1>3
<1> HIDE DEF Column
<1> DEFINE ns == DenseNodes(d, g)
<1>5. ns = [i \in 1 .. n |-> ns[i]] /\ DOMAIN ns = 1 .. n
  BY <1>2
<1>6. ASSUME NEW i \in 1 .. n PROVE ns[i].position \in Int \X Int
  <2>1. ns[i].position = <<Column(d.lon)[i] * g, Column(d.lat)[i] * g>>
    BY <1>2 DEF Node
  <2> QED
    BY <1>4, <2>1, SMTT(40)
<1> HIDE DEF ns
<1>7. IsSeq(ns)
  BY <1>1, <1>5, ListHas
<1> QED
  BY <1>5, <1>6, <1>7 DEF ns

LEMMA RawOf ==
    ASSUME NEW r, RawOK(r), NEW b, b.granularity \subseteq Int
    PROVE  IsSeq(from_raw(r, b)) /\ \A i \in DOMAIN from_raw(r, b) : ElementOK(from_raw(r, b)[i])
<1> DEFINE gran == IF b.granularity = {} THEN 100 ELSE CHOOSE g \in b.granularity : TRUE
           AsNodes(s) == [i \in DOMAIN s |-> [kind |-> "node", node |-> s[i]]]
<1>1. gran \in Int
  OBVIOUS
<1> HIDE DEF gran
<1>2. ASSUME NEW s, IsSeq(s), \A i \in DOMAIN s : s[i].position \in Int \X Int
      PROVE  IsSeq(AsNodes(s)) /\ \A i \in DOMAIN AsNodes(s) : ElementOK(AsNodes(s)[i])
  <2> DEFINE t == AsNodes(s)
  <2>1. Len(s) \in Nat /\ DOMAIN s = 1 .. Len(s)
    BY <1>2, IsSeqHas
  <2>2. t = [i \in 1 .. Len(s) |-> t[i]]
    BY <2>1
  <2>3. \A i \in DOMAIN t : ElementOK(t[i])
    BY <1>2 DEF ElementOK
  <2> HIDE DEF t
  <2>4. IsSeq(t)
    BY <2>1, <2>2, ListHas
  <2> QED
    BY <2>3, <2>4 DEF t
<1>3. CASE r.kind = "way" /\ r.raw.refs \in Seq(Int)
  <2> DEFINE e == [kind |-> "way", id |-> r.raw.id, refs |-> references(r.raw), tags |-> from_block(r.raw, b)]
  <2>1. from_raw(r, b) = <<e>>
    BY <1>3 DEF from_raw
  <2>2. e.refs \in Seq(Int)
    BY <1>3, SumsIs DEF references
  <2>3. ElementOK(e)
    BY <2>2 DEF ElementOK
  <2> HIDE DEF e
  <2>4. <<e>> \in Seq({e}) /\ DOMAIN <<e>> = {1} /\ <<e>>[1] = e
    OBVIOUS
  <2> QED
    BY <2>1, <2>3, <2>4, InOwnSeq DEF IsSeq
<1>4. CASE r.kind = "node" /\ r.raw.lon \in Int /\ r.raw.lat \in Int
  <2> DEFINE e == PlainNode(r.raw)
  <2>1. from_raw(r, b) = AsNodes(<<e>>)
    BY <1>4 DEF from_raw
  <2>2. e.position \in Int \X Int
    BY <1>4, FilesAssumption DEF PlainNode, Node
  <2> HIDE DEF e
  <2>3. <<e>> \in Seq({e}) /\ DOMAIN <<e>> = {1} /\ <<e>>[1] = e
    OBVIOUS
  <2>4. IsSeq(<<e>>) /\ \A i \in DOMAIN <<e>> : <<e>>[i].position \in Int \X Int
    BY <2>2, <2>3, InOwnSeq DEF IsSeq
  <2> HIDE DEF AsNodes
  <2> QED
    BY <1>2, <2>1, <2>4
<1>5. CASE r.kind = "relation"
  <2>1. from_raw(r, b) = <<>>
    BY <1>5 DEF from_raw
  <2>2. <<>> \in Seq({}) /\ DOMAIN <<>> = {}
    OBVIOUS
  <2> QED
    BY <2>1, <2>2, InOwnSeq DEF IsSeq
<1>6. CASE r.kind = "dense" /\ {r.raw.id, r.raw.lon, r.raw.lat} \subseteq Seq(Int)
  <2>1. from_raw(r, b) = AsNodes(DenseNodes(r.raw, gran))
    BY <1>6 DEF from_raw, gran
  <2> HIDE DEF AsNodes
  <2> QED
    BY <1>1, <1>2, <1>6, <2>1, DenseOf
<1> QED
  BY <1>3, <1>4, <1>5, <1>6 DEF RawOK

\* Sequences whose elements are as they should, joined.
LEMMA BlockElementsOf ==
    ASSUME NEW it, ItemOK(it)
    PROVE  IsSeq(BlockElements(it)) /\ \A i \in DOMAIN BlockElements(it) : ElementOK(BlockElements(it)[i])
<1>1. CASE it.kind = "header"
  <2>1. BlockElements(it) = <<>>
    BY <1>1 DEF BlockElements
  <2>2. <<>> \in Seq({}) /\ DOMAIN <<>> = {}
    OBVIOUS
  <2> QED
    BY <2>1, <2>2, InOwnSeq DEF IsSeq
<1>2. CASE it.kind = "primitive" /\ IsBlock(it.block)
  <2> DEFINE b == it.block
             gs == [g \in DOMAIN b.groups |-> from_group(b.groups[g])]
             raw == FlattenSeq(gs)
             es == [i \in DOMAIN raw |-> from_raw(raw[i], b)]
  <2>1. BlockElements(it) = FlattenSeq(es)
    BY <1>2 DEF BlockElements
  <2>2. /\ b.granularity \subseteq Int /\ IsSeq(b.groups) /\ \A i \in DOMAIN b.groups : IsGroup(b.groups[i])
    BY <1>2 DEF IsBlock, IsSeq
  <2>3. Len(b.groups) \in Nat /\ DOMAIN b.groups = 1 .. Len(b.groups)
    BY <2>2, IsSeqHas
  <2>4. gs = [i \in 1 .. Len(b.groups) |-> gs[i]]
    BY <2>3
  <2>5. \A i \in 1 .. Len(b.groups) : IsSeq(gs[i]) /\ \A k \in DOMAIN gs[i] : RawOK(gs[i][k])
    BY <2>2, <2>3, GroupOf
  <2> HIDE DEF gs
  <2>6. Joinable(gs, Len(b.groups))
    BY <2>3, <2>4, <2>5 DEF Joinable
  <2>7. IsSeq(raw) /\ ComesFrom(raw, gs, Len(b.groups))
    BY <2>6, FlattenHas
  <2>8. \A x \in DOMAIN raw : RawOK(raw[x])
    BY <2>5, <2>7 DEF ComesFrom
  <2> HIDE DEF raw
  <2>9. Len(raw) \in Nat /\ DOMAIN raw = 1 .. Len(raw)
    BY <2>7, IsSeqHas
  <2>10. es = [i \in 1 .. Len(raw) |-> es[i]]
    BY <2>9
  <2>11. \A i \in 1 .. Len(raw) : IsSeq(es[i]) /\ \A k \in DOMAIN es[i] : ElementOK(es[i][k])
    BY <2>2, <2>8, <2>9, RawOf
  <2> HIDE DEF es
  <2>12. Joinable(es, Len(raw))
    BY <2>9, <2>10, <2>11 DEF Joinable
  <2>13. IsSeq(FlattenSeq(es)) /\ ComesFrom(FlattenSeq(es), es, Len(raw))
    BY <2>12, FlattenHas
  <2>14. \A x \in DOMAIN FlattenSeq(es) : ElementOK(FlattenSeq(es)[x])
    BY <2>11, <2>13 DEF ComesFrom
  <2> QED
    BY <2>1, <2>13, <2>14
<1> QED
  BY <1>1, <1>2 DEF ItemOK


\* A slot that waits for its element, and rows of them.
SlotOf(a, e) == a.todo = TRUE /\ a.element = e
SlotsOf(s, t) == Len(s) = Len(t) /\ \A k \in 1 .. Len(t) : SlotOf(s[k], t[k])

LEMMA ConcatSlots ==
    ASSUME NEW A, NEW B, NEW s \in Seq(A), NEW u \in Seq(A), NEW t \in Seq(B), NEW v \in Seq(B),
           SlotsOf(s, t), SlotsOf(u, v)
    PROVE  SlotsOf(s \o u, t \o v)
<1>1. /\ Len(s) = Len(t) /\ Len(u) = Len(v) /\ Len(t) \in Nat /\ Len(v) \in Nat
      /\ Len(s \o u) = Len(t) + Len(v) /\ Len(t \o v) = Len(t) + Len(v)
  <2>1. Len(s) = Len(t) /\ Len(u) = Len(v)
    BY DEF SlotsOf
  <2>2. Len(t) \in Nat /\ Len(v) \in Nat
    OBVIOUS
  <2>3. Len(s \o u) = Len(s) + Len(u) /\ Len(t \o v) = Len(t) + Len(v)
    BY ConcatProperties
  <2> QED
    BY <2>1, <2>2, <2>3
<1>2. \A k \in 1 .. Len(t) + Len(v) : /\ (s \o u)[k] = IF k <= Len(t) THEN s[k] ELSE u[k - Len(t)]
                                      /\ (t \o v)[k] = IF k <= Len(t) THEN t[k] ELSE v[k - Len(t)]
  BY <1>1, ConcatProperties
<1>3. ASSUME NEW k \in 1 .. Len(t) + Len(v) PROVE SlotOf((s \o u)[k], (t \o v)[k])
  <2>1. CASE k <= Len(t)
    <3>1. k \in 1 .. Len(t)
      BY <1>1, <2>1
    <3> QED
      BY <1>2, <2>1, <3>1 DEF SlotsOf
  <2>2. CASE ~ (k <= Len(t))
    <3>1. k - Len(t) \in 1 .. Len(v)
      BY <1>1, <2>2
    <3> QED
      BY <1>2, <2>2, <3>1 DEF SlotsOf
  <2> QED
    BY <2>1, <2>2
<1> QED
  BY <1>1, <1>3 DEF SlotsOf

LEMMA FlattenSlots ==
    ASSUME NEW A, NEW B, NEW ss, NEW tt, NEW n, Rows(ss, n, A), Rows(tt, n, B),
           \A i \in 1 .. n : SlotsOf(ss[i], tt[i])
    PROVE  SlotsOf(FlattenSeq(ss), FlattenSeq(tt))
<1> DEFINE T == {m \in 0 .. n : SlotsOf(FlattenSeq(Upto(ss, m)), FlattenSeq(Upto(tt, m)))}
<1>0. n \in Nat /\ Upto(ss, n) = ss /\ Upto(tt, n) = tt
  BY RowsLen, UptoIs
<1>1. 0 \in T
  <2>1. Rows(Upto(ss, 0), 0, A) /\ Rows(Upto(tt, 0), 0, B) /\ 0 \in 0 .. n
    BY <1>0, UptoIs
  <2>2. Len(Upto(ss, 0)) = 0 /\ Len(Upto(tt, 0)) = 0
    BY <2>1, RowsLen
  <2>3. FlattenSeq(Upto(ss, 0)) = Upto(ss, 0) /\ FlattenSeq(Upto(tt, 0)) = Upto(tt, 0)
    BY <2>2, FlattenIs
  <2> QED
    BY <2>1, <2>2, <2>3 DEF SlotsOf
<1>2. ASSUME NEW m \in 0 + 1 .. n, m - 1 \in T PROVE m \in T
  <2>1. m \in 1 .. n /\ m \in 0 .. n /\ m - 1 \in 0 .. n /\ m # 0 /\ m \in 1 .. m
    BY <1>0
  <2>2. /\ Rows(Upto(ss, m), m, A) /\ Rows(Upto(ss, m - 1), m - 1, A) /\ Upto(ss, m)[m] = ss[m]
        /\ Rows(Upto(tt, m), m, B) /\ Rows(Upto(tt, m - 1), m - 1, B) /\ Upto(tt, m)[m] = tt[m]
    BY <2>1, UptoIs
  <2>3. Upto(Upto(ss, m), m - 1) = Upto(ss, m - 1) /\ Upto(Upto(tt, m), m - 1) = Upto(tt, m - 1)
    <3>1. \A k \in 1 .. m - 1 : k \in 1 .. m
      BY <2>1
    <3>2. \A k \in 1 .. m : Upto(ss, m)[k] = ss[k] /\ Upto(tt, m)[k] = tt[k]
      BY <2>1, UptoIs
    <3> QED
      BY <3>1, <3>2 DEF Upto
  <2>4. FlattenSeq(Upto(ss, m)) = FlattenSeq(Upto(ss, m - 1)) \o ss[m]
    BY <2>1, <2>2, <2>3, FlattenOneMore
  <2>5. FlattenSeq(Upto(tt, m)) = FlattenSeq(Upto(tt, m - 1)) \o tt[m]
    BY <2>1, <2>2, <2>3, FlattenOneMore
  <2>6. FlattenSeq(Upto(ss, m - 1)) \in Seq(A) /\ FlattenSeq(Upto(tt, m - 1)) \in Seq(B)
    BY <2>2, FlattenInSeq
  <2>7. ss[m] \in Seq(A) /\ tt[m] \in Seq(B)
    BY <2>1 DEF Rows
  <2>8. SlotsOf(FlattenSeq(Upto(ss, m - 1)), FlattenSeq(Upto(tt, m - 1))) /\ SlotsOf(ss[m], tt[m])
    BY <1>2, <2>1
  <2>9. SlotsOf(FlattenSeq(Upto(ss, m - 1)) \o ss[m], FlattenSeq(Upto(tt, m - 1)) \o tt[m])
    BY <2>6, <2>7, <2>8, ConcatSlots
  <2> QED
    BY <2>1, <2>4, <2>5, <2>9
<1>3. 0 .. n \subseteq T
  <2>1. 0 \in Int /\ n \in Int
    BY <1>0
  <2> HIDE DEF T
  <2> QED
    BY <2>1, <1>1, <1>2, RangeInd
<1>4. n \in 0 .. n
  BY <1>0
<1> QED
  BY <1>0, <1>3, <1>4

\* The elements of a file are a sequence, and there is a slot for each.
LEMMA ElementsOf ==
    ASSUME NEW f \in Files
    PROVE  /\ IsSeq(Elements(f)) /\ \A x \in DOMAIN Elements(f) : ElementOK(Elements(f)[x])
           /\ IsSeq(Slots(f)) /\ SlotsOf(Slots(f), Elements(f))
<1> DEFINE blocks == Blocks(f)
           n == Len(blocks)
           tt == [b \in DOMAIN blocks |-> BlockElements(blocks[b])]
           Of(b) == LET es == BlockElements(blocks[b])
                    IN  [i \in DOMAIN es |-> [todo |-> TRUE, first |-> b, last |-> b, element |-> es[i]]]
           ss == [b \in DOMAIN blocks |-> Of(b)]
<1>1. n \in Nat /\ DOMAIN blocks = 1 .. n /\ \A b \in 1 .. n : ItemOK(blocks[b])
  BY BlocksOf, IsSeqHas
<1>2. Elements(f) = FlattenSeq(tt)
  BY DEF Elements
<1>3. Slots(f) = FlattenSeq(ss)
  BY DEF Slots
<1>4. tt = [b \in 1 .. n |-> tt[b]] /\ ss = [b \in 1 .. n |-> ss[b]]
  BY <1>1
<1>5. ASSUME NEW b \in 1 .. n
      PROVE  /\ IsSeq(tt[b]) /\ \A k \in DOMAIN tt[b] : ElementOK(tt[b][k])
             /\ IsSeq(ss[b]) /\ SlotsOf(ss[b], tt[b])
  <2> DEFINE es == BlockElements(blocks[b])
             sl == Of(b)
  <2>1. tt[b] = es /\ ss[b] = sl
    BY <1>1
  <2>2. IsSeq(es) /\ \A k \in DOMAIN es : ElementOK(es[k])
    BY <1>1, BlockElementsOf
  <2>3. Len(es) \in Nat /\ DOMAIN es = 1 .. Len(es)
    BY <2>2, IsSeqHas
  <2>4. sl = [i \in 1 .. Len(es) |-> sl[i]] /\ \A i \in 1 .. Len(es) : SlotOf(sl[i], es[i])
    BY <2>3 DEF SlotOf
  <2> HIDE DEF es, sl, tt, ss
  <2>5. IsSeq(sl) /\ Len(sl) = Len(es)
    BY <2>3, <2>4, ListHas
  <2>6. SlotsOf(sl, es)
    BY <2>4, <2>5 DEF SlotsOf
  <2> QED
    BY <2>1, <2>2, <2>5, <2>6
<1> HIDE DEF blocks, n, tt, ss, Of
<1>6. Joinable(tt, n) /\ Joinable(ss, n)
  BY <1>1, <1>4, <1>5 DEF Joinable
<1>7. /\ IsSeq(FlattenSeq(tt)) /\ ComesFrom(FlattenSeq(tt), tt, n)
      /\ IsSeq(FlattenSeq(ss))
  BY <1>6, FlattenHas
<1>8. \A x \in DOMAIN FlattenSeq(tt) : ElementOK(FlattenSeq(tt)[x])
  BY <1>5, <1>7 DEF ComesFrom
<1>9. Rows(ss, n, AllOf(ss, n)) /\ Rows(tt, n, AllOf(tt, n))
  BY <1>6, RowsOfOwn
<1>10. \A b \in 1 .. n : SlotsOf(ss[b], tt[b])
  BY <1>5
<1>11. SlotsOf(FlattenSeq(ss), FlattenSeq(tt))
  BY <1>9, <1>10, FlattenSlots
<1> QED
  BY <1>2, <1>3, <1>7, <1>8, <1>11


-----------------------------------------------------------------------------
(* The part of the joined sequences between two cuts.                      *)

Seg(ss, a, b) == FlattenSeq([k \in 1 .. b - a |-> ss[a + k]])

LEMMA SegIs ==
    ASSUME NEW ss, NEW n, NEW S, Rows(ss, n, S), NEW a \in 0 .. n, NEW b \in a .. n
    PROVE  Rows([k \in 1 .. b - a |-> ss[a + k]], b - a, S) /\ Seg(ss, a, b) \in Seq(S)
<1> DEFINE t == [k \in 1 .. b - a |-> ss[a + k]]
<1>1. n \in Nat /\ b - a \in Nat /\ \A k \in 1 .. b - a : a + k \in 1 .. n
  BY RowsLen
<1>2. \A k \in 1 .. b - a : t[k] \in Seq(S)
  BY <1>1 DEF Rows
<1>3. t = [k \in 1 .. b - a |-> t[k]]
  OBVIOUS
<1> HIDE DEF t
<1>4. Rows(t, b - a, S)
  BY <1>1, <1>2, <1>3 DEF Rows
<1>5. FlattenSeq(t) \in Seq(S)
  BY <1>4, FlattenInSeq
<1> QED
  BY <1>4, <1>5 DEF Seg, t

LEMMA SegNone ==
    ASSUME NEW ss, NEW a \in Nat
    PROVE  Seg(ss, a, a) = <<>>
<1> DEFINE t == [k \in 1 .. a - a |-> ss[a + k]]
<1>1. t = <<>> /\ Len(t) = 0
  OBVIOUS
<1> HIDE DEF t
<1>2. FlattenSeq(t) = t
  BY <1>1, FlattenIs
<1> QED
  BY <1>1, <1>2 DEF Seg, t

LEMMA SegNext ==
    ASSUME NEW ss, NEW n, NEW S, Rows(ss, n, S), NEW a \in 0 .. n, NEW b \in a .. n, b # n
    PROVE  Seg(ss, a, b + 1) = Seg(ss, a, b) \o ss[b + 1]
<1> DEFINE t == [k \in 1 .. (b + 1) - a |-> ss[a + k]]
           m == (b + 1) - a
           u == [k \in 1 .. b - a |-> ss[a + k]]
<1>1. n \in Nat
  BY RowsLen
<1>2. /\ b + 1 \in a .. n /\ m # 0 /\ m - 1 = b - a /\ m \in 1 .. m /\ a + m = b + 1
      /\ \A k \in 1 .. m - 1 : k \in 1 .. m
  BY <1>1
<1>3. Rows(t, m, S)
  BY <1>2, SegIs
<1>4. t[m] = ss[b + 1]
  BY <1>2
<1>5. Upto(t, m - 1) = u
  BY <1>2 DEF Upto
<1> HIDE DEF t, m, u
<1>6. FlattenSeq(t) = FlattenSeq(Upto(t, m - 1)) \o t[m]
  BY <1>2, <1>3, FlattenOneMore
<1>7. Seg(ss, a, b + 1) = FlattenSeq(t)
  BY DEF Seg, t, m
<1>8. Seg(ss, a, b) = FlattenSeq(u)
  BY DEF Seg, u
<1> QED
  BY <1>4, <1>5, <1>6, <1>7, <1>8

LEMMA SegJoin ==
    ASSUME NEW ss, NEW n, NEW S, Rows(ss, n, S), NEW a \in 0 .. n, NEW m \in a .. n, NEW b \in m .. n
    PROVE  Seg(ss, a, m) \o Seg(ss, m, b) = Seg(ss, a, b)
<1> DEFINE T == {k \in m .. n : Seg(ss, a, m) \o Seg(ss, m, k) = Seg(ss, a, k)}
<1>0. n \in Nat /\ a \in Nat /\ m \in Nat /\ m \in 0 .. n
  BY RowsLen
<1>1. m \in T
  <2>1. Seg(ss, m, m) = <<>>
    BY <1>0, SegNone
  <2>2. Seg(ss, a, m) \in Seq(S)
    BY SegIs
  <2>3. Seg(ss, a, m) \o <<>> = Seg(ss, a, m)
    BY <2>2, ConcatEmptySeq
  <2>4. m \in m .. n
    BY <1>0
  <2> QED
    BY <2>1, <2>3, <2>4
<1>2. ASSUME NEW k \in m + 1 .. n, k - 1 \in T PROVE k \in T
  <2>1. /\ k - 1 \in m .. n /\ k - 1 \in a .. n /\ k - 1 # n /\ (k - 1) + 1 = k /\ k \in m .. n
        /\ k \in 1 .. n
    BY <1>0
  <2>2. Seg(ss, a, k) = Seg(ss, a, k - 1) \o ss[k]
    <3>1. Seg(ss, a, (k - 1) + 1) = Seg(ss, a, k - 1) \o ss[(k - 1) + 1]
      BY <2>1, SegNext
    <3> QED
      BY <2>1, <3>1
  <2>3. Seg(ss, m, k) = Seg(ss, m, k - 1) \o ss[k]
    <3>1. Seg(ss, m, (k - 1) + 1) = Seg(ss, m, k - 1) \o ss[(k - 1) + 1]
      BY <1>0, <2>1, SegNext
    <3> QED
      BY <2>1, <3>1
  <2>4. Seg(ss, a, m) \in Seq(S) /\ Seg(ss, m, k - 1) \in Seq(S) /\ ss[k] \in Seq(S)
    BY <1>0, <2>1, SegIs DEF Rows
  <2>5. Seg(ss, a, m) \o (Seg(ss, m, k - 1) \o ss[k]) = (Seg(ss, a, m) \o Seg(ss, m, k - 1)) \o ss[k]
    <3> DEFINE x == Seg(ss, a, m)
               y == Seg(ss, m, k - 1)
               z == ss[k]
    <3> HIDE DEF x, y, z
    <3>1. x \in Seq(S) /\ y \in Seq(S) /\ z \in Seq(S)
      BY <2>4 DEF x, y, z
    <3>2. (x \o y) \o z = x \o (y \o z)
      BY <3>1, ConcatAssociative
    <3> QED
      BY <3>2, Zenon DEF x, y, z
  <2>6. Seg(ss, a, m) \o Seg(ss, m, k - 1) = Seg(ss, a, k - 1)
    BY <1>2
  <2> QED
    BY <2>1, <2>2, <2>3, <2>5, <2>6
<1>3. m .. n \subseteq T
  <2>1. m \in Int /\ n \in Int
    BY <1>0
  <2> HIDE DEF T
  <2> QED
    BY <2>1, <1>1, <1>2, RangeInd
<1> QED
  BY <1>3

LEMMA SegAll ==
    ASSUME NEW ss, NEW n, NEW S, Rows(ss, n, S)
    PROVE  Seg(ss, 0, n) = FlattenSeq(ss)
<1> DEFINE t == [k \in 1 .. n - 0 |-> ss[0 + k]]
<1>1. n \in Nat /\ n - 0 = n /\ \A k \in 1 .. n : 0 + k = k
  BY RowsLen
<1>2. ss = [k \in 1 .. n |-> ss[k]]
  BY DEF Rows
<1>3. t = ss
  BY <1>1, <1>2
<1> QED
  BY <1>3 DEF Seg


-----------------------------------------------------------------------------
(* What one element adds.                                                  *)

IsRoad(e) == e.kind = "way" /\ road_class(e.tags) # {}
Weight(e) == weighting(CHOOSE c \in road_class(e.tags) : TRUE)

\* The edge of a window of a way, along it (0) or back (1).
EdgeAlong(e, i, d) ==
    IF d = 0 THEN Edge(e.refs[i], e.refs[i + 1], Weight(e), forward(EdgeId(e.id)))
    ELSE Edge(e.refs[i + 1], e.refs[i], Weight(e), backward(EdgeId(e.id)))

Windows(e) ==
    [i \in 1 .. (Len(e.refs) - 1) |->
       IF unidirectional(e.tags) THEN <<EdgeAlong(e, i, 0)>> ELSE <<EdgeAlong(e, i, 0), EdgeAlong(e, i, 1)>>]

NodesOf(e) == IF e.kind = "node" THEN <<e.node>> ELSE <<>>
EdgesOf(e) == IF IsRoad(e) THEN FlattenSeq(Windows(e)) ELSE <<>>
MetasOf(e) == IF IsRoad(e) THEN <<[id |-> e.id, tags |-> e.tags]>> ELSE <<>>

LEMMA WayEdgesIs ==
    ASSUME NEW e
    PROVE  WayEdges(e, Weight(e)) = FlattenSeq(Windows(e))
<1> DEFINE r == e.refs
           There(i) == Edge(r[i], r[i + 1], Weight(e), forward(EdgeId(e.id)))
           Back(i) == Edge(r[i + 1], r[i], Weight(e), backward(EdgeId(e.id)))
           w == [i \in 1 .. (Len(r) - 1) |->
                   IF unidirectional(e.tags) THEN <<There(i)>> ELSE <<There(i), Back(i)>>]
<1>1. WayEdges(e, Weight(e)) = FlattenSeq(w)
  BY Zenon DEF WayEdges
<1>2. \A i : EdgeAlong(e, i, 0) = There(i) /\ EdgeAlong(e, i, 1) = Back(i)
  BY DEF EdgeAlong
<1>3. Windows(e) = w
  BY <1>2, Zenon DEF Windows
<1> QED
  BY <1>1, <1>3

\* A road has one edge or two for each window.
LEMMA WindowsHas ==
    ASSUME NEW e, e.refs \in Seq(Int)
    PROVE  \E n \in Nat :
             /\ Joinable(Windows(e), n) /\ (1 .. n) = (1 .. (Len(e.refs) - 1))
             /\ \A i \in 1 .. n : /\ Len(Windows(e)[i]) = IF unidirectional(e.tags) THEN 1 ELSE 2
                                  /\ \A q \in 1 .. Len(Windows(e)[i]) : Windows(e)[i][q] = EdgeAlong(e, i, q - 1)
<1> DEFINE n == IF Len(e.refs) = 0 THEN 0 ELSE Len(e.refs) - 1
           ws == Windows(e)
<1>1. n \in Nat /\ (1 .. n) = (1 .. (Len(e.refs) - 1))
  <2>1. Len(e.refs) \in Nat
    OBVIOUS
  <2> QED
    BY <2>1
<1> HIDE DEF n
<1>2. ws = [i \in 1 .. n |-> ws[i]]
  BY <1>1 DEF Windows
<1>3. ASSUME NEW i \in 1 .. n
      PROVE  /\ IsSeq(ws[i]) /\ Len(ws[i]) = IF unidirectional(e.tags) THEN 1 ELSE 2
             /\ \A q \in 1 .. Len(ws[i]) : ws[i][q] = EdgeAlong(e, i, q - 1)
  <2> DEFINE a == EdgeAlong(e, i, 0)
             b == EdgeAlong(e, i, 1)
  <2>1. ws[i] = IF unidirectional(e.tags) THEN <<a>> ELSE <<a, b>>
    BY <1>1 DEF Windows
  <2>2. 1 - 1 = 0 /\ 2 - 1 = 1
    OBVIOUS
  <2>3. a = EdgeAlong(e, i, 1 - 1) /\ b = EdgeAlong(e, i, 2 - 1)
    BY <2>2, Zenon
  <2> HIDE DEF a, b, ws
  <2>4. CASE unidirectional(e.tags)
    <3>1. ws[i] = <<a>> /\ Len(ws[i]) = 1 /\ ws[i][1] = a /\ ws[i] = [k \in 1 .. 1 |-> ws[i][k]]
      BY <2>1, <2>4
    <3>2. \A q \in 1 .. Len(ws[i]) : q = 1
      BY <3>1
    <3> QED
      BY <2>3, <2>4, <3>1, <3>2, ListHas
  <2>5. CASE ~ unidirectional(e.tags)
    <3>1. ws[i] = <<a, b>> /\ Len(ws[i]) = 2 /\ ws[i][1] = a /\ ws[i][2] = b
          /\ ws[i] = [k \in 1 .. 2 |-> ws[i][k]]
      BY <2>1, <2>5
    <3>2. \A q \in 1 .. Len(ws[i]) : q = 1 \/ q = 2
      BY <3>1
    <3> QED
      BY <2>3, <2>5, <3>1, <3>2, ListHas
  <2> QED
    BY <2>4, <2>5
<1>4. Joinable(ws, n)
  BY <1>1, <1>2, <1>3 DEF Joinable
<1> QED
  BY <1>1, <1>3, <1>4

LEMMA LeavesAre ==
    ASSUME NEW e, ElementOK(e)
    PROVE  IsSeq(NodesOf(e)) /\ IsSeq(EdgesOf(e)) /\ IsSeq(MetasOf(e))
<1>1. \A x : IsSeq(<<x>>)
  <2> SUFFICES ASSUME NEW x PROVE IsSeq(<<x>>)
    BY ZenonT(30)
  <2> DEFINE s == <<x>>
  <2>1. s = [k \in 1 .. 1 |-> s[k]]
    OBVIOUS
  <2> HIDE DEF s
  <2>2. IsSeq(s)
    BY <2>1, ListHas
  <2> QED
    BY <2>2 DEF s
<1>2. IsSeq(<<>>)
  BY DEF IsSeq
<1>3. IsSeq(EdgesOf(e))
  <2>1. CASE IsRoad(e)
    <3>1. e.refs \in Seq(Int)
      BY <2>1 DEF IsRoad, ElementOK
    <3>2. PICK n \in Nat : Joinable(Windows(e), n)
      BY <3>1, WindowsHas
    <3>3. IsSeq(FlattenSeq(Windows(e)))
      BY <3>2, FlattenHas
    <3> QED
      BY <2>1, <3>3 DEF EdgesOf
  <2>2. CASE ~ IsRoad(e)
    BY <1>2, <2>2 DEF EdgesOf
  <2> QED
    BY <2>1, <2>2
<1> QED
  BY <1>1, <1>2, <1>3 DEF NodesOf, MetasOf


-----------------------------------------------------------------------------
(* What is read between two cuts of the elements.                          *)

ElementsOK(es) == IsSeq(es) /\ \A x \in DOMAIN es : ElementOK(es[x])

NodeRows(es) == [i \in 1 .. Len(es) |-> NodesOf(es[i])]
EdgeRows(es) == [i \in 1 .. Len(es) |-> EdgesOf(es[i])]
MetaRows(es) == [i \in 1 .. Len(es) |-> MetasOf(es[i])]

Read(es, a, b) ==
    [nodes |-> Seg(NodeRows(es), a, b), edges |-> Seg(EdgeRows(es), a, b),
     metadata |-> Seg(MetaRows(es), a, b)]

LEMMA RowsAre ==
    ASSUME NEW es, ElementsOK(es)
    PROVE  /\ Len(es) \in Nat /\ DOMAIN es = 1 .. Len(es)
           /\ Rows(NodeRows(es), Len(es), AllOf(NodeRows(es), Len(es)))
           /\ Rows(EdgeRows(es), Len(es), AllOf(EdgeRows(es), Len(es)))
           /\ Rows(MetaRows(es), Len(es), AllOf(MetaRows(es), Len(es)))
           /\ \A i \in 1 .. Len(es) : /\ NodeRows(es)[i] = NodesOf(es[i])
                                      /\ EdgeRows(es)[i] = EdgesOf(es[i])
                                      /\ MetaRows(es)[i] = MetasOf(es[i])
<1> DEFINE n == Len(es)
           nn == NodeRows(es)
           ee == EdgeRows(es)
           mm == MetaRows(es)
<1>1. n \in Nat /\ DOMAIN es = 1 .. n
  BY IsSeqHas DEF ElementsOK
<1>2. \A i \in 1 .. n : nn[i] = NodesOf(es[i]) /\ ee[i] = EdgesOf(es[i]) /\ mm[i] = MetasOf(es[i])
  BY DEF NodeRows, EdgeRows, MetaRows
<1>3. \A i \in 1 .. n : IsSeq(nn[i]) /\ IsSeq(ee[i]) /\ IsSeq(mm[i])
  BY <1>1, <1>2, LeavesAre DEF ElementsOK
<1>4. nn = [i \in 1 .. n |-> nn[i]] /\ ee = [i \in 1 .. n |-> ee[i]] /\ mm = [i \in 1 .. n |-> mm[i]]
  BY DEF NodeRows, EdgeRows, MetaRows
<1> HIDE DEF n, nn, ee, mm
<1>5. Joinable(nn, n) /\ Joinable(ee, n) /\ Joinable(mm, n)
  BY <1>1, <1>3, <1>4 DEF Joinable
<1>6. Rows(nn, n, AllOf(nn, n)) /\ Rows(ee, n, AllOf(ee, n)) /\ Rows(mm, n, AllOf(mm, n))
  BY <1>5, RowsOfOwn
<1> QED
  BY <1>1, <1>2, <1>6 DEF n, nn, ee, mm

PutsNode(x, y, z, v) ==
    [[nodes |-> x, edges |-> y, metadata |-> z] EXCEPT !.nodes = Append(@, v)]
      = [nodes |-> Append(x, v), edges |-> y, metadata |-> z]
PutsRoad(x, y, z, v, w) ==
    [[nodes |-> x, edges |-> y, metadata |-> z] EXCEPT !.metadata = Append(@, v), !.edges = @ \o w]
      = [nodes |-> x, edges |-> y \o w, metadata |-> Append(z, v)]

LEMMA RecordPuts ==
    ASSUME NEW x, NEW y, NEW z, NEW v, NEW w
    PROVE  PutsNode(x, y, z, v) /\ PutsRoad(x, y, z, v, w)
<1> DEFINE a == Append(x, v)
           b == Append(z, v)
           c == y \o w
           t == [nodes |-> x, edges |-> y, metadata |-> z]
<1>1. t.nodes = x /\ t.edges = y /\ t.metadata = z
  OBVIOUS
<1>2. [t EXCEPT !.nodes = Append(@, v)] = [t EXCEPT !.nodes = a]
  BY <1>1, Zenon
<1>3. [t EXCEPT !.metadata = Append(@, v), !.edges = @ \o w] = [t EXCEPT !.metadata = b, !.edges = c]
  BY <1>1, Zenon
<1> HIDE DEF a, b, c
<1>4. [t EXCEPT !.nodes = a] = [nodes |-> a, edges |-> y, metadata |-> z]
  OBVIOUS
<1>5. [t EXCEPT !.metadata = b, !.edges = c] = [nodes |-> x, edges |-> c, metadata |-> b]
  <2>1. [t EXCEPT !.metadata = b] = [nodes |-> x, edges |-> y, metadata |-> b]
    OBVIOUS
  <2> DEFINE u == [nodes |-> x, edges |-> y, metadata |-> b]
  <2>2. [u EXCEPT !.edges = c] = [nodes |-> x, edges |-> c, metadata |-> b]
    OBVIOUS
  <2> QED
    BY <2>1, <2>2, Zenon
<1> QED
  BY <1>2, <1>3, <1>4, <1>5, Zenon DEF a, b, c, PutsNode, PutsRoad

Adds(e, x, y, z) ==
    fold_op([nodes |-> x, edges |-> y, metadata |-> z], e)
      = [nodes |-> x \o NodesOf(e), edges |-> y \o EdgesOf(e), metadata |-> z \o MetasOf(e)]

\* An element adds to a result what it holds, at the end.
LEMMA FoldAdds ==
    ASSUME NEW e, ElementOK(e), NEW A, NEW B, NEW C,
           NEW x \in Seq(A), NEW y \in Seq(B), NEW z \in Seq(C)
    PROVE  Adds(e, x, y, z)
<1> DEFINE t == [nodes |-> x, edges |-> y, metadata |-> z]
<1>1. x \o <<>> = x /\ y \o <<>> = y /\ z \o <<>> = z
  BY ConcatEmptySeq
<1>2. \A v : Append(x, v) = x \o <<v>> /\ Append(z, v) = z \o <<v>>
  OBVIOUS
<1>3. CASE e.kind = "node"
  <2>1. ~ IsRoad(e)
    BY <1>3 DEF IsRoad
  <2>2. NodesOf(e) = <<e.node>> /\ EdgesOf(e) = <<>> /\ MetasOf(e) = <<>>
    BY <1>3, <2>1 DEF NodesOf, EdgesOf, MetasOf
  <2>3. fold_op(t, e) = [t EXCEPT !.nodes = Append(@, e.node)]
    BY <1>3 DEF fold_op
  <2>4. [t EXCEPT !.nodes = Append(@, e.node)] = [nodes |-> Append(x, e.node), edges |-> y, metadata |-> z]
    <3>1. PutsNode(x, y, z, e.node)
      BY RecordPuts
    <3> QED
      BY <3>1 DEF PutsNode
  <2> QED
    BY <1>1, <1>2, <2>2, <2>3, <2>4, Zenon DEF Adds
<1>4. CASE e.kind = "way" /\ road_class(e.tags) = {}
  <2>1. ~ IsRoad(e) /\ e.kind # "node"
    BY <1>4 DEF IsRoad
  <2>2. NodesOf(e) = <<>> /\ EdgesOf(e) = <<>> /\ MetasOf(e) = <<>>
    BY <2>1 DEF NodesOf, EdgesOf, MetasOf
  <2>3. fold_op(t, e) = t
    BY <1>4, <2>1 DEF fold_op
  <2> QED
    BY <1>1, <2>2, <2>3, Zenon DEF Adds
<1>5. CASE e.kind = "way" /\ road_class(e.tags) # {}
  <2> DEFINE m == [id |-> e.id, tags |-> e.tags]
             w == WayEdges(e, Weight(e))
  <2>1. IsRoad(e) /\ e.kind # "node"
    BY <1>5 DEF IsRoad
  <2>2. NodesOf(e) = <<>> /\ EdgesOf(e) = w /\ MetasOf(e) = <<m>>
    BY <2>1, WayEdgesIs DEF NodesOf, EdgesOf, MetasOf
  <2>3. fold_op(t, e) = [t EXCEPT !.metadata = Append(@, m), !.edges = @ \o w]
    BY <1>5, <2>1, Zenon DEF fold_op, Weight
  <2> HIDE DEF m, w
  <2>4. [t EXCEPT !.metadata = Append(@, m), !.edges = @ \o w]
          = [nodes |-> x, edges |-> y \o w, metadata |-> Append(z, m)]
    <3>1. PutsRoad(x, y, z, m, w)
      BY RecordPuts
    <3> QED
      BY <3>1, Zenon DEF PutsRoad
  <2> QED
    BY <1>1, <1>2, <2>2, <2>3, <2>4, Zenon DEF Adds
<1> QED
  BY <1>3, <1>4, <1>5 DEF ElementOK

LEMMA ReadNext ==
    ASSUME NEW es, ElementsOK(es), NEW a \in 0 .. Len(es), NEW b \in a .. Len(es), b # Len(es)
    PROVE  fold_op(Read(es, a, b), es[b + 1]) = Read(es, a, b + 1)
<1> DEFINE n == Len(es)
           nn == NodeRows(es)
           ee == EdgeRows(es)
           mm == MetaRows(es)
           A == AllOf(nn, n)
           B == AllOf(ee, n)
           C == AllOf(mm, n)
<1>1. /\ n \in Nat /\ DOMAIN es = 1 .. n /\ Rows(nn, n, A) /\ Rows(ee, n, B) /\ Rows(mm, n, C)
      /\ \A i \in 1 .. n : nn[i] = NodesOf(es[i]) /\ ee[i] = EdgesOf(es[i]) /\ mm[i] = MetasOf(es[i])
  BY RowsAre
<1>2. a \in 0 .. n /\ b \in a .. n /\ b # n /\ n = Len(es)
  OBVIOUS
<1>3. Read(es, a, b) = [nodes |-> Seg(nn, a, b), edges |-> Seg(ee, a, b), metadata |-> Seg(mm, a, b)]
  BY DEF Read
<1>4. Read(es, a, b + 1) = [nodes |-> Seg(nn, a, b + 1), edges |-> Seg(ee, a, b + 1),
                            metadata |-> Seg(mm, a, b + 1)]
  BY DEF Read
<1>5. b + 1 \in 1 .. n
  <2>1. n \in Nat
    BY <1>1, ZenonT(40)
  <2> HIDE DEF n
  <2>2. a \in 0 .. n /\ b \in a .. n /\ b # n
    BY <1>2
  <2> QED
    BY <2>1, <2>2
<1> HIDE DEF n, nn, ee, mm, A, B, C
<1>6. ElementOK(es[b + 1])
  BY <1>1, <1>5 DEF ElementsOK
<1>7. Seg(nn, a, b) \in Seq(A) /\ Seg(ee, a, b) \in Seq(B) /\ Seg(mm, a, b) \in Seq(C)
  BY <1>1, <1>2, SegIs, ZenonT(40)
<1>8. /\ Seg(nn, a, b + 1) = Seg(nn, a, b) \o nn[b + 1]
      /\ Seg(ee, a, b + 1) = Seg(ee, a, b) \o ee[b + 1]
      /\ Seg(mm, a, b + 1) = Seg(mm, a, b) \o mm[b + 1]
  BY <1>1, <1>2, SegNext, ZenonT(40)
<1> DEFINE e == es[b + 1]
           x == Seg(nn, a, b)
           y == Seg(ee, a, b)
           z == Seg(mm, a, b)
<1>9. Adds(e, x, y, z)
  <2>1. ElementOK(e) /\ x \in Seq(A) /\ y \in Seq(B) /\ z \in Seq(C)
    BY <1>6, <1>7
  <2> HIDE DEF e, x, y, z
  <2> QED
    BY <2>1, FoldAdds
<1>10. nn[b + 1] = NodesOf(e) /\ ee[b + 1] = EdgesOf(e) /\ mm[b + 1] = MetasOf(e)
  BY <1>1, <1>5
<1> QED
  BY <1>3, <1>4, <1>8, <1>9, <1>10, Zenon DEF Adds

LEMMA ReadNone ==
    ASSUME NEW es, NEW a \in Nat
    PROVE  Read(es, a, a) = ident
  BY SegNone DEF Read, ident

LEMMA ReadJoin ==
    ASSUME NEW es, ElementsOK(es), NEW a \in 0 .. Len(es), NEW m \in a .. Len(es), NEW b \in m .. Len(es)
    PROVE  combine(Read(es, a, m), Read(es, m, b)) = Read(es, a, b)
<1> DEFINE n == Len(es)
           nn == NodeRows(es)
           ee == EdgeRows(es)
           mm == MetaRows(es)
<1>1. Rows(nn, n, AllOf(nn, n)) /\ Rows(ee, n, AllOf(ee, n)) /\ Rows(mm, n, AllOf(mm, n))
  BY RowsAre
<1>2. /\ Read(es, a, m).nodes = Seg(nn, a, m) /\ Read(es, m, b).nodes = Seg(nn, m, b)
      /\ Read(es, a, m).edges = Seg(ee, a, m) /\ Read(es, m, b).edges = Seg(ee, m, b)
      /\ Read(es, a, m).metadata = Seg(mm, a, m) /\ Read(es, m, b).metadata = Seg(mm, m, b)
      /\ Read(es, a, b) = [nodes |-> Seg(nn, a, b), edges |-> Seg(ee, a, b), metadata |-> Seg(mm, a, b)]
  BY DEF Read
<1>3. a \in 0 .. n /\ m \in a .. n /\ b \in m .. n
  OBVIOUS
<1> HIDE DEF n, nn, ee, mm
<1>4. /\ Seg(nn, a, m) \o Seg(nn, m, b) = Seg(nn, a, b)
      /\ Seg(ee, a, m) \o Seg(ee, m, b) = Seg(ee, a, b)
      /\ Seg(mm, a, m) \o Seg(mm, m, b) = Seg(mm, a, b)
  BY <1>1, <1>3, SegJoin
<1> QED
  BY <1>2, <1>4, Zenon DEF combine


-----------------------------------------------------------------------------
(* The results rayon holds: what is read between consecutive cuts.         *)

PartIs(p, es, a, b) ==
    /\ a \in 0 .. Len(es) /\ b \in a .. Len(es)
    /\ \/ p.todo = TRUE /\ b = a + 1 /\ p.element = es[b]
       \/ p.todo = FALSE /\ p.tree = Read(es, a, b)

Cuts(ps, es, cut) ==
    /\ IsSeq(ps) /\ cut[0] = 0 /\ cut[Len(ps)] = Len(es)
    /\ \A i \in 1 .. Len(ps) : PartIs(ps[i], es, cut[i - 1], cut[i])

LEMMA CutsStart ==
    ASSUME NEW es, ElementsOK(es), NEW ps, IsSeq(ps), SlotsOf(ps, es)
    PROVE  \E cut : Cuts(ps, es, cut)
<1> DEFINE n == Len(es)
           cut == [k \in 0 .. n |-> k]
<1>1. n \in Nat /\ Len(ps) = n /\ \A k \in 1 .. n : SlotOf(ps[k], es[k])
  BY RowsAre DEF SlotsOf
<1> HIDE DEF n
<1>2. cut[0] = 0 /\ cut[n] = n /\ \A k \in 1 .. n : cut[k - 1] = k - 1 /\ cut[k] = k
  BY <1>1
<1> HIDE DEF cut
<1>3. ASSUME NEW i \in 1 .. n PROVE PartIs(ps[i], es, cut[i - 1], cut[i])
  <2>1. cut[i - 1] \in 0 .. n /\ cut[i] \in cut[i - 1] .. n /\ cut[i] = cut[i - 1] + 1 /\ cut[i] = i
    BY <1>1, <1>2
  <2>2. ps[i].todo = TRUE /\ ps[i].element = es[i]
    BY <1>1 DEF SlotOf
  <2> QED
    BY <2>1, <2>2 DEF PartIs, n
<1> QED
  BY <1>1, <1>2, <1>3 DEF Cuts, n

LEMMA CutsFold ==
    ASSUME NEW es, ElementsOK(es), NEW ps, NEW cut, Cuts(ps, es, cut),
           NEW i \in 1 .. Len(ps), ps[i].todo,
           NEW q, q.todo = FALSE, q.tree = fold_op(ident, ps[i].element)
    PROVE  Cuts([ps EXCEPT ![i] = q], es, cut)
<1> DEFINE n == Len(ps)
           us == [ps EXCEPT ![i] = q]
           a == cut[i - 1]
           b == cut[i]
<1>1. n \in Nat /\ DOMAIN ps = 1 .. n /\ ps = [k \in 1 .. n |-> ps[k]]
  BY IsSeqHas DEF Cuts
<1>2. i \in 1 .. n /\ PartIs(ps[i], es, a, b)
  BY DEF Cuts
<1>3. us = [k \in 1 .. n |-> us[k]] /\ us[i] = q /\ \A k \in 1 .. n : k # i => us[k] = ps[k]
  BY <1>1, <1>2
<1> HIDE DEF us, n, a, b
<1>4. IsSeq(us) /\ Len(us) = n
  BY <1>1, <1>3, ListHas
<1>5. /\ Len(es) \in Nat /\ a \in 0 .. Len(es) /\ b \in a .. Len(es)
      /\ b = a + 1 /\ ps[i].element = es[b]
  BY <1>2, RowsAre DEF PartIs
<1>6. a \in Nat /\ a # Len(es) /\ a \in a .. Len(es)
  BY <1>5
<1>7. fold_op(Read(es, a, a), es[a + 1]) = Read(es, a, a + 1)
  BY <1>5, <1>6, ReadNext
<1>8. Read(es, a, a) = ident
  BY <1>6, ReadNone
<1>9. q.tree = Read(es, a, b)
  BY <1>5, <1>7, <1>8
<1>10. PartIs(q, es, a, b)
  BY <1>5, <1>9 DEF PartIs
<1>11. \A k \in 1 .. n : PartIs(us[k], es, cut[k - 1], cut[k])
  <2>1. \A k \in 1 .. n : PartIs(ps[k], es, cut[k - 1], cut[k])
    BY DEF Cuts, n
  <2> QED
    BY <1>3, <1>10, <2>1 DEF a, b
<1> QED
  BY <1>4, <1>11 DEF Cuts, us, n

LEMMA CutsJoin ==
    ASSUME NEW es, NEW ps, NEW cut, Cuts(ps, es, cut),
           NEW i, {i, i + 1} \subseteq 1 .. Len(ps),
           NEW q, PartIs(q, es, cut[i - 1], cut[i + 1])
    PROVE  \E c : Cuts(RemoveAt([ps EXCEPT ![i] = q], i + 1), es, c)
<1> DEFINE n == Len(ps)
           us == [ps EXCEPT ![i] = q]
           vs == RemoveAt(us, i + 1)
           c == [k \in 0 .. n - 1 |-> IF k < i + 0 THEN cut[k] ELSE cut[k + 1]]
<1>1. n \in Nat /\ DOMAIN ps = 1 .. n /\ ps = [k \in 1 .. n |-> ps[k]]
  BY IsSeqHas DEF Cuts
<1>2. i \in 1 .. n /\ i + 1 \in 1 .. n /\ i \in Nat
  BY <1>1
<1>3. us = [k \in 1 .. n |-> us[k]] /\ us[i] = q /\ \A k \in 1 .. n : k # i => us[k] = ps[k]
  BY <1>1, <1>2
<1>4. /\ cut[0] = 0 /\ cut[n] = Len(es)
      /\ \A k \in 1 .. n : PartIs(ps[k], es, cut[k - 1], cut[k])
  BY DEF Cuts
<1> HIDE DEF us, n
<1>5. IsSeq(us) /\ Len(us) = n /\ DOMAIN us = 1 .. n
  BY <1>1, <1>3, ListHas
<1>6. us \in Seq(ToSet(us)) /\ i + 1 \in DOMAIN us
  BY <1>2, <1>5 DEF IsSeq
<1>7. /\ vs \in Seq(ToSet(us)) /\ Len(vs) = n - 1
      /\ \A k \in 1 .. n - 1 : vs[k] = IF k < i + 1 THEN us[k] ELSE us[k + 1]
  BY <1>5, <1>6, RemoveAtFacts
<1>8. IsSeq(vs)
  BY <1>7, InOwnSeq DEF IsSeq
<1>9. \A k \in 0 .. n - 1 : c[k] = IF k < i THEN cut[k] ELSE cut[k + 1]
  BY <1>1, <1>2
<1> HIDE DEF vs, c
<1>10. c[0] = 0 /\ c[n - 1] = Len(es)
  <2>1. 0 \in 0 .. n - 1 /\ n - 1 \in 0 .. n - 1 /\ 0 < i /\ ~ (n - 1 < i) /\ (n - 1) + 1 = n
    BY <1>1, <1>2
  <2> QED
    BY <1>4, <1>9, <2>1
<1>11. ASSUME NEW k \in 1 .. n - 1 PROVE PartIs(vs[k], es, c[k - 1], c[k])
  <2>1. k \in 0 .. n - 1 /\ k - 1 \in 0 .. n - 1 /\ k \in 1 .. n /\ k + 1 \in 1 .. n
    BY <1>1
  <2>2. CASE k < i
    <3>1. k - 1 < i /\ k < i + 1 /\ k # i
      BY <1>2, <2>1, <2>2
    <3>2. vs[k] = ps[k] /\ c[k - 1] = cut[k - 1] /\ c[k] = cut[k]
      BY <1>3, <1>7, <1>9, <2>1, <2>2, <3>1
    <3> QED
      BY <1>4, <2>1, <3>2
  <2>3. CASE k = i
    <3>1. k - 1 < i /\ k < i + 1 /\ ~ (k < i)
      BY <1>2, <2>1, <2>3
    <3>2. vs[k] = q /\ c[k - 1] = cut[i - 1] /\ c[k] = cut[i + 1]
      BY <1>3, <1>7, <1>9, <2>1, <2>3, <3>1
    <3> QED
      BY <3>2
  <2>4. CASE i < k
    <3>1. ~ (k - 1 < i) /\ ~ (k < i) /\ ~ (k < i + 1) /\ (k - 1) + 1 = k /\ (k + 1) - 1 = k /\ k + 1 # i
      BY <1>2, <2>1, <2>4
    <3>2. vs[k] = us[k + 1]
      BY <1>7, <3>1
    <3>3. us[k + 1] = ps[k + 1]
      BY <1>3, <2>1, <3>1
    <3>4. c[k - 1] = cut[k] /\ c[k] = cut[k + 1]
      BY <1>9, <2>1, <3>1
    <3>5. PartIs(ps[k + 1], es, cut[(k + 1) - 1], cut[k + 1])
      BY <1>4, <2>1
    <3> QED
      BY <3>1, <3>2, <3>3, <3>4, <3>5
  <2> QED
    BY <1>2, <2>1, <2>2, <2>3, <2>4
<1>12. Cuts(vs, es, c)
  BY <1>7, <1>8, <1>10, <1>11 DEF Cuts
<1> QED
  BY <1>12 DEF vs, us


-----------------------------------------------------------------------------
(* The edges read, and the places of the file that claim them.             *)

Directions(e) == IF unidirectional(e.tags) THEN {0} ELSE {0, 1}

\* g says of which window, and in which direction, each edge of a road is.
Numbered(g, e) ==
    /\ \A k \in 1 .. Len(EdgesOf(e)) : /\ g[k][1] \in 1 .. (Len(e.refs) - 1) /\ g[k][2] \in Directions(e)
                                       /\ EdgesOf(e)[k] = EdgeAlong(e, g[k][1], g[k][2])
    /\ \A i \in 1 .. (Len(e.refs) - 1) : \A d \in Directions(e) :
         \E k \in 1 .. Len(EdgesOf(e)) : g[k][1] = i /\ g[k][2] = d
    /\ \A x, y \in 1 .. Len(EdgesOf(e)) :
         x < y => g[x][1] < g[y][1] \/ (g[x][1] = g[y][1] /\ g[x][2] < g[y][2])

LEMMA RoadIsNumbered ==
    ASSUME NEW e, IsRoad(e), e.refs \in Seq(Int)
    PROVE  \E g : Numbered(g, e)
<1> DEFINE ws == Windows(e)
           fl == EdgesOf(e)
<1>1. PICK n \in Nat :
        /\ Joinable(ws, n) /\ (1 .. n) = (1 .. (Len(e.refs) - 1))
        /\ \A i \in 1 .. n : /\ Len(ws[i]) = IF unidirectional(e.tags) THEN 1 ELSE 2
                             /\ \A q \in 1 .. Len(ws[i]) : ws[i][q] = EdgeAlong(e, i, q - 1)
  BY WindowsHas
<1>2. fl = FlattenSeq(ws)
  BY DEF EdgesOf
<1>3. Rows(ws, n, AllOf(ws, n))
  BY <1>1, RowsOfOwn
<1>4. PICK c : Orders(c, fl, ws, n)
  BY <1>2, <1>3, FlattenOrders
<1>5. Len(fl) \in Nat
  <2>1. fl \in Seq(AllOf(ws, n))
    BY <1>2, <1>3, FlattenInSeq
  <2> QED
    BY <2>1
<1> DEFINE g == [k \in 1 .. Len(fl) |-> <<c[k][1], c[k][2] - 1>>]
<1>6. \A k \in 1 .. Len(fl) : g[k][1] = c[k][1] /\ g[k][2] = c[k][2] - 1
  OBVIOUS
<1> HIDE DEF ws, fl, g
<1>7. /\ \A k \in 1 .. Len(fl) : c[k] \in Places(ws, n) /\ fl[k] = ws[c[k][1]][c[k][2]]
      /\ \A p \in Places(ws, n) : \E k \in 1 .. Len(fl) : c[k] = p
      /\ \A x, y \in 1 .. Len(fl) : x < y => Before(c[x], c[y])
  BY <1>4 DEF Orders
<1>8. \A k \in 1 .. Len(fl) : c[k][1] \in 1 .. n /\ c[k][2] \in Nat /\ c[k][2] \in 1 .. Len(ws[c[k][1]])
  BY <1>1, <1>7, PlaceIs
<1>9. \A i \in 1 .. n : \A q \in Nat : q \in 1 .. Len(ws[i]) <=> q - 1 \in Directions(e)
  <2> SUFFICES ASSUME NEW i \in 1 .. n, NEW q \in Nat
               PROVE  q \in 1 .. Len(ws[i]) <=> q - 1 \in Directions(e)
    OBVIOUS
  <2>1. Len(ws[i]) = IF unidirectional(e.tags) THEN 1 ELSE 2
    BY <1>1
  <2>2. CASE unidirectional(e.tags)
    <3>1. Len(ws[i]) = 1 /\ Directions(e) = {0}
      BY <2>1, <2>2 DEF Directions
    <3> QED
      BY <3>1
  <2>3. CASE ~ unidirectional(e.tags)
    <3>1. Len(ws[i]) = 2 /\ Directions(e) = {0, 1}
      BY <2>1, <2>3 DEF Directions
    <3> QED
      BY <3>1
  <2> QED
    BY <2>2, <2>3
<1>10. ASSUME NEW k \in 1 .. Len(fl)
       PROVE  g[k][1] \in 1 .. n /\ g[k][2] \in Directions(e) /\ fl[k] = EdgeAlong(e, g[k][1], g[k][2])
  <2>1. ws[c[k][1]][c[k][2]] = EdgeAlong(e, c[k][1], c[k][2] - 1)
    BY <1>1, <1>8
  <2>2. c[k][2] - 1 \in Directions(e)
    BY <1>8, <1>9
  <2> QED
    BY <1>6, <1>7, <1>8, <2>1, <2>2
<1>11. ASSUME NEW i \in 1 .. n, NEW d \in Directions(e)
       PROVE  \E k \in 1 .. Len(fl) : g[k][1] = i /\ g[k][2] = d
  <2>1. d \in Nat
    BY DEF Directions
  <2>2. d + 1 \in Nat /\ (d + 1) - 1 = d
    BY <2>1
  <2>3. d + 1 \in 1 .. Len(ws[i])
    BY <1>9, <2>2
  <2> DEFINE p == <<i, d + 1>>
  <2>4. p[1] = i /\ p[2] = d + 1 /\ p = <<p[1], p[2]>>
    OBVIOUS
  <2> HIDE DEF p
  <2>5. p \in Places(ws, n)
    BY <1>1, <2>2, <2>3, <2>4, PlaceIs, ZenonT(40)
  <2>6. PICK k \in 1 .. Len(fl) : c[k] = p
    BY <1>7, <2>5
  <2> QED
    BY <1>6, <2>2, <2>4, <2>6
<1>12. ASSUME NEW x \in 1 .. Len(fl), NEW y \in 1 .. Len(fl), x < y
       PROVE  g[x][1] < g[y][1] \/ (g[x][1] = g[y][1] /\ g[x][2] < g[y][2])
  <2>1. Before(c[x], c[y])
    BY <1>7, <1>12
  <2>2. c[x][2] \in Nat /\ c[y][2] \in Nat
    BY <1>8
  <2>3. c[x][2] < c[y][2] => c[x][2] - 1 < c[y][2] - 1
    BY <2>2, SMTT(20)
  <2> QED
    BY <1>6, <2>1, <2>3 DEF Before
<1>13. Numbered(g, e)
  BY <1>1, <1>10, <1>11, <1>12 DEF Numbered, fl
<1> QED
  BY <1>13

LEMMA ClaimIs ==
    ASSUME NEW es, NEW c
    PROVE  c \in Claims(es) <=>
             \E j \in DOMAIN es : IsRoad(es[j]) /\ \E i \in 1 .. (Len(es[j].refs) - 1) :
               \E d \in Directions(es[j]) : c = <<j, i, d>>
<1> DEFINE Of(j) == {j} \X (1 .. (Len(es[j].refs) - 1)) \X Directions(es[j])
<1>1. Claims(es) = UNION {Of(j) : j \in Roads(es)}
  BY Zenon DEF Claims, Directions
<1>2. \A j : j \in Roads(es) <=> j \in DOMAIN es /\ IsRoad(es[j])
  BY DEF Roads, IsRoad
<1>3. \A j : c \in Of(j) <=> \E i \in 1 .. (Len(es[j].refs) - 1) : \E d \in Directions(es[j]) : c = <<j, i, d>>
  OBVIOUS
<1> HIDE DEF Of
<1>4. c \in Claims(es) <=> \E j \in Roads(es) : c \in Of(j)
  BY <1>1
<1> QED
  BY <1>2, <1>3, <1>4


\* F says which claim each edge read comes from.
Claimed(F, es) ==
    /\ \A p \in Places(EdgeRows(es), Len(es)) :
         /\ F[p] \in Claims(es)
         /\ EdgeRows(es)[p[1]][p[2]] = EdgeAlong(es[F[p][1]], F[p][2], F[p][3])
    /\ \A c \in Claims(es) : \E p \in Places(EdgeRows(es), Len(es)) : F[p] = c
    /\ \A p, q \in Places(EdgeRows(es), Len(es)) : ~ Before(p, q) => Later(F[p], F[q])

LEMMA EdgesAreClaimed ==
    ASSUME NEW es, ElementsOK(es)
    PROVE  \E F : Claimed(F, es)
<1> DEFINE n == Len(es)
           ee == EdgeRows(es)
           P == Places(ee, n)
           G == [j \in 1 .. n |-> CHOOSE g : Numbered(g, es[j])]
           F == [p \in P |-> <<p[1], G[p[1]][p[2]][1], G[p[1]][p[2]][2]>>]
<1>1. n \in Nat /\ DOMAIN es = 1 .. n /\ \A i \in 1 .. n : ee[i] = EdgesOf(es[i])
  BY RowsAre
<1>2. \A p \in P : F[p] = <<p[1], G[p[1]][p[2]][1], G[p[1]][p[2]][2]>>
  OBVIOUS
<1>3. \A j \in 1 .. n : G[j] = CHOOSE g : Numbered(g, es[j])
  OBVIOUS
<1> HIDE DEF n, ee, P, G, F
<1>4. \A p : p \in P <=> p = <<p[1], p[2]>> /\ p[1] \in 1 .. n /\ p[2] \in Nat /\ p[2] \in 1 .. Len(ee[p[1]])
  BY <1>1, PlaceIs DEF P
<1>5. ASSUME NEW j \in 1 .. n, IsRoad(es[j]) PROVE Numbered(G[j], es[j])
  <2>1. ElementOK(es[j])
    BY <1>1 DEF ElementsOK
  <2>2. es[j].refs \in Seq(Int)
    BY <1>5, <2>1 DEF IsRoad, ElementOK
  <2>3. \E g : Numbered(g, es[j])
    BY <1>5, <2>2, RoadIsNumbered
  <2> QED
    BY <1>3, <2>3, Zenon
<1>6. ASSUME NEW p \in P
      PROVE  /\ p[1] \in 1 .. n /\ p[2] \in Nat /\ IsRoad(es[p[1]]) /\ p[2] \in 1 .. Len(EdgesOf(es[p[1]]))
             /\ F[p][1] = p[1] /\ F[p][2] = G[p[1]][p[2]][1] /\ F[p][3] = G[p[1]][p[2]][2]
             /\ F[p][2] \in Int /\ F[p][3] \in {0, 1} /\ F[p] \in Claims(es)
             /\ ee[p[1]][p[2]] = EdgeAlong(es[F[p][1]], F[p][2], F[p][3])
  <2> DEFINE j == p[1]
             k == p[2]
             i == G[j][k][1]
             d == G[j][k][2]
  <2>1. j \in 1 .. n /\ k \in Nat /\ k \in 1 .. Len(ee[j]) /\ ee[j] = EdgesOf(es[j])
    BY <1>1, <1>4
  <2>2. F[p] = <<j, i, d>>
    BY <1>2
  <2> HIDE DEF i, d, j, k
  <2>3. F[p][1] = j /\ F[p][2] = i /\ F[p][3] = d
    BY <2>2
  <2>4. IsRoad(es[j])
    <3>1. CASE ~ IsRoad(es[j])
      <4>1. Len(ee[j]) = 0
        BY <2>1, <3>1 DEF EdgesOf
      <4> QED
        BY <2>1, <4>1
    <3> QED
      BY <3>1
  <2>5. Numbered(G[j], es[j])
    BY <1>5, <2>1, <2>4
  <2>6. i \in 1 .. (Len(es[j].refs) - 1) /\ d \in Directions(es[j])
        /\ EdgesOf(es[j])[k] = EdgeAlong(es[j], i, d)
    BY <2>1, <2>5 DEF Numbered, i, d
  <2>7. i \in Int /\ d \in {0, 1}
    BY <2>6 DEF Directions
  <2>8. F[p] \in Claims(es)
    BY <1>1, <2>1, <2>2, <2>4, <2>6, ClaimIs
  <2>9. ee[j][k] = EdgeAlong(es[F[p][1]], F[p][2], F[p][3])
    BY <2>1, <2>3, <2>6
  <2> QED
    BY <2>1, <2>3, <2>4, <2>7, <2>8, <2>9 DEF i, d, j, k
<1>7. ASSUME NEW c \in Claims(es) PROVE \E p \in P : F[p] = c
  <2>1. PICK j \in 1 .. n : IsRoad(es[j]) /\ \E i \in 1 .. (Len(es[j].refs) - 1) :
               \E d \in Directions(es[j]) : c = <<j, i, d>>
    BY <1>1, ClaimIs
  <2>2. PICK i \in 1 .. (Len(es[j].refs) - 1), d \in Directions(es[j]) : c = <<j, i, d>>
    BY <2>1
  <2>3. PICK k \in 1 .. Len(EdgesOf(es[j])) : G[j][k][1] = i /\ G[j][k][2] = d
    <3>1. Numbered(G[j], es[j])
      BY <1>5, <2>1
    <3>2. \A x \in 1 .. (Len(es[j].refs) - 1) : \A y \in Directions(es[j]) :
            \E k \in 1 .. Len(EdgesOf(es[j])) : G[j][k][1] = x /\ G[j][k][2] = y
      BY <3>1, Zenon DEF Numbered
    <3> QED
      BY <2>2, <3>2, ZenonT(30)
  <2> DEFINE p == <<j, k>>
  <2>4. p[1] = j /\ p[2] = k /\ p = <<p[1], p[2]>> /\ k \in Nat
    <3>1. Len(EdgesOf(es[j])) \in Nat
      <4>1. ElementOK(es[j])
        BY <1>1 DEF ElementsOK
      <4> QED
        BY <4>1, LeavesAre, IsSeqHas
    <3> QED
      BY <3>1
  <2> HIDE DEF p
  <2>5. p \in P
    BY <1>1, <1>4, <2>4
  <2> QED
    BY <1>2, <2>2, <2>3, <2>4, <2>5
<1>8. ASSUME NEW p \in P, NEW q \in P, ~ Before(p, q) PROVE Later(F[p], F[q])
  <2>0. /\ p[1] \in 1 .. n /\ p[2] \in Nat /\ q[1] \in 1 .. n /\ q[2] \in Nat
        /\ F[p][1] = p[1] /\ F[q][1] = q[1]
        /\ F[p][2] \in Int /\ F[q][2] \in Int /\ F[p][3] \in {0, 1} /\ F[q][3] \in {0, 1}
    BY <1>6
  <2>1. q[1] < p[1] \/ (q[1] = p[1] /\ q[2] <= p[2])
    <3>1. p[1] \in Int /\ q[1] \in Int
      BY <1>1, <2>0
    <3> QED
      BY <1>8, <2>0, <3>1 DEF Before
  <2>2. CASE q[1] < p[1]
    BY <2>0, <2>2 DEF Later
  <2>3. CASE q[1] = p[1] /\ q[2] = p[2]
    <3>1. p = q
      BY <1>4, <2>3
    <3>2. 2 * F[p][2] + F[p][3] >= 2 * F[p][2] + F[p][3]
      BY <2>0
    <3> QED
      BY <3>1, <3>2 DEF Later
  <2>4. CASE q[1] = p[1] /\ q[2] < p[2]
    <3> DEFINE j == p[1]
    <3>1. Numbered(G[j], es[j]) /\ q[2] \in 1 .. Len(EdgesOf(es[j])) /\ p[2] \in 1 .. Len(EdgesOf(es[j]))
      BY <1>5, <1>6, <2>4
    <3>2. \/ G[j][q[2]][1] < G[j][p[2]][1]
          \/ G[j][q[2]][1] = G[j][p[2]][1] /\ G[j][q[2]][2] < G[j][p[2]][2]
      BY <2>4, <3>1 DEF Numbered
    <3>3. /\ F[p][2] = G[j][p[2]][1] /\ F[p][3] = G[j][p[2]][2]
          /\ F[q][2] = G[j][q[2]][1] /\ F[q][3] = G[j][q[2]][2]
      BY <1>6, <2>4
    <3>4. F[q][2] < F[p][2] \/ (F[q][2] = F[p][2] /\ F[q][3] < F[p][3])
      BY <3>2, <3>3
    <3>5. 2 * F[p][2] + F[p][3] >= 2 * F[q][2] + F[q][3]
      BY <2>0, <3>4
    <3> QED
      BY <2>0, <2>4, <3>5 DEF Later
  <2> QED
    BY <2>0, <2>1, <2>2, <2>3, <2>4
<1>9. Claimed(F, es)
  BY <1>6, <1>7, <1>8 DEF Claimed, P, ee, n
<1> QED
  BY <1>9


Pairs(es) == {Ends(es, c) : c \in Claims(es)}
Wins(es, c, p) == c \in Claims(es) /\ Ends(es, c) = p /\ \A d \in Claims(es) : Ends(es, d) = p => Later(c, d)
Winner(es, p) == CHOOSE c \in Claims(es) : Ends(es, c) = p /\ \A d \in Claims(es) : Ends(es, d) = p => Later(c, d)
Won(es, c) ==
    [weight |-> CHOOSE w \in {weighting(k) : k \in road_class(es[c[1]].tags)} : TRUE,
     id |-> [id |-> es[c[1]].id, direction |-> IF c[3] = 0 THEN "Outgoing" ELSE "Incoming"]]
GraphOf(es) == [p \in Pairs(es) |-> Won(es, Winner(es, p))]

LEMMA ExpectedGraph ==
    ASSUME NEW f
    PROVE  Expected(f).graph = GraphOf(Elements(f))
<1> DEFINE es == Elements(f)
           claims == Claims(es)
           pairs == {Ends(es, c) : c \in claims}
           W(p) == CHOOSE c \in claims : Ends(es, c) = p /\ \A d \in claims : Ends(es, d) = p => Later(c, d)
           g == [p \in pairs |->
                    LET way == es[W(p)[1]]
                    IN  [weight |-> CHOOSE w \in {weighting(k) : k \in road_class(way.tags)} : TRUE,
                         id |-> [id |-> way.id,
                                 direction |-> IF W(p)[3] = 0 THEN "Outgoing" ELSE "Incoming"]]]
<1>1. Expected(f).graph = g
  BY DEF Expected
<1>2. g = GraphOf(es)
  BY Zenon DEF GraphOf, Won, Winner, Pairs
<1> QED
  BY <1>1, <1>2

\* Only one claim comes last.
LEMMA WinnerIs ==
    ASSUME NEW es, ElementsOK(es), NEW c, NEW p, Wins(es, c, p)
    PROVE  Winner(es, p) = c
<1> DEFINE d == Winner(es, p)
<1>1. Wins(es, d, p)
  BY DEF Wins, Winner
<1> HIDE DEF d
<1>2. c \in Claims(es) /\ d \in Claims(es) /\ Later(c, d) /\ Later(d, c)
  BY <1>1 DEF Wins
<1>3. \A u \in Claims(es) : u = <<u[1], u[2], u[3]>> /\ u[1] \in Int /\ u[2] \in Int /\ u[3] \in {0, 1}
  <2> SUFFICES ASSUME NEW u \in Claims(es)
               PROVE  u = <<u[1], u[2], u[3]>> /\ u[1] \in Int /\ u[2] \in Int /\ u[3] \in {0, 1}
    OBVIOUS
  <2>1. PICK j \in DOMAIN es : \E i \in 1 .. (Len(es[j].refs) - 1) : \E b \in Directions(es[j]) : u = <<j, i, b>>
    BY ClaimIs
  <2>2. PICK i \in 1 .. (Len(es[j].refs) - 1), b \in Directions(es[j]) : u = <<j, i, b>>
    BY <2>1
  <2>3. j \in Int
    BY RowsAre
  <2>4. i \in Int /\ b \in {0, 1}
    BY DEF Directions
  <2> QED
    BY <2>2, <2>3, <2>4
<1>4. c[1] \in Int /\ d[1] \in Int /\ c[2] \in Int /\ d[2] \in Int /\ c[3] \in {0, 1} /\ d[3] \in {0, 1}
  BY <1>2, <1>3
<1>5. c[1] = d[1] /\ c[2] = d[2] /\ c[3] = d[3]
  BY <1>2, <1>4 DEF Later
<1> QED
  BY <1>2, <1>3, <1>5 DEF d


LEMMA PutAllIsMap ==
    ASSUME NEW es, Len(es) \in Nat
    PROVE  PutAll(es) = [k \in DOMAIN PutAll(es) |-> PutAll(es)[k]]
<1> DEFINE n == Len(es)
           c == Put(es)
<1>1. n \in Nat /\ PutAll(es) = c[n] /\ c[0] = <<>> /\ \A i \in 1 .. n : c[i] = Over(es[i], c[i - 1])
  BY PutIs, PutAllIs
<1> HIDE DEF c, n
<1>2. CASE n = 0
  <2>1. PutAll(es) = <<>>
    BY <1>1, <1>2
  <2>2. <<>> = [k \in DOMAIN <<>> |-> <<>>[k]]
    OBVIOUS
  <2> QED
    BY <2>1, <2>2
<1>3. CASE n # 0
  <2>1. n \in 1 .. n
    BY <1>1, <1>3
  <2>2. PutAll(es) = Over(es[n], c[n - 1])
    BY <1>1, <2>1
  <2> DEFINE h == Over(es[n], c[n - 1])
  <2>3. h = [k \in DOMAIN h |-> h[k]]
    BY DEF Over
  <2> QED
    BY <2>2, <2>3
<1> QED
  BY <1>2, <1>3

\* What a claim puts into the graph.
LEMMA EntryIs ==
    ASSUME NEW es, NEW c \in Claims(es)
    PROVE  LET g == add_edge(<<>>, EdgeAlong(es[c[1]], c[2], c[3]))
           IN  DOMAIN g = {Ends(es, c)} /\ g[Ends(es, c)] = Won(es, c)
<1> DEFINE e == EdgeAlong(es[c[1]], c[2], c[3])
           w == es[c[1]]
           g == add_edge(<<>>, e)
           k == <<e.source, e.target>>
           v == [weight |-> e.weight, id |-> e.id]
<1>1. PICK j \in DOMAIN es : IsRoad(es[j]) /\ \E i \in 1 .. (Len(es[j].refs) - 1) :
               \E d \in Directions(es[j]) : c = <<j, i, d>>
  BY ClaimIs
<1>2. w = es[j] /\ IsRoad(w) /\ c[3] \in {0, 1}
  BY <1>1 DEF Directions
<1>3. (CHOOSE x \in {weighting(z) : z \in road_class(w.tags)} : TRUE) = Weight(w)
  <2>1. \A x, y \in road_class(w.tags) : x = y
    BY DEF road_class, Lookup
  <2> DEFINE R == road_class(w.tags)
             y == CHOOSE x \in R : TRUE
  <2>2. R # {} /\ \A u, z \in R : u = z
    BY <1>2, <2>1 DEF IsRoad
  <2> HIDE DEF R
  <2>3. y \in R
    BY <2>2
  <2> HIDE DEF y
  <2>4. {weighting(u) : u \in R} = {weighting(y)}
    BY <2>2, <2>3
  <2>5. (CHOOSE x \in {weighting(y)} : TRUE) = weighting(y)
    <3> DEFINE z == weighting(y)
    <3> HIDE DEF z
    <3>1. (CHOOSE x \in {z} : TRUE) \in {z}
      OBVIOUS
    <3>2. (CHOOSE x \in {z} : TRUE) = z
      BY <3>1
    <3> QED
      BY <3>2 DEF z
  <2>6. Weight(w) = weighting(y)
    BY Zenon DEF Weight, y, R
  <2> QED
    BY <2>4, <2>5, <2>6, Zenon DEF R
<1>4. k = Ends(es, c)
  BY <1>2 DEF EdgeAlong, Edge, Ends
<1>5. v = Won(es, c)
  <2>1. Won(es, c) = [weight |-> Weight(w),
                      id |-> [id |-> w.id, direction |-> IF c[3] = 0 THEN "Outgoing" ELSE "Incoming"]]
    BY <1>3, Zenon DEF Won
  <2>2. e.weight = Weight(w)
    BY <1>2 DEF EdgeAlong, Edge
  <2>3. e.id = IF c[3] = 0 THEN forward(EdgeId(w.id)) ELSE backward(EdgeId(w.id))
    BY <1>2 DEF EdgeAlong, Edge
  <2>4. /\ forward(EdgeId(w.id)) = [id |-> w.id, direction |-> "Outgoing"]
        /\ backward(EdgeId(w.id)) = [id |-> w.id, direction |-> "Incoming"]
    BY DEF forward, backward, EdgeId, with_direction
  <2> HIDE DEF e, w
  <2> QED
    BY <2>1, <2>2, <2>3, <2>4
<1>6. g = Over(One(k, v), <<>>)
  BY DEF add_edge
<1> HIDE DEF k, v
<1>7. DOMAIN One(k, v) = {k} /\ One(k, v)[k] = v
  BY DEF One
<1>8. DOMAIN g = {k} /\ g[k] = v
  <2> DEFINE o == One(k, v)
  <2> HIDE DEF o, g
  <2>1. DOMAIN <<>> = {}
    OBVIOUS
  <2>2. DOMAIN o = {k} /\ o[k] = v /\ g = Over(o, <<>>)
    BY <1>6, <1>7 DEF o
  <2> QED
    BY <2>1, <2>2 DEF Over
<1> QED
  BY <1>4, <1>5, <1>8


\* The graph assembled is the one of the claims that come last.
LEMMA GraphIs ==
    ASSUME NEW es, ElementsOK(es)
    PROVE  /\ AddEdges(FlattenSeq(EdgeRows(es))) = GraphOf(es)
           /\ \A k \in Pairs(es) : \E c : Wins(es, c, k)
<1> DEFINE n == Len(es)
           ee == EdgeRows(es)
           S == AllOf(ee, n)
           P == Places(ee, n)
           fl == FlattenSeq(ee)
           en == [x \in S |-> add_edge(<<>>, x)]
           ents == Entries(fl, en)
           G == PutAll(ents)
           E(p) == en[ee[p[1]][p[2]]]
<1>1. Rows(ee, n, S) /\ n \in Nat
  BY RowsAre
<1>2. fl \in Seq(S) /\ Len(fl) \in Nat /\ DOMAIN fl = 1 .. Len(fl)
  <2>1. fl \in Seq(S)
    BY <1>1, FlattenInSeq
  <2> QED
    BY <2>1
<1>3. AddEdges(fl) = G
  <2>1. \A x \in 1 .. Len(fl) : en[fl[x]] = add_edge(<<>>, fl[x])
    <3>1. \A x \in 1 .. Len(fl) : fl[x] \in S
      BY <1>2
    <3> QED
      BY <3>1
  <2> HIDE DEF en, fl
  <2>2. [x \in DOMAIN fl |-> add_edge(<<>>, fl[x])] = ents
    BY <1>2, <2>1 DEF Entries
  <2> QED
    BY <2>2 DEF AddEdges
<1>4. /\ \A k : k \in DOMAIN G <=> \E p \in P : k \in DOMAIN E(p)
      /\ \A k \in DOMAIN G : \E p \in P : /\ k \in DOMAIN E(p)
                                          /\ \A q \in P : Before(p, q) => k \notin DOMAIN E(q)
                                          /\ G[k] = E(p)[k]
  <2> HIDE DEF ee, n, S, en
  <2>1. LastOf(G, ee, n, en)
    BY <1>1, PutAllOfFlat
  <2> QED
    BY <2>1 DEF LastOf
<1>5. G = [k \in DOMAIN G |-> G[k]]
  <2>1. Len(ents) = Len(fl)
    BY <1>2 DEF Entries
  <2> HIDE DEF ents
  <2> QED
    BY <1>2, <2>1, PutAllIsMap
<1>6. PICK F : Claimed(F, es)
  BY EdgesAreClaimed
<1>7. /\ \A p \in P : F[p] \in Claims(es) /\ ee[p[1]][p[2]] = EdgeAlong(es[F[p][1]], F[p][2], F[p][3])
      /\ \A c \in Claims(es) : \E p \in P : F[p] = c
      /\ \A p, q \in P : ~ Before(p, q) => Later(F[p], F[q])
  BY <1>6 DEF Claimed
<1>8. ASSUME NEW p \in P
      PROVE  DOMAIN E(p) = {Ends(es, F[p])} /\ E(p)[Ends(es, F[p])] = Won(es, F[p])
  <2> DEFINE x == ee[p[1]][p[2]]
  <2>1. x \in S
    <3>1. p[1] \in 1 .. n /\ p[2] \in 1 .. Len(ee[p[1]])
      BY <1>1, PlaceIs
    <3>2. ee[p[1]] \in Seq(S)
      BY <1>1, <3>1 DEF Rows
    <3> HIDE DEF S, ee
    <3> QED
      BY <3>1, <3>2, ElementIsIn
  <2>2. E(p) = add_edge(<<>>, x)
    <3> HIDE DEF S, x
    <3>1. en[x] = add_edge(<<>>, x)
      BY <2>1
    <3> QED
      BY <3>1 DEF x
  <2>3. x = EdgeAlong(es[F[p][1]], F[p][2], F[p][3]) /\ F[p] \in Claims(es)
    BY <1>7
  <2> HIDE DEF E, x
  <2> QED
    BY <2>2, <2>3, EntryIs
<1> HIDE DEF G, E, P, ents, en
<1>9. DOMAIN G = Pairs(es)
  <2>1. ASSUME NEW k \in DOMAIN G PROVE k \in Pairs(es)
    <3>1. PICK p \in P : k \in DOMAIN E(p)
      BY <1>4
    <3>2. k = Ends(es, F[p]) /\ F[p] \in Claims(es)
      BY <1>7, <1>8, <3>1
    <3> QED
      BY <3>2 DEF Pairs
  <2>2. ASSUME NEW k \in Pairs(es) PROVE k \in DOMAIN G
    <3>1. PICK c \in Claims(es) : k = Ends(es, c)
      BY DEF Pairs
    <3>2. PICK p \in P : F[p] = c
      BY <1>7
    <3>3. k \in DOMAIN E(p)
      BY <1>8, <3>1, <3>2
    <3> QED
      BY <1>4, <3>3
  <2> QED
    BY <2>1, <2>2
<1>10. ASSUME NEW k \in DOMAIN G PROVE G[k] = Won(es, Winner(es, k)) /\ \E c : Wins(es, c, k)
  <2>1. PICK p \in P : /\ k \in DOMAIN E(p)
                       /\ \A q \in P : Before(p, q) => k \notin DOMAIN E(q)
                       /\ G[k] = E(p)[k]
    BY <1>4
  <2>2. k = Ends(es, F[p]) /\ F[p] \in Claims(es) /\ G[k] = Won(es, F[p])
    BY <1>7, <1>8, <2>1
  <2>3. ASSUME NEW d \in Claims(es), Ends(es, d) = k PROVE Later(F[p], d)
    <3>1. PICK q \in P : F[q] = d
      BY <1>7
    <3>2. k \in DOMAIN E(q)
      BY <1>8, <2>3, <3>1
    <3>3. ~ Before(p, q)
      BY <2>1, <3>2
    <3> QED
      BY <1>7, <3>1, <3>3
  <2>4. Wins(es, F[p], k)
    BY <2>2, <2>3 DEF Wins
  <2>5. Winner(es, k) = F[p]
    BY <2>4, WinnerIs
  <2> QED
    BY <2>2, <2>4, <2>5
<1>11. G = GraphOf(es)
  <2>1. [k \in DOMAIN G |-> G[k]] = [k \in Pairs(es) |-> Won(es, Winner(es, k))]
    BY <1>9, <1>10
  <2> QED
    BY <1>5, <2>1 DEF GraphOf
<1> QED
  BY <1>3, <1>9, <1>10, <1>11


-----------------------------------------------------------------------------
(* The metadata and the positions: at most one entry for each element.     *)

LEMMA MaxIs ==
    ASSUME NEW T, T \subseteq Int, NEW j \in T, \A y \in T : y <= j
    PROVE  Max(T) = j
<1> DEFINE m == CHOOSE x \in T : \A y \in T : x >= y
<1>1. m \in T /\ \A y \in T : m >= y
  <2>1. \A y \in T : j >= y
    OBVIOUS
  <2> QED
    BY <2>1
<1>2. Max(T) = m
  BY DEF Max
<1> HIDE DEF m
<1>3. m \in Int /\ j \in Int /\ m >= j /\ m <= j
  BY <1>1
<1> QED
  BY <1>2, <1>3

\* The elements in J add one entry each, the others none.
Singles(ss, n, en, J, key, val) ==
    /\ J \subseteq 1 .. n
    /\ \A p \in Places(ss, n) :
         /\ p[2] = 1
         /\ p[1] \in J => /\ DOMAIN en[ss[p[1]][p[2]]] = {key[p[1]]}
                          /\ en[ss[p[1]][p[2]]][key[p[1]]] = val[p[1]]
         /\ p[1] \notin J => DOMAIN en[ss[p[1]][p[2]]] = {}
    /\ \A j \in J : \E p \in Places(ss, n) : p[1] = j

\* The last entry with a key is the one kept.
KeptLast(g, J, key, val) ==
    /\ DOMAIN g = {key[j] : j \in J}
    /\ \A k \in DOMAIN g : g[k] = val[Max({j \in J : key[j] = k})]

LEMMA LastOfSingles ==
    ASSUME NEW g, NEW ss, NEW n \in Nat, NEW en, LastOf(g, ss, n, en),
           NEW J, NEW key, NEW val, Singles(ss, n, en, J, key, val)
    PROVE  KeptLast(g, J, key, val)
<1> DEFINE P == Places(ss, n)
           E(p) == en[ss[p[1]][p[2]]]
<1>1. /\ \A k : k \in DOMAIN g <=> \E p \in P : k \in DOMAIN E(p)
      /\ \A k \in DOMAIN g : \E p \in P : /\ k \in DOMAIN E(p)
                                          /\ \A q \in P : Before(p, q) => k \notin DOMAIN E(q)
                                          /\ g[k] = E(p)[k]
  BY DEF LastOf
<1>2. /\ J \subseteq 1 .. n
      /\ \A p \in P : p[2] = 1 /\ (p[1] \in J => DOMAIN E(p) = {key[p[1]]} /\ E(p)[key[p[1]]] = val[p[1]])
                               /\ (p[1] \notin J => DOMAIN E(p) = {})
      /\ \A j \in J : \E p \in P : p[1] = j
  BY DEF Singles
<1> HIDE DEF P, E
<1>3. DOMAIN g = {key[j] : j \in J}
  <2>1. ASSUME NEW k \in DOMAIN g PROVE \E j \in J : k = key[j]
    <3>1. PICK p \in P : k \in DOMAIN E(p)
      BY <1>1
    <3>2. p[1] \in J
      BY <1>2, <3>1
    <3>3. DOMAIN E(p) = {key[p[1]]}
      BY <1>2, <3>2
    <3> QED
      BY <3>1, <3>2, <3>3
  <2>2. ASSUME NEW j \in J PROVE key[j] \in DOMAIN g
    <3>1. PICK p \in P : p[1] = j
      BY <1>2
    <3>2. key[j] \in DOMAIN E(p)
      BY <1>2, <3>1
    <3> QED
      BY <1>1, <3>2
  <2> QED
    BY <2>1, <2>2
<1>4. ASSUME NEW k \in DOMAIN g PROVE g[k] = val[Max({j \in J : key[j] = k})]
  <2> DEFINE T == {j \in J : key[j] = k}
  <2>1. PICK p \in P : /\ k \in DOMAIN E(p)
                       /\ \A q \in P : Before(p, q) => k \notin DOMAIN E(q)
                       /\ g[k] = E(p)[k]
    BY <1>1
  <2>2. p[1] \in J /\ k = key[p[1]] /\ g[k] = val[p[1]]
    BY <1>2, <2>1
  <2>3. ASSUME NEW y \in T PROVE y <= p[1]
    <3>1. y \in J /\ key[y] = k
      OBVIOUS
    <3>2. PICK q \in P : q[1] = y
      BY <1>2, <3>1
    <3>3. k \in DOMAIN E(q)
      BY <1>2, <3>1, <3>2
    <3>4. ~ Before(p, q)
      BY <2>1, <3>3
    <3>5. ~ (p[1] < y)
      BY <3>2, <3>4 DEF Before
    <3>6. p[1] \in Int /\ y \in Int
      <4>1. p[1] \in 1 .. n /\ y \in 1 .. n
        BY <1>2, <2>2, <3>1
      <4> QED
        BY <4>1
    <3> QED
      BY <3>5, <3>6
  <2>4. T \subseteq Int /\ p[1] \in T
    <3>1. J \subseteq Int
      BY <1>2
    <3> QED
      BY <2>2, <3>1
  <2> HIDE DEF T
  <2>5. Max(T) = p[1]
    BY <2>3, <2>4, MaxIs
  <2> QED
    BY <2>2, <2>5 DEF T
<1> QED
  BY <1>3, <1>4 DEF KeptLast

MetaOf(es) == [w \in {es[j].id : j \in Roads(es)} |-> es[Max({j \in Roads(es) : es[j].id = w})].tags]
Placed(es) == {j \in DOMAIN es : es[j].kind = "node" /\ \E p \in Pairs(es) : es[j].node.id \in {p[1], p[2]}}
HashOf(es) ==
    [m \in {es[j].node.id : j \in Placed(es)} |->
       es[Max({j \in Placed(es) : es[j].node.id = m})].node.position]

LEMMA ExpectedRest ==
    ASSUME NEW f
    PROVE  Expected(f).meta = MetaOf(Elements(f)) /\ Expected(f).hash = HashOf(Elements(f))
<1> DEFINE es == Elements(f)
           claims == Claims(es)
           pairs == {Ends(es, c) : c \in claims}
           placed == {j \in DOMAIN es : es[j].kind = "node" /\ \E p \in pairs : es[j].node.id \in {p[1], p[2]}}
           m == [w \in {es[j].id : j \in Roads(es)} |-> es[Max({j \in Roads(es) : es[j].id = w})].tags]
           h == [x \in {es[j].node.id : j \in placed} |->
                   es[Max({j \in placed : es[j].node.id = x})].node.position]
<1>1. Expected(f).meta = m /\ Expected(f).hash = h
  BY DEF Expected
<1>2. m = MetaOf(es)
  BY Zenon DEF MetaOf
<1>3. h = HashOf(es)
  BY Zenon DEF HashOf, Placed, Pairs
<1> QED
  BY <1>1, <1>2, <1>3, ZenonT(40)


LEMMA MapOfEntries ==
    ASSUME NEW S, NEW fl \in Seq(S), NEW en
    PROVE  LET g == PutAll(Entries(fl, en)) IN g = [k \in DOMAIN g |-> g[k]]
<1> DEFINE ents == Entries(fl, en)
<1>1. Len(ents) \in Nat
  <2>1. Len(fl) \in Nat
    OBVIOUS
  <2> QED
    BY <2>1 DEF Entries
<1> HIDE DEF ents
<1> QED
  BY <1>1, PutAllIsMap DEF ents

\* An element of a sequence of one at most is at its first place.
LEMMA PlacesOfOnes ==
    ASSUME NEW es, NEW n \in Nat, NEW ss, NEW J,
           \A j \in 1 .. n : IF j \in J THEN Len(ss[j]) = 1 ELSE Len(ss[j]) = 0
    PROVE  /\ \A p \in Places(ss, n) : p[1] \in J /\ p[1] \in 1 .. n /\ p[2] = 1
           /\ \A j \in J : j \in 1 .. n => \E p \in Places(ss, n) : p[1] = j
<1>1. ASSUME NEW p \in Places(ss, n) PROVE p[1] \in J /\ p[1] \in 1 .. n /\ p[2] = 1
  <2>1. p[1] \in 1 .. n /\ p[2] \in Nat /\ p[2] \in 1 .. Len(ss[p[1]])
    BY PlaceIs
  <2>2. CASE p[1] \in J
    <3>1. Len(ss[p[1]]) = 1
      BY <2>1, <2>2
    <3> QED
      BY <2>1, <2>2, <3>1
  <2>3. CASE p[1] \notin J
    <3>1. Len(ss[p[1]]) = 0
      BY <2>1, <2>3
    <3> QED
      BY <2>1, <3>1
  <2> QED
    BY <2>2, <2>3
<1>2. ASSUME NEW j \in J, j \in 1 .. n PROVE \E p \in Places(ss, n) : p[1] = j
  <2> DEFINE p == <<j, 1>>
  <2>1. p = <<p[1], p[2]>> /\ p[1] = j /\ p[2] = 1
    OBVIOUS
  <2> HIDE DEF p
  <2>2. Len(ss[p[1]]) = 1 /\ p[1] \in 1 .. n
    BY <1>2, <2>1
  <2>3. p[2] \in Nat /\ p[2] \in 1 .. Len(ss[p[1]])
    BY <2>1, <2>2
  <2>4. p \in Places(ss, n)
    BY <2>1, <2>2, <2>3, PlaceIs
  <2> QED
    BY <2>1, <2>4
<1> QED
  BY <1>1, <1>2

LEMMA MetaIs ==
    ASSUME NEW es, ElementsOK(es)
    PROVE  Collect(FlattenSeq(MetaRows(es))) = MetaOf(es)
<1> DEFINE n == Len(es)
           mm == MetaRows(es)
           S == AllOf(mm, n)
           fl == FlattenSeq(mm)
           en == [x \in S |-> One(x.id, x.tags)]
           G == PutAll(Entries(fl, en))
           J == Roads(es)
           key == [j \in J |-> es[j].id]
           val == [j \in J |-> es[j].tags]
<1>1. Rows(mm, n, S) /\ n \in Nat /\ DOMAIN es = 1 .. n /\ \A i \in 1 .. n : mm[i] = MetasOf(es[i])
  BY RowsAre
<1>2. fl \in Seq(S) /\ Len(fl) \in Nat /\ DOMAIN fl = 1 .. Len(fl)
  <2>1. fl \in Seq(S)
    BY <1>1, FlattenInSeq
  <2> QED
    BY <2>1
<1>3. Collect(fl) = G
  <2>1. \A x \in 1 .. Len(fl) : en[fl[x]] = One(fl[x].id, fl[x].tags)
    <3>1. \A x \in 1 .. Len(fl) : fl[x] \in S
      BY <1>2
    <3> QED
      BY <3>1
  <2> HIDE DEF en, fl
  <2>2. [x \in DOMAIN fl |-> One(fl[x].id, fl[x].tags)] = Entries(fl, en)
    BY <1>2, <2>1 DEF Entries
  <2> QED
    BY <2>2 DEF Collect
<1>4. J \subseteq 1 .. n /\ \A j : j \in J <=> j \in 1 .. n /\ IsRoad(es[j])
  BY <1>1 DEF Roads, IsRoad
<1>5. \A j \in J : key[j] = es[j].id /\ val[j] = es[j].tags
  OBVIOUS
<1> HIDE DEF mm, S, fl, n, J, key, val
<1>6. \A j \in 1 .. n : IF j \in J THEN Len(mm[j]) = 1 ELSE Len(mm[j]) = 0
  <2> SUFFICES ASSUME NEW j \in 1 .. n PROVE IF j \in J THEN Len(mm[j]) = 1 ELSE Len(mm[j]) = 0
    OBVIOUS
  <2> DEFINE x == [id |-> es[j].id, tags |-> es[j].tags]
  <2>1. mm[j] = IF j \in J THEN <<x>> ELSE <<>>
    BY <1>1, <1>4 DEF MetasOf
  <2> HIDE DEF x
  <2> QED
    BY <2>1
<1>7. /\ \A p \in Places(mm, n) : p[1] \in J /\ p[1] \in 1 .. n /\ p[2] = 1
      /\ \A j \in J : \E p \in Places(mm, n) : p[1] = j
  <2>1. /\ \A p \in Places(mm, n) : p[1] \in J /\ p[1] \in 1 .. n /\ p[2] = 1
        /\ \A j \in J : j \in 1 .. n => \E p \in Places(mm, n) : p[1] = j
    BY <1>1, <1>6, PlacesOfOnes
  <2> QED
    BY <1>4, <2>1
<1>8. ASSUME NEW p \in Places(mm, n)
      PROVE  /\ DOMAIN en[mm[p[1]][p[2]]] = {key[p[1]]}
             /\ en[mm[p[1]][p[2]]][key[p[1]]] = val[p[1]]
  <2> DEFINE j == p[1]
             x == mm[j][1]
  <2>1. p[2] = 1 /\ j \in J /\ j \in 1 .. n
    BY <1>7
  <2>2. mm[j] = <<[id |-> es[j].id, tags |-> es[j].tags]>>
    BY <1>1, <1>4, <2>1 DEF MetasOf
  <2>3. x.id = key[j] /\ x.tags = val[j]
    BY <1>5, <2>1, <2>2
  <2>4. x \in S
    <3>1. mm[j] \in Seq(S) /\ Len(mm[j]) = 1
      BY <1>1, <1>6, <2>1 DEF Rows
    <3> QED
      BY <3>1, ElementIsIn
  <2> HIDE DEF x
  <2>5. en[x] = One(key[j], val[j])
    BY <2>3, <2>4
  <2>6. DOMAIN en[x] = {key[j]} /\ en[x][key[j]] = val[j]
    BY <2>5 DEF One
  <2> QED
    BY <2>1, <2>6, ZenonT(40) DEF x
<1> HIDE DEF en
<1>9. Singles(mm, n, en, J, key, val)
  BY <1>4, <1>7, <1>8 DEF Singles
<1>10. LastOf(G, mm, n, en)
  BY <1>1, PutAllOfFlat DEF fl
<1>11. G = [k \in DOMAIN G |-> G[k]]
  BY <1>2, MapOfEntries
<1> HIDE DEF G
<1>12. /\ DOMAIN G = {key[j] : j \in J}
       /\ \A k \in DOMAIN G : G[k] = val[Max({j \in J : key[j] = k})]
  <2>1. KeptLast(G, J, key, val)
    BY <1>1, <1>9, <1>10, LastOfSingles
  <2> QED
    BY <2>1 DEF KeptLast
<1>13. {key[j] : j \in J} = {es[j].id : j \in J}
  BY <1>5
<1>14. ASSUME NEW k \in DOMAIN G PROVE G[k] = es[Max({j \in J : es[j].id = k})].tags
  <2> DEFINE T == {j \in J : key[j] = k}
  <2>1. T = {j \in J : es[j].id = k}
    BY <1>5
  <2>2. T # {}
    BY <1>12
  <2>3. T \subseteq 0 .. n
    BY <1>4
  <2>4. Max(T) \in T
    BY <1>1, <2>2, <2>3, MaxFacts
  <2> DEFINE m == Max(T)
  <2>5. val[m] = es[m].tags
    <3>1. m \in J
      BY <2>4
    <3> HIDE DEF m
    <3> QED
      BY <1>5, <3>1
  <2>6. G[k] = val[m]
    BY <1>12
  <2> QED
    BY <2>1, <2>5, <2>6, Zenon
<1>15. G = MetaOf(es)
  BY <1>11, <1>12, <1>13, <1>14 DEF MetaOf, J
<1> QED
  BY <1>3, <1>15 DEF fl, mm


LEMMA HashIs ==
    ASSUME NEW es, ElementsOK(es)
    PROVE  InsertUsed(FlattenSeq(NodeRows(es)), GraphOf(es)) = HashOf(es)
<1> DEFINE n == Len(es)
           nn == NodeRows(es)
           S == AllOf(nn, n)
           fl == FlattenSeq(nn)
           Used(id) == contains_node(GraphOf(es), id)
           en == [x \in S |-> IF Used(x.id) THEN One(x.id, x.position) ELSE <<>>]
           G == PutAll(Entries(fl, en))
           A == {j \in 1 .. n : es[j].kind = "node"}
           J == Placed(es)
           key == [j \in J |-> es[j].node.id]
           val == [j \in J |-> es[j].node.position]
<1>1. Rows(nn, n, S) /\ n \in Nat /\ DOMAIN es = 1 .. n /\ \A i \in 1 .. n : nn[i] = NodesOf(es[i])
  BY RowsAre
<1>2. fl \in Seq(S) /\ Len(fl) \in Nat /\ DOMAIN fl = 1 .. Len(fl)
  <2>1. fl \in Seq(S)
    BY <1>1, FlattenInSeq
  <2> QED
    BY <2>1
<1> HIDE DEF Used
<1>3. InsertUsed(fl, GraphOf(es)) = G
  <2>1. \A x \in 1 .. Len(fl) : en[fl[x]] = IF Used(fl[x].id) THEN One(fl[x].id, fl[x].position) ELSE <<>>
    <3>1. \A x \in 1 .. Len(fl) : fl[x] \in S
      BY <1>2
    <3> QED
      BY <3>1
  <2> HIDE DEF en, fl
  <2>2. [x \in DOMAIN fl |-> IF Used(fl[x].id) THEN One(fl[x].id, fl[x].position) ELSE <<>>] = Entries(fl, en)
    BY <1>2, <2>1 DEF Entries
  <2> QED
    BY <2>2, Zenon DEF InsertUsed, Used
<1>4. \A id : Used(id) <=> \E p \in Pairs(es) : id \in {p[1], p[2]}
  <2>1. DOMAIN GraphOf(es) = Pairs(es)
    BY DEF GraphOf
  <2> QED
    BY <2>1, Zenon DEF Used, contains_node
<1>5. J \subseteq 1 .. n /\ \A j : j \in J <=> j \in 1 .. n /\ j \in A /\ Used(es[j].node.id)
  <2>1. \A j : j \in J <=> j \in 1 .. n /\ es[j].kind = "node" /\ Used(es[j].node.id)
    BY <1>1, <1>4, Zenon DEF Placed
  <2> HIDE DEF J
  <2> QED
    BY <2>1
<1>6. \A j \in J : key[j] = es[j].node.id /\ val[j] = es[j].node.position
  OBVIOUS
<1> HIDE DEF nn, S, fl, n, J, key, val
<1>7. \A j \in 1 .. n : IF j \in A THEN Len(nn[j]) = 1 ELSE Len(nn[j]) = 0
  <2> SUFFICES ASSUME NEW j \in 1 .. n PROVE IF j \in A THEN Len(nn[j]) = 1 ELSE Len(nn[j]) = 0
    OBVIOUS
  <2> DEFINE x == es[j].node
  <2>1. nn[j] = IF j \in A THEN <<x>> ELSE <<>>
    BY <1>1 DEF NodesOf
  <2> HIDE DEF x
  <2> QED
    BY <2>1
<1>8. A \subseteq 1 .. n
  OBVIOUS
<1> HIDE DEF A
<1>9. /\ \A p \in Places(nn, n) : p[1] \in A /\ p[1] \in 1 .. n /\ p[2] = 1
      /\ \A j \in J : \E p \in Places(nn, n) : p[1] = j
  <2>1. /\ \A p \in Places(nn, n) : p[1] \in A /\ p[1] \in 1 .. n /\ p[2] = 1
        /\ \A j \in A : j \in 1 .. n => \E p \in Places(nn, n) : p[1] = j
    BY <1>1, <1>7, PlacesOfOnes
  <2> QED
    BY <1>5, <2>1
<1>10. ASSUME NEW p \in Places(nn, n)
       PROVE  LET g == en[nn[p[1]][p[2]]]
              IN  /\ p[1] \in J => DOMAIN g = {key[p[1]]} /\ g[key[p[1]]] = val[p[1]]
                  /\ p[1] \notin J => DOMAIN g = {}
  <2> DEFINE j == p[1]
             x == nn[j][1]
  <2>1. p[2] = 1 /\ j \in A /\ j \in 1 .. n
    BY <1>9
  <2>2. nn[j] = <<es[j].node>>
    BY <1>1, <2>1 DEF NodesOf, A
  <2>3. x = es[j].node
    BY <2>2
  <2>4. x \in S
    <3>1. nn[j] \in Seq(S) /\ Len(nn[j]) = 1
      BY <1>1, <1>7, <2>1 DEF Rows
    <3> QED
      BY <3>1, ElementIsIn
  <2> HIDE DEF x
  <2>5. en[x] = IF Used(x.id) THEN One(x.id, x.position) ELSE <<>>
    BY <2>4
  <2> HIDE DEF en
  <2>6. CASE j \in J
    <3>1. en[x] = One(key[j], val[j])
      BY <1>5, <1>6, <2>3, <2>5, <2>6
    <3>2. DOMAIN en[x] = {key[j]} /\ en[x][key[j]] = val[j]
      BY <3>1 DEF One
    <3> QED
      BY <2>1, <2>6, <3>2 DEF x
  <2>7. CASE j \notin J
    <3>1. en[x] = <<>>
      BY <1>5, <2>1, <2>3, <2>5, <2>7
    <3>2. DOMAIN en[x] = {}
      BY <3>1
    <3> QED
      BY <2>1, <2>7, <3>2 DEF x
  <2> QED
    BY <2>6, <2>7
<1> HIDE DEF en
<1>11. Singles(nn, n, en, J, key, val)
  BY <1>5, <1>9, <1>10 DEF Singles
<1>12. LastOf(G, nn, n, en)
  BY <1>1, PutAllOfFlat DEF fl
<1>13. G = [k \in DOMAIN G |-> G[k]]
  BY <1>2, MapOfEntries
<1> HIDE DEF G
<1>14. /\ DOMAIN G = {key[j] : j \in J}
       /\ \A k \in DOMAIN G : G[k] = val[Max({j \in J : key[j] = k})]
  <2>1. KeptLast(G, J, key, val)
    BY <1>1, <1>11, <1>12, LastOfSingles
  <2> QED
    BY <2>1 DEF KeptLast
<1>15. {key[j] : j \in J} = {es[j].node.id : j \in J}
  BY <1>6
<1>16. ASSUME NEW k \in DOMAIN G PROVE G[k] = es[Max({j \in J : es[j].node.id = k})].node.position
  <2> DEFINE T == {j \in J : key[j] = k}
  <2>1. T = {j \in J : es[j].node.id = k}
    BY <1>6
  <2>2. T # {}
    BY <1>14
  <2>3. T \subseteq 0 .. n
    BY <1>5
  <2>4. Max(T) \in T
    BY <1>1, <2>2, <2>3, MaxFacts
  <2> DEFINE m == Max(T)
  <2>5. val[m] = es[m].node.position
    <3>1. m \in J
      BY <2>4
    <3> HIDE DEF m
    <3> QED
      BY <1>6, <3>1
  <2>6. G[k] = val[m]
    BY <1>14
  <2> QED
    BY <2>1, <2>5, <2>6, Zenon
<1>17. G = HashOf(es)
  BY <1>13, <1>14, <1>15, <1>16 DEF HashOf, J
<1> QED
  BY <1>3, <1>17 DEF fl, nn

\* All that is read, assembled, is what the file says.
LEMMA AssembleIs ==
    ASSUME NEW f \in Files
    PROVE  Same(Assemble(Read(Elements(f), 0, Len(Elements(f)))), Expected(f))
<1> DEFINE es == Elements(f)
           n == Len(es)
           t == Read(es, 0, n)
           x == [EmptyNetwork EXCEPT !.graph = AddEdges(t.edges), !.meta = Collect(t.metadata),
                                     !.hash = InsertUsed(t.nodes, AddEdges(t.edges))]
<1>1. ElementsOK(es)
  BY ElementsOf DEF ElementsOK
<1> HIDE DEF es
<1>2. /\ t.nodes = FlattenSeq(NodeRows(es)) /\ t.edges = FlattenSeq(EdgeRows(es))
      /\ t.metadata = FlattenSeq(MetaRows(es))
  <2>1. /\ Seg(NodeRows(es), 0, n) = FlattenSeq(NodeRows(es))
        /\ Seg(EdgeRows(es), 0, n) = FlattenSeq(EdgeRows(es))
        /\ Seg(MetaRows(es), 0, n) = FlattenSeq(MetaRows(es))
    BY <1>1, RowsAre, SegAll
  <2> QED
    BY <2>1 DEF Read
<1> HIDE DEF t
<1>3. /\ AddEdges(t.edges) = GraphOf(es)
      /\ Collect(t.metadata) = MetaOf(es)
      /\ InsertUsed(t.nodes, AddEdges(t.edges)) = HashOf(es)
  BY <1>1, <1>2, GraphIs, MetaIs, HashIs
<1>4. Assemble(t) = rebuild_indices(x)
  BY Zenon DEF Assemble
<1>5. x.graph = GraphOf(es) /\ x.meta = MetaOf(es) /\ x.hash = HashOf(es)
      /\ x = [graph |-> x.graph, hash |-> x.hash, meta |-> x.meta, index |-> x.index, index_edge |-> x.index_edge]
  <2> DEFINE g == AddEdges(t.edges)
             m == Collect(t.metadata)
             h == InsertUsed(t.nodes, AddEdges(t.edges))
  <2> HIDE DEF g, m, h
  <2>1. x = [EmptyNetwork EXCEPT !.graph = g, !.meta = m, !.hash = h]
    BY Zenon DEF g, m, h
  <2>2. x = [graph |-> g, hash |-> h, meta |-> m, index |-> <<>>, index_edge |-> <<>>]
    <3> DEFINE a == [EmptyNetwork EXCEPT !.graph = g]
               b == [a EXCEPT !.meta = m]
    <3>1. a = [graph |-> g, hash |-> <<>>, meta |-> <<>>, index |-> <<>>, index_edge |-> <<>>]
      BY DEF EmptyNetwork
    <3> HIDE DEF a
    <3>2. b = [graph |-> g, hash |-> <<>>, meta |-> m, index |-> <<>>, index_edge |-> <<>>]
      BY <3>1
    <3> HIDE DEF b
    <3>3. [b EXCEPT !.hash = h] = [graph |-> g, hash |-> h, meta |-> m, index |-> <<>>, index_edge |-> <<>>]
      BY <3>2
    <3> QED
      BY <2>1, <3>3, Zenon DEF a, b
  <2> HIDE DEF x
  <2> QED
    BY <1>3, <2>2 DEF g, m, h
<1> HIDE DEF x
<1>6. /\ rebuild_indices(x).graph = x.graph /\ rebuild_indices(x).meta = x.meta
      /\ rebuild_indices(x).hash = x.hash
  BY <1>5 DEF rebuild_indices
<1>7. Expected(f).graph = GraphOf(es) /\ Expected(f).meta = MetaOf(es) /\ Expected(f).hash = HashOf(es)
  BY ExpectedGraph, ExpectedRest DEF es
<1>8. Same(Assemble(t), Expected(f))
  BY <1>4, <1>5, <1>6, <1>7 DEF Same
<1> QED
  BY <1>8 DEF t, n, es


-----------------------------------------------------------------------------
(* Networks that say what a file says.                                     *)

IsNet(n) == n = [graph |-> n.graph, hash |-> n.hash, meta |-> n.meta, index |-> n.index, index_edge |-> n.index_edge]
Whole(n) == IsNet(n) /\ \E f \in Files : Same(n, Expected(f))

EdgeIndex(n) ==
    build([e \in UNION {Row(n, GraphEdge(n, pair)) : pair \in DOMAIN n.graph} |->
             <<e.source.position, e.target.position>>])
EdgesIndexed(n) == n.index_edge = EdgeIndex(n)

LEMMA RebuiltIs ==
    ASSUME NEW n, IsNet(n)
    PROVE  LET r == rebuild_indices(n)
           IN  /\ IsNet(r) /\ r.graph = n.graph /\ r.hash = n.hash /\ r.meta = n.meta
               /\ EdgesIndexed(r)
<1> DEFINE a == build([x \in DOMAIN n.hash |-> <<n.hash[x], n.hash[x]>>])
           b == EdgeIndex(n)
           r == rebuild_indices(n)
<1>1. r = [n EXCEPT !.index = a, !.index_edge = b]
  BY Zenon DEF rebuild_indices, EdgeIndex
<1> HIDE DEF a, b, r
<1>2. r = [graph |-> n.graph, hash |-> n.hash, meta |-> n.meta, index |-> a, index_edge |-> b]
  BY <1>1 DEF IsNet
<1>3. r.graph = n.graph /\ r.hash = n.hash /\ r.meta = n.meta /\ r.index_edge = b /\ IsNet(r)
  BY <1>2 DEF IsNet
<1>4. EdgeIndex(r) = EdgeIndex(n)
  <2>1. \A pair : GraphEdge(r, pair) = GraphEdge(n, pair)
    BY <1>3, Zenon DEF GraphEdge
  <2>2. \A e : Row(r, e) = Row(n, e)
    <3> SUFFICES ASSUME NEW e PROVE FatEdge(r, e) = FatEdge(n, e)
      BY Zenon DEF Row
    <3> DEFINE A == Lookup(n.hash, e.source)
               B == Lookup(n.hash, e.target)
               Z(s, t) == Edge(Node(e.source, s), Node(e.target, t), e.weight, e.id)
    <3>1. Lookup(r.hash, e.source) = A /\ Lookup(r.hash, e.target) = B
      BY <1>3, Zenon
    <3>2. FatEdge(n, e) = {Z(s, t) : s \in A, t \in B}
      BY DEF FatEdge
    <3>3. FatEdge(r, e) = {Z(s, t) : s \in Lookup(r.hash, e.source), t \in Lookup(r.hash, e.target)}
      BY DEF FatEdge
    <3> HIDE DEF A, B, Z
    <3> QED
      BY <3>1, <3>2, <3>3
  <2>3. {Row(r, GraphEdge(r, pair)) : pair \in DOMAIN r.graph} = {Row(n, GraphEdge(n, pair)) : pair \in DOMAIN n.graph}
    BY <1>3, <2>1, <2>2
  <2> QED
    BY <2>3, Zenon DEF EdgeIndex
<1>5. EdgesIndexed(r)
  BY <1>3, <1>4 DEF EdgesIndexed, b
<1> QED
  BY <1>3, <1>5 DEF r

LEMMA RebuiltIsWhole ==
    ASSUME NEW n, Whole(n)
    PROVE  Whole(rebuild_indices(n)) /\ EdgesIndexed(rebuild_indices(n))
<1> DEFINE r == rebuild_indices(n)
<1>1. IsNet(r) /\ r.graph = n.graph /\ r.hash = n.hash /\ r.meta = n.meta /\ EdgesIndexed(r)
  BY RebuiltIs DEF Whole
<1> HIDE DEF r
<1>2. PICK f \in Files : Same(n, Expected(f))
  BY DEF Whole
<1>3. Same(r, Expected(f))
  BY <1>1, <1>2 DEF Same
<1> QED
  BY <1>1, <1>3 DEF Whole, r

LEMMA SavedIsWhole ==
    ASSUME NEW n, Whole(n)
    PROVE  Whole(Saved(n))
<1> DEFINE s == Saved(n)
<1>1. s = [graph |-> n.graph, hash |-> n.hash, meta |-> n.meta, index |-> <<>>, index_edge |-> <<>>]
  <2> DEFINE a == [n EXCEPT !.index = <<>>]
  <2>1. a = [graph |-> n.graph, hash |-> n.hash, meta |-> n.meta, index |-> <<>>, index_edge |-> n.index_edge]
    BY DEF Whole, IsNet
  <2> HIDE DEF a
  <2>2. [a EXCEPT !.index_edge = <<>>]
          = [graph |-> n.graph, hash |-> n.hash, meta |-> n.meta, index |-> <<>>, index_edge |-> <<>>]
    BY <2>1
  <2> QED
    BY <2>2, Zenon DEF Saved, a
<1> HIDE DEF s
<1>2. IsNet(s) /\ s.graph = n.graph /\ s.hash = n.hash /\ s.meta = n.meta
  BY <1>1 DEF IsNet
<1>3. PICK f \in Files : Same(n, Expected(f))
  BY DEF Whole
<1>4. Same(s, Expected(f))
  BY <1>2, <1>3 DEF Same
<1> QED
  BY <1>2, <1>4 DEF Whole, s

LEMMA AssembledIsWhole ==
    ASSUME NEW f \in Files
    PROVE  LET n == Assemble(Read(Elements(f), 0, Len(Elements(f))))
           IN  Whole(n) /\ EdgesIndexed(n)
<1> DEFINE t == Read(Elements(f), 0, Len(Elements(f)))
           g == AddEdges(t.edges)
           m == Collect(t.metadata)
           h == InsertUsed(t.nodes, g)
           x == [EmptyNetwork EXCEPT !.graph = g, !.meta = m, !.hash = h]
<1>1. Assemble(t) = rebuild_indices(x)
  BY Zenon DEF Assemble
<1> HIDE DEF t, g, m, h
<1>2. IsNet(x)
  <2>1. EmptyNetwork = [graph |-> <<>>, hash |-> <<>>, meta |-> <<>>, index |-> <<>>, index_edge |-> <<>>]
    BY DEF EmptyNetwork
  <2> DEFINE a == [EmptyNetwork EXCEPT !.graph = g]
             b == [a EXCEPT !.meta = m]
  <2>2. a = [graph |-> g, hash |-> <<>>, meta |-> <<>>, index |-> <<>>, index_edge |-> <<>>]
    BY <2>1
  <2> HIDE DEF a
  <2>3. b = [graph |-> g, hash |-> <<>>, meta |-> m, index |-> <<>>, index_edge |-> <<>>]
    BY <2>2
  <2> HIDE DEF b
  <2>4. [b EXCEPT !.hash = h] = [graph |-> g, hash |-> h, meta |-> m, index |-> <<>>, index_edge |-> <<>>]
    BY <2>3
  <2>5. x = [graph |-> g, hash |-> h, meta |-> m, index |-> <<>>, index_edge |-> <<>>]
    BY <2>4, Zenon DEF a, b
  <2> HIDE DEF x
  <2> QED
    BY <2>5 DEF IsNet
<1> HIDE DEF x
<1>3. IsNet(Assemble(t)) /\ EdgesIndexed(Assemble(t))
  BY <1>1, <1>2, RebuiltIs
<1>4. Same(Assemble(t), Expected(f))
  BY AssembleIs DEF t
<1> QED
  BY <1>3, <1>4 DEF Whole, t


-----------------------------------------------------------------------------
(* The invariant of the loader.                                            *)

OnePbf == pbf \subseteq Files /\ \A f, g \in pbf : f = g

\* What is held is what the file says between consecutive cuts.
IngestInv == pc = "ingest" => \E f \in pbf : \E cut : Cuts(parts, Elements(f), cut)

NetInv ==
    /\ pc = "create" => \E f \in pbf : Same(net, Expected(f))
    /\ pc \in {"create", "write"} => Whole(net) /\ EdgesIndexed(net)
    /\ pc = "ok" => \/ Whole(net) /\ EdgesIndexed(net)
                    \/ net = Garbage /\ \E file \in cache : file.other # build_id.other

\* A saved file that has its header and its end holds what some file said.
CacheInv == \A file \in cache : file.magic /\ file.whole => Whole(file.net)

LoaderInv == OnePbf /\ IngestInv /\ NetInv /\ CacheInv

LEMMA LoaderInit ==
    ASSUME Init
    PROVE  LoaderInv
<1>1. pc = "idle" /\ cache = {}
  BY DEF Init
<1>2. OnePbf
  <2>1. pbf = {} \/ \E f \in Files : pbf = {f}
    BY DEF Init
  <2> QED
    BY <2>1 DEF OnePbf
<1> QED
  BY <1>1, <1>2 DEF LoaderInv, IngestInv, NetInv, CacheInv

LEMMA CacheHitKeeps ==
    ASSUME LoaderInv, CacheHit
    PROVE  LoaderInv'
<1>1. /\ pc' = "ok" /\ pbf' = pbf /\ cache' = cache /\ build_id' = build_id
      /\ \E file \in cache : \E read \in from_bytes(file) : \E n \in read : net' = n
  BY DEF CacheHit
<1>2. PICK file \in cache : \E read \in from_bytes(file) : \E n \in read : net' = n
  BY <1>1
<1>3. PICK read \in from_bytes(file) : \E n \in read : net' = n
  BY <1>2
<1>4. Readable(file)
  <2>1. CASE ~ Readable(file)
    <3>1. read = {}
      BY <1>3, <2>1 DEF from_bytes
    <3> QED
      BY <1>3, <3>1
  <2> QED
    BY <2>1
<1>5. \/ Whole(net') /\ EdgesIndexed(net')
      \/ net' = Garbage /\ file.other # build_id.other
  <2>1. CASE file.other = build_id.other
    <3>1. net' = rebuild_indices(file.net)
      BY <1>3, <1>4, <2>1 DEF from_bytes
    <3>2. Whole(file.net)
      BY <1>4 DEF LoaderInv, CacheInv, Readable
    <3> DEFINE r == rebuild_indices(file.net)
    <3>3. Whole(r) /\ EdgesIndexed(r)
      BY <3>2, RebuiltIsWhole
    <3> HIDE DEF r
    <3>4. net' = r
      BY <3>1 DEF r
    <3> QED
      BY <3>3, <3>4
  <2>2. CASE file.other # build_id.other
    <3>1. read \in {{}, {Garbage}}
      BY <1>3, <1>4, <2>2 DEF from_bytes
    <3> QED
      BY <1>3, <2>2, <3>1
  <2> QED
    BY <2>1, <2>2
<1>6. NetInv'
  <2>1. pc' # "create" /\ pc' \notin {"create", "write"}
    BY <1>1
  <2> QED
    BY <1>1, <1>5, <2>1 DEF NetInv, Whole, EdgesIndexed
<1>7. OnePbf' /\ IngestInv' /\ CacheInv'
  BY <1>1 DEF LoaderInv, OnePbf, IngestInv, CacheInv
<1> QED
  BY <1>6, <1>7 DEF LoaderInv

LEMMA CacheMissKeeps ==
    ASSUME LoaderInv, CacheMiss
    PROVE  LoaderInv'
<1>1. /\ pc' \in {"err", "ingest"} /\ pbf' = pbf /\ cache' = cache
      /\ pc' = "ingest" => \E file \in pbf : parts' = Slots(file)
  BY DEF CacheMiss
<1>2. IngestInv'
  <2> SUFFICES ASSUME pc' = "ingest" PROVE \E f \in pbf : \E cut : Cuts(parts', Elements(f), cut)
    BY <1>1 DEF IngestInv
  <2>1. PICK file \in pbf : parts' = Slots(file)
    BY <1>1
  <2>2. file \in Files
    BY DEF LoaderInv, OnePbf
  <2> DEFINE es == Elements(file)
             ps == Slots(file)
  <2>3. ElementsOK(es) /\ IsSeq(ps) /\ SlotsOf(ps, es)
    BY <2>2, ElementsOf DEF ElementsOK
  <2> HIDE DEF es, ps
  <2>4. PICK cut : Cuts(ps, es, cut)
    BY <2>3, CutsStart
  <2> QED
    BY <2>1, <2>4 DEF es, ps
<1>3. NetInv'
  BY <1>1 DEF NetInv
<1>4. OnePbf' /\ CacheInv'
  BY <1>1 DEF LoaderInv, OnePbf, CacheInv
<1> QED
  BY <1>2, <1>3, <1>4 DEF LoaderInv

\* While the file is ingested, only the results change.
LEMMA PartsKeep ==
    ASSUME LoaderInv, pc = "ingest", pc' = "ingest", pbf' = pbf, cache' = cache,
           NEW f \in pbf, NEW cut, Cuts(parts', Elements(f), cut)
    PROVE  LoaderInv'
<1>1. IngestInv'
  BY DEF IngestInv
<1>2. NetInv'
  BY DEF NetInv
<1>3. OnePbf' /\ CacheInv'
  BY DEF LoaderInv, OnePbf, CacheInv
<1> QED
  BY <1>1, <1>2, <1>3 DEF LoaderInv

LEMMA FoldKeeps ==
    ASSUME LoaderInv, NEW i, Fold(i)
    PROVE  LoaderInv'
<1>1. /\ pc = "ingest" /\ i \in DOMAIN parts /\ parts[i].todo
      /\ parts' = [parts EXCEPT ![i] = Tree(i, fold_op(ident, parts[i].element))]
      /\ pc' = pc /\ pbf' = pbf /\ cache' = cache
  BY DEF Fold
<1>2. PICK f \in pbf : \E cut : Cuts(parts, Elements(f), cut)
  BY <1>1 DEF LoaderInv, IngestInv
<1> DEFINE es == Elements(f)
           q == Tree(i, fold_op(ident, parts[i].element))
<1>3. PICK cut : Cuts(parts, es, cut)
  BY <1>2
<1>4. f \in Files
  BY DEF LoaderInv, OnePbf
<1>5. ElementsOK(es)
  BY <1>4, ElementsOf DEF ElementsOK
<1>6. i \in 1 .. Len(parts)
  BY <1>1, <1>3, IsSeqHas DEF Cuts
<1>7. q.todo = FALSE /\ q.tree = fold_op(ident, parts[i].element)
  BY DEF Tree
<1> HIDE DEF q, es
<1>8. Cuts([parts EXCEPT ![i] = q], es, cut)
  BY <1>1, <1>3, <1>5, <1>6, <1>7, CutsFold
<1>9. Cuts(parts', Elements(f), cut)
  BY <1>1, <1>8 DEF es, q
<1> QED
  BY <1>1, <1>9, PartsKeep

\* Two neighbours become one that is read from the first's cut to the second's.
LEMMA JoinKeeps ==
    ASSUME LoaderInv, NEW i, {i, i + 1} \subseteq DOMAIN parts,
           pc = "ingest", pc' = "ingest", pbf' = pbf, cache' = cache,
           NEW q, parts' = RemoveAt([parts EXCEPT ![i] = q], i + 1), q.todo = FALSE, ~ parts[i].todo,
           \/ parts[i + 1].todo /\ q.tree = fold_op(parts[i].tree, parts[i + 1].element)
           \/ ~ parts[i + 1].todo /\ q.tree = combine(parts[i].tree, parts[i + 1].tree)
    PROVE  LoaderInv'
<1>1. PICK f \in pbf : \E cut : Cuts(parts, Elements(f), cut)
  BY DEF LoaderInv, IngestInv
<1> DEFINE es == Elements(f)
<1>2. PICK cut : Cuts(parts, es, cut)
  BY <1>1
<1>3. f \in Files
  BY DEF LoaderInv, OnePbf
<1>4. ElementsOK(es)
  BY <1>3, ElementsOf DEF ElementsOK
<1> HIDE DEF es
<1>5. DOMAIN parts = 1 .. Len(parts) /\ Len(parts) \in Nat
  BY <1>2, IsSeqHas DEF Cuts
<1>6. i \in 1 .. Len(parts) /\ i + 1 \in 1 .. Len(parts) /\ (i + 1) - 1 = i
  BY <1>5
<1> DEFINE a == cut[i - 1]
           b == cut[i]
           c == cut[i + 1]
<1>7. PartIs(parts[i], es, a, b) /\ PartIs(parts[i + 1], es, b, c)
  <2>1. PartIs(parts[i + 1], es, cut[(i + 1) - 1], cut[i + 1])
    BY <1>2, <1>6 DEF Cuts
  <2> QED
    BY <1>2, <1>6, <2>1 DEF Cuts
<1> HIDE DEF a, b, c
<1>8. /\ a \in 0 .. Len(es) /\ b \in a .. Len(es) /\ c \in b .. Len(es) /\ b \in 0 .. Len(es)
      /\ Len(es) \in Nat /\ c \in a .. Len(es) /\ parts[i].tree = Read(es, a, b)
  <2>1. Len(es) \in Nat
    BY <1>4, RowsAre
  <2>2. /\ a \in 0 .. Len(es) /\ b \in a .. Len(es) /\ c \in b .. Len(es)
        /\ parts[i].tree = Read(es, a, b)
    BY <1>7 DEF PartIs
  <2> QED
    BY <2>1, <2>2
<1>9. q.tree = Read(es, a, c)
  <2>1. CASE parts[i + 1].todo /\ q.tree = fold_op(parts[i].tree, parts[i + 1].element)
    <3>1. c = b + 1 /\ parts[i + 1].element = es[c]
      BY <1>7, <2>1 DEF PartIs
    <3>2. b # Len(es)
      BY <1>8, <3>1
    <3>3. fold_op(Read(es, a, b), es[b + 1]) = Read(es, a, b + 1)
      BY <1>4, <1>8, <3>2, ReadNext
    <3> QED
      BY <1>8, <2>1, <3>1, <3>3
  <2>2. CASE ~ parts[i + 1].todo /\ q.tree = combine(parts[i].tree, parts[i + 1].tree)
    <3>1. parts[i + 1].tree = Read(es, b, c)
      BY <1>7, <2>2 DEF PartIs
    <3>2. combine(Read(es, a, b), Read(es, b, c)) = Read(es, a, c)
      BY <1>4, <1>8, ReadJoin
    <3> QED
      BY <1>8, <2>2, <3>1, <3>2
  <2> QED
    BY <2>1, <2>2
<1>10. PartIs(q, es, a, c)
  BY <1>8, <1>9 DEF PartIs
<1>11. {i, i + 1} \subseteq 1 .. Len(parts)
  BY <1>6
<1>12. PICK d : Cuts(RemoveAt([parts EXCEPT ![i] = q], i + 1), es, d)
  BY <1>2, <1>10, <1>11, CutsJoin DEF a, c
<1>13. Cuts(parts', Elements(f), d)
  BY <1>12 DEF es
<1> QED
  BY <1>13, PartsKeep


LEMMA FoldOnKeeps ==
    ASSUME LoaderInv, NEW i, FoldOn(i)
    PROVE  LoaderInv'
<1> DEFINE q == Tree(i, fold_op(parts[i].tree, parts[i + 1].element))
<1>1. /\ pc = "ingest" /\ {i, i + 1} \subseteq DOMAIN parts /\ ~ parts[i].todo /\ parts[i + 1].todo
      /\ parts' = RemoveAt([parts EXCEPT ![i] = q], i + 1)
      /\ pc' = pc /\ pbf' = pbf /\ cache' = cache
  BY DEF FoldOn
<1>2. q.todo = FALSE /\ q.tree = fold_op(parts[i].tree, parts[i + 1].element)
  BY DEF Tree
<1> HIDE DEF q
<1> QED
  BY <1>1, <1>2, JoinKeeps

LEMMA CombineKeeps ==
    ASSUME LoaderInv, NEW i, Combine(i)
    PROVE  LoaderInv'
<1> DEFINE t == Tree(i, combine(parts[i].tree, parts[i + 1].tree))
           q == [t EXCEPT !.last = parts[i + 1].last]
<1>1. /\ pc = "ingest" /\ {i, i + 1} \subseteq DOMAIN parts /\ ~ parts[i].todo /\ ~ parts[i + 1].todo
      /\ parts' = RemoveAt([parts EXCEPT ![i] = q], i + 1)
      /\ pc' = pc /\ pbf' = pbf /\ cache' = cache
  BY DEF Combine
<1>2. q.todo = FALSE /\ q.tree = combine(parts[i].tree, parts[i + 1].tree)
  BY DEF Tree
<1> HIDE DEF q
<1> QED
  BY <1>1, <1>2, JoinKeeps

LEMMA FinishKeeps ==
    ASSUME LoaderInv, Finish
    PROVE  LoaderInv'
<1>1. /\ pc = "ingest" /\ pc' = "create" /\ pbf' = pbf /\ cache' = cache
      /\ \/ parts = <<>> /\ net' = Assemble(ident)
         \/ Len(parts) = 1 /\ ~ parts[1].todo /\ net' = Assemble(parts[1].tree)
  BY DEF Finish
<1>2. PICK f \in pbf : \E cut : Cuts(parts, Elements(f), cut)
  BY <1>1 DEF LoaderInv, IngestInv
<1> DEFINE es == Elements(f)
           n == Len(es)
<1>3. PICK cut : Cuts(parts, es, cut)
  BY <1>2
<1>4. f \in Files
  BY DEF LoaderInv, OnePbf
<1> HIDE DEF es
<1>5. net' = Assemble(Read(es, 0, n))
  <2>1. CASE parts = <<>> /\ net' = Assemble(ident)
    <3>1. Len(parts) = 0
      BY <2>1
    <3>2. n = 0
      BY <1>3, <3>1 DEF Cuts
    <3>3. Read(es, 0, 0) = ident
      BY ReadNone
    <3> QED
      BY <2>1, <3>2, <3>3
  <2>2. CASE Len(parts) = 1 /\ ~ parts[1].todo /\ net' = Assemble(parts[1].tree)
    <3>1. cut[0] = 0 /\ cut[1] = n
      BY <1>3, <2>2 DEF Cuts
    <3>2. PartIs(parts[1], es, cut[1 - 1], cut[1])
      <4>1. 1 \in 1 .. Len(parts)
        BY <2>2
      <4> QED
        BY <1>3, <4>1 DEF Cuts
    <3>3. parts[1].tree = Read(es, 0, n)
      <4>1. 1 - 1 = 0
        OBVIOUS
      <4> QED
        BY <2>2, <3>1, <3>2, <4>1 DEF PartIs
    <3> QED
      BY <2>2, <3>3
  <2> QED
    BY <1>1, <2>1, <2>2
<1>6. Whole(net') /\ EdgesIndexed(net') /\ Same(net', Expected(f))
  <2> DEFINE a == Assemble(Read(es, 0, n))
  <2>1. Whole(a) /\ EdgesIndexed(a)
    BY <1>4, AssembledIsWhole DEF es
  <2>2. Same(a, Expected(f))
    BY <1>4, AssembleIs DEF es
  <2> HIDE DEF a
  <2>3. net' = a
    BY <1>5 DEF a
  <2> QED
    BY <2>1, <2>2, <2>3
<1>7. NetInv'
  BY <1>1, <1>6 DEF NetInv, Whole, EdgesIndexed
<1>8. OnePbf' /\ IngestInv' /\ CacheInv'
  BY <1>1 DEF LoaderInv, OnePbf, IngestInv, CacheInv
<1> QED
  BY <1>7, <1>8 DEF LoaderInv

LEMMA PartialIs ==
    LET p == Partial
        q == [p EXCEPT !.magic = FALSE]
    IN  ~ p.whole /\ ~ q.magic
  BY DEF Partial, Written

LEMMA WritesKeep ==
    ASSUME LoaderInv, CreateFile \/ WriteSome \/ WriteAll \/ SaveFails
    PROVE  LoaderInv'
<1>1. CASE CreateFile
  <2>1. /\ pc = "create" /\ pc' = "write" /\ pbf' = pbf /\ net' = net
        /\ cache' = {[Partial EXCEPT !.magic = FALSE]}
    BY <1>1 DEF CreateFile
  <2>2. CacheInv'
    BY <2>1, PartialIs DEF CacheInv
  <2>3. NetInv'
    BY <2>1 DEF LoaderInv, NetInv, Whole, EdgesIndexed
  <2> QED
    BY <2>1, <2>2, <2>3 DEF LoaderInv, OnePbf, IngestInv
<1>2. CASE WriteSome
  <2>1. pc = "write" /\ pc' = pc /\ pbf' = pbf /\ net' = net /\ cache' = {Partial}
    BY <1>2 DEF WriteSome
  <2>2. CacheInv'
    BY <2>1, PartialIs DEF CacheInv
  <2>3. NetInv'
    BY <2>1 DEF LoaderInv, NetInv, Whole, EdgesIndexed
  <2> QED
    BY <2>1, <2>2, <2>3 DEF LoaderInv, OnePbf, IngestInv
<1>3. CASE WriteAll
  <2>1. pc = "write" /\ pc' = "ok" /\ pbf' = pbf /\ net' = net /\ cache' = {Written(net)}
    BY <1>3 DEF WriteAll
  <2>2. Whole(net) /\ EdgesIndexed(net)
    BY <2>1 DEF LoaderInv, NetInv
  <2>3. Written(net).net = Saved(net)
    BY DEF Written
  <2>4. CacheInv'
    BY <2>1, <2>2, <2>3, SavedIsWhole DEF CacheInv
  <2>5. NetInv'
    BY <2>1, <2>2 DEF NetInv, Whole, EdgesIndexed
  <2> QED
    BY <2>1, <2>4, <2>5 DEF LoaderInv, OnePbf, IngestInv
<1>4. CASE SaveFails
  <2>1. pc' = "err" /\ pbf' = pbf /\ cache' = cache
    BY <1>4 DEF SaveFails
  <2> QED
    BY <2>1 DEF LoaderInv, OnePbf, IngestInv, NetInv, CacheInv
<1> QED
  BY <1>1, <1>2, <1>3, <1>4

LEMMA OutsideKeeps ==
    ASSUME LoaderInv, Exit \/ ReplacePbf \/ Upgrade
    PROVE  LoaderInv'
<1>1. /\ pc' = "idle" /\ cache' = cache
      /\ pbf' = pbf \/ pbf' = {} \/ \E f \in Files : pbf' = {f}
  BY DEF Exit, ReplacePbf, Upgrade
<1>2. OnePbf'
  BY <1>1 DEF LoaderInv, OnePbf
<1> QED
  BY <1>1, <1>2 DEF LoaderInv, IngestInv, NetInv, CacheInv

LEMMA LoaderStep ==
    ASSUME LoaderInv, [Next]_vars
    PROVE  LoaderInv'
<1>1. ASSUME UNCHANGED loader PROVE LoaderInv'
  BY <1>1 DEF loader, LoaderInv, OnePbf, IngestInv, NetInv, CacheInv, Whole, EdgesIndexed
<1>2. CASE Load
  <2>1. ASSUME NEW i \in 1 .. Len(parts), Fold(i) \/ FoldOn(i) \/ Combine(i) PROVE LoaderInv'
    BY <2>1, FoldKeeps, FoldOnKeeps, CombineKeeps
  <2> QED
    BY <1>2, <2>1, CacheHitKeeps, CacheMissKeeps, FinishKeeps, WritesKeep, OutsideKeeps DEF Load
<1>3. CASE AddNode \/ AddEdge \/ UNCHANGED vars
  BY <1>1, <1>3 DEF AddNode, AddEdge, vars
<1> QED
  BY <1>2, <1>3 DEF Next

\* Every reachable state has the invariant of the loader.
THEOREM LoaderInvariant == Spec => []LoaderInv
<1>1. Init => LoaderInv
  BY LoaderInit
<1>2. LoaderInv /\ [Next]_vars => LoaderInv'
  BY LoaderStep
<1> QED
  BY <1>1, <1>2, PTL DEF Spec

\* from_pbf, however rayon splits, folds and joins the elements, assembles the
\* network that is read from front to back, for every file and every schedule.
THEOREM IngestInFileOrder == Spec => []IngestIsFileOrder
<1>1. LoaderInv => IngestIsFileOrder
  BY DEF LoaderInv, OnePbf, NetInv, IngestIsFileOrder
<1> QED
  BY <1>1, LoaderInvariant, PTL

\* from_pbf_and_save returns the network of some contents the PBF can have,
\* whatever crashes, failed writes and upgrades came before, unless the file
\* comes from a build whose layout differs without its fingerprint.
THEOREM ServedWhole == Spec => []ServedIsWhole
<1>1. LoaderInv => ServedIsWhole
  BY DEF LoaderInv, NetInv, ServedIsWhole, Whole
<1> QED
  BY <1>1, LoaderInvariant, PTL


-----------------------------------------------------------------------------
(* What the indices resolve to.                                            *)

\* The envelope of a row touches the square around either end.
LEMMA EndsTouch ==
    ASSUME NEW p \in Int \X Int, NEW q \in Int \X Int
    PROVE  Intersects(envelope_of(p, q), square_box(p, 0)) /\ Intersects(envelope_of(p, q), square_box(q, 0))
<1>1. p[1] \in Int /\ p[2] \in Int /\ q[1] \in Int /\ q[2] \in Int
  OBVIOUS
<1>2. \A x \in Int \X Int : square_box(x, 0) = [min |-> <<x[1], x[2]>>, max |-> <<x[1], x[2]>>]
  <2> SUFFICES ASSUME NEW x \in Int \X Int
               PROVE  square_box(x, 0) = [min |-> <<x[1], x[2]>>, max |-> <<x[1], x[2]>>]
    OBVIOUS
  <2>0. x[1] \in Int /\ x[2] \in Int
    OBVIOUS
  <2>1. x[1] - 0 = x[1] /\ x[2] - 0 = x[2] /\ x[1] + 0 = x[1] /\ x[2] + 0 = x[2]
    BY <2>0
  <2>2. square_box(x, 0) = envelope_of(<<x[1], x[2]>>, <<x[1], x[2]>>)
    BY <2>1 DEF square_box
  <2> QED
    BY <2>0, <2>2 DEF envelope_of, Least, Greatest
<1>3. \A a, b \in Int : /\ Least(a, b) <= a /\ Least(a, b) <= b
                        /\ a <= Greatest(a, b) /\ b <= Greatest(a, b)
  BY DEF Least, Greatest
<1>4. \A axis \in 1 .. 2 : axis = 1 \/ axis = 2
  OBVIOUS
<1>5. /\ Least(p[1], q[1]) <= p[1] /\ Least(p[1], q[1]) <= q[1]
      /\ p[1] <= Greatest(p[1], q[1]) /\ q[1] <= Greatest(p[1], q[1])
      /\ Least(p[2], q[2]) <= p[2] /\ Least(p[2], q[2]) <= q[2]
      /\ p[2] <= Greatest(p[2], q[2]) /\ q[2] <= Greatest(p[2], q[2])
  BY <1>1, <1>3
<1>6. Intersects(envelope_of(p, q), [min |-> <<p[1], p[2]>>, max |-> <<p[1], p[2]>>])
  BY <1>4, <1>5 DEF Intersects, envelope_of
<1>7. Intersects(envelope_of(p, q), [min |-> <<q[1], q[2]>>, max |-> <<q[1], q[2]>>])
  BY <1>4, <1>5 DEF Intersects, envelope_of
<1> QED
  BY <1>2, <1>6, <1>7

\* The graph is keyed by pairs, its ids have metadata, positions have two axes.
Placeable(w) ==
    /\ \A pair \in DOMAIN w.graph :
         /\ pair = <<pair[1], pair[2]>>
         /\ w.graph[pair].id.id \in DOMAIN w.meta
    /\ \A m \in DOMAIN w.hash : w.hash[m] \in Int \X Int

LEMMA WholeIsPlaceable ==
    ASSUME NEW n, Whole(n)
    PROVE  Placeable(n)
<1>1. PICK f \in Files : Same(n, Expected(f))
  BY DEF Whole
<1> DEFINE es == Elements(f)
<1>2. n.graph = GraphOf(es) /\ n.meta = MetaOf(es) /\ n.hash = HashOf(es)
  BY <1>1, ExpectedGraph, ExpectedRest DEF Same
<1>3. ElementsOK(es)
  BY ElementsOf DEF ElementsOK
<1> HIDE DEF es
<1>4. Len(es) \in Nat /\ DOMAIN es = 1 .. Len(es)
  BY <1>3, RowsAre
<1>5. ASSUME NEW pair \in DOMAIN n.graph
      PROVE  pair = <<pair[1], pair[2]>> /\ n.graph[pair].id.id \in DOMAIN n.meta
  <2>1. pair \in Pairs(es) /\ n.graph[pair] = Won(es, Winner(es, pair))
    BY <1>2 DEF GraphOf
  <2>2. PICK c \in Claims(es) : pair = Ends(es, c)
    BY <2>1 DEF Pairs
  <2>3. pair = <<pair[1], pair[2]>>
    BY <2>2 DEF Ends
  <2>4. \E d : Wins(es, d, pair)
    BY <1>3, <2>1, GraphIs
  <2>5. Winner(es, pair) \in Claims(es)
    BY <2>4 DEF Wins, Winner
  <2>6. PICK j \in DOMAIN es : IsRoad(es[j]) /\ Winner(es, pair)[1] = j
    <3>1. PICK j \in DOMAIN es : IsRoad(es[j]) /\ \E i \in 1 .. (Len(es[j].refs) - 1) :
               \E d \in Directions(es[j]) : Winner(es, pair) = <<j, i, d>>
      BY <2>5, ClaimIs
    <3> QED
      BY <3>1
  <2>7. n.graph[pair].id.id = es[j].id
    BY <2>1, <2>6 DEF Won
  <2>8. es[j].id \in DOMAIN MetaOf(es)
    <3>1. j \in Roads(es)
      BY <2>6 DEF Roads, IsRoad
    <3> QED
      BY <3>1 DEF MetaOf
  <2> QED
    BY <1>2, <2>3, <2>7, <2>8
<1>6. ASSUME NEW m \in DOMAIN n.hash PROVE n.hash[m] \in Int \X Int
  <2> DEFINE T == {j \in Placed(es) : es[j].node.id = m}
             x == Max(T)
  <2>1. n.hash[m] = es[x].node.position /\ \E j \in Placed(es) : m = es[j].node.id
    BY <1>2 DEF HashOf
  <2>2. T # {}
    BY <2>1
  <2>3. T \subseteq 0 .. Len(es)
    BY <1>4 DEF Placed
  <2>4. x \in T
    BY <1>4, <2>2, <2>3, MaxFacts
  <2> HIDE DEF x
  <2>5. x \in DOMAIN es /\ es[x].kind = "node"
    BY <2>4 DEF Placed
  <2>6. ElementOK(es[x])
    BY <1>3, <2>5 DEF ElementsOK
  <2> QED
    BY <2>1, <2>5, <2>6 DEF ElementOK
<1> QED
  BY <1>5, <1>6 DEF Placeable


\* An edge with its ends in place.
Fattened(w, e) == Edge(Node(e.source, w.hash[e.source]), Node(e.target, w.hash[e.target]), e.weight, e.id)
HasEnds(w, e) == {e.source, e.target} \subseteq DOMAIN w.hash

LEMMA FatEdgeIs ==
    ASSUME NEW w, NEW e
    PROVE  FatEdge(w, e) = IF HasEnds(w, e) THEN {Fattened(w, e)} ELSE {}
<1> DEFINE A == Lookup(w.hash, e.source)
           B == Lookup(w.hash, e.target)
           Z(s, t) == Edge(Node(e.source, s), Node(e.target, t), e.weight, e.id)
<1>1. FatEdge(w, e) = {Z(s, t) : s \in A, t \in B}
  BY DEF FatEdge
<1>2. Fattened(w, e) = Z(w.hash[e.source], w.hash[e.target])
  BY Zenon DEF Fattened
<1>3. /\ A = IF e.source \in DOMAIN w.hash THEN {w.hash[e.source]} ELSE {}
      /\ B = IF e.target \in DOMAIN w.hash THEN {w.hash[e.target]} ELSE {}
  BY Zenon DEF Lookup
<1> HIDE DEF A, B, Z
<1>4. CASE HasEnds(w, e)
  <2>1. A = {w.hash[e.source]} /\ B = {w.hash[e.target]}
    BY <1>3, <1>4 DEF HasEnds
  <2>2. FatEdge(w, e) = {Fattened(w, e)}
    BY <1>1, <1>2, <2>1
  <2> QED
    BY <1>4, <2>2
<1>5. CASE ~ HasEnds(w, e)
  <2>1. A = {} \/ B = {}
    BY <1>3, <1>5 DEF HasEnds
  <2>2. FatEdge(w, e) = {}
    BY <1>1, <2>1
  <2> QED
    BY <1>5, <2>2
<1> QED
  BY <1>4, <1>5

\* What an edge says of its two ends when its direction is dropped.
LEMMA FattenIs ==
    ASSUME NEW w, NEW s, NEW t, NEW c, NEW i
    PROVE  LET e == Edge(s, t, c, i)
               d == Edge(s, t, c, EdgeId(i.id))
           IN  /\ fatten(w, e) = FatEdge(w, d) /\ fatten(w, d) = FatEdge(w, d)
               /\ HasEnds(w, d) <=> {s, t} \subseteq DOMAIN w.hash
               /\ HasEnds(w, e) <=> {s, t} \subseteq DOMAIN w.hash
               /\ Fattened(w, d) = [Fattened(w, e) EXCEPT !.id = EdgeId(@.id)]
<1> DEFINE j == EdgeId(i.id)
           e == Edge(s, t, c, i)
           d == Edge(s, t, c, j)
           a == Node(s, w.hash[s])
           b == Node(t, w.hash[t])
<1>1. j.id = i.id /\ EdgeId(j.id) = j
  BY DEF EdgeId
<1>2. e = [source |-> s, target |-> t, weight |-> c, id |-> i]
      /\ d = [source |-> s, target |-> t, weight |-> c, id |-> j]
  BY DEF Edge
<1>3. e.id = i /\ d.id = j /\ e.source = s /\ e.target = t /\ d.source = s /\ d.target = t
  BY <1>2
<1>4. Fattened(w, e) = Edge(a, b, c, i) /\ Fattened(w, d) = Edge(a, b, c, j)
  BY <1>2 DEF Fattened
<1> HIDE DEF j, e, d, a, b
<1>5. [e EXCEPT !.id = EdgeId(@.id)] = d
  <2>1. [e EXCEPT !.id = EdgeId(@.id)] = [e EXCEPT !.id = j]
    BY <1>3, Zenon DEF j
  <2>2. [e EXCEPT !.id = j] = d
    BY <1>2
  <2> QED
    BY <2>1, <2>2, Zenon
<1>6. [d EXCEPT !.id = EdgeId(@.id)] = d
  <2>1. [d EXCEPT !.id = EdgeId(@.id)] = [d EXCEPT !.id = j]
    BY <1>1, <1>3, Zenon
  <2>2. [d EXCEPT !.id = j] = d
    BY <1>2
  <2> QED
    BY <2>1, <2>2, Zenon
<1>7. [Fattened(w, e) EXCEPT !.id = EdgeId(@.id)] = Fattened(w, d)
  <2> DEFINE x == Fattened(w, e)
             y == Fattened(w, d)
  <2>1. x = [source |-> a, target |-> b, weight |-> c, id |-> i]
        /\ y = [source |-> a, target |-> b, weight |-> c, id |-> j]
    BY <1>4 DEF Edge
  <2> HIDE DEF x, y
  <2>2. x.id = i
    BY <2>1
  <2>3. [x EXCEPT !.id = EdgeId(@.id)] = [x EXCEPT !.id = j]
    BY <2>2, Zenon DEF j
  <2>4. [x EXCEPT !.id = j] = y
    BY <2>1
  <2> QED
    BY <2>3, <2>4, Zenon DEF x, y
<1>8. fatten(w, e) = FatEdge(w, d) /\ fatten(w, d) = FatEdge(w, d)
  BY <1>5, <1>6, Zenon DEF fatten
<1>9. /\ HasEnds(w, d) <=> {s, t} \subseteq DOMAIN w.hash
      /\ HasEnds(w, e) <=> {s, t} \subseteq DOMAIN w.hash
  BY <1>3, Zenon DEF HasEnds
<1> QED
  BY <1>7, <1>8, <1>9 DEF e, d, j

\* The rows of the index of the edges.
LEMMA EdgeIndexIs ==
    ASSUME NEW w
    PROVE  /\ \A fat : fat \in DOMAIN EdgeIndex(w) <=> \E pair \in DOMAIN w.graph : fat \in FatEdge(w, GraphEdge(w, pair))
           /\ \A fat \in DOMAIN EdgeIndex(w) :
                EdgeIndex(w)[fat] = envelope_of(fat.source.position, fat.target.position)
<1> DEFINE D == UNION {Row(w, GraphEdge(w, pair)) : pair \in DOMAIN w.graph}
           ends == [e \in D |-> <<e.source.position, e.target.position>>]
<1>1. EdgeIndex(w) = build(ends)
  BY Zenon DEF EdgeIndex
<1>2. \A fat : fat \in D <=> \E pair \in DOMAIN w.graph : fat \in FatEdge(w, GraphEdge(w, pair))
  BY DEF Row
<1>3. DOMAIN ends = D /\ \A fat \in D : ends[fat][1] = fat.source.position /\ ends[fat][2] = fat.target.position
  OBVIOUS
<1> HIDE DEF D, ends
<1>4. build(ends) = [r \in D |-> envelope_of(ends[r][1], ends[r][2])]
  BY <1>3 DEF build
<1>5. DOMAIN build(ends) = D /\ \A fat \in D : build(ends)[fat] = envelope_of(ends[fat][1], ends[fat][2])
  BY <1>4
<1>6. \A fat \in D : build(ends)[fat] = envelope_of(fat.source.position, fat.target.position)
  BY <1>3, <1>5
<1> QED
  BY <1>1, <1>2, <1>5, <1>6


LEMMA RowsResolve ==
    ASSUME Whole(net), EdgesIndexed(net), NEW fat \in DOMAIN net.index_edge
    PROVE  LET e == thin(fat)
           IN  /\ edge(net, e.source, e.target) = {[e EXCEPT !.id = fat.id]}
               /\ fatten(net, e) = {[fat EXCEPT !.id = EdgeId(@.id)]}
               /\ metadata(net, fat.id.id) # {}
<1> DEFINE w == net
<1> HIDE DEF w
<1>0. Whole(w) /\ fat \in DOMAIN EdgeIndex(w)
  BY DEF w, EdgesIndexed
<1>1. Placeable(w)
  BY <1>0, WholeIsPlaceable
<1>2. PICK pair \in DOMAIN w.graph : fat \in FatEdge(w, GraphEdge(w, pair))
  BY <1>0, EdgeIndexIs
<1> DEFINE s == pair[1]
           t == pair[2]
           c == w.graph[pair].weight
           i == w.graph[pair].id
           e == Edge(s, t, c, i)
           d == Edge(s, t, c, EdgeId(i.id))
<1>3. GraphEdge(w, pair) = e
  BY Zenon DEF GraphEdge
<1>4. HasEnds(w, e) /\ fat = Fattened(w, e)
  <2>1. FatEdge(w, e) = IF HasEnds(w, e) THEN {Fattened(w, e)} ELSE {}
    BY FatEdgeIs
  <2>2. fat \in FatEdge(w, e)
    BY <1>2, <1>3
  <2> HIDE DEF e
  <2> QED
    BY <2>1, <2>2
<1>5. pair = <<s, t>> /\ i.id \in DOMAIN w.meta
  BY <1>1 DEF Placeable
<1>6. /\ fatten(w, d) = FatEdge(w, d)
      /\ HasEnds(w, d) <=> {s, t} \subseteq DOMAIN w.hash
      /\ HasEnds(w, e) <=> {s, t} \subseteq DOMAIN w.hash
      /\ Fattened(w, d) = [Fattened(w, e) EXCEPT !.id = EdgeId(@.id)]
  BY FattenIs
<1> HIDE DEF s, t, c, i
<1>7. e = [source |-> s, target |-> t, weight |-> c, id |-> i]
      /\ d = [source |-> s, target |-> t, weight |-> c, id |-> EdgeId(i.id)]
  BY DEF Edge
<1>8. fat.source.id = s /\ fat.target.id = t /\ fat.weight = c /\ fat.id = i
  BY <1>4, <1>7 DEF Fattened, Edge, Node
<1>9. thin(fat) = d
  BY <1>8, Zenon DEF thin
<1> HIDE DEF e, d
<1>10. edge(w, d.source, d.target) = {[d EXCEPT !.id = fat.id]}
  <2>1. d.source = s /\ d.target = t
    BY <1>7
  <2>2. DOMAIN w.graph \cap {<<s, t>>} = {pair}
    BY <1>5
  <2>3. edge(w, s, t) = {GraphEdge(w, pair)}
    BY <2>2 DEF edge
  <2>4. [d EXCEPT !.id = i] = e
    BY <1>7
  <2> QED
    BY <1>3, <1>8, <2>1, <2>3, <2>4
<1>11. fatten(w, d) = {[fat EXCEPT !.id = EdgeId(@.id)]}
  <2>1. FatEdge(w, d) = IF HasEnds(w, d) THEN {Fattened(w, d)} ELSE {}
    BY FatEdgeIs
  <2>2. HasEnds(w, d)
    BY <1>4, <1>6
  <2>3. Fattened(w, d) = [fat EXCEPT !.id = EdgeId(@.id)]
    BY <1>4, <1>6, Zenon
  <2> QED
    BY <1>6, <2>1, <2>2, <2>3, Zenon
<1>12. metadata(w, fat.id.id) # {}
  BY <1>5, <1>8 DEF metadata, Lookup
<1> QED
  BY <1>9, <1>10, <1>11, <1>12 DEF w

LEMMA EdgesResolve ==
    ASSUME Whole(net), EdgesIndexed(net), NEW pair \in DOMAIN net.graph
    PROVE  LET e == GraphEdge(net, pair)
               placed == {pair[1], pair[2]} \subseteq DOMAIN net.hash
           IN  /\ placed <=> fatten(net, e) # {}
               /\ \A fat \in FatEdge(net, e) :
                    fat \in edges_at_distance(net, fat.source.position, 0)
                              \cap edges_at_distance(net, fat.target.position, 0)
<1> DEFINE w == net
<1> HIDE DEF w
<1>0. Whole(w) /\ pair \in DOMAIN w.graph /\ w.index_edge = EdgeIndex(w)
  BY DEF w, EdgesIndexed
<1>1. Placeable(w)
  BY <1>0, WholeIsPlaceable
<1> DEFINE s == pair[1]
           t == pair[2]
           c == w.graph[pair].weight
           i == w.graph[pair].id
           e == Edge(s, t, c, i)
           d == Edge(s, t, c, EdgeId(i.id))
           placed == {s, t} \subseteq DOMAIN w.hash
<1>2. GraphEdge(w, pair) = e
  BY Zenon DEF GraphEdge
<1>3. /\ fatten(w, e) = FatEdge(w, d)
      /\ HasEnds(w, d) <=> placed
      /\ HasEnds(w, e) <=> placed
  <2>1. /\ fatten(w, e) = FatEdge(w, d) /\ fatten(w, d) = FatEdge(w, d)
        /\ HasEnds(w, d) <=> {s, t} \subseteq DOMAIN w.hash
        /\ HasEnds(w, e) <=> {s, t} \subseteq DOMAIN w.hash
        /\ Fattened(w, d) = [Fattened(w, e) EXCEPT !.id = EdgeId(@.id)]
    BY FattenIs
  <2> QED
    BY <2>1
<1>4. /\ FatEdge(w, e) = IF HasEnds(w, e) THEN {Fattened(w, e)} ELSE {}
      /\ FatEdge(w, d) = IF HasEnds(w, d) THEN {Fattened(w, d)} ELSE {}
  BY FatEdgeIs
<1>5. placed <=> fatten(w, e) # {}
  <2> HIDE DEF e, d, placed
  <2> QED
    BY <1>3, <1>4
<1>6. ASSUME NEW fat \in FatEdge(w, e)
      PROVE  /\ fat \in edges_at_distance(w, fat.source.position, 0)
             /\ fat \in edges_at_distance(w, fat.target.position, 0)
  <2>1. HasEnds(w, e) /\ fat = Fattened(w, e)
    <3> HIDE DEF e
    <3> QED
      BY <1>4
  <2>2. placed
    BY <1>3, <2>1
  <2> DEFINE p == w.hash[s]
             q == w.hash[t]
  <2>3. p \in Int \X Int /\ q \in Int \X Int
    BY <1>1, <2>2 DEF Placeable
  <2>4. fat.source.position = p /\ fat.target.position = q
    <3> HIDE DEF p, q, s, t, c, i
    <3>1. Fattened(w, e) = Edge(Node(s, p), Node(t, q), c, i)
      BY DEF Fattened, Edge, p, q
    <3> QED
      BY <2>1, <3>1 DEF Edge, Node
  <2> HIDE DEF p, q, e
  <2>5. fat \in DOMAIN EdgeIndex(w)
    BY <1>0, <1>2, EdgeIndexIs
  <2>6. EdgeIndex(w)[fat] = envelope_of(p, q)
    BY <2>4, <2>5, EdgeIndexIs
  <2>7. Intersects(envelope_of(p, q), square_box(p, 0)) /\ Intersects(envelope_of(p, q), square_box(q, 0))
    BY <2>3, EndsTouch
  <2>8. fat \in edges_at_distance(w, p, 0) /\ fat \in edges_at_distance(w, q, 0)
    BY <1>0, <2>5, <2>6, <2>7, Zenon DEF edges_at_distance, edges_in_box, search
  <2> QED
    BY <2>4, <2>8
<1> QED
  BY <1>2, <1>5, <1>6 DEF w

\* Every row of the rebuilt indices resolves, in the network that was ingested
\* and in the one read back from the saved file.
THEOREM RowsResolveInAll == Spec => []IndexResolves
<1>1. LoaderInv => IndexResolves
  <2> SUFFICES ASSUME LoaderInv, pc \in {"create", "ok"}, net # Garbage
               PROVE  /\ \A pair \in DOMAIN net.graph :
                           LET e == GraphEdge(net, pair)
                               placed == {pair[1], pair[2]} \subseteq DOMAIN net.hash
                           IN  /\ placed <=> fatten(net, e) # {}
                               /\ \A fat \in FatEdge(net, e) :
                                    fat \in edges_at_distance(net, fat.source.position, 0)
                                              \cap edges_at_distance(net, fat.target.position, 0)
                      /\ \A fat \in DOMAIN net.index_edge :
                           LET e == thin(fat)
                           IN  /\ edge(net, e.source, e.target) = {[e EXCEPT !.id = fat.id]}
                               /\ fatten(net, e) = {[fat EXCEPT !.id = EdgeId(@.id)]}
                               /\ metadata(net, fat.id.id) # {}
    BY Zenon DEF IndexResolves
  <2>1. Whole(net) /\ EdgesIndexed(net)
    BY DEF LoaderInv, NetInv
  <2> QED
    BY <2>1, RowsResolve, EdgesResolve
<1> QED
  BY <1>1, LoaderInvariant, PTL

=============================================================================
