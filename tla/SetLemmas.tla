----------------------------- MODULE SetLemmas -----------------------------
(***************************************************************************)
(* Facts about numbers, finite sets and sequences the proofs share:        *)
(* induction, extrema, removal, and ascending sequences.                   *)
(***************************************************************************)
EXTENDS Integers, Sequences, FiniteSets, SequencesExt, FiniteSetsExt, FiniteSetTheorems, TLAPS

\* A non-empty set of numbers has a least one.
LEMMA NatMin ==
    ASSUME NEW T, T \subseteq Nat, T # {}
    PROVE  \E x \in T : \A y \in T : x <= y
<1> DEFINE R == OpToRel(<, Nat)
<1>1. IsWellFoundedOn(R, Nat)
  BY NatLessThanWellFounded
<1>2. \A x, y \in Nat : y < x => <<y, x>> \in R
  BY DEF OpToRel
<1> HIDE DEF R
<1>3. PICK x \in T : \A y \in T : ~ (<<y, x>> \in R)
  BY <1>1, WFMin
<1>4. \A y \in T : ~ (y < x)
  BY <1>2, <1>3
<1> QED
  BY <1>4

\* It is what Min names.
LEMMA MinFacts ==
    ASSUME NEW T, T \subseteq Nat, T # {}
    PROVE  Min(T) \in T /\ \A y \in T : Min(T) <= y
  BY NatMin DEF Min


\* Induction, for the set of the numbers a property holds of.
LEMMA NatInd ==
    ASSUME NEW T, 0 \in T, \A n \in Nat : n \in T => n + 1 \in T
    PROVE  Nat \subseteq T
<1> SUFFICES ASSUME Nat \ T # {} PROVE FALSE
  OBVIOUS
<1>1. PICK x \in Nat \ T : \A y \in Nat \ T : x <= y
  BY NatMin
<1>2. x # 0 /\ x - 1 \in Nat
  BY <1>1
<1>3. x - 1 \in T
  BY <1>1, <1>2
<1>4. x - 1 + 1 \in T
  BY <1>2, <1>3
<1> QED
  BY <1>1, <1>4

\* A bounded set of numbers has a greatest one, which is what Max names.
LEMMA MaxFacts ==
    ASSUME NEW m \in Nat, NEW T, T \subseteq 0 .. m, T # {}
    PROVE  Max(T) \in T /\ \A y \in T : y <= Max(T)
<1> DEFINE U == {m - x : x \in T}
<1>0. \A x \in T : x \in Int /\ m - x \in Nat
  OBVIOUS
<1>1. U \subseteq Nat /\ U # {}
  BY <1>0
<1>2. PICK u \in U : \A w \in U : u <= w
  <2> HIDE DEF U
  <2> QED
    BY <1>1, NatMin
<1>3. PICK x \in T : u = m - x
  OBVIOUS
<1>4. \A y \in T : x >= y
  <2>1. \A y \in T : m - x <= m - y
    BY <1>2, <1>3
  <2> QED
    BY <1>0, <2>1
<1> QED
  <2>1. Max(T) \in T /\ \A y \in T : Max(T) >= y
    BY <1>4 DEF Max
  <2> QED
    BY <1>0, <2>1

\* An element is taken out and the others stay, in order.
LEMMA RemoveAtFacts ==
    ASSUME NEW S, NEW s \in Seq(S), NEW i \in DOMAIN s
    PROVE  /\ RemoveAt(s, i) \in Seq(S) /\ Len(RemoveAt(s, i)) = Len(s) - 1
           /\ \A k \in 1 .. Len(s) - 1 : RemoveAt(s, i)[k] = IF k < i THEN s[k] ELSE s[k + 1]
<1>1. Len(s) \in Nat /\ i \in 1 .. Len(s)
  OBVIOUS
<1> DEFINE front == SubSeq(s, 1, i - 1)
           back == SubSeq(s, i + 1, Len(s))
<1>2. front \in Seq(S) /\ Len(front) = i - 1 /\ \A k \in 1 .. i - 1 : front[k] = s[k]
  BY <1>1
<1>3. back \in Seq(S) /\ Len(back) = Len(s) - i /\ \A k \in 1 .. Len(s) - i : back[k] = s[i + k]
  BY <1>1
<1> HIDE DEF front, back
<1>4. /\ front \o back \in Seq(S) /\ Len(front \o back) = Len(s) - 1
      /\ \A k \in 1 .. Len(s) - 1 : (front \o back)[k] = IF k <= i - 1 THEN front[k] ELSE back[k - (i - 1)]
  <2>1. front \o back \in Seq(S) /\ Len(front \o back) = (i - 1) + (Len(s) - i)
    <3>0. front \in Seq(S) /\ back \in Seq(S)
      BY <1>2, <1>3
    <3>1. front \o back \in Seq(S) /\ Len(front \o back) = Len(front) + Len(back)
      BY <3>0
    <3> QED
      BY <1>2, <1>3, <3>1
  <2>2. (i - 1) + (Len(s) - i) = Len(s) - 1
    BY <1>1
  <2>3. \A k \in 1 .. (i - 1) + (Len(s) - i) :
            (front \o back)[k] = IF k <= i - 1 THEN front[k] ELSE back[k - (i - 1)]
    <3>1. front \in Seq(S) /\ back \in Seq(S) /\ Len(front) = i - 1 /\ Len(back) = Len(s) - i
      BY <1>2, <1>3
    <3>2. \A k \in 1 .. Len(front) + Len(back) :
              (front \o back)[k] = IF k <= Len(front) THEN front[k] ELSE back[k - Len(front)]
      BY SMTT(20), <3>1
    <3> QED
      BY <3>1, <3>2
  <2> QED
    BY <2>1, <2>2, <2>3
<1>5. ASSUME NEW k \in 1 .. Len(s) - 1
      PROVE  (front \o back)[k] = IF k < i THEN s[k] ELSE s[k + 1]
  <2>1. CASE k < i
    BY <1>1, <1>2, <1>4, <2>1
  <2>2. CASE ~ (k < i)
    <3>1. k - (i - 1) \in 1 .. Len(s) - i /\ i + (k - (i - 1)) = k + 1
      BY <1>1, <2>2
    <3>2. back[k - (i - 1)] = s[k + 1]
      BY <1>3, <3>1
    <3>3. (front \o back)[k] = back[k - (i - 1)]
      <4>1. ~ (k <= i - 1)
        BY <1>1, <2>2
      <4> QED
        BY <1>4, <4>1
    <3> QED
      BY <2>2, <3>2, <3>3
  <2> QED
    BY <2>1, <2>2
<1> QED
  BY <1>4, <1>5 DEF RemoveAt, front, back

\* A sequence without an index is empty.
LEMMA NoIndexIsEmpty ==
    ASSUME NEW S, NEW s \in Seq(S), \A i \in DOMAIN s : FALSE
    PROVE  s = <<>>
<1>1. Len(s) \in Nat /\ (Len(s) # 0 => 1 \in DOMAIN s)
  OBVIOUS
<1> QED
  BY <1>1

\* G[k] takes the values V[k - 1] to values V[k].
Leads(G, V, lo, hi) == \A k \in lo + 1 .. hi : \A v \in V[k - 1] : G[k][v] \in V[k]

\* f starts with a and goes on with G.
Unrolls(f, a, G, V, lo, hi) ==
    /\ f = [k \in lo .. hi |-> f[k]] /\ f[lo] = a
    /\ \A k \in lo + 1 .. hi : f[k] = G[k][f[k - 1]]
    /\ \A k \in lo .. hi : f[k] \in V[k]

\* A function defined by what follows each of its values exists. A recursive
\* function definition names it.
LEMMA RecursiveFunction ==
    ASSUME NEW lo \in Int, NEW hi \in Int, lo <= hi, NEW V, NEW a \in V[lo], NEW G, Leads(G, V, lo, hi)
    PROVE  \E f : Unrolls(f, a, G, V, lo, hi)
<1> DEFINE Good(f, m) == /\ f = [k \in lo .. lo + m |-> f[k]]
                         /\ \A k \in lo .. lo + m : f[k] \in V[k] /\ f[k] = IF k = lo THEN a ELSE G[k][f[k - 1]]
           T == {m \in Nat : lo + m <= hi => \E f : Good(f, m)}
<1>1. 0 \in T
  <2> DEFINE f == [k \in lo .. lo + 0 |-> a]
  <2>1. lo .. lo + 0 = {lo} /\ DOMAIN f = lo .. lo + 0
    OBVIOUS
  <2>2. f[lo] = a
    BY <2>1
  <2>3. f = [k \in lo .. lo + 0 |-> f[k]]
    OBVIOUS
  <2> HIDE DEF f
  <2>4. Good(f, 0)
    BY <2>1, <2>2, <2>3
  <2> QED
    BY <2>4
<1>2. ASSUME NEW m \in Nat, m \in T PROVE m + 1 \in T
  <2> SUFFICES ASSUME lo + (m + 1) <= hi PROVE \E f : Good(f, m + 1)
    OBVIOUS
  <2>1. PICK f : Good(f, m)
    <3>1. lo + m <= hi
      OBVIOUS
    <3> QED
      BY <1>2, <3>1
  <2> DEFINE e == lo + (m + 1)
             g == [k \in lo .. e |-> IF k = e THEN G[e][f[e - 1]] ELSE f[k]]
  <2>2. e \in lo + 1 .. hi /\ e - 1 = lo + m /\ e - 1 \in lo .. lo + m /\ e # lo /\ e \in lo .. e
    OBVIOUS
  <2>3. \A k \in lo .. e : k = e \/ (k # e /\ k \in lo .. lo + m)
    OBVIOUS
  <2>4. \A k \in lo .. e : k # lo => k - 1 \in lo .. lo + m /\ k - 1 \in lo .. e /\ k - 1 # e
    OBVIOUS
  <2>5. g[e] = G[e][f[e - 1]] /\ g = [k \in lo .. e |-> g[k]] /\ \A k \in lo .. e : k # e => g[k] = f[k]
    BY <2>2
  <2> HIDE DEF g, e
  <2>6. g[e] \in V[e]
    <3>1. f[e - 1] \in V[e - 1]
      BY <2>1, <2>2
    <3> QED
      BY <2>2, <2>5, <3>1 DEF Leads, e
  <2>7. ASSUME NEW k \in lo .. e
        PROVE  g[k] \in V[k] /\ g[k] = IF k = lo THEN a ELSE G[k][g[k - 1]]
    <3>1. CASE k = e
      <4>1. g[e - 1] = f[e - 1]
        BY <2>2, <2>4, <2>5
      <4> QED
        BY <2>2, <2>5, <2>6, <3>1, <4>1
    <3>2. CASE k # e
      <4>1. k \in lo .. lo + m /\ g[k] = f[k]
        BY <2>3, <2>5, <3>2
      <4>2. k # lo => g[k - 1] = f[k - 1]
        BY <2>4, <2>5
      <4>3. f[k] \in V[k] /\ f[k] = IF k = lo THEN a ELSE G[k][f[k - 1]]
        BY <2>1, <4>1
      <4> QED
        BY <4>1, <4>2, <4>3
    <3> QED
      BY <3>1, <3>2
  <2>8. Good(g, m + 1)
    BY <2>5, <2>7 DEF e
  <2> QED
    BY <2>8
<1> HIDE DEF T
<1>3. hi - lo \in T
  <2>1. hi - lo \in Nat
    OBVIOUS
  <2> QED
    BY <1>1, <1>2, <2>1, NatInd
<1>4. PICK f : Good(f, hi - lo)
  <2>1. lo + (hi - lo) <= hi
    OBVIOUS
  <2> QED
    BY <1>3, <2>1 DEF T
<1>5. lo + (hi - lo) = hi
  OBVIOUS
<1>6. f = [k \in lo .. hi |-> f[k]]
      /\ \A k \in lo .. hi : f[k] \in V[k] /\ f[k] = IF k = lo THEN a ELSE G[k][f[k - 1]]
  BY <1>4, <1>5
<1>7. lo \in lo .. hi /\ \A k \in lo + 1 .. hi : k \in lo .. hi /\ k # lo
  OBVIOUS
<1>8. f[lo] = a /\ \A k \in lo + 1 .. hi : f[k] = G[k][f[k - 1]]
  BY <1>6, <1>7
<1> QED
  BY <1>6, <1>8 DEF Unrolls

\* Induction over an interval, upwards.
LEMMA RangeInd ==
    ASSUME NEW lo \in Int, NEW hi \in Int, NEW T, lo <= hi => lo \in T,
           \A k \in lo + 1 .. hi : k - 1 \in T => k \in T
    PROVE  lo .. hi \subseteq T
<1> DEFINE U == {m \in Nat : lo + m <= hi => lo + m \in T}
<1>1. 0 \in U
  <2>1. lo + 0 = lo
    OBVIOUS
  <2> QED
    BY <2>1
<1>2. ASSUME NEW m \in Nat, m \in U PROVE m + 1 \in U
  <2> SUFFICES ASSUME lo + (m + 1) <= hi PROVE lo + (m + 1) \in T
    OBVIOUS
  <2> DEFINE k == lo + (m + 1)
  <2>1. k \in lo + 1 .. hi /\ k - 1 = lo + m /\ lo + m <= hi
    OBVIOUS
  <2>2. lo + m \in T
    BY <1>2, <2>1
  <2> HIDE DEF k
  <2>3. k \in T
    BY <2>1, <2>2
  <2> QED
    BY <2>3 DEF k
<1> HIDE DEF U
<1>3. Nat \subseteq U
  BY <1>1, <1>2, NatInd
<1> SUFFICES ASSUME NEW k \in lo .. hi PROVE k \in T
  OBVIOUS
<1>4. k - lo \in Nat /\ lo + (k - lo) = k /\ k <= hi
  OBVIOUS
<1>5. k - lo \in U
  BY <1>3, <1>4
<1>6. lo + (k - lo) \in T
  BY <1>4, <1>5 DEF U
<1> QED
  BY <1>4, <1>6

\* And downwards.
LEMMA RangeIndDown ==
    ASSUME NEW lo \in Int, NEW hi \in Int, NEW T, lo <= hi => hi \in T,
           \A k \in lo .. hi - 1 : k + 1 \in T => k \in T
    PROVE  lo .. hi \subseteq T
<1> DEFINE U == {k \in Int : -k \in T}
<1>1. -hi \in Int /\ -lo \in Int /\ (-hi <= -lo => lo <= hi)
  OBVIOUS
<1>2. -hi <= -lo => -hi \in U
  <2>1. -(-hi) = hi
    OBVIOUS
  <2> QED
    BY <1>1, <2>1
<1>3. ASSUME NEW k \in (-hi) + 1 .. -lo, k - 1 \in U PROVE k \in U
  <2> DEFINE j == -k
  <2>1. j \in lo .. hi - 1 /\ -(k - 1) = j + 1 /\ k \in Int
    OBVIOUS
  <2>2. j + 1 \in T
    BY <1>3, <2>1
  <2> HIDE DEF j
  <2>3. j \in T
    BY <2>1, <2>2
  <2> QED
    BY <2>1, <2>3 DEF j
<1> HIDE DEF U
<1>4. -hi .. -lo \subseteq U
  BY <1>1, <1>2, <1>3, RangeInd
<1> SUFFICES ASSUME NEW k \in lo .. hi PROVE k \in T
  OBVIOUS
<1>5. -k \in -hi .. -lo /\ -(-k) = k
  OBVIOUS
<1> QED
  BY <1>4, <1>5 DEF U

-----------------------------------------------------------------------------
(* Sequences.                                                              *)

\* An element of a sequence over S is in S.
LEMMA ElementIsIn ==
    ASSUME NEW S, NEW s \in Seq(S), NEW i \in 1 .. Len(s)
    PROVE  s[i] \in S
  OBVIOUS

\* What Append adds, and what it leaves alone.
LEMMA AppendFacts ==
    ASSUME NEW S, NEW s \in Seq(S), NEW x \in S
    PROVE  /\ Append(s, x) \in Seq(S) /\ Append(s, x) # <<>>
           /\ Len(Append(s, x)) = Len(s) + 1 /\ Len(s) \in Nat
           /\ Append(s, x)[Len(s) + 1] = x
           /\ \A i \in 1 .. Len(s) : Append(s, x)[i] = s[i]
  OBVIOUS

\* What a part of a sequence has.
LEMMA SubSeqFacts ==
    ASSUME NEW S, NEW s \in Seq(S), NEW a \in 1 .. Len(s) + 1, NEW b \in a - 1 .. Len(s)
    PROVE  /\ SubSeq(s, a, b) \in Seq(S) /\ Len(SubSeq(s, a, b)) = (b - a) + 1
           /\ \A k \in 1 .. (b - a) + 1 : SubSeq(s, a, b)[k] = s[(a - 1) + k]
<1>1. Len(s) \in Nat /\ a \in Nat /\ b \in Int /\ a <= b + 1
  OBVIOUS
<1>2. \A i \in a .. b : s[i] \in S
  OBVIOUS
<1> QED
  BY <1>1, <1>2
=============================================================================
