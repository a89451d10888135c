--------------------------- MODULE LoweringProofs ---------------------------
(* What Lower computes from the declarations of a tree, for trees of any     *)
(* size.                                                                     *)
EXTENDS Lowering, LeastNumbers, TLAPS, FiniteSetTheorems, FunctionTheorems,
        SequenceTheorems

\* What two sequences hold together.
LEMMA ConcatHolds ==
  ASSUME NEW S, NEW a \in Seq(S), NEW b \in Seq(S)
  PROVE  a \o b \in Seq(S) /\ ToSet(a \o b) = ToSet(a) \union ToSet(b)
<1>1. a \o b \in Seq(S)
  BY ConcatProperties
<1>2. Range(a \o b) = Range(a) \union Range(b)
  BY RangeConcatenation
<1>3. \A s : ToSet(s) = Range(s)
  BY DEF ToSet, Range
<1> QED
  BY <1>1, <1>2, <1>3

\* Max of a bounded set of natural numbers that is not empty.
LEMMA GreatestNatural ==
  ASSUME NEW T \in SUBSET Nat, T # {}, NEW b \in Nat, \A m \in T : m <= b
  PROVE  Max(T) \in T /\ \A m \in T : m <= Max(T)
<1> DEFINE Gaps == {g \in Nat : \E m \in T : g = b - m}
<1>1. PICK g \in Gaps : \A h \in Gaps : g <= h
  <2>1. PICK t \in T : TRUE
    OBVIOUS
  <2>2. b - t \in Gaps
    OBVIOUS
  <2> QED
    BY <2>2, LeastNatural
<1>2. PICK x \in T : g = b - x
  BY <1>1
<1>3. \A y \in T : x >= y
  BY <1>1, <1>2
<1> QED
  BY <1>3 DEF Max

-----------------------------------------------------------------------------
(* InOrder.                                                                *)

Numbered(f) == DOMAIN f \subseteq Nat /\ IsFiniteSet(DOMAIN f)

\* Positions are counted from 1, and they keep the order of the numbers.
LEMMA PositionsIncrease ==
  ASSUME NEW f, Numbered(f)
  PROVE  /\ Cardinality(DOMAIN f) \in Nat
         /\ \A n \in DOMAIN f : Position(f, n) \in 1 .. Cardinality(DOMAIN f)
         /\ \A m, n \in DOMAIN f : m < n => Position(f, m) < Position(f, n)
<1> DEFINE upTo(n) == {m \in DOMAIN f : m <= n}
<1>0. Cardinality(DOMAIN f) \in Nat
  BY FS_CardinalityType DEF Numbered
<1>1. ASSUME NEW n \in DOMAIN f
      PROVE  /\ IsFiniteSet(upTo(n))
             /\ Cardinality(upTo(n)) \in 1 .. Cardinality(DOMAIN f)
  <2>1. upTo(n) \in SUBSET (DOMAIN f) /\ n \in upTo(n)
    BY DEF Numbered
  <2>2. IsFiniteSet(upTo(n)) /\ Cardinality(upTo(n)) <= Cardinality(DOMAIN f)
    BY <2>1, FS_Subset DEF Numbered
  <2>3. Cardinality(upTo(n)) \in Nat /\ Cardinality(upTo(n)) # 0
    BY <2>1, <2>2, FS_CardinalityType, FS_EmptySet
  <2> QED
    BY <1>0, <2>2, <2>3
<1>2. ASSUME NEW m \in DOMAIN f, NEW n \in DOMAIN f, m < n
      PROVE  Cardinality(upTo(m)) < Cardinality(upTo(n))
  <2>1. upTo(m) \in SUBSET upTo(n) /\ n \in upTo(n) /\ n \notin upTo(m)
    BY <1>2 DEF Numbered
  <2>2. /\ Cardinality(upTo(m)) <= Cardinality(upTo(n))
        /\ Cardinality(upTo(m)) # Cardinality(upTo(n))
    BY <1>1, <2>1, FS_Subset
  <2> QED
    BY <1>1, <2>2
<1> QED
  BY <1>0, <1>1, <1>2 DEF Position

\* So positions and numbers correspond one to one.
LEMMA PositionsFill ==
  ASSUME NEW f, Numbered(f)
  PROVE  /\ \A m, n \in DOMAIN f : Position(f, m) = Position(f, n) => m = n
         /\ \A i \in 1 .. Cardinality(DOMAIN f) : \E n \in DOMAIN f : Position(f, n) = i
<1> DEFINE c == Cardinality(DOMAIN f)
           P == [n \in DOMAIN f |-> Position(f, n)]
<1>1. c \in Nat /\ P \in [DOMAIN f -> 1 .. c]
  BY PositionsIncrease
<1>2. \A m, n \in DOMAIN f : P[m] = P[n] => m = n
  BY PositionsIncrease, <1>1 DEF Numbered
<1>3. P \in Injection(DOMAIN f, 1 .. c)
  BY <1>1, <1>2, Fun_IsInj, Zenon
<1>4. IsFiniteSet(1 .. c) /\ Cardinality(1 .. c) = c
  BY <1>1, FS_Interval
<1>5. P \in Surjection(DOMAIN f, 1 .. c)
  BY <1>3, <1>4, FS_Injection, Zenon
<1>6. \A i \in 1 .. c : \E n \in DOMAIN f : P[n] = i
  BY <1>5, Zenon DEF Surjection
<1> QED
  BY <1>2, <1>6

\* InOrder puts the value at every number at the position of the number, and
\* nothing else anywhere.
LEMMA InOrderShape ==
  ASSUME NEW f, Numbered(f)
  PROVE  /\ Len(InOrder(f)) = Cardinality(DOMAIN f)
         /\ Len(InOrder(f)) \in Nat
         /\ DOMAIN InOrder(f) = 1 .. Len(InOrder(f))
         /\ \A n \in DOMAIN f : /\ Position(f, n) \in DOMAIN InOrder(f)
                                /\ InOrder(f)[Position(f, n)] = f[n]
         /\ \A i \in DOMAIN InOrder(f) :
              \E n \in DOMAIN f : Position(f, n) = i /\ InOrder(f)[i] = f[n]
<1> DEFINE c == Cardinality(DOMAIN f)
           at(i) == CHOOSE n \in DOMAIN f : Position(f, n) = i
<1>1. c \in Nat /\ \A n \in DOMAIN f : Position(f, n) \in 1 .. c
  BY PositionsIncrease
<1>2. InOrder(f) = [i \in 1 .. c |-> f[at(i)]]
  BY DEF InOrder
<1>3. \A n \in DOMAIN f : at(Position(f, n)) = n
  <2> SUFFICES ASSUME NEW n \in DOMAIN f PROVE at(Position(f, n)) = n
    OBVIOUS
  <2>1. Position(f, at(Position(f, n))) = Position(f, n) /\ at(Position(f, n)) \in DOMAIN f
    OBVIOUS
  <2> QED
    BY <2>1, PositionsFill
<1>4. \A i \in 1 .. c : at(i) \in DOMAIN f /\ Position(f, at(i)) = i
  BY PositionsFill
<1>5. /\ Len(InOrder(f)) = c /\ DOMAIN InOrder(f) = 1 .. c
      /\ \A i \in 1 .. c : InOrder(f)[i] = f[at(i)]
  BY <1>1, <1>2
<1>6. \A n \in DOMAIN f : Position(f, n) \in 1 .. c /\ InOrder(f)[Position(f, n)] = f[n]
  BY <1>1, <1>3, <1>5
<1>7. ASSUME NEW i \in 1 .. c
      PROVE  \E n \in DOMAIN f : Position(f, n) = i /\ InOrder(f)[i] = f[n]
  BY <1>4, <1>5
<1> HIDE DEF c, at
<1> QED
  BY <1>1, <1>5, <1>6, <1>7 DEF c

\* Sets that correspond one to one have as many elements.
LEMMA SameCount ==
  ASSUME NEW S, NEW T, IsFiniteSet(S), NEW F \in [S -> T],
         \A a, b \in S : F[a] = F[b] => a = b,
         \A t \in T : \E x \in S : F[x] = t
  PROVE  IsFiniteSet(T) /\ Cardinality(T) = Cardinality(S)
<1>1. F \in Bijection(S, T)
  BY Fun_IsBij, Zenon
<1> QED
  BY <1>1, FS_Bijection, Zenon DEF ExistsBijection

\* Renumbering that keeps the order leaves no trace.
LEMMA RenumberedInOrder ==
  ASSUME NEW f, Numbered(f), NEW g, Numbered(g), NEW F \in [DOMAIN f -> DOMAIN g],
         \A m, n \in DOMAIN f : m < n => F[m] < F[n],
         \A k \in DOMAIN g : \E n \in DOMAIN f : F[n] = k,
         \A n \in DOMAIN f : g[F[n]] = f[n]
  PROVE  InOrder(f) = InOrder(g)
<1>0. \A n \in DOMAIN f : n \in Nat /\ F[n] \in DOMAIN g /\ F[n] \in Nat
  BY DEF Numbered
<1>1. \A m, n \in DOMAIN f : F[m] = F[n] => m = n
  BY <1>0
<1>2. Cardinality(DOMAIN g) = Cardinality(DOMAIN f)
  BY <1>1, SameCount DEF Numbered
<1>3. ASSUME NEW n \in DOMAIN f PROVE Position(g, F[n]) = Position(f, n)
  <2> DEFINE S == {m \in DOMAIN f : m <= n}
             T == {k \in DOMAIN g : k <= F[n]}
             G == [m \in S |-> F[m]]
  <2>1. IsFiniteSet(S)
    <3>1. S \in SUBSET (DOMAIN f)
      OBVIOUS
    <3> QED
      BY <3>1, FS_Subset DEF Numbered
  <2>2. \A m \in DOMAIN f : m <= n <=> F[m] <= F[n]
    BY <1>0
  <2>3. G \in [S -> T] /\ \A m \in S : G[m] = F[m]
    BY <2>2
  <2>4. \A a, b \in S : G[a] = G[b] => a = b
    BY <1>1
  <2>5. \A k \in T : \E m \in S : G[m] = k
    <3> SUFFICES ASSUME NEW k \in T PROVE \E m \in S : G[m] = k
      OBVIOUS
    <3>1. PICK m \in DOMAIN f : F[m] = k
      OBVIOUS
    <3> QED
      BY <2>2, <3>1
  <2> HIDE DEF S, T, G
  <2>6. Cardinality(T) = Cardinality(S)
    BY <2>1, <2>3, <2>4, <2>5, SameCount
  <2> QED
    BY <2>6 DEF Position, S, T
<1>4. /\ Len(InOrder(f)) = Len(InOrder(g))
      /\ DOMAIN InOrder(f) = DOMAIN InOrder(g)
  BY <1>2, InOrderShape
<1>5. ASSUME NEW i \in DOMAIN InOrder(f) PROVE InOrder(f)[i] = InOrder(g)[i]
  <2>1. PICK n \in DOMAIN f : Position(f, n) = i /\ InOrder(f)[i] = f[n]
    BY InOrderShape
  <2>2. InOrder(g)[Position(g, F[n])] = g[F[n]]
    BY <1>0, InOrderShape
  <2> QED
    BY <1>3, <2>1, <2>2
<1>6. /\ InOrder(f) = [i \in DOMAIN InOrder(f) |-> InOrder(f)[i]]
      /\ InOrder(g) = [i \in DOMAIN InOrder(g) |-> InOrder(g)[i]]
  BY DEF InOrder
<1> QED
  BY <1>4, <1>5, <1>6

\* Where the declaration on line n comes among the declarations of its kind.
Place(tree, kind, n) ==
  Position(Restrict(Nodes(tree), {i \in DOMAIN Nodes(tree) : KindIn(Nodes(tree)[i], {kind})}),
           Position(tree, n))

LinesOf(tree, kind) == {n \in DOMAIN tree : KindIn(tree[n], {kind})}

\* Of collects the declarations of a kind, all of them, in source order.
LEMMA DeclarationsOf ==
  ASSUME NEW tree, Numbered(tree), NEW kind
  PROVE  LET o == Of(Nodes(tree), kind)
             L == LinesOf(tree, kind)
         IN  /\ Len(o) \in Nat
             /\ DOMAIN o = 1 .. Len(o)
             /\ \A n \in L : Place(tree, kind, n) \in DOMAIN o
             /\ \A n \in L : o[Place(tree, kind, n)] = tree[n]
             /\ \A m, n \in L : m < n => Place(tree, kind, m) < Place(tree, kind, n)
             /\ \A i \in DOMAIN o : \E n \in L : Place(tree, kind, n) = i /\ o[i] = tree[n]
<1> DEFINE s == Nodes(tree)
           D == {i \in DOMAIN s : KindIn(s[i], {kind})}
           g == Restrict(s, D)
           L == LinesOf(tree, kind)
           p(n) == Position(tree, n)
<1>1. /\ Len(s) \in Nat /\ DOMAIN s = 1 .. Len(s)
      /\ \A n \in DOMAIN tree : p(n) \in DOMAIN s /\ s[p(n)] = tree[n]
      /\ \A i \in DOMAIN s : \E n \in DOMAIN tree : p(n) = i /\ s[i] = tree[n]
      /\ \A m, n \in DOMAIN tree : m < n => p(m) < p(n)
  BY InOrderShape, PositionsIncrease DEF Nodes
<1>2. DOMAIN g = D /\ \A i \in D : g[i] = s[i]
  BY DEF Restrict
<1>3. Numbered(g)
  <2> HIDE DEF s
  <2>1. Len(s) \in Int /\ 1 \in Int
    BY <1>1
  <2>2. IsFiniteSet(1 .. Len(s)) /\ D \in SUBSET (1 .. Len(s))
    BY <1>1, <2>1, FS_Interval
  <2>3. IsFiniteSet(D) /\ D \subseteq Nat
    BY <2>2, FS_Subset
  <2> QED
    BY <1>2, <2>3 DEF Numbered
<1>4. Of(Nodes(tree), kind) = InOrder(g)
  BY DEF Of
<1>5. /\ Len(InOrder(g)) \in Nat
      /\ DOMAIN InOrder(g) = 1 .. Len(InOrder(g))
      /\ \A i \in D : Position(g, i) \in DOMAIN InOrder(g) /\ InOrder(g)[Position(g, i)] = s[i]
      /\ \A k \in DOMAIN InOrder(g) : \E i \in D : Position(g, i) = k /\ InOrder(g)[k] = s[i]
      /\ \A i, j \in D : i < j => Position(g, i) < Position(g, j)
  <2>1. /\ Len(InOrder(g)) \in Nat
        /\ DOMAIN InOrder(g) = 1 .. Len(InOrder(g))
        /\ \A i \in DOMAIN g : /\ Position(g, i) \in DOMAIN InOrder(g)
                                /\ InOrder(g)[Position(g, i)] = g[i]
        /\ \A k \in DOMAIN InOrder(g) :
             \E i \in DOMAIN g : Position(g, i) = k /\ InOrder(g)[k] = g[i]
        /\ \A i, j \in DOMAIN g : i < j => Position(g, i) < Position(g, j)
    <3> HIDE DEF g
    <3> QED
      BY <1>3, InOrderShape, PositionsIncrease
  <2> HIDE DEF g, D
  <2> QED
    BY <1>2, <2>1
<1>6. \A n \in L : p(n) \in D /\ s[p(n)] = tree[n]
  BY <1>1 DEF LinesOf
<1>7. \A i \in D : \E n \in L : p(n) = i /\ s[i] = tree[n]
  BY <1>1 DEF LinesOf
<1>8. \A n : Place(tree, kind, n) = Position(g, p(n))
  BY DEF Place
<1>9. \A m, n \in L : m < n => p(m) < p(n)
  BY <1>1 DEF LinesOf
<1> HIDE DEF s, D, g, L, p
<1>10. /\ \A n \in L : Position(g, p(n)) \in DOMAIN InOrder(g)
       /\ \A n \in L : InOrder(g)[Position(g, p(n))] = tree[n]
  BY <1>5, <1>6
<1>11. \A m, n \in L : m < n => Position(g, p(m)) < Position(g, p(n))
  BY <1>5, <1>6, <1>9
<1>12. \A k \in DOMAIN InOrder(g) :
         \E n \in L : Position(g, p(n)) = k /\ InOrder(g)[k] = tree[n]
  BY <1>5, <1>7
<1> QED
  BY <1>4, <1>5, <1>8, <1>10, <1>11, <1>12 DEF L

-----------------------------------------------------------------------------
(* The diagnoses.                                                          *)

Listed(s) == Len(s) \in Nat /\ DOMAIN s = 1 .. Len(s)

\* The map that validateCollections overwrites while it reads it misses nothing:
\* that no entry differs from the nearest earlier one of its name means that no
\* two entries of a name differ.
LEMMA NearestIsEnough ==
  ASSUME NEW s, Listed(s), NEW field
  PROVE  Conflicting(s, field) <=>
           \E i, j \in DOMAIN s : s[i].name = s[j].name /\ s[i][field] # s[j][field]
<1> DEFINE earlier(j) == {i \in 1 .. j - 1 : s[i].name = s[j].name}
           clash(j) == \E i \in earlier(j) : s[i][field] # s[j][field]
<1>0. ASSUME NEW j \in DOMAIN s, earlier(j) # {}
      PROVE  Max(earlier(j)) \in earlier(j) /\ \A i \in earlier(j) : i <= Max(earlier(j))
  <2>1. earlier(j) \in SUBSET Nat /\ j \in Nat /\ \A i \in earlier(j) : i <= j
    BY DEF Listed
  <2> QED
    BY <1>0, <2>1, GreatestNatural
<1>1. ASSUME Conflicting(s, field)
      PROVE  \E i, j \in DOMAIN s : s[i].name = s[j].name /\ s[i][field] # s[j][field]
  <2>1. PICK j \in DOMAIN s : earlier(j) # {} /\ s[Max(earlier(j))][field] # s[j][field]
    BY <1>1 DEF Conflicting
  <2>2. Max(earlier(j)) \in 1 .. j - 1 /\ s[Max(earlier(j))].name = s[j].name
    BY <1>0, <2>1
  <2>3. Max(earlier(j)) \in DOMAIN s
    BY <2>2 DEF Listed
  <2> QED
    BY <2>1, <2>2, <2>3
<1>2. ASSUME NEW i \in DOMAIN s, NEW j \in DOMAIN s,
             s[i].name = s[j].name, s[i][field] # s[j][field]
      PROVE  Conflicting(s, field)
  <2> DEFINE T == {k \in DOMAIN s : clash(k)}
  <2>1. i < j \/ j < i
    BY <1>2 DEF Listed
  <2>2. i \in T \/ j \in T
    BY <1>2, <2>1 DEF Listed
  <2>3. T \in SUBSET Nat /\ T # {}
    BY <2>2 DEF Listed
  <2>4. PICK k \in T : \A m \in T : k <= m
    BY <2>3, LeastNatural
  <2>5. PICK a \in earlier(k) : s[a][field] # s[k][field]
    BY <2>4
  <2> DEFINE b == Max(earlier(k))
  <2>6. b \in earlier(k) /\ a <= b
    BY <1>0, <2>4, <2>5
  <2>7. k \in DOMAIN s /\ a \in DOMAIN s /\ b \in DOMAIN s /\ b < k
        /\ a \in Nat /\ b \in Nat /\ k \in Nat
    BY <2>4, <2>5, <2>6 DEF Listed
  <2>8. s[b][field] # s[k][field]
    <3>1. CASE a = b
      BY <2>5, <3>1
    <3>2. CASE a < b
      <4>1. a \in earlier(b)
        BY <2>5, <2>6, <2>7, <3>2
      <4>2. b \notin T
        BY <2>4, <2>7
      <4> QED
        BY <2>5, <2>7, <4>1, <4>2
    <3> QED
      BY <2>6, <2>7, <3>1, <3>2
  <2> QED
    BY <2>5, <2>7, <2>8 DEF Conflicting
<1> QED
  BY <1>1, <1>2

\* FlattenSeq joins the sequences of a sequence one after another.
LEMMA FlattenJoins ==
  ASSUME NEW ss, Len(ss) \in Nat \ {0}
  PROVE  \E f : /\ FlattenSeq(ss) = f[Len(ss)]
                /\ f[1] = ss[1]
                /\ \A i \in 2 .. Len(ss) : f[i] = f[i - 1] \o ss[i]
<1> DEFINE N == Len(ss)
           Def(f, i) == IF i = 1 THEN ss[i] ELSE f[i - 1] \o ss[i]
           Fits(f, n) == f = [i \in 1 .. n |-> Def(f, i)]
           Bad == {n \in 1 .. N : ~ \E f : Fits(f, n)}
<1>0. N \in Nat \ {0}
  OBVIOUS
<1>1. Fits([i \in 1 .. 1 |-> ss[i]], 1)
  OBVIOUS
<1>2. ASSUME NEW n \in 2 .. N, NEW f, Fits(f, n - 1)
      PROVE  \E g : Fits(g, n)
  <2> HIDE DEF N
  <2>0. n \in Nat /\ n >= 2
    BY <1>0
  <2> DEFINE g == [i \in 1 .. n |-> IF i = n THEN f[n - 1] \o ss[n] ELSE f[i]]
  <2>1. \A i \in 1 .. n - 1 : i \in 1 .. n /\ i # n /\ f[i] = Def(f, i)
    <3>1. \A i \in 1 .. n - 1 : f[i] = Def(f, i)
      <4>1. f = [i \in 1 .. n - 1 |-> Def(f, i)]
        BY <1>2
      <4> HIDE DEF Def
      <4> QED
        BY <4>1
    <3> HIDE DEF Def
    <3> QED
      BY <2>0, <3>1
  <2>2. \A i \in 1 .. n - 1 : g[i] = f[i]
    BY <2>1
  <2>3. g[n] = f[n - 1] \o ss[n]
    <3>1. n \in 1 .. n
      BY <2>0
    <3> QED
      BY <3>1
  <2>4. n - 1 \in 1 .. n - 1 /\ n \in 1 .. n
    BY <2>0
  <2>5. Def(g, n) = g[n]
    <3>1. g[n - 1] = f[n - 1]
      BY <2>2, <2>4
    <3> QED
      BY <2>0, <2>3, <3>1
  <2>6. ASSUME NEW i \in 1 .. n - 1 PROVE g[i] = Def(g, i)
    <3>1. g[i] = f[i] /\ f[i] = Def(f, i)
      BY <2>1, <2>2
    <3>2. i = 1 \/ i - 1 \in 1 .. n - 1
      BY <2>0
    <3> HIDE DEF g
    <3> QED
      BY <2>2, <3>1, <3>2
  <2>7. \A i \in 1 .. n : g[i] = Def(g, i)
    <3>1. \A i \in 1 .. n : i = n \/ i \in 1 .. n - 1
      BY <2>0
    <3> HIDE DEF g, Def
    <3> QED
      BY <2>5, <2>6, <3>1
  <2>8. g = [i \in 1 .. n |-> g[i]]
    OBVIOUS
  <2> HIDE DEF g
  <2>9. Fits(g, n)
    BY <2>7, <2>8
  <2> QED
    BY <2>9
<1> HIDE DEF N, Fits
<1>3. Bad = {}
  <2> SUFFICES ASSUME Bad # {} PROVE FALSE
    OBVIOUS
  <2>1. PICK n \in Bad : n \in 1 .. N /\ (n # 1 => n - 1 \in (1 .. N) \ Bad /\ n \in 2 .. N)
    <3>1. Bad \in SUBSET (1 .. N)
      OBVIOUS
    <3> HIDE DEF Bad
    <3> QED
      BY <1>0, <3>1, LeastUpTo
  <2>2. n # 1
    BY <1>1
  <2>3. \E f : Fits(f, n - 1)
    BY <2>1, <2>2
  <2> QED
    BY <1>2, <2>1, <2>2, <2>3
<1>4. \E f : Fits(f, N)
  <2>1. N \in 1 .. N
    BY <1>0
  <2> QED
    BY <1>3, <2>1
<1> DEFINE F == CHOOSE f : Fits(f, N)
<1>5. Fits(F, N)
  BY <1>4
<1>6. FlattenSeq(ss) = F[N]
  BY <1>0 DEF FlattenSeq, N, Fits
<1> HIDE DEF F
<1>7. \A i \in 1 .. N : F[i] = Def(F, i)
  BY <1>5 DEF Fits
<1>8. 1 \in 1 .. N /\ \A i \in 2 .. N : i \in 1 .. N /\ i # 1
  BY <1>0
<1>9. F[1] = ss[1] /\ \A i \in 2 .. N : F[i] = F[i - 1] \o ss[i]
  BY <1>7, <1>8
<1> QED
  BY <1>6, <1>9 DEF N

\* So what it joins is what they hold.
LEMMA FlattenHolds ==
  ASSUME NEW S, NEW ss, Listed(ss), \A i \in DOMAIN ss : ss[i] \in Seq(S)
  PROVE  Len(ss) # 0 =>
           /\ FlattenSeq(ss) \in Seq(S)
           /\ ToSet(FlattenSeq(ss)) = UNION {ToSet(ss[i]) : i \in DOMAIN ss}
<1> SUFFICES ASSUME Len(ss) # 0
             PROVE  /\ FlattenSeq(ss) \in Seq(S)
                    /\ ToSet(FlattenSeq(ss)) = UNION {ToSet(ss[i]) : i \in DOMAIN ss}
  OBVIOUS
<1> DEFINE N == Len(ss)
<1>0. /\ N \in Nat \ {0} /\ DOMAIN ss = 1 .. N
      /\ \A i \in 1 .. N : ss[i] \in Seq(S)
  BY DEF Listed
<1>1. PICK f : /\ FlattenSeq(ss) = f[N]
               /\ f[1] = ss[1]
               /\ \A i \in 2 .. N : f[i] = f[i - 1] \o ss[i]
  BY <1>0, FlattenJoins
<1> HIDE DEF N
<1> DEFINE Held(n) == UNION {ToSet(ss[i]) : i \in 1 .. n}
           Fine(n) == f[n] \in Seq(S) /\ ToSet(f[n]) = Held(n)
           Bad == {n \in 1 .. N : ~Fine(n)}
<1>2. Fine(1)
  <2>1. 1 \in 1 .. N /\ 1 .. 1 = {1}
    BY <1>0
  <2>2. Held(1) = ToSet(ss[1])
    BY <2>1
  <2> QED
    BY <1>0, <1>1, <2>1, <2>2
<1>3. ASSUME NEW n \in 2 .. N, Fine(n - 1) PROVE Fine(n)
  <2>1. f[n] = f[n - 1] \o ss[n] /\ f[n - 1] \in Seq(S) /\ ss[n] \in Seq(S)
    <3>1. f[n - 1] \in Seq(S)
      BY <1>3
    <3>2. n \in 1 .. N
      BY <1>0
    <3> HIDE DEF Fine
    <3> QED
      BY <1>0, <1>1, <3>1, <3>2
  <2>2. f[n] \in Seq(S) /\ ToSet(f[n]) = ToSet(f[n - 1]) \union ToSet(ss[n])
    BY <2>1, ConcatHolds
  <2>3. 1 .. n = (1 .. n - 1) \union {n}
    BY <1>0
  <2>4. Held(n) = Held(n - 1) \union ToSet(ss[n])
    BY <2>3
  <2> QED
    BY <1>3, <2>2, <2>4
<1> HIDE DEF Fine
<1>4. Bad = {}
  <2> SUFFICES ASSUME Bad # {} PROVE FALSE
    OBVIOUS
  <2>1. PICK n \in Bad : n \in 1 .. N /\ (n # 1 => n - 1 \in (1 .. N) \ Bad /\ n \in 2 .. N)
    <3>1. Bad \in SUBSET (1 .. N)
      OBVIOUS
    <3> HIDE DEF Bad
    <3> QED
      BY <1>0, <3>1, LeastUpTo
  <2> QED
    BY <1>2, <1>3, <2>1
<1>5. Fine(N)
  BY <1>0, <1>4
<1> QED
  BY <1>0, <1>1, <1>5 DEF Fine

-----------------------------------------------------------------------------
(* Lists that differ in their order only.                                  *)

\* The entries of b are those of a in some order.
Permuted(a, b) ==
  \E p \in [DOMAIN a -> DOMAIN b] :
    /\ \A i, j \in DOMAIN a : p[i] = p[j] => i = j
    /\ \A k \in DOMAIN b : \E i \in DOMAIN a : p[i] = k
    /\ \A i \in DOMAIN a : b[p[i]] = a[i]

\* Finitely many positions.
LEMMA ListedFinite ==
  ASSUME NEW a, Listed(a), NEW D \in SUBSET (DOMAIN a)
  PROVE  IsFiniteSet(D) /\ Cardinality(D) \in Nat
<1>1. IsFiniteSet(1 .. Len(a))
  BY FS_Interval DEF Listed
<1>2. D \in SUBSET (1 .. Len(a))
  BY DEF Listed
<1> QED
  BY <1>1, <1>2, FS_Subset, FS_CardinalityType

\* Where a list has an entry of S.
At(a, S) == {i \in DOMAIN a : a[i] \in S}

\* Another order has as many entries of any sort.
LEMMA PermutedCount ==
  ASSUME NEW a, NEW b, Listed(a), Permuted(a, b), NEW S
  PROVE  Cardinality(At(b, S)) = Cardinality(At(a, S))
<1> DEFINE C == {i \in DOMAIN a : a[i] \in S}
           D == {k \in DOMAIN b : b[k] \in S}
<1>1. PICK p \in [DOMAIN a -> DOMAIN b] :
        /\ \A i, j \in DOMAIN a : p[i] = p[j] => i = j
        /\ \A k \in DOMAIN b : \E i \in DOMAIN a : p[i] = k
        /\ \A i \in DOMAIN a : b[p[i]] = a[i]
  BY DEF Permuted
<1> DEFINE F == [i \in C |-> p[i]]
<1>2. IsFiniteSet(C)
  BY ListedFinite
<1>3. F \in [C -> D]
  BY <1>1
<1>4. \A i, j \in C : F[i] = F[j] => i = j
  BY <1>1
<1>5. \A k \in D : \E i \in C : F[i] = k
  <2> SUFFICES ASSUME NEW k \in D PROVE \E i \in C : F[i] = k
    OBVIOUS
  <2>1. PICK i \in DOMAIN a : p[i] = k
    BY <1>1
  <2>2. i \in C
    BY <1>1, <2>1
  <2> QED
    BY <2>1, <2>2
<1> HIDE DEF C, D, F
<1>6. Cardinality(D) = Cardinality(C)
  BY <1>2, <1>3, <1>4, <1>5, SameCount
<1> QED
  BY <1>6 DEF C, D, At

\* Another order holds the same entries.
LEMMA PermutedHolds ==
  ASSUME NEW a, NEW b, Permuted(a, b)
  PROVE  /\ \A i \in DOMAIN a : \E k \in DOMAIN b : b[k] = a[i]
         /\ \A k \in DOMAIN b : \E i \in DOMAIN a : a[i] = b[k]
<1>1. PICK p \in [DOMAIN a -> DOMAIN b] :
        /\ \A i, j \in DOMAIN a : p[i] = p[j] => i = j
        /\ \A k \in DOMAIN b : \E i \in DOMAIN a : p[i] = k
        /\ \A i \in DOMAIN a : b[p[i]] = a[i]
  BY DEF Permuted
<1> QED
  BY <1>1

\* A complete sort forgets the order.
LEMMA PermutedBag ==
  ASSUME NEW a, NEW b, Listed(a), Permuted(a, b)
  PROVE  ToBag(a) = ToBag(b)
<1> DEFINE A(x) == Cardinality({i \in DOMAIN a : a[i] = x})
           B(x) == Cardinality({k \in DOMAIN b : b[k] = x})
<1>1. Range(a) = Range(b)
  BY PermutedHolds DEF Range
<1>2. ASSUME NEW x PROVE A(x) = B(x)
  <2>1. A(x) = Cardinality(At(a, {x})) /\ B(x) = Cardinality(At(b, {x}))
    BY DEF At
  <2> HIDE DEF A, B
  <2> QED
    BY <2>1, PermutedCount
<1>3. ToBag(a) = [x \in Range(a) |-> A(x)] /\ ToBag(b) = [x \in Range(b) |-> B(x)]
  BY DEF ToBag
<1> HIDE DEF A, B
<1> QED
  BY <1>1, <1>2, <1>3

\* What is computed entry by entry is in another order as well.
LEMMA PermutedImages ==
  ASSUME NEW a, NEW b, Permuted(a, b), NEW c, NEW d,
         DOMAIN c = DOMAIN a, DOMAIN d = DOMAIN b,
         \A i \in DOMAIN a : \A k \in DOMAIN b : a[i] = b[k] => c[i] = d[k]
  PROVE  Permuted(c, d)
<1>1. PICK p \in [DOMAIN a -> DOMAIN b] :
        /\ \A i, j \in DOMAIN a : p[i] = p[j] => i = j
        /\ \A k \in DOMAIN b : \E i \in DOMAIN a : p[i] = k
        /\ \A i \in DOMAIN a : b[p[i]] = a[i]
  BY DEF Permuted
<1>2. p \in [DOMAIN c -> DOMAIN d] /\ \A i \in DOMAIN c : d[p[i]] = c[i]
  BY <1>1
<1>3. /\ \A i, j \in DOMAIN c : p[i] = p[j] => i = j
      /\ \A k \in DOMAIN d : \E i \in DOMAIN c : p[i] = k
  BY <1>1
<1> QED
  BY <1>2, <1>3 DEF Permuted

\* Another order is as long.
LEMMA PermutedLen ==
  ASSUME NEW a, NEW b, Listed(a), Listed(b), Permuted(a, b)
  PROVE  Len(a) = Len(b)
<1> DEFINE S == {a[i] : i \in DOMAIN a}
<1>1. At(a, S) = 1 .. Len(a)
  BY DEF Listed, At
<1>2. At(b, S) = 1 .. Len(b)
  <2>1. \A k \in DOMAIN b : b[k] \in S
    BY PermutedHolds
  <2> QED
    BY <2>1 DEF Listed, At
<1>3. Cardinality(1 .. Len(a)) = Len(a) /\ Cardinality(1 .. Len(b)) = Len(b)
  <2>1. \A n \in Nat : Cardinality(1 .. n) = n
    BY FS_Interval
  <2> QED
    BY <2>1 DEF Listed
<1> HIDE DEF S
<1> QED
  BY <1>1, <1>2, <1>3, PermutedCount

\* A sort by name forgets the order of lists in which a name has one meaning.
LEMMA PermutedByName ==
  ASSUME NEW a, NEW b, Listed(a), Listed(b), Permuted(a, b),
         \A i, j \in DOMAIN a : a[i].name = a[j].name => a[i] = a[j]
  PROVE  ByName(a) = ByName(b)
<1> DEFINE C(n) == {i \in DOMAIN a : a[i].name = n}
           D(n) == {k \in DOMAIN b : b[k].name = n}
<1>1. Names(a) = Names(b)
  BY PermutedHolds DEF Names
<1>2. ASSUME NEW n \in Names(a)
      PROVE  InOrder(Restrict(a, C(n))) = InOrder(Restrict(b, D(n)))
  <2>1. PICK x : \E i \in DOMAIN a : a[i].name = n /\ x = a[i]
    BY DEF Names
  <2>2. (\A i \in C(n) : a[i] = x) /\ \A k \in D(n) : b[k] = x
    BY <2>1, PermutedHolds
  <2>3. Cardinality(D(n)) = Cardinality(C(n))
    <3>1. C(n) = At(a, {x})
      BY <2>1, <2>2 DEF At
    <3>2. D(n) = At(b, {x})
      BY <2>1, <2>2 DEF At
    <3> HIDE DEF C, D
    <3> QED
      BY <3>1, <3>2, PermutedCount
  <2> DEFINE f == Restrict(a, C(n))
             g == Restrict(b, D(n))
  <2>4. DOMAIN f = C(n) /\ (\A i \in C(n) : f[i] = a[i]) /\ DOMAIN g = D(n) /\ \A k \in D(n) : g[k] = b[k]
    BY DEF Restrict
  <2>5. Numbered(f) /\ Numbered(g)
    <3>1. C(n) \in SUBSET (DOMAIN a) /\ D(n) \in SUBSET (DOMAIN b)
      OBVIOUS
    <3>2. IsFiniteSet(C(n)) /\ IsFiniteSet(D(n))
      <4> HIDE DEF C, D
      <4> QED
        BY <3>1, ListedFinite
    <3>3. C(n) \subseteq Nat /\ D(n) \subseteq Nat
      BY DEF Listed
    <3> HIDE DEF f, g, C, D
    <3> QED
      BY <2>4, <3>2, <3>3 DEF Numbered
  <2> HIDE DEF f, g, C, D
  <2>6. \A h : Numbered(h) /\ (\A i \in DOMAIN h : h[i] = x)
                 => InOrder(h) = [i \in 1 .. Cardinality(DOMAIN h) |-> x]
    <3> SUFFICES ASSUME NEW h, Numbered(h), \A i \in DOMAIN h : h[i] = x
                 PROVE  InOrder(h) = [i \in 1 .. Cardinality(DOMAIN h) |-> x]
      OBVIOUS
    <3>1. /\ DOMAIN InOrder(h) = 1 .. Cardinality(DOMAIN h)
          /\ \A i \in DOMAIN InOrder(h) : InOrder(h)[i] = x
      BY InOrderShape
    <3>2. InOrder(h) = [i \in DOMAIN InOrder(h) |-> InOrder(h)[i]]
      BY DEF InOrder
    <3> QED
      BY <3>1, <3>2
  <2> QED
    BY <2>2, <2>3, <2>4, <2>5, <2>6 DEF f, g
<1>3. ByName(a) = [n \in Names(a) |-> InOrder(Restrict(a, C(n)))]
      /\ ByName(b) = [n \in Names(b) |-> InOrder(Restrict(b, D(n)))]
  BY DEF ByName
<1> HIDE DEF C, D
<1> QED
  BY <1>1, <1>2, <1>3

\* A join has the entries of both.
LEMMA ConcatCount ==
  ASSUME NEW S, NEW a \in Seq(S), NEW b \in Seq(S), NEW X
  PROVE  Cardinality(At(a \o b, X)) = Cardinality(At(a, X)) + Cardinality(At(b, X))
<1> DEFINE n == Len(a)
           A == At(a, X)
           B == At(b, X)
           T == {n + k : k \in B}
           F == [k \in B |-> n + k]
<1>1. /\ n \in Nat /\ Len(b) \in Nat /\ DOMAIN a = 1 .. n /\ DOMAIN b = 1 .. Len(b)
      /\ DOMAIN (a \o b) = 1 .. n + Len(b)
      /\ \A i \in 1 .. n : (a \o b)[i] = a[i]
      /\ \A i \in n + 1 .. n + Len(b) : (a \o b)[i] = b[i - n]
  OBVIOUS
<1>2. /\ A \in SUBSET (1 .. n) /\ B \in SUBSET (1 .. Len(b))
      /\ IsFiniteSet(A) /\ IsFiniteSet(B) /\ Cardinality(A) \in Nat /\ Cardinality(B) \in Nat
  <2>1. Listed(a) /\ Listed(b)
    BY <1>1 DEF Listed
  <2>2. A \in SUBSET (DOMAIN a) /\ B \in SUBSET (DOMAIN b)
    BY DEF At
  <2> HIDE DEF A, B
  <2> QED
    BY <1>1, <2>1, <2>2, ListedFinite
<1>3. At(a \o b, X) = A \union T
  <2>1. \A i \in 1 .. n + Len(b) : i \in 1 .. n \/ (i \in n + 1 .. n + Len(b) /\ i - n \in 1 .. Len(b))
    BY <1>1
  <2>2. ASSUME NEW i \in 1 .. n + Len(b), (a \o b)[i] \in X PROVE i \in A \union T
    <3>1. CASE i \in 1 .. n
      BY <1>1, <2>2, <3>1 DEF At
    <3>2. CASE i \in n + 1 .. n + Len(b) /\ i - n \in 1 .. Len(b)
      <4>1. i - n \in B /\ n + (i - n) = i
        BY <1>1, <2>2, <3>2 DEF At
      <4> QED
        BY <4>1
    <3> QED
      BY <2>1, <3>1, <3>2
  <2>3. ASSUME NEW i \in A PROVE i \in DOMAIN (a \o b) /\ (a \o b)[i] \in X
    BY <1>1, <2>3 DEF At
  <2>4. ASSUME NEW k \in B PROVE n + k \in DOMAIN (a \o b) /\ (a \o b)[n + k] \in X
    <3>1. k \in 1 .. Len(b) /\ b[k] \in X
      BY <1>1 DEF At
    <3>2. n + k \in n + 1 .. n + Len(b) /\ (n + k) - n = k /\ n + k \in 1 .. n + Len(b)
      BY <1>1, <3>1
    <3> QED
      BY <1>1, <3>1, <3>2
  <2> HIDE DEF A, B
  <2>5. At(a \o b, X) = {i \in 1 .. n + Len(b) : (a \o b)[i] \in X}
    BY <1>1 DEF At
  <2> QED
    BY <1>1, <2>2, <2>3, <2>4, <2>5
<1>4. Cardinality(T) = Cardinality(B) /\ IsFiniteSet(T)
  <2>1. F \in [B -> T] /\ \A k \in B : F[k] = n + k
    OBVIOUS
  <2>2. \A j, k \in B : F[j] = F[k] => j = k
    BY <1>1, <1>2
  <2>3. \A t \in T : \E k \in B : F[k] = t
    OBVIOUS
  <2> HIDE DEF F, T, B
  <2> QED
    BY <1>2, <2>1, <2>2, <2>3, SameCount
<1>5. A \intersect T = {}
  BY <1>1, <1>2
<1> HIDE DEF A, B, T
<1>6. Cardinality(A \union T) = Cardinality(A) + Cardinality(T) - Cardinality({})
  BY <1>2, <1>4, <1>5, FS_Union
<1>7. Cardinality({}) = 0
  BY FS_EmptySet
<1> QED
  BY <1>2, <1>3, <1>4, <1>6, <1>7 DEF A, B

\* Where the first n sequences of ss hold x.
Spots(ss, n, x) ==
  {q \in (1 .. n) \X Nat : q[2] \in DOMAIN ss[q[1]] /\ ss[q[1]][q[2]] = x}

\* A joined sequence holds an entry as often as the sequences it joins.
LEMMA FlattenCounts ==
  ASSUME NEW S, NEW ss, Listed(ss), \A i \in DOMAIN ss : ss[i] \in Seq(S), Len(ss) # 0, NEW x
  PROVE  /\ IsFiniteSet(Spots(ss, Len(ss), x))
         /\ Cardinality(At(FlattenSeq(ss), {x})) = Cardinality(Spots(ss, Len(ss), x))
<1> DEFINE N == Len(ss)
<1>0. /\ N \in Nat \ {0} /\ DOMAIN ss = 1 .. N
      /\ \A i \in 1 .. N : ss[i] \in Seq(S)
  BY DEF Listed
<1>1. PICK f : /\ FlattenSeq(ss) = f[N]
               /\ f[1] = ss[1]
               /\ \A i \in 2 .. N : f[i] = f[i - 1] \o ss[i]
  BY <1>0, FlattenJoins
<1> HIDE DEF N
<1> DEFINE Column(n) == {q \in {n} \X Nat : q[2] \in DOMAIN ss[n] /\ ss[n][q[2]] = x}
           Fine(n) == /\ f[n] \in Seq(S)
                      /\ IsFiniteSet(Spots(ss, n, x))
                      /\ Cardinality(At(f[n], {x})) = Cardinality(Spots(ss, n, x))
           Bad == {n \in 1 .. N : ~Fine(n)}
<1>2. ASSUME NEW n \in 1 .. N
      PROVE  /\ IsFiniteSet(Column(n)) /\ Cardinality(Column(n)) \in Nat
             /\ Cardinality(Column(n)) = Cardinality(At(ss[n], {x}))
  <2> DEFINE B == At(ss[n], {x})
             F == [k \in B |-> <<n, k>>]
  <2>1. ss[n] \in Seq(S)
    BY <1>0
  <2>2. Len(ss[n]) \in Nat /\ DOMAIN ss[n] = 1 .. Len(ss[n])
    BY <2>1
  <2>3. IsFiniteSet(B) /\ Cardinality(B) \in Nat /\ B \in SUBSET (DOMAIN ss[n]) /\ B \subseteq Nat
    <3>1. Listed(ss[n])
      BY <2>2 DEF Listed
    <3>2. B \in SUBSET (DOMAIN ss[n])
      BY DEF At
    <3> HIDE DEF B
    <3>3. B \subseteq Nat
      BY <2>2, <3>2
    <3> QED
      BY <3>1, <3>2, <3>3, ListedFinite
  <2>4. F \in [B -> Column(n)] /\ \A k \in B : F[k] = <<n, k>>
    <3>1. \A k \in B : <<n, k>> \in Column(n)
      BY <2>3 DEF At
    <3> HIDE DEF B, Column
    <3> QED
      BY <3>1
  <2>5. \A j, k \in B : F[j] = F[k] => j = k
    BY <2>4
  <2>6. \A q \in Column(n) : \E k \in B : F[k] = q
    <3> SUFFICES ASSUME NEW q \in Column(n) PROVE \E k \in B : F[k] = q
      OBVIOUS
    <3>1. q = <<n, q[2]>> /\ q[2] \in B
      BY DEF At
    <3> HIDE DEF F
    <3> QED
      BY <2>4, <3>1
  <2> HIDE DEF B, F, Column
  <2>7. IsFiniteSet(Column(n)) /\ Cardinality(Column(n)) = Cardinality(B)
    BY <2>3, <2>4, <2>5, <2>6, SameCount
  <2> QED
    BY <2>3, <2>7 DEF B
<1>3. Fine(1)
  <2>1. Spots(ss, 1, x) = Column(1)
    BY DEF Spots
  <2>2. 1 \in 1 .. N
    BY <1>0
  <2> HIDE DEF Column
  <2> QED
    BY <1>0, <1>1, <1>2, <2>1, <2>2
<1>4. ASSUME NEW n \in 2 .. N, Fine(n - 1) PROVE Fine(n)
  <2>0. n \in 1 .. N /\ n \in Nat /\ n - 1 \in Nat
    BY <1>0
  <2>1. f[n] = f[n - 1] \o ss[n] /\ f[n - 1] \in Seq(S) /\ ss[n] \in Seq(S)
    BY <1>0, <1>1, <1>4, <2>0
  <2>2. f[n] \in Seq(S)
    BY <2>1, ConcatProperties
  <2>3. Cardinality(At(f[n], {x})) = Cardinality(At(f[n - 1], {x})) + Cardinality(At(ss[n], {x}))
    BY <2>1, ConcatCount
  <2>4. Spots(ss, n, x) = Spots(ss, n - 1, x) \union Column(n)
    <3>1. 1 .. n = (1 .. n - 1) \union {n}
      BY <2>0
    <3> QED
      BY <3>1 DEF Spots
  <2>5. Spots(ss, n - 1, x) \intersect Column(n) = {}
    <3>1. \A q \in Spots(ss, n - 1, x) : q[1] \in 1 .. n - 1
      BY DEF Spots
    <3>2. \A q \in Column(n) : q[1] = n
      OBVIOUS
    <3>3. n \notin 1 .. n - 1
      BY <2>0
    <3> HIDE DEF Column
    <3> QED
      BY <3>1, <3>2, <3>3
  <2> HIDE DEF Column
  <2>6. IsFiniteSet(Spots(ss, n - 1, x)) /\ Cardinality(Spots(ss, n - 1, x)) \in Nat
        /\ IsFiniteSet(Column(n))
    BY <1>2, <1>4, <2>0, FS_CardinalityType
  <2>7. IsFiniteSet(Spots(ss, n, x))
    <3>1. IsFiniteSet(Spots(ss, n - 1, x) \union Column(n))
      BY <2>6, FS_Union
    <3> QED
      BY <2>4, <3>1
  <2>8. Cardinality(Spots(ss, n, x))
          = Cardinality(Spots(ss, n - 1, x)) + Cardinality(Column(n)) - Cardinality({})
    BY <2>4, <2>5, <2>6, FS_Union
  <2>9. Cardinality({}) = 0 /\ Cardinality(Column(n)) \in Nat
        /\ Cardinality(Column(n)) = Cardinality(At(ss[n], {x}))
        /\ Cardinality(At(f[n - 1], {x})) = Cardinality(Spots(ss, n - 1, x))
    BY <1>2, <1>4, <2>0, FS_EmptySet
  <2>10. Cardinality(At(f[n], {x})) = Cardinality(Spots(ss, n, x))
    BY <2>3, <2>6, <2>8, <2>9
  <2> QED
    BY <2>2, <2>7, <2>10
<1> HIDE DEF Fine
<1>5. Bad = {}
  <2> SUFFICES ASSUME Bad # {} PROVE FALSE
    OBVIOUS
  <2>1. PICK n \in Bad : n \in 1 .. N /\ (n # 1 => n - 1 \in (1 .. N) \ Bad /\ n \in 2 .. N)
    <3>1. Bad \in SUBSET (1 .. N)
      OBVIOUS
    <3> HIDE DEF Bad
    <3> QED
      BY <1>0, <3>1, LeastUpTo
  <2> QED
    BY <1>3, <1>4, <2>1
<1>6. Fine(N)
  BY <1>0, <1>5
<1> QED
  BY <1>1, <1>6 DEF Fine, N

\* So it does not matter to a sort of all of them in which order they are joined.
LEMMA FlattenPermuted ==
  ASSUME NEW S, NEW ss, NEW tt, Listed(ss), Listed(tt), Permuted(ss, tt), Len(ss) # 0,
         \A i \in DOMAIN ss : ss[i] \in Seq(S)
  PROVE  /\ FlattenSeq(ss) \in Seq(S) /\ FlattenSeq(tt) \in Seq(S)
         /\ ToSet(FlattenSeq(tt)) = ToSet(FlattenSeq(ss))
         /\ ToBag(FlattenSeq(tt)) = ToBag(FlattenSeq(ss))
<1>1. Len(tt) = Len(ss)
  BY PermutedLen
<1>2. \A k \in DOMAIN tt : tt[k] \in Seq(S)
  BY PermutedHolds
<1>3. /\ FlattenSeq(ss) \in Seq(S) /\ FlattenSeq(tt) \in Seq(S)
      /\ ToSet(FlattenSeq(ss)) = UNION {ToSet(ss[i]) : i \in DOMAIN ss}
      /\ ToSet(FlattenSeq(tt)) = UNION {ToSet(tt[i]) : i \in DOMAIN tt}
  BY <1>1, <1>2, FlattenHolds
<1>4. {ToSet(ss[i]) : i \in DOMAIN ss} = {ToSet(tt[i]) : i \in DOMAIN tt}
  BY PermutedHolds
<1>5. ToSet(FlattenSeq(tt)) = ToSet(FlattenSeq(ss))
  BY <1>3, <1>4
<1>6. ASSUME NEW x
      PROVE  Cardinality(Spots(tt, Len(tt), x)) = Cardinality(Spots(ss, Len(ss), x))
  <2>1. PICK p \in [DOMAIN ss -> DOMAIN tt] :
          /\ \A i, j \in DOMAIN ss : p[i] = p[j] => i = j
          /\ \A k \in DOMAIN tt : \E i \in DOMAIN ss : p[i] = k
          /\ \A i \in DOMAIN ss : tt[p[i]] = ss[i]
    BY DEF Permuted
  <2> DEFINE P == Spots(ss, Len(ss), x)
             Q == Spots(tt, Len(tt), x)
             F == [q \in P |-> <<p[q[1]], q[2]>>]
  <2>2. DOMAIN ss = 1 .. Len(ss) /\ DOMAIN tt = 1 .. Len(tt)
    BY DEF Listed
  <2>3. \A q \in P : /\ q[1] \in DOMAIN ss /\ q[2] \in Nat /\ q = <<q[1], q[2]>>
                     /\ q[2] \in DOMAIN ss[q[1]] /\ ss[q[1]][q[2]] = x
    BY <2>2 DEF Spots
  <2>4. \A q \in P : <<p[q[1]], q[2]>> \in Q
    <3> SUFFICES ASSUME NEW q \in P PROVE <<p[q[1]], q[2]>> \in Q
      OBVIOUS
    <3>1. p[q[1]] \in 1 .. Len(tt) /\ tt[p[q[1]]] = ss[q[1]]
      BY <2>1, <2>2, <2>3
    <3> QED
      BY <2>3, <3>1 DEF Spots
  <2>5. F \in [P -> Q] /\ \A q \in P : F[q] = <<p[q[1]], q[2]>>
    BY <2>4
  <2>6. \A q, r \in P : F[q] = F[r] => q = r
    <3> SUFFICES ASSUME NEW q \in P, NEW r \in P, F[q] = F[r] PROVE q = r
      OBVIOUS
    <3>1. p[q[1]] = p[r[1]] /\ q[2] = r[2]
      BY <2>5
    <3>2. q[1] = r[1]
      BY <2>1, <2>3, <3>1
    <3> QED
      BY <2>3, <3>1, <3>2
  <2>7. \A r \in Q : \E q \in P : F[q] = r
    <3> SUFFICES ASSUME NEW r \in Q PROVE \E q \in P : F[q] = r
      OBVIOUS
    <3>1. /\ r[1] \in DOMAIN tt /\ r[2] \in Nat /\ r = <<r[1], r[2]>>
          /\ r[2] \in DOMAIN tt[r[1]] /\ tt[r[1]][r[2]] = x
      BY <2>2 DEF Spots
    <3>2. PICK i \in DOMAIN ss : p[i] = r[1]
      BY <2>1, <3>1
    <3>3. <<i, r[2]>> \in P
      BY <2>1, <2>2, <3>1, <3>2 DEF Spots
    <3>4. F[<<i, r[2]>>] = <<p[i], r[2]>>
      BY <2>5, <3>3
    <3> QED
      BY <3>1, <3>2, <3>3, <3>4
  <2>8. IsFiniteSet(P)
    BY FlattenCounts
  <2> HIDE DEF P, Q, F
  <2>9. Cardinality(Q) = Cardinality(P)
    BY <2>5, <2>6, <2>7, <2>8, SameCount
  <2> QED
    BY <2>9 DEF P, Q
<1>7. ASSUME NEW x
      PROVE  Cardinality(At(FlattenSeq(tt), {x})) = Cardinality(At(FlattenSeq(ss), {x}))
  BY <1>1, <1>2, <1>6, FlattenCounts
<1>8. ASSUME NEW a PROVE ToBag(a) = [x \in ToSet(a) |-> Cardinality(At(a, {x}))]
  <2>1. Range(a) = ToSet(a)
    BY DEF Range, ToSet
  <2>2. \A x : {i \in DOMAIN a : a[i] = x} = At(a, {x})
    BY DEF At
  <2> QED
    BY <2>1, <2>2 DEF ToBag
<1>9. ToBag(FlattenSeq(tt)) = ToBag(FlattenSeq(ss))
  BY <1>5, <1>7, <1>8
<1> QED
  BY <1>3, <1>5, <1>9

-----------------------------------------------------------------------------
(* The order of declarations that carries no meaning.                      *)

\* The declarations of a kind are in the order of their lines.
LEMMA DeclarationsInOrder ==
  ASSUME NEW tree, Numbered(tree), NEW kind
  PROVE  /\ Numbered(Restrict(tree, LinesOf(tree, kind)))
         /\ DOMAIN Restrict(tree, LinesOf(tree, kind)) = LinesOf(tree, kind)
         /\ \A n \in LinesOf(tree, kind) : Restrict(tree, LinesOf(tree, kind))[n] = tree[n]
         /\ Of(Nodes(tree), kind) = InOrder(Restrict(tree, LinesOf(tree, kind)))
<1> DEFINE s == Nodes(tree)
           D == {i \in DOMAIN s : KindIn(s[i], {kind})}
           L == LinesOf(tree, kind)
           f == Restrict(tree, L)
           g == Restrict(s, D)
           p(n) == Position(tree, n)
           F == [n \in L |-> p(n)]
<1>1. /\ Len(s) \in Nat /\ DOMAIN s = 1 .. Len(s)
      /\ \A n \in DOMAIN tree : p(n) \in DOMAIN s /\ s[p(n)] = tree[n]
      /\ \A i \in DOMAIN s : \E n \in DOMAIN tree : p(n) = i /\ s[i] = tree[n]
      /\ \A m, n \in DOMAIN tree : m < n => p(m) < p(n)
  BY InOrderShape, PositionsIncrease DEF Nodes
<1>2. DOMAIN g = D /\ (\A i \in D : g[i] = s[i]) /\ DOMAIN f = L /\ \A n \in L : f[n] = tree[n]
  BY DEF Restrict
<1>3. Numbered(f)
  <2>1. L \in SUBSET (DOMAIN tree)
    BY DEF LinesOf
  <2>2. IsFiniteSet(L) /\ L \subseteq Nat
    BY <2>1, FS_Subset DEF Numbered
  <2> HIDE DEF f, L
  <2> QED
    BY <1>2, <2>2 DEF Numbered
<1>4. Numbered(g)
  <2> HIDE DEF s
  <2>1. Listed(s) /\ D \in SUBSET (DOMAIN s)
    BY <1>1 DEF Listed
  <2>2. D \subseteq Nat
    BY <1>1
  <2>3. IsFiniteSet(D)
    BY <2>1, ListedFinite
  <2> HIDE DEF D, g
  <2> QED
    BY <1>2, <2>2, <2>3 DEF Numbered
<1>5. \A n \in L : p(n) \in D /\ s[p(n)] = tree[n]
  BY <1>1 DEF LinesOf
<1>6. \A i \in D : \E n \in L : p(n) = i
  BY <1>1 DEF LinesOf
<1>7. \A m, n \in L : m < n => p(m) < p(n)
  BY <1>1 DEF LinesOf
<1> HIDE DEF s, D, L, f, g, p
<1>8. F \in [DOMAIN f -> DOMAIN g] /\ \A n \in L : F[n] = p(n)
  BY <1>2, <1>5
<1> HIDE DEF F
<1>9. InOrder(f) = InOrder(g)
  <2>1. \A m, n \in DOMAIN f : m < n => F[m] < F[n]
    BY <1>2, <1>7, <1>8
  <2>2. \A k \in DOMAIN g : \E n \in DOMAIN f : F[n] = k
    BY <1>2, <1>6, <1>8
  <2>3. \A n \in DOMAIN f : g[F[n]] = f[n]
    BY <1>2, <1>5, <1>8
  <2> QED
    BY <1>3, <1>4, <1>8, <2>1, <2>2, <2>3, RenumberedInOrder
<1> QED
  BY <1>2, <1>3, <1>9 DEF Of, s, D, f, g, L

\* Renumbering in any way leaves the same entries in some order.
LEMMA ReorderedInOrder ==
  ASSUME NEW f, Numbered(f), NEW g, Numbered(g), NEW F \in [DOMAIN f -> DOMAIN g],
         \A m, n \in DOMAIN f : F[m] = F[n] => m = n,
         \A k \in DOMAIN g : \E n \in DOMAIN f : F[n] = k,
         \A n \in DOMAIN f : g[F[n]] = f[n]
  PROVE  Permuted(InOrder(f), InOrder(g))
<1> DEFINE a == InOrder(f)
           b == InOrder(g)
           at(i) == CHOOSE n \in DOMAIN f : Position(f, n) = i
           p == [i \in DOMAIN a |-> Position(g, F[at(i)])]
<1>1. /\ \A n \in DOMAIN f : Position(f, n) \in DOMAIN a /\ a[Position(f, n)] = f[n]
      /\ \A i \in DOMAIN a : \E n \in DOMAIN f : Position(f, n) = i /\ a[i] = f[n]
      /\ \A n \in DOMAIN g : Position(g, n) \in DOMAIN b /\ b[Position(g, n)] = g[n]
      /\ \A i \in DOMAIN b : \E n \in DOMAIN g : Position(g, n) = i /\ b[i] = g[n]
  BY InOrderShape
<1>2. /\ \A m, n \in DOMAIN f : Position(f, m) = Position(f, n) => m = n
      /\ \A m, n \in DOMAIN g : Position(g, m) = Position(g, n) => m = n
  BY PositionsFill
<1> HIDE DEF a, b
<1>3. \A i \in DOMAIN a : at(i) \in DOMAIN f /\ Position(f, at(i)) = i
  BY <1>1
<1> HIDE DEF at
<1>4. \A i \in DOMAIN a : F[at(i)] \in DOMAIN g
  BY <1>3
<1>5. p \in [DOMAIN a -> DOMAIN b] /\ \A i \in DOMAIN a : p[i] = Position(g, F[at(i)])
  BY <1>1, <1>4
<1> HIDE DEF p
<1>6. \A i, j \in DOMAIN a : p[i] = p[j] => i = j
  <2> SUFFICES ASSUME NEW i \in DOMAIN a, NEW j \in DOMAIN a, p[i] = p[j] PROVE i = j
    OBVIOUS
  <2>1. F[at(i)] = F[at(j)]
    BY <1>2, <1>4, <1>5
  <2>2. at(i) = at(j)
    BY <1>3, <2>1
  <2> QED
    BY <1>3, <2>2
<1>7. \A k \in DOMAIN b : \E i \in DOMAIN a : p[i] = k
  <2> SUFFICES ASSUME NEW k \in DOMAIN b PROVE \E i \in DOMAIN a : p[i] = k
    OBVIOUS
  <2>1. PICK m \in DOMAIN g : Position(g, m) = k
    BY <1>1
  <2>2. PICK n \in DOMAIN f : F[n] = m
    OBVIOUS
  <2>3. Position(f, n) \in DOMAIN a
    BY <1>1
  <2>4. at(Position(f, n)) = n
    BY <1>2, <1>3, <2>3
  <2> QED
    BY <1>5, <2>1, <2>2, <2>3, <2>4
<1>8. \A i \in DOMAIN a : b[p[i]] = a[i]
  <2> SUFFICES ASSUME NEW i \in DOMAIN a PROVE b[p[i]] = a[i]
    OBVIOUS
  <2>1. b[p[i]] = g[F[at(i)]]
    BY <1>1, <1>4, <1>5
  <2>2. a[i] = f[at(i)]
    BY <1>1, <1>3
  <2> QED
    BY <1>3, <2>1, <2>2
<1> QED
  BY <1>5, <1>6, <1>7, <1>8 DEF Permuted, a, b

\* The texts of a declaration after its keyword.
LEMMA TailTexts ==
  ASSUME NEW l \in Seq(Field), l # <<>>
  PROVE  Tail(Texts(l)) \in Seq(Text)
<1>0. \A f \in Field : f.text \in Text
  BY DEF Field
<1>1. Len(l) \in Nat \ {0} /\ DOMAIN l = 1 .. Len(l) /\ \A i \in 1 .. Len(l) : l[i].text \in Text
  <2>1. Len(l) \in Nat \ {0} /\ DOMAIN l = 1 .. Len(l) /\ \A i \in 1 .. Len(l) : l[i] \in Field
    OBVIOUS
  <2> QED
    BY <1>0, <2>1
<1>2. Texts(l) \in Seq(Text) /\ Len(Texts(l)) = Len(l)
  BY <1>1 DEF Texts
<1>3. Texts(l) # <<>>
  BY <1>1, <1>2
<1> QED
  BY <1>2, <1>3, HeadTailProperties

Kinds == {"grammar", "stage", "ambiguity", "type", "effect", "fixed_denominator", "token",
          "production", "precedence", "associativity"}

\* n has the declarations of m in an order that differs only where it should not
\* matter.
Reordered(m, n) ==
  /\ Permuted(m, n)
  /\ \A kind \in Kinds : Permuted(Of(m, kind), Of(n, kind))
  /\ \A kind \in {"production", "fixed_denominator"} : Of(n, kind) = Of(m, kind)

\* The same of two IRs.
SameButForOrder(D, E) ==
  /\ E.name = D.name /\ E.version = D.version /\ E.stage = D.stage /\ E.policy = D.policy
  /\ E.denominator = D.denominator /\ E.productions = D.productions
  /\ \A part \in {"types", "tokens", "precedences", "associativities"} :
       /\ Listed(D[part]) /\ Listed(E[part])
       /\ Permuted(D[part], E[part])
       /\ D[part] = <<>> <=> E[part] = <<>>
  /\ D.effects = <<>> <=> E.effects = <<>>
  /\ ToSet(E.effects) = ToSet(D.effects)
  /\ ToBag(E.effects) = ToBag(D.effects)

\* Neither invalid nor in conflict, so that a name has one meaning.
OneMeaning(D) ==
  /\ ~TokensClash(D.tokens)
  /\ ~Unbound(D)
  /\ Names(D.associativities) \subseteq Names(D.precedences)
  /\ ~Conflicting(D.precedences, "level")
  /\ ~Conflicting(D.associativities, "value")

\* What is diagnosed does not depend on the order.
LEMMA DiagnosedAlike ==
  ASSUME NEW D, NEW E, SameButForOrder(D, E), OneMeaning(D)
  PROVE  /\ OneMeaning(E)
         /\ DiagnosedClasses(E) = DiagnosedClasses(D)
         /\ Complete(D) => Complete(E)
<1>1. \A part \in {"types", "tokens", "precedences", "associativities"} :
        /\ Listed(D[part]) /\ Listed(E[part])
        /\ Permuted(D[part], E[part])
        /\ D[part] = <<>> <=> E[part] = <<>>
  BY DEF SameButForOrder
<1>2. ASSUME NEW part \in {"types", "tokens", "precedences", "associativities"}
      PROVE  Names(E[part]) = Names(D[part])
  BY <1>1, PermutedHolds DEF Names
<1>3. ~TokensClash(E.tokens)
  <2>1. Listed(D.tokens) /\ Listed(E.tokens) /\ Permuted(D.tokens, E.tokens)
    BY <1>1
  <2>2. /\ Word("") \notin Names(D.tokens)
        /\ \A i, j \in DOMAIN D.tokens : i < j => D.tokens[i].name # D.tokens[j].name
    BY DEF OneMeaning, TokensClash
  <2>3. \A i, j \in DOMAIN D.tokens : i # j => D.tokens[i].name # D.tokens[j].name
    <3>1. \A i, j \in DOMAIN D.tokens : i # j => i < j \/ j < i
      BY <2>1 DEF Listed
    <3> QED
      BY <2>2, <3>1
  <2>4. PICK p \in [DOMAIN D.tokens -> DOMAIN E.tokens] :
          /\ \A k \in DOMAIN E.tokens : \E i \in DOMAIN D.tokens : p[i] = k
          /\ \A i \in DOMAIN D.tokens : E.tokens[p[i]] = D.tokens[i]
    BY <2>1 DEF Permuted
  <2>5. \A k, l \in DOMAIN E.tokens : k # l => E.tokens[k].name # E.tokens[l].name
    <3> SUFFICES ASSUME NEW k \in DOMAIN E.tokens, NEW l \in DOMAIN E.tokens, k # l
                 PROVE  E.tokens[k].name # E.tokens[l].name
      OBVIOUS
    <3>1. PICK i \in DOMAIN D.tokens : p[i] = k
      BY <2>4
    <3>2. PICK j \in DOMAIN D.tokens : p[j] = l
      BY <2>4
    <3> QED
      BY <2>3, <2>4, <3>1, <3>2
  <2>6. \A k, l \in DOMAIN E.tokens : k < l => k # l
    BY <2>1 DEF Listed
  <2> QED
    BY <1>2, <2>2, <2>5, <2>6 DEF TokensClash
<1>4. Unbound(E) <=> Unbound(D)
  <2>1. Names(E.tokens) = Names(D.tokens) /\ E.productions = D.productions
    BY <1>2 DEF SameButForOrder
  <2> QED
    BY <2>1 DEF Unbound
<1>5. ASSUME NEW a, NEW b, Listed(a), Listed(b), Permuted(a, b), NEW field, ~Conflicting(a, field)
      PROVE  ~Conflicting(b, field)
  <2>1. \A i, j \in DOMAIN a : a[i].name = a[j].name => a[i][field] = a[j][field]
    BY <1>5, NearestIsEnough
  <2>2. \A i, j \in DOMAIN b : b[i].name = b[j].name => b[i][field] = b[j][field]
    BY <1>5, <2>1, PermutedHolds
  <2> QED
    BY <1>5, <2>2, NearestIsEnough
<1>6. OneMeaning(E)
  <2>1. ~Conflicting(E.precedences, "level") /\ ~Conflicting(E.associativities, "value")
    BY <1>1, <1>5 DEF OneMeaning
  <2>2. Names(E.associativities) \subseteq Names(E.precedences)
    BY <1>2 DEF OneMeaning
  <2> QED
    BY <1>3, <1>4, <2>1, <2>2 DEF OneMeaning
<1>7. DiagnosedClasses(E) = DiagnosedClasses(D)
  <2>1. /\ E.stage = D.stage /\ ToSet(E.effects) = ToSet(D.effects)
        /\ E.productions = D.productions
    BY DEF SameButForOrder
  <2>2. OneMeaning(D) /\ OneMeaning(E)
    BY <1>6
  <2>3. \A I : OneMeaning(I) =>
          DiagnosedClasses(I) =
                 {c \in {"forbidden-stage-escape"} :
                    I.stage # [number |-> 1, origin |-> "generated-from-stage0"]}
            \union {c \in {"forbidden-effect"} : ~ (ToSet(I.effects) \subseteq AllowedEffects)}
            \union {c \in {"ambiguous-grammar"} : Ambiguous(I.productions)}
    BY Zenon DEF OneMeaning, DiagnosedClasses
  <2> HIDE DEF OneMeaning
  <2> QED
    BY <2>1, <2>2, <2>3, Zenon
<1>8. Complete(D) => Complete(E)
  <2> SUFFICES ASSUME Complete(D) PROVE Complete(E)
    OBVIOUS
  <2>1. /\ E.name = D.name /\ E.version = D.version /\ E.denominator = D.denominator
        /\ E.productions = D.productions
        /\ D.effects = <<>> <=> E.effects = <<>>
        /\ D.types = <<>> <=> E.types = <<>>
        /\ D.tokens = <<>> <=> E.tokens = <<>>
        /\ D.precedences = <<>> <=> E.precedences = <<>>
        /\ D.associativities = <<>> <=> E.associativities = <<>>
    BY <1>1 DEF SameButForOrder
  <2> QED
    BY <2>1 DEF Complete
<1> QED
  BY <1>6, <1>7, <1>8

Parts == {"name", "version", "stage", "policy", "types", "effects", "denominator", "tokens",
          "productions", "precedences", "associativities"}

\* The canonical form does not depend on the order.
LEMMA CanonicalAlike ==
  ASSUME NEW D, NEW E, SameButForOrder(D, E), OneMeaning(D), DOMAIN D = Parts, DOMAIN E = Parts,
         \A i \in DOMAIN D.associativities : \E a, b :
           D.associativities[i] = [name |-> a, value |-> b]
  PROVE  Canonical(E) = Canonical(D)
<1>1. \A part \in {"types", "tokens", "precedences", "associativities"} :
        Listed(D[part]) /\ Listed(E[part]) /\ Permuted(D[part], E[part])
  BY DEF SameButForOrder
<1>2. ToBag(E.types) = ToBag(D.types) /\ ToBag(E.precedences) = ToBag(D.precedences)
  BY <1>1, PermutedBag
<1>3. ByName(E.tokens) = ByName(D.tokens)
  <2>1. Listed(D.tokens) /\ Listed(E.tokens) /\ Permuted(D.tokens, E.tokens)
    BY <1>1
  <2>2. \A i, j \in DOMAIN D.tokens : i < j => D.tokens[i].name # D.tokens[j].name
    BY DEF OneMeaning, TokensClash
  <2>3. \A i, j \in DOMAIN D.tokens : D.tokens[i].name = D.tokens[j].name => i = j
    <3>1. \A i, j \in DOMAIN D.tokens : i = j \/ i < j \/ j < i
      BY <2>1 DEF Listed
    <3> QED
      BY <2>2, <3>1
  <2> QED
    BY <2>1, <2>3, PermutedByName
<1>4. ByName(E.associativities) = ByName(D.associativities)
  <2>1. /\ Listed(D.associativities) /\ Listed(E.associativities)
        /\ Permuted(D.associativities, E.associativities)
    BY <1>1
  <2>2. \A i, j \in DOMAIN D.associativities :
          D.associativities[i].name = D.associativities[j].name =>
            D.associativities[i]["value"] = D.associativities[j]["value"]
    BY <2>1, NearestIsEnough DEF OneMeaning
  <2>3. \A i, j \in DOMAIN D.associativities :
          D.associativities[i].name = D.associativities[j].name =>
            D.associativities[i] = D.associativities[j]
    <3> SUFFICES ASSUME NEW i \in DOMAIN D.associativities, NEW j \in DOMAIN D.associativities,
                        D.associativities[i].name = D.associativities[j].name
                 PROVE  D.associativities[i] = D.associativities[j]
      OBVIOUS
    <3>1. PICK a, b : D.associativities[i] = [name |-> a, value |-> b]
      OBVIOUS
    <3>2. PICK c, d : D.associativities[j] = [name |-> c, value |-> d]
      OBVIOUS
    <3> QED
      BY <2>2, <3>1, <3>2
  <2> QED
    BY <2>1, <2>3, PermutedByName
<1>5. ToBag(E.effects) = ToBag(D.effects)
  BY DEF SameButForOrder
<1>6. \A x \in Parts \ {"types", "effects", "tokens", "precedences", "associativities"} :
        E[x] = D[x]
  BY DEF SameButForOrder, Parts
<1>7. ASSUME NEW t, NEW e, NEW o, NEW p, NEW a
      PROVE  [E EXCEPT !.types = t, !.effects = e, !.tokens = o, !.precedences = p,
                       !.associativities = a]
               = [D EXCEPT !.types = t, !.effects = e, !.tokens = o, !.precedences = p,
                           !.associativities = a]
  BY <1>6
<1> QED
  BY <1>2, <1>3, <1>4, <1>5, <1>7 DEF Canonical

\* A list of declarations without one is empty.
LEMMA NoDeclaration ==
  ASSUME NEW s, Listed(s), s = [i \in DOMAIN s |-> s[i]]
  PROVE  s = <<>> <=> Len(s) = 0
<1>1. Len(s) = 0 => DOMAIN s = {}
  BY DEF Listed
<1>2. DOMAIN s = {} => s = <<>>
  OBVIOUS
<1>3. s = <<>> => Len(s) = 0
  OBVIOUS
<1> QED
  BY <1>1, <1>2, <1>3

\* The declarations of a tree that lowers, in another order.
LEMMA DeclaredAlike ==
  ASSUME NEW f, Numbered(f), NEW g, Numbered(g), Reordered(Nodes(f), Nodes(g)),
         \A n \in DOMAIN f : f[n] \in Seq(Field) /\ f[n] # <<>>,
         \A kind \in {"grammar", "stage", "ambiguity"} : Len(Of(Nodes(f), kind)) = 1
  PROVE  SameButForOrder(Declared(Nodes(f)), Declared(Nodes(g)))
<1> DEFINE D == Declared(Nodes(f))
           E == Declared(Nodes(g))
           X(kind) == Of(Nodes(f), kind)
           Y(kind) == Of(Nodes(g), kind)
<1>1. ASSUME NEW kind
      PROVE  /\ Listed(X(kind)) /\ Listed(Y(kind))
             /\ \A i \in DOMAIN X(kind) : X(kind)[i] \in Seq(Field) /\ X(kind)[i] # <<>>
  <2>1. Listed(X(kind)) /\ Listed(Y(kind))
    BY DeclarationsOf DEF Listed
  <2>2. \A i \in DOMAIN X(kind) : \E n \in LinesOf(f, kind) : X(kind)[i] = f[n]
    BY DeclarationsOf
  <2>3. LinesOf(f, kind) \subseteq DOMAIN f
    BY DEF LinesOf
  <2> HIDE DEF X, Y
  <2> QED
    BY <2>1, <2>2, <2>3
<1>2. ASSUME NEW kind \in Kinds
      PROVE  Permuted(X(kind), Y(kind)) /\ Len(Y(kind)) = Len(X(kind))
  <2>1. Permuted(X(kind), Y(kind))
    BY DEF Reordered
  <2> HIDE DEF X, Y
  <2> QED
    BY <1>1, <2>1, PermutedLen
<1>3. ASSUME NEW kind \in {"grammar", "stage", "ambiguity"} PROVE Last(Y(kind)) = Last(X(kind))
  <2>1. Len(X(kind)) = 1 /\ kind \in Kinds
    BY DEF Kinds
  <2> HIDE DEF X, Y
  <2>2. Len(Y(kind)) = 1 /\ Permuted(X(kind), Y(kind))
    BY <1>2, <2>1
  <2>3. DOMAIN X(kind) = {1} /\ DOMAIN Y(kind) = {1}
    BY <1>1, <2>1, <2>2 DEF Listed
  <2>4. Y(kind)[1] = X(kind)[1]
    BY <2>2, <2>3, PermutedHolds
  <2> QED
    BY <2>1, <2>2, <2>4 DEF Last
<1>4. Y("production") = X("production") /\ Y("fixed_denominator") = X("fixed_denominator")
  BY DEF Reordered
<1>5. \A m : /\ Declared(m).name = Last(Of(m, "grammar"))[2].text
             /\ Declared(m).version = Last(Of(m, "grammar"))[3].text
             /\ Declared(m).stage = StageOf(Last(Of(m, "stage")))
             /\ Declared(m).policy = keyValue(Tail(Texts(Last(Of(m, "ambiguity")))), "policy")
             /\ Declared(m).denominator =
                  IF Of(m, "fixed_denominator") = <<>> THEN 0
                  ELSE Numeral(Last(Of(m, "fixed_denominator"))[2].text.val)
             /\ Declared(m).productions =
                  [i \in DOMAIN Of(m, "production") |-> ProductionOf(Of(m, "production")[i])]
  BY DEF Declared, Each
<1>6. /\ E.name = D.name /\ E.version = D.version /\ E.stage = D.stage /\ E.policy = D.policy
      /\ E.denominator = D.denominator /\ E.productions = D.productions
  <2>1. /\ Last(Of(Nodes(g), "grammar")) = Last(Of(Nodes(f), "grammar"))
        /\ Last(Of(Nodes(g), "stage")) = Last(Of(Nodes(f), "stage"))
        /\ Last(Of(Nodes(g), "ambiguity")) = Last(Of(Nodes(f), "ambiguity"))
        /\ Of(Nodes(g), "fixed_denominator") = Of(Nodes(f), "fixed_denominator")
        /\ Of(Nodes(g), "production") = Of(Nodes(f), "production")
    BY <1>3, <1>4
  <2>2. E.name = D.name /\ E.version = D.version /\ E.stage = D.stage /\ E.policy = D.policy
    BY <1>5, <2>1
  <2>3. E.denominator = D.denominator
    BY <1>5, <2>1
  <2>4. E.productions = D.productions
    <3>1. /\ D.productions = [i \in DOMAIN X("production") |-> ProductionOf(X("production")[i])]
          /\ E.productions = [i \in DOMAIN Y("production") |-> ProductionOf(Y("production")[i])]
      BY <1>5
    <3>2. Y("production") = X("production")
      BY <1>4
    <3> HIDE DEF D, E, X, Y
    <3> QED
      BY <3>1, <3>2
  <2> QED
    BY <2>2, <2>3, <2>4
<1>7. ASSUME NEW c, NEW d, NEW kind \in Kinds,
             c = [i \in DOMAIN X(kind) |-> c[i]], d = [i \in DOMAIN Y(kind) |-> d[i]],
             \A i \in DOMAIN X(kind) : \A k \in DOMAIN Y(kind) :
               X(kind)[i] = Y(kind)[k] => c[i] = d[k]
      PROVE  /\ Listed(c) /\ Listed(d) /\ Permuted(c, d)
             /\ c = <<>> <=> d = <<>>
             /\ Len(c) = Len(X(kind))
  <2> HIDE DEF X, Y
  <2>1. DOMAIN c = DOMAIN X(kind) /\ DOMAIN d = DOMAIN Y(kind)
    BY <1>7
  <2>2. Listed(X(kind)) /\ Listed(Y(kind)) /\ Permuted(X(kind), Y(kind))
        /\ Len(Y(kind)) = Len(X(kind))
    BY <1>1, <1>2
  <2>3. /\ Listed(c) /\ Listed(d) /\ Len(c) = Len(X(kind)) /\ Len(d) = Len(Y(kind))
    <3>1. /\ c = [i \in 1 .. Len(X(kind)) |-> c[i]]
          /\ d = [i \in 1 .. Len(Y(kind)) |-> d[i]]
          /\ Len(X(kind)) \in Nat /\ Len(Y(kind)) \in Nat
      BY <1>7, <2>2 DEF Listed
    <3>2. \A n \in Nat : \A s : s = [i \in 1 .. n |-> s[i]] => Len(s) = n /\ DOMAIN s = 1 .. n
      OBVIOUS
    <3> QED
      BY <3>1, <3>2 DEF Listed
  <2>4. Permuted(c, d)
    BY <1>7, <2>1, <2>2, PermutedImages
  <2>5. c = <<>> <=> d = <<>>
    BY <1>7, <2>1, <2>2, <2>3, NoDeclaration
  <2> QED
    BY <2>3, <2>4, <2>5
<1>8. \A m : /\ Declared(m).types = [i \in DOMAIN Of(m, "type") |-> Of(m, "type")[i][2].text]
             /\ Declared(m).tokens = [i \in DOMAIN Of(m, "token") |-> TokenOf(Of(m, "token")[i])]
             /\ Declared(m).precedences =
                  [i \in DOMAIN Of(m, "precedence") |-> PrecedenceOf(Of(m, "precedence")[i])]
             /\ Declared(m).associativities =
                  [i \in DOMAIN Of(m, "associativity") |-> AssociativityOf(Of(m, "associativity")[i])]
             /\ Declared(m).effects =
                  FlattenSeq([i \in DOMAIN Of(m, "effect") |-> Tail(Texts(Of(m, "effect")[i]))])
  BY DEF Declared, Each
<1>9. {"type", "token", "precedence", "associativity", "effect"} \subseteq Kinds
  BY DEF Kinds
<1>10. /\ Listed(D.types) /\ Listed(E.types) /\ Permuted(D.types, E.types)
       /\ D.types = <<>> <=> E.types = <<>>
  <2>1. /\ D.types = [i \in DOMAIN X("type") |-> X("type")[i][2].text]
        /\ E.types = [i \in DOMAIN Y("type") |-> Y("type")[i][2].text]
    BY <1>8
  <2> HIDE DEF D, E, X, Y
  <2> QED
    BY <1>7, <1>9, <2>1
<1>11. /\ Listed(D.tokens) /\ Listed(E.tokens) /\ Permuted(D.tokens, E.tokens)
       /\ D.tokens = <<>> <=> E.tokens = <<>>
  <2>1. /\ D.tokens = [i \in DOMAIN X("token") |-> TokenOf(X("token")[i])]
        /\ E.tokens = [i \in DOMAIN Y("token") |-> TokenOf(Y("token")[i])]
    BY <1>8
  <2> HIDE DEF D, E, X, Y
  <2> QED
    BY <1>7, <1>9, <2>1
<1>12. /\ Listed(D.precedences) /\ Listed(E.precedences) /\ Permuted(D.precedences, E.precedences)
       /\ D.precedences = <<>> <=> E.precedences = <<>>
  <2>1. /\ D.precedences = [i \in DOMAIN X("precedence") |-> PrecedenceOf(X("precedence")[i])]
        /\ E.precedences = [i \in DOMAIN Y("precedence") |-> PrecedenceOf(Y("precedence")[i])]
    BY <1>8
  <2> HIDE DEF D, E, X, Y
  <2>2. /\ D.precedences = [i \in DOMAIN X("precedence") |-> D.precedences[i]]
        /\ E.precedences = [i \in DOMAIN Y("precedence") |-> E.precedences[i]]
        /\ \A i \in DOMAIN X("precedence") : \A k \in DOMAIN Y("precedence") :
             X("precedence")[i] = Y("precedence")[k] => D.precedences[i] = E.precedences[k]
    BY <2>1
  <2> QED
    BY <1>7, <1>9, <2>2
<1>13. /\ Listed(D.associativities) /\ Listed(E.associativities)
       /\ Permuted(D.associativities, E.associativities)
       /\ D.associativities = <<>> <=> E.associativities = <<>>
  <2>1. /\ D.associativities =
             [i \in DOMAIN X("associativity") |-> AssociativityOf(X("associativity")[i])]
        /\ E.associativities =
             [i \in DOMAIN Y("associativity") |-> AssociativityOf(Y("associativity")[i])]
    BY <1>8
  <2> HIDE DEF D, E, X, Y
  <2> QED
    BY <1>7, <1>9, <2>1
<1>14. /\ D.effects = <<>> <=> E.effects = <<>>
       /\ ToSet(E.effects) = ToSet(D.effects)
       /\ ToBag(E.effects) = ToBag(D.effects)
  <2> DEFINE ss == [i \in DOMAIN X("effect") |-> Tail(Texts(X("effect")[i]))]
             tt == [i \in DOMAIN Y("effect") |-> Tail(Texts(Y("effect")[i]))]
  <2>1. D.effects = FlattenSeq(ss) /\ E.effects = FlattenSeq(tt)
    BY <1>8
  <2>2. \A i \in DOMAIN X("effect") : X("effect")[i] \in Seq(Field) /\ X("effect")[i] # <<>>
    BY <1>1
  <2> HIDE DEF D, E, X, Y
  <2>3. /\ DOMAIN ss = DOMAIN X("effect")
        /\ \A i \in DOMAIN ss : ss[i] = Tail(Texts(X("effect")[i]))
        /\ ss = [i \in DOMAIN X("effect") |-> ss[i]]
        /\ tt = [i \in DOMAIN Y("effect") |-> tt[i]]
        /\ \A i \in DOMAIN X("effect") : \A k \in DOMAIN Y("effect") :
             X("effect")[i] = Y("effect")[k] => ss[i] = tt[k]
    OBVIOUS
  <2> HIDE DEF ss, tt
  <2>4. /\ Listed(ss) /\ Listed(tt) /\ Permuted(ss, tt)
        /\ ss = <<>> <=> tt = <<>>
    BY <1>7, <1>9, <2>3
  <2>5. \A i \in DOMAIN ss : ss[i] \in Seq(Text)
    BY <2>2, <2>3, TailTexts
  <2>6. CASE Len(ss) # 0
    <3>1. /\ FlattenSeq(ss) \in Seq(Text) /\ FlattenSeq(tt) \in Seq(Text)
          /\ ToSet(FlattenSeq(tt)) = ToSet(FlattenSeq(ss))
          /\ ToBag(FlattenSeq(tt)) = ToBag(FlattenSeq(ss))
      BY <2>4, <2>5, <2>6, FlattenPermuted
    <3>2. \A s \in Seq(Text) : s = <<>> <=> ToSet(s) = {}
      <4> SUFFICES ASSUME NEW s \in Seq(Text) PROVE s = <<>> <=> ToSet(s) = {}
        OBVIOUS
      <4>1. s # <<>> => 1 \in DOMAIN s
        OBVIOUS
      <4>2. s = <<>> => DOMAIN s = {}
        OBVIOUS
      <4> QED
        BY <4>1, <4>2 DEF ToSet
    <3> QED
      BY <2>1, <3>1, <3>2
  <2>7. CASE Len(ss) = 0
    <3>1. ss = <<>>
      <4>1. ss = [i \in DOMAIN ss |-> ss[i]]
        BY <2>3
      <4> QED
        BY <2>4, <2>7, <4>1, NoDeclaration
    <3> QED
      BY <2>1, <2>4, <3>1
  <2>8. Len(ss) \in Nat
    BY <2>4 DEF Listed
  <2> QED
    BY <2>6, <2>7
<1> HIDE DEF D, E
<1> QED
  BY <1>6, <1>10, <1>11, <1>12, <1>13, <1>14 DEF SameButForOrder, D, E

\* Lower forgets the order that carries no meaning.
LEMMA OrderForgotten ==
  ASSUME NEW f, Numbered(f), NEW g, Numbered(g), Reordered(Nodes(f), Nodes(g)),
         \A n \in DOMAIN f : f[n] \in Seq(Field) /\ f[n] # <<>>,
         Lower(f).ok,
         Lower(f).classes \intersect {"invalid-grammar", "conflicting-precedence"} = {}
  PROVE  Lower(g) = Lower(f)
<1> DEFINE D == Declared(Nodes(f))
           E == Declared(Nodes(g))
<1>1. /\ \A i \in DOMAIN Nodes(f) : WellFormed(Nodes(f)[i])
      /\ \A kind \in {"grammar", "stage", "ambiguity"} : Len(Of(Nodes(f), kind)) = 1
      /\ Complete(D)
      /\ Lower(f) = [ok |-> TRUE, ir |-> Canonical(D), classes |-> DiagnosedClasses(D)]
  BY Zenon DEF Lower, LoweringError
<1>2. SameButForOrder(D, E)
  BY <1>1, DeclaredAlike
<1>3. OneMeaning(D)
  <2>1. Lower(f).classes = DiagnosedClasses(D)
    BY <1>1
  <2>2. "invalid-grammar" \notin DiagnosedClasses(D) /\ "conflicting-precedence" \notin DiagnosedClasses(D)
    BY <2>1
  <2> HIDE DEF D
  <2> QED
    BY <2>2, Zenon DEF DiagnosedClasses, OneMeaning
<1>4. DOMAIN D = Parts /\ DOMAIN E = Parts
  BY DEF Declared, Parts
<1>5. \A i \in DOMAIN D.associativities : \E a, b :
        D.associativities[i] = [name |-> a, value |-> b]
  <2> DEFINE e == Of(Nodes(f), "associativity")
  <2>1. D.associativities = [i \in DOMAIN e |-> AssociativityOf(e[i])]
    BY DEF Declared, Each
  <2> HIDE DEF D, e
  <2> QED
    BY <2>1 DEF AssociativityOf
<1> HIDE DEF D, E
<1>6. DiagnosedClasses(E) = DiagnosedClasses(D) /\ Complete(E)
  BY <1>1, <1>2, <1>3, DiagnosedAlike
<1>7. Canonical(E) = Canonical(D)
  BY <1>2, <1>3, <1>4, <1>5, CanonicalAlike
<1>8. \A i \in DOMAIN Nodes(g) : WellFormed(Nodes(g)[i])
  <2>1. Permuted(Nodes(f), Nodes(g))
    BY DEF Reordered
  <2> QED
    BY <1>1, <2>1, PermutedHolds
<1>9. \A kind \in {"grammar", "stage", "ambiguity"} : Len(Of(Nodes(g), kind)) = 1
  <2> SUFFICES ASSUME NEW kind \in {"grammar", "stage", "ambiguity"}
               PROVE  Len(Of(Nodes(g), kind)) = 1
    OBVIOUS
  <2>1. kind \in Kinds
    BY DEF Kinds
  <2>2. Permuted(Of(Nodes(f), kind), Of(Nodes(g), kind))
    BY <2>1 DEF Reordered
  <2>3. Listed(Of(Nodes(f), kind)) /\ Listed(Of(Nodes(g), kind))
    BY DeclarationsOf DEF Listed
  <2>4. Len(Of(Nodes(f), kind)) = 1
    BY <1>1
  <2> QED
    BY <2>2, <2>3, <2>4, PermutedLen
<1>10. Lower(g) = [ok |-> TRUE, ir |-> Canonical(E), classes |-> DiagnosedClasses(E)]
  BY <1>6, <1>8, <1>9, Zenon DEF Lower, E
<1> QED
  BY <1>1, <1>6, <1>7, <1>10
=============================================================================
