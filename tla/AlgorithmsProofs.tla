-------------------------- MODULE AlgorithmsProofs --------------------------
(***************************************************************************)
(* Proofs about the pure algorithms, Schedule and Analytics, for lists of  *)
(* any length and any numbers.                                             *)
(*                                                                         *)
(* What loops over sorted lists compute is shown without induction over    *)
(* the lists: a place in a sorted list is the size of a set, a sum is the  *)
(* number of its units, and the one loop that keeps a result between its   *)
(* rounds is a state machine with an invariant.                            *)
(***************************************************************************)
EXTENDS Schedule, Analytics, FiniteSetTheorems, TLAPS

-----------------------------------------------------------------------------
(* Sorting                                                                 *)

\* A nonempty set of natural numbers has a least member.
LEMMA LeastMember ==
    ASSUME NEW T \in SUBSET Nat, T # {}
    PROVE  \E n \in T : \A m \in T : n <= m
<1>1. PICK n \in T : \A m \in T : ~(<<m, n>> \in OpToRel(<, Nat))
  BY NatLessThanWellFounded, WFMin, Zenon
<1>2. ASSUME NEW m \in T PROVE n <= m
  <2>1. ~(m < n)
    BY <1>1 DEF OpToRel
  <2>. QED
    BY <2>1
<1>. QED
  BY <1>2

\* i comes before j in the order of the keys.
Before(keys, i, j) == keys[i] < keys[j] \/ (keys[i] = keys[j] /\ i < j)

\* The indices of sequences are finite sets of as many elements as they say.
LEMMA Indices ==
    ASSUME NEW n \in Nat
    PROVE  1..n \in SUBSET Nat /\ IsFiniteSet(1..n) /\ Cardinality(1..n) = n
<1>1. \A a, b \in Int : IsFiniteSet(a..b) /\ Cardinality(a..b) = IF a > b THEN 0 ELSE b - a + 1
  BY FS_Interval, Zenon
<1>. QED
  BY <1>1

\* An element's position is one of the positions of a list of that length, and
\* elements are placed in their order.
LEMMA PlacesOrdered ==
    ASSUME NEW I \in SUBSET Nat, IsFiniteSet(I), NEW keys \in [I -> Int]
    PROVE  /\ Cardinality(I) \in Nat
           /\ \A i \in I : Place(keys, i) \in 1..Cardinality(I)
           /\ \A i, j \in I : Before(keys, i, j) => Place(keys, i) < Place(keys, j)
<1>1. Cardinality(I) \in Nat
  BY FS_CardinalityType
<1>2. ASSUME NEW i \in I
      PROVE  /\ UpTo(keys, i) \in SUBSET I /\ i \in UpTo(keys, i)
             /\ IsFiniteSet(UpTo(keys, i)) /\ Place(keys, i) \in 1..Cardinality(I)
  <2>1. UpTo(keys, i) \in SUBSET I /\ i \in UpTo(keys, i)
    BY DEF UpTo
  <2>2. IsFiniteSet(UpTo(keys, i)) /\ Cardinality(UpTo(keys, i)) <= Cardinality(I)
    BY <2>1, FS_Subset
  <2>3. Cardinality(UpTo(keys, i)) \in Nat /\ Cardinality(UpTo(keys, i)) # 0
    BY <2>1, <2>2, FS_CardinalityType, FS_EmptySet
  <2>. QED
    BY <1>1, <2>1, <2>2, <2>3 DEF Place
<1>3. ASSUME NEW i \in I, NEW j \in I, Before(keys, i, j)
      PROVE  Place(keys, i) < Place(keys, j)
  <2>1. UpTo(keys, i) \in SUBSET UpTo(keys, j)
    <3>1. ASSUME NEW k \in I, keys[k] < keys[i] \/ (keys[k] = keys[i] /\ k <= i)
          PROVE  keys[k] < keys[j] \/ (keys[k] = keys[j] /\ k <= j)
      <4>1. keys[k] \in Int /\ keys[i] \in Int /\ keys[j] \in Int /\ k \in Int /\ i \in Int /\ j \in Int
        OBVIOUS
      <4>. QED
        BY <1>3, <3>1, <4>1 DEF Before
    <3>. QED
      BY <3>1 DEF UpTo
  <2>2. j \notin UpTo(keys, i)
    <3>1. keys[i] \in Int /\ keys[j] \in Int /\ i \in Int /\ j \in Int
      OBVIOUS
    <3>. QED
      BY <1>3, <3>1 DEF Before, UpTo
  <2>3. /\ Cardinality(UpTo(keys, i)) <= Cardinality(UpTo(keys, j))
        /\ Cardinality(UpTo(keys, i)) # Cardinality(UpTo(keys, j))
    <3>1. IsFiniteSet(UpTo(keys, j)) /\ j \in UpTo(keys, j)
      BY <1>2
    <3>. QED
      BY <2>1, <2>2, <3>1, FS_Subset
  <2>. QED
    BY <1>2, <2>3 DEF Place
<1>. QED
  BY <1>1, <1>2, <1>3

\* Any two elements are in order, and no two share a position.
LEMMA PlacesDistinct ==
    ASSUME NEW I \in SUBSET Nat, IsFiniteSet(I), NEW keys \in [I -> Int]
    PROVE  /\ \A i, j \in I : i = j \/ Before(keys, i, j) \/ Before(keys, j, i)
           /\ \A i, j \in I : Place(keys, i) = Place(keys, j) => i = j
<1>1. ASSUME NEW i \in I, NEW j \in I PROVE i = j \/ Before(keys, i, j) \/ Before(keys, j, i)
  <2>1. keys[i] \in Int /\ keys[j] \in Int /\ i \in Int /\ j \in Int
    OBVIOUS
  <2>. QED
    BY <2>1 DEF Before
<1>2. ASSUME NEW i \in I, NEW j \in I, Place(keys, i) = Place(keys, j) PROVE i = j
  <2>1. Place(keys, i) \in Int /\ Place(keys, j) \in Int
    BY PlacesOrdered
  <2>2. ~Before(keys, i, j) /\ ~Before(keys, j, i)
    BY <1>2, <2>1, PlacesOrdered
  <2>. QED
    BY <1>1, <2>2
<1>. QED
  BY <1>1, <1>2

\* The index of the element at position k.
Origin(keys, k) == CHOOSE i \in DOMAIN keys : Place(keys, i) = k

\* Every position is taken: Origin and Place undo each other.
LEMMA OriginOfPlace ==
    ASSUME NEW I \in SUBSET Nat, IsFiniteSet(I), NEW keys \in [I -> Int]
    PROVE  /\ \A k \in 1..Cardinality(I) : Origin(keys, k) \in I /\ Place(keys, Origin(keys, k)) = k
           /\ \A i \in I : Origin(keys, Place(keys, i)) = i
<1>. DEFINE n == Cardinality(I)
            place == [i \in I |-> Place(keys, i)]
<1>1. n \in Nat /\ \A i \in I : Place(keys, i) \in 1..n
  BY PlacesOrdered
<1>2. IsFiniteSet(1..n) /\ Cardinality(1..n) = n
  BY <1>1, Indices
<1>3. place \in Injection(I, 1..n)
  <2>1. place \in [I -> 1..n]
    BY <1>1
  <2>2. \A i, j \in I : place[i] = place[j] => i = j
    BY PlacesDistinct
  <2>. QED
    BY <2>1, <2>2 DEF Injection, IsInjective
<1>4. place \in Surjection(I, 1..n)
  BY <1>2, <1>3, FS_Injection
<1>5. ASSUME NEW k \in 1..n PROVE \E i \in I : Place(keys, i) = k
  BY <1>4 DEF Surjection
<1>6. DOMAIN keys = I
  OBVIOUS
<1>7. ASSUME NEW k \in 1..n PROVE Origin(keys, k) \in I /\ Place(keys, Origin(keys, k)) = k
  BY <1>5, <1>6 DEF Origin
<1>8. ASSUME NEW i \in I PROVE Origin(keys, Place(keys, i)) = i
  <2>1. Place(keys, i) \in 1..n
    BY <1>1
  <2>2. Origin(keys, Place(keys, i)) \in I
        /\ Place(keys, Origin(keys, Place(keys, i))) = Place(keys, i)
    BY <1>7, <2>1
  <2>3. \A a, b \in I : Place(keys, a) = Place(keys, b) => a = b
    BY PlacesDistinct
  <2>. QED
    BY <2>2, <2>3
<1>. QED
  BY <1>7, <1>8

\* A stable sort returns every index once, in the order of the keys and of the
\* indices.
LEMMA StableOrderSorts ==
    ASSUME NEW I \in SUBSET Nat, IsFiniteSet(I), NEW keys \in [I -> Int]
    PROVE  /\ Cardinality(I) \in Nat
           /\ StableOrder(keys) \in [1..Cardinality(I) -> I]
           /\ \A j, k \in 1..Cardinality(I) :
                 j < k => Before(keys, StableOrder(keys)[j], StableOrder(keys)[k])
           /\ \A i \in I : /\ Place(keys, i) \in 1..Cardinality(I)
                           /\ StableOrder(keys)[Place(keys, i)] = i
           /\ \A k \in 1..Cardinality(I) : Place(keys, StableOrder(keys)[k]) = k
<1>. DEFINE n == Cardinality(I)
            order == StableOrder(keys)
<1>1. n \in Nat /\ \A i \in I : Place(keys, i) \in 1..n
  BY PlacesOrdered
<1>2. DOMAIN keys = I
  OBVIOUS
<1>3. \E f \in [1..n -> I] : \A k \in DOMAIN f : Place(keys, f[k]) = k
  <2>1. [k \in 1..n |-> Origin(keys, k)] \in [1..n -> I]
    BY OriginOfPlace
  <2>2. \A k \in 1..n : Place(keys, [l \in 1..n |-> Origin(keys, l)][k]) = k
    BY OriginOfPlace
  <2>. QED
    BY <2>1, <2>2
<1>4. order \in [1..n -> I] /\ \A k \in 1..n : Place(keys, order[k]) = k
  <2>1. order \in [1..n -> I] /\ \A k \in DOMAIN order : Place(keys, order[k]) = k
    BY <1>2, <1>3 DEF StableOrder
  <2>. QED
    BY <2>1
<1>5. ASSUME NEW i \in I PROVE order[Place(keys, i)] = i
  <2>1. /\ Place(keys, i) \in 1..n /\ order[Place(keys, i)] \in I
        /\ Place(keys, order[Place(keys, i)]) = Place(keys, i)
    BY <1>1, <1>4
  <2>2. \A a, b \in I : Place(keys, a) = Place(keys, b) => a = b
    BY PlacesDistinct
  <2>. QED
    BY <2>1, <2>2
<1>6. ASSUME NEW j \in 1..n, NEW k \in 1..n, j < k PROVE Before(keys, order[j], order[k])
  <2>1. order[j] \in I /\ order[k] \in I /\ Place(keys, order[j]) = j /\ Place(keys, order[k]) = k
    BY <1>4
  <2>2. order[j] # order[k]
    BY <1>6, <2>1, <1>1
  <2>3. ~Before(keys, order[k], order[j])
    <3>1. \A a, b \in I : Before(keys, a, b) => Place(keys, a) < Place(keys, b)
      BY PlacesOrdered
    <3>2. ~(k < j)
      BY <1>6
    <3>. QED
      BY <2>1, <3>1, <3>2
  <2>4. \A a, b \in I : a = b \/ Before(keys, a, b) \/ Before(keys, b, a)
    BY PlacesDistinct
  <2>. QED
    BY <2>1, <2>2, <2>3, <2>4
<1>. QED
  BY <1>1, <1>4, <1>5, <1>6

\* An unstable sort returns every index once, in the order of the keys, and the
\* stable one is one of its outcomes.
LEMMA OrdersSort ==
    ASSUME NEW I \in SUBSET Nat, IsFiniteSet(I), NEW keys \in [I -> Int]
    PROVE  /\ Cardinality(I) \in Nat
           /\ \A order \in Orders(keys) :
                 /\ order \in [1..Cardinality(I) -> I]
                 /\ \A j, k \in 1..Cardinality(I) : order[j] = order[k] => j = k
                 /\ \A j, k \in 1..Cardinality(I) : j < k => keys[order[j]] <= keys[order[k]]
                 /\ \A i \in I : \E k \in 1..Cardinality(I) : order[k] = i
           /\ StableOrder(keys) \in Orders(keys)
<1>. DEFINE n == Cardinality(I)
<1>1. DOMAIN keys = I /\ n \in Nat
  BY FS_CardinalityType
<1>2. IsFiniteSet(1..n) /\ Cardinality(1..n) = n
  BY <1>1, Indices
<1>3. ASSUME NEW order \in Orders(keys)
      PROVE  /\ order \in [1..n -> I]
             /\ \A j, k \in 1..n : order[j] = order[k] => j = k
             /\ \A j, k \in 1..n : j < k => keys[order[j]] <= keys[order[k]]
             /\ \A i \in I : \E k \in 1..n : order[k] = i
  <2>1. /\ order \in [1..n -> I]
        /\ \A j, k \in 1..n : order[j] = order[k] => j = k
        /\ \A j, k \in 1..n : j < k => keys[order[j]] <= keys[order[k]]
    BY <1>1 DEF Orders
  <2>2. order \in Injection(1..n, I)
    BY <2>1 DEF Injection, IsInjective
  <2>3. order \in Surjection(1..n, I)
    BY <1>2, <2>2, FS_Injection
  <2>4. \A i \in I : \E k \in 1..n : order[k] = i
    BY <2>3 DEF Surjection
  <2>. QED
    BY <2>1, <2>4
<1>4. StableOrder(keys) \in Orders(keys)
  <2>. DEFINE order == StableOrder(keys)
  <2>1. /\ order \in [1..n -> I]
        /\ \A j, k \in 1..n : j < k => Before(keys, order[j], order[k])
        /\ \A k \in 1..n : Place(keys, order[k]) = k
    BY StableOrderSorts
  <2>. HIDE DEF order
  <2>2. \A j, k \in 1..n : order[j] = order[k] => j = k
    BY <2>1
  <2>3. ASSUME NEW j \in 1..n, NEW k \in 1..n, j < k PROVE keys[order[j]] <= keys[order[k]]
    <3>1. keys[order[j]] \in Int /\ keys[order[k]] \in Int
      BY <2>1
    <3>2. Before(keys, order[j], order[k])
      BY <2>1, <2>3
    <3>. QED
      BY <3>1, <3>2 DEF Before
  <2>4. order \in Orders(keys)
    BY <1>1, <2>1, <2>2, <2>3 DEF Orders
  <2>. QED
    BY <2>4 DEF order
<1>. QED
  BY <1>1, <1>3, <1>4

-----------------------------------------------------------------------------
(* Sums                                                                    *)

\* The sum of finitely many numbers is a number.
LEMMA SumType ==
    ASSUME NEW D, IsFiniteSet(D), NEW f \in [D -> Int]
    PROVE  IsFiniteSet(Units(f)) /\ SumOf(f) \in Nat
<1>. DEFINE Of(x) == {x} \X (1..f[x])
            T == {Of(x) : x \in D}
            g == [x \in D |-> Of(x)]
<1>1. IsFiniteSet(T)
  <2>1. g \in Surjection(D, T)
    BY DEF Surjection
  <2>. QED
    BY <2>1, FS_Surjection
<1>2. ASSUME NEW U \in T PROVE IsFiniteSet(U)
  <2>1. PICK x \in D : U = {x} \X (1..f[x])
    OBVIOUS
  <2>2. IsFiniteSet(1..f[x])
    <3>1. \A a, b \in Int : IsFiniteSet(a..b)
      BY FS_Interval, Zenon
    <3>. QED
      BY <3>1
  <2>3. IsFiniteSet({x})
    BY FS_Singleton
  <2>. QED
    BY <2>1, <2>2, <2>3, FS_Product
<1>3. IsFiniteSet(UNION T)
  BY <1>1, <1>2, FS_UNION
<1>4. Units(f) = UNION T
  BY DEF Units
<1>. QED
  BY <1>3, <1>4, FS_CardinalityType DEF SumOf

\* The sum of nothing.
LEMMA SumOfNone ==
    ASSUME NEW f, DOMAIN f = {}
    PROVE  SumOf(f) = 0
<1>1. Units(f) = {}
  BY DEF Units
<1>. QED
  BY <1>1, FS_EmptySet DEF SumOf

\* What a unit of a sum is.
LEMMA UnitsAre ==
    ASSUME NEW D, NEW f \in [D -> Int]
    PROVE  \A u : u \in Units(f) <=> \E x \in D : \E v \in 1..f[x] : u = <<x, v>>
<1>1. DOMAIN f = D
  OBVIOUS
<1>. QED
  BY <1>1 DEF Units

\* Terms may be renamed.
LEMMA SumRenamed ==
    ASSUME NEW D, NEW E, IsFiniteSet(D), NEW f \in [D -> Int], NEW g \in [E -> Int],
           NEW h \in Bijection(D, E), \A x \in D : g[h[x]] = f[x]
    PROVE  SumOf(f) = SumOf(g)
<1>. DEFINE k == [u \in Units(f) |-> <<h[u[1]], u[2]>>]
<1>1. /\ h \in [D -> E] /\ \A x, y \in D : h[x] = h[y] => x = y
      /\ \A y \in E : \E x \in D : h[x] = y
  BY DEF Bijection, Injection, IsInjective, Surjection
<1>2. /\ \A u : u \in Units(f) <=> \E x \in D : \E v \in 1..f[x] : u = <<x, v>>
      /\ \A u : u \in Units(g) <=> \E x \in E : \E v \in 1..g[x] : u = <<x, v>>
  BY UnitsAre
<1>3. ASSUME NEW u \in Units(f)
      PROVE  u = <<u[1], u[2]>> /\ u[1] \in D /\ u[2] \in 1..f[u[1]]
  BY <1>2
<1>4. k \in [Units(f) -> Units(g)]
  <2>1. ASSUME NEW u \in Units(f) PROVE <<h[u[1]], u[2]>> \in Units(g)
    <3>1. h[u[1]] \in E /\ u[2] \in 1..g[h[u[1]]]
      BY <1>1, <1>3
    <3>. QED
      BY <1>2, <3>1
  <2>. QED
    BY <2>1
<1>5. ASSUME NEW u \in Units(f), NEW w \in Units(f), k[u] = k[w] PROVE u = w
  <2>1. h[u[1]] = h[w[1]] /\ u[2] = w[2]
    BY <1>5
  <2>2. u[1] = w[1]
    BY <1>1, <1>3, <2>1
  <2>. QED
    BY <1>3, <2>1, <2>2
<1>6. ASSUME NEW w \in Units(g) PROVE \E u \in Units(f) : k[u] = w
  <2>0. PICK y \in E : \E v \in 1..g[y] : w = <<y, v>>
    BY <1>2
  <2>1. PICK v \in 1..g[y] : w = <<y, v>>
    BY <2>0
  <2>2. PICK x \in D : h[x] = y
    BY <1>1
  <2>3. v \in 1..f[x]
    BY <2>2
  <2>4. <<x, v>> \in Units(f)
    BY <1>2, <2>3
  <2>5. k[<<x, v>>] = w
    BY <2>1, <2>2, <2>4
  <2>. QED
    BY <2>4, <2>5
<1>7. k \in Bijection(Units(f), Units(g))
  BY <1>4, <1>5, <1>6 DEF Bijection, Injection, IsInjective, Surjection
<1>8. ExistsBijection(Units(f), Units(g))
  BY <1>7 DEF ExistsBijection
<1>9. IsFiniteSet(Units(f))
  BY SumType
<1>. QED
  BY <1>8, <1>9, FS_Bijection DEF SumOf

\* The sizes of the parts of a set add up to its size.
LEMMA SumOfParts ==
    ASSUME NEW K, NEW A, IsFiniteSet(K),
           \A k \in K : IsFiniteSet(A[k]),
           \A j, k \in K : j # k => A[j] \cap A[k] = {}
    PROVE  SumOf([k \in K |-> Cardinality(A[k])]) = Cardinality(UNION {A[k] : k \in K})
<1>. DEFINE f == [k \in K |-> Cardinality(A[k])]
            count == [k \in K |-> CHOOSE c : c \in Bijection(1..Cardinality(A[k]), A[k])]
            h == [u \in Units(f) |-> count[u[1]][u[2]]]
            W == UNION {A[k] : k \in K}
<1>1. ASSUME NEW k \in K
      PROVE  /\ Cardinality(A[k]) \in Nat
             /\ count[k] \in Bijection(1..Cardinality(A[k]), A[k])
  <2>1. Cardinality(A[k]) \in Nat /\ ExistsBijection(1..Cardinality(A[k]), A[k])
    BY FS_CardinalityType
  <2>2. \E c : c \in Bijection(1..Cardinality(A[k]), A[k])
    BY <2>1 DEF ExistsBijection
  <2>3. count[k] = CHOOSE c : c \in Bijection(1..Cardinality(A[k]), A[k])
    OBVIOUS
  <2>. QED
    BY <2>1, <2>2, <2>3
<1>2. ASSUME NEW k \in K
      PROVE  /\ count[k] \in [1..f[k] -> A[k]]
             /\ \A v, w \in 1..f[k] : count[k][v] = count[k][w] => v = w
             /\ \A a \in A[k] : \E v \in 1..f[k] : count[k][v] = a
  <2>1. f[k] = Cardinality(A[k])
    OBVIOUS
  <2>2. count[k] \in Bijection(1..f[k], A[k])
    BY <1>1, <2>1
  <2>. HIDE DEF f, count
  <2>. QED
    BY <2>2 DEF Bijection, Injection, IsInjective, Surjection
<1>. HIDE DEF count
<1>3. f \in [K -> Int] /\ f \in [K -> Nat]
  BY <1>1
<1>. HIDE DEF f
<1>4. \A u : u \in Units(f) <=> \E k \in K : \E v \in 1..f[k] : u = <<k, v>>
  BY <1>3, UnitsAre
<1>5. ASSUME NEW u \in Units(f)
      PROVE  /\ u = <<u[1], u[2]>> /\ u[1] \in K /\ u[2] \in 1..f[u[1]]
             /\ h[u] = count[u[1]][u[2]] /\ h[u] \in A[u[1]]
  <2>1. u = <<u[1], u[2]>> /\ u[1] \in K /\ u[2] \in 1..f[u[1]]
    BY <1>4
  <2>2. h[u] = count[u[1]][u[2]]
    OBVIOUS
  <2>3. count[u[1]] \in [1..f[u[1]] -> A[u[1]]]
    BY <1>2, <2>1
  <2>4. count[u[1]][u[2]] \in A[u[1]]
    BY <2>1, <2>3
  <2>. QED
    BY <2>1, <2>2, <2>4
<1>6. h \in [Units(f) -> W]
  BY <1>5
<1>7. ASSUME NEW u \in Units(f), NEW w \in Units(f), h[u] = h[w] PROVE u = w
  <2>1. u[1] = w[1]
    BY <1>5, <1>7
  <2>2. u[2] = w[2]
    BY <1>2, <1>5, <1>7, <2>1
  <2>. QED
    BY <1>5, <2>1, <2>2
<1>8. ASSUME NEW a \in W PROVE \E u \in Units(f) : h[u] = a
  <2>1. PICK k \in K : a \in A[k]
    OBVIOUS
  <2>2. PICK v \in 1..f[k] : count[k][v] = a
    BY <1>2, <2>1
  <2>3. <<k, v>> \in Units(f)
    BY <1>4, <2>2
  <2>4. h[<<k, v>>] = a
    BY <2>2, <2>3
  <2>. QED
    BY <2>3, <2>4
<1>9. ExistsBijection(Units(f), W)
  BY <1>6, <1>7, <1>8 DEF ExistsBijection, Bijection, Injection, IsInjective, Surjection
<1>10. IsFiniteSet(Units(f))
  BY <1>3, SumType
<1>11. Cardinality(W) = SumOf(f)
  BY <1>9, <1>10, FS_Bijection DEF SumOf
<1>. QED
  BY <1>11 DEF f

\* A sum over two disjoint sets of terms.
LEMMA SumOfUnion ==
    ASSUME NEW D, NEW E, IsFiniteSet(D), IsFiniteSet(E), D \cap E = {},
           NEW S, S = D \cup E,
           NEW f \in [D -> Int], NEW g \in [E -> Int], NEW h \in [S -> Int],
           \A x \in D : h[x] = f[x], \A x \in E : h[x] = g[x]
    PROVE  SumOf(h) = SumOf(f) + SumOf(g)
<1>1. /\ \A u : u \in Units(f) <=> \E x \in D : \E v \in 1..f[x] : u = <<x, v>>
      /\ \A u : u \in Units(g) <=> \E x \in E : \E v \in 1..g[x] : u = <<x, v>>
  BY UnitsAre
<1>2. \A u : u \in Units(h) <=> \E x \in S : \E v \in 1..h[x] : u = <<x, v>>
  BY UnitsAre
<1>3. Units(h) = Units(f) \cup Units(g)
  <2>1. \A u : u \in Units(h) <=> u \in Units(f) \/ u \in Units(g)
    BY <1>1, <1>2
  <2>. QED
    BY <2>1
<1>4. Units(f) \cap Units(g) = {}
  BY <1>1
<1>5. /\ IsFiniteSet(Units(f)) /\ IsFiniteSet(Units(g))
      /\ SumOf(f) \in Nat /\ SumOf(g) \in Nat
  BY SumType
<1>6. Cardinality(Units(f) \cup Units(g))
        = Cardinality(Units(f)) + Cardinality(Units(g)) - Cardinality(Units(f) \cap Units(g))
  BY <1>5, FS_Union
<1>7. Cardinality(Units(f) \cap Units(g)) = 0
  BY <1>4, FS_EmptySet
<1>. QED
  BY <1>3, <1>5, <1>6, <1>7 DEF SumOf

\* A sum lies between the least and the greatest term, as often as there are terms.
LEMMA SumBounds ==
    ASSUME NEW D, IsFiniteSet(D), NEW f \in [D -> Nat], NEW low \in Nat, NEW high \in Nat,
           \A x \in D : low <= f[x] /\ f[x] <= high
    PROVE  low * Cardinality(D) <= SumOf(f) /\ SumOf(f) <= high * Cardinality(D)
<1>1. f \in [D -> Int]
  OBVIOUS
<1>2. \A u : u \in Units(f) <=> \E x \in D : \E v \in 1..f[x] : u = <<x, v>>
  BY <1>1, UnitsAre
<1>3. IsFiniteSet(Units(f)) /\ SumOf(f) \in Nat
  BY <1>1, SumType
<1>4. ASSUME NEW m \in Nat
      PROVE  /\ IsFiniteSet(D \X (1..m))
             /\ Cardinality(D \X (1..m)) = m * Cardinality(D)
  <2>1. IsFiniteSet(1..m) /\ Cardinality(1..m) = m /\ Cardinality(D) \in Nat
    BY Indices, FS_CardinalityType
  <2>2. /\ IsFiniteSet(D \X (1..m))
        /\ Cardinality(D \X (1..m)) = Cardinality(D) * Cardinality(1..m)
    BY <2>1, FS_Product
  <2>. QED
    BY <2>1, <2>2
<1>5. D \X (1..low) \in SUBSET Units(f)
  <2>1. ASSUME NEW x \in D, NEW v \in 1..low PROVE v \in 1..f[x]
    OBVIOUS
  <2>. QED
    BY <1>2, <2>1
<1>6. Units(f) \in SUBSET (D \X (1..high))
  <2>1. ASSUME NEW x \in D, NEW v \in 1..f[x] PROVE v \in 1..high
    OBVIOUS
  <2>. QED
    BY <1>2, <2>1
<1>7. Cardinality(D \X (1..low)) <= SumOf(f)
  BY <1>3, <1>5, FS_Subset DEF SumOf
<1>8. SumOf(f) <= Cardinality(D \X (1..high))
  BY <1>4, <1>6, FS_Subset DEF SumOf
<1>. QED
  BY <1>4, <1>7, <1>8

-----------------------------------------------------------------------------
(* Capacity                                                                *)

\* What a row of a schedule is.
LEMMA RowFields ==
    ASSUME NEW rs \in Seq(Rows)
    PROVE  /\ Len(rs) \in Nat /\ DOMAIN rs = 1..Len(rs)
           /\ \A i \in 1..Len(rs) :
                 /\ rs[i] \in Rows
                 /\ rs[i].device \in Nat /\ rs[i].start \in Nat /\ rs[i].end \in Nat
                 /\ rs[i].watts \in Int
<1>1. \A i \in 1..Len(rs) : rs[i] \in Rows
  OBVIOUS
<1>2. \A r \in Rows : /\ r.device \in Nat /\ r.start \in Nat /\ r.end \in Nat
                      /\ r.watts \in Int
  BY ScheduleAssumption
<1>. QED
  BY <1>1, <1>2

\* The load of an instant is a number.
LEMMA LoadType ==
    ASSUME NEW rs \in Seq(Rows), NEW at \in Nat
    PROVE  LET f == [i \in Active(rs, at) |-> rs[i].watts]
           IN  IsFiniteSet(Units(f)) /\ Load(rs, at) \in Nat
<1>1. IsFiniteSet(Active(rs, at))
  <2>1. IsFiniteSet(1..Len(rs))
    BY RowFields, Indices
  <2>2. Active(rs, at) \in SUBSET (1..Len(rs))
    BY DEF Active
  <2>. QED
    BY <2>1, <2>2, FS_Subset
<1>2. [i \in Active(rs, at) |-> rs[i].watts] \in [Active(rs, at) -> Int]
  BY RowFields DEF Active
<1>. QED
  BY <1>1, <1>2, SumType DEF Load

\* The load never exceeds that of the last start before, which is a point that
\* Capacity looks at.
LEMMA CapacityHolds ==
    ASSUME NEW rs \in Seq(Rows), NEW limit \in Int, Capacity(rs, limit), NEW at \in Nat
    PROVE  Load(rs, at) <= limit
<1>. DEFINE T == {at - rs[i].start : i \in Active(rs, at)}
<1>1. CASE Active(rs, at) = {}
  <2>1. Load(rs, at) = 0
    BY <1>1, SumOfNone DEF Load
  <2>. QED
    BY <2>1 DEF Capacity
<1>2. CASE Active(rs, at) # {}
  <2>1. T \in SUBSET Nat /\ T # {}
    <3>1. ASSUME NEW i \in Active(rs, at) PROVE at - rs[i].start \in Nat
      BY RowFields DEF Active
    <3>. QED
      BY <1>2, <3>1
  <2>2. PICK d \in T : \A e \in T : d <= e
    BY <2>1, LeastMember
  <2>3. PICK p \in Active(rs, at) : d = at - rs[p].start
    OBVIOUS
  <2>. DEFINE q == rs[p].start
  <2>4. p \in 1..Len(rs) /\ q \in Nat /\ q <= at
    BY RowFields DEF Active
  <2>5. Active(rs, at) \subseteq Active(rs, q)
    <3>1. ASSUME NEW i \in Active(rs, at) PROVE i \in Active(rs, q)
      <4>1. i \in 1..Len(rs) /\ rs[i].start \in Nat /\ rs[i].end \in Nat /\ at < rs[i].end
        BY RowFields DEF Active
      <4>2. at - q <= at - rs[i].start
        BY <2>2, <2>3
      <4>3. rs[i].start <= q /\ q < rs[i].end
        BY <2>4, <4>1, <4>2
      <4>. QED
        BY <4>1, <4>3 DEF Active
    <3>. QED
      BY <3>1
  <2>. DEFINE f == [i \in Active(rs, at) |-> rs[i].watts]
              g == [i \in Active(rs, q) |-> rs[i].watts]
  <2>6. Units(f) \in SUBSET Units(g)
    <3>1. \A i \in DOMAIN f : i \in DOMAIN g /\ f[i] = g[i]
      BY <2>5
    <3>. HIDE DEF f, g
    <3>. QED
      BY <3>1 DEF Units
  <2>7. Load(rs, at) <= Load(rs, q)
    <3>1. IsFiniteSet(Units(g))
      BY <2>4, LoadType
    <3>2. Cardinality(Units(f)) <= Cardinality(Units(g))
      BY <2>6, <3>1, FS_Subset
    <3>. QED
      BY <3>2 DEF Load, SumOf
  <2>8. Load(rs, q) <= limit
    BY <2>4 DEF Capacity, Points
  <2>9. Load(rs, at) \in Nat /\ Load(rs, q) \in Nat
    BY <2>4, LoadType
  <2>. QED
    BY <2>7, <2>8, <2>9
<1>. QED
  BY <1>1, <1>2

\* Capacity accepts a valid schedule exactly if no instant is overloaded.
LEMMA CapacityExact ==
    ASSUME rows \in Seq(Rows)
    PROVE  CapacityEverywhere
<1>. SUFFICES ASSUME \A i \in 1..Len(rows) : Valid(rows[i]), NEW limit \in Limits
              PROVE  Capacity(rows, limit) <=>
                        limit >= 0 /\ \A at \in Instants : Load(rows, at) <= limit
  BY DEF CapacityEverywhere
<1>1. limit \in Int
  BY ScheduleAssumption
<1>2. ASSUME NEW at \in Instants PROVE at \in Nat
  BY ScheduleAssumption DEF Instants
<1>3. ASSUME Capacity(rows, limit), NEW at \in Instants PROVE Load(rows, at) <= limit
  BY <1>1, <1>2, <1>3, CapacityHolds
<1>4. Points(rows) \subseteq Instants
  <2>1. ASSUME NEW i \in 1..Len(rows) PROVE rows[i].start \in Instants /\ rows[i].end \in Instants
    <3>1. rows[i] \in Rows /\ rows[i].start \in Nat /\ rows[i].end \in Nat
      BY RowFields
    <3>2. rows[i].start < rows[i].end
      BY DEF Valid
    <3>3. rows[i].start \in 0..rows[i].end /\ rows[i].end \in 0..rows[i].end
      BY <3>1, <3>2
    <3>. QED
      BY <3>1, <3>3 DEF Instants
  <2>. QED
    BY <2>1 DEF Points
<1>. QED
  BY <1>3, <1>4 DEF Capacity

-----------------------------------------------------------------------------
(* Conflicts                                                               *)

\* The keys of a schedule are numbers, one for each row.
LEMMA StartsType ==
    ASSUME NEW rs \in Seq(Rows)
    PROVE  /\ Starts(rs) \in [1..Len(rs) -> Int]
           /\ \A i \in 1..Len(rs) : Starts(rs)[i] = rs[i].start
           /\ 1..Len(rs) \in SUBSET Nat /\ IsFiniteSet(1..Len(rs))
           /\ Cardinality(1..Len(rs)) = Len(rs)
<1>1. \A i \in 1..Len(rs) : rs[i].start \in Int
  BY RowFields
<1>2. Len(rs) \in Nat
  OBVIOUS
<1>. QED
  BY <1>1, <1>2, Indices DEF Starts

\* The sorted copy is an arrangement of the rows in which no row starts before
\* one that precedes it.
LEMMA CopySorted ==
    ASSUME NEW rs \in Seq(Rows)
    PROVE  LET order == StableOrder(Starts(rs))
           IN  /\ order \in [1..Len(rs) -> 1..Len(rs)]
               /\ CopyRows(rs) = [k \in 1..Len(rs) |-> rs[order[k]]]
               /\ CopyRows(rs) \in Seq(Rows) /\ Len(CopyRows(rs)) = Len(rs)
               /\ \A j, k \in 1..Len(rs) : j < k =>
                     /\ Before(Starts(rs), order[j], order[k])
                     /\ CopyRows(rs)[j].start <= CopyRows(rs)[k].start
<1>. DEFINE order == StableOrder(Starts(rs))
            n == Len(rs)
<1>1. order \in [1..n -> 1..n]
  BY StartsType, StableOrderSorts
<1>2. CopyRows(rs) = [k \in 1..n |-> rs[order[k]]]
  BY <1>1 DEF CopyRows, Arrange
<1>3. \A k \in 1..n : rs[order[k]] \in Rows
  BY <1>1, RowFields
<1>4. CopyRows(rs) \in Seq(Rows) /\ Len(CopyRows(rs)) = n
  <2>1. n \in Nat
    OBVIOUS
  <2>. QED
    BY <1>2, <1>3, <2>1
<1>5. ASSUME NEW j \in 1..n, NEW k \in 1..n, j < k
      PROVE  /\ Before(Starts(rs), order[j], order[k])
             /\ CopyRows(rs)[j].start <= CopyRows(rs)[k].start
  <2>1. Before(Starts(rs), order[j], order[k])
    BY <1>5, StartsType, StableOrderSorts
  <2>2. order[j] \in 1..n /\ order[k] \in 1..n
    BY <1>1
  <2>3. rs[order[j]].start <= rs[order[k]].start
    <3>1. rs[order[j]].start \in Nat /\ rs[order[k]].start \in Nat
      BY <2>2, RowFields
    <3>2. /\ Starts(rs)[order[j]] = rs[order[j]].start
          /\ Starts(rs)[order[k]] = rs[order[k]].start
      BY <2>2, StartsType
    <3>. QED
      BY <2>1, <3>1, <3>2 DEF Before
  <2>. QED
    BY <1>2, <2>1, <2>3
<1>. QED
  BY <1>1, <1>2, <1>4, <1>5

\* The break of the inner loop is safe: the loops find every pair of the sorted
\* copy that overlaps.
LEMMA BreakIsSafe ==
    ASSUME NEW rs \in Seq(Rows), NEW i \in 1..Len(rs), NEW j \in 1..Len(rs)
    PROVE  <<i, j>> \in Conflicts(rs)
              <=> i < j /\ Overlap(CopyRows(rs)[i], CopyRows(rs)[j])
<1>. DEFINE s == CopyRows(rs)
            n == Len(rs)
<1>1. s \in Seq(Rows) /\ Len(s) = n
  BY CopySorted
<1>2. \A k \in 1..n : s[k].start \in Nat /\ s[k].end \in Nat
  BY <1>1, RowFields
<1>3. \A a, b \in 1..n : a < b => s[a].start <= s[b].start
  BY CopySorted
<1>4. <<i, j>> \in Conflicts(rs) <=> j \in Reach(s, i) /\ Overlap(s[i], s[j])
  BY <1>1 DEF Conflicts
<1>5. ASSUME i < j, Overlap(s[i], s[j]) PROVE j \in Reach(s, i)
  <2>1. ASSUME NEW k \in i + 1..j PROVE s[k].start <= s[i].end
    <3>1. k \in 1..n /\ k <= j
      OBVIOUS
    <3>2. s[k].start <= s[j].start
      BY <1>2, <1>3, <3>1
    <3>3. s[j].start < s[i].end
      BY <1>5 DEF Overlap
    <3>. QED
      BY <1>2, <3>1, <3>2, <3>3
  <2>2. j \in i + 1..n
    BY <1>5
  <2>. QED
    BY <1>1, <2>1, <2>2 DEF Reach
<1>6. ASSUME j \in Reach(s, i) PROVE i < j
  BY <1>1, <1>6 DEF Reach
<1>. QED
  BY <1>4, <1>5, <1>6

\* Of a pair, the row that comes first in the sorted copy.
Earlier(p) == IF rows[p[1]].start > rows[p[2]].start THEN p[2] ELSE p[1]

\* The pairs that Conflicts finds in the sorted copy are the pairs of rows that
\* overlap, by their places, and the second of each is the later one.
LEMMA PairsCorrespond ==
    ASSUME rows \in Seq(Rows), NEW r \in Rows
    PROVE  ExistsBijection({p \in Overlapping : rows[Later(p)] = r},
                           {c \in Conflicts(rows) : CopyRows(rows)[c[2]] = r})
<1>. DEFINE n == Len(rows)
            keys == Starts(rows)
            order == StableOrder(keys)
            s == CopyRows(rows)
            A == {p \in Overlapping : rows[Later(p)] = r}
            B == {c \in Conflicts(rows) : s[c[2]] = r}
            f == [p \in A |-> <<Place(keys, Earlier(p)), Place(keys, Later(p))>>]
<1>1. /\ n \in Nat
      /\ \A i \in 1..n : /\ keys[i] = rows[i].start /\ rows[i].start \in Nat
                         /\ rows[i].end \in Nat
  BY RowFields, StartsType
<1>2. /\ \A i \in 1..n : Place(keys, i) \in 1..n /\ order[Place(keys, i)] = i
      /\ \A k \in 1..n : order[k] \in 1..n /\ Place(keys, order[k]) = k
  <2>1. /\ keys \in [1..n -> Int] /\ 1..n \in SUBSET Nat /\ IsFiniteSet(1..n)
        /\ Cardinality(1..n) = n
    BY StartsType
  <2>. HIDE DEF n, keys
  <2>2. /\ order \in [1..n -> 1..n] /\ \A k \in 1..n : Place(keys, order[k]) = k
        /\ \A i \in 1..n : Place(keys, i) \in 1..n /\ order[Place(keys, i)] = i
    BY <2>1, StableOrderSorts
  <2>. QED
    BY <2>2
<1>3. \A i, j \in 1..n : Before(keys, i, j) => Place(keys, i) < Place(keys, j)
  BY StartsType, PlacesOrdered
<1>4. \A k \in 1..n : s[k] = rows[order[k]]
  BY CopySorted
<1>5. \A i, j \in 1..n : i < j => Before(keys, order[i], order[j])
  BY CopySorted
<1>6. \A i, j \in 1..n : Overlap(rows[i], rows[j]) <=> Overlap(rows[j], rows[i])
  BY DEF Overlap
<1>7. ASSUME NEW p \in Overlapping
      PROVE  /\ p = <<p[1], p[2]>> /\ p[1] \in 1..n /\ p[2] \in 1..n /\ p[1] < p[2]
             /\ Earlier(p) \in 1..n /\ Later(p) \in 1..n
             /\ \/ Earlier(p) = p[1] /\ Later(p) = p[2]
                \/ Earlier(p) = p[2] /\ Later(p) = p[1]
             /\ Overlap(rows[Earlier(p)], rows[Later(p)])
             /\ Before(keys, Earlier(p), Later(p))
  <2>1. /\ p = <<p[1], p[2]>> /\ p[1] \in 1..n /\ p[2] \in 1..n /\ p[1] < p[2]
        /\ Overlap(rows[p[1]], rows[p[2]])
    BY DEF Overlapping
  <2>2. CASE rows[p[1]].start > rows[p[2]].start
    <3>1. Earlier(p) = p[2] /\ Later(p) = p[1]
      BY <2>2 DEF Earlier, Later
    <3>2. Before(keys, p[2], p[1])
      BY <1>1, <2>1, <2>2 DEF Before
    <3>. QED
      BY <1>6, <2>1, <3>1, <3>2
  <2>3. CASE ~(rows[p[1]].start > rows[p[2]].start)
    <3>1. Earlier(p) = p[1] /\ Later(p) = p[2]
      BY <2>3 DEF Earlier, Later
    <3>2. Before(keys, p[1], p[2])
      BY <1>1, <2>1, <2>3 DEF Before
    <3>. QED
      BY <2>1, <3>1, <3>2
  <2>. QED
    BY <2>2, <2>3
<1>8. f \in [A -> B]
  <2>1. ASSUME NEW p \in A PROVE f[p] \in B
    <3>. DEFINE a == Earlier(p)
                b == Later(p)
    <3>1. /\ a \in 1..n /\ b \in 1..n /\ Overlap(rows[a], rows[b]) /\ Before(keys, a, b)
          /\ rows[b] = r
      BY <1>7
    <3>2. /\ Place(keys, a) \in 1..n /\ Place(keys, b) \in 1..n
          /\ Place(keys, a) < Place(keys, b)
      BY <1>2, <1>3, <3>1
    <3>3. s[Place(keys, a)] = rows[a] /\ s[Place(keys, b)] = rows[b]
      BY <1>2, <1>4, <3>1, <3>2
    <3>4. <<Place(keys, a), Place(keys, b)>> \in Conflicts(rows)
      BY <3>1, <3>2, <3>3, BreakIsSafe
    <3>. QED
      BY <3>1, <3>3, <3>4
  <2>. QED
    BY <2>1
<1>9. ASSUME NEW p \in A, NEW q \in A, f[p] = f[q] PROVE p = q
  <2>1. Earlier(p) \in 1..n /\ Later(p) \in 1..n /\ Earlier(q) \in 1..n /\ Later(q) \in 1..n
    BY <1>7
  <2>2. /\ Place(keys, Earlier(p)) = Place(keys, Earlier(q))
        /\ Place(keys, Later(p)) = Place(keys, Later(q))
    BY <1>9
  <2>3. Earlier(p) = Earlier(q) /\ Later(p) = Later(q)
    BY <1>2, <2>1, <2>2
  <2>4. /\ (p[1] = q[1] /\ p[2] = q[2]) \/ (p[1] = q[2] /\ p[2] = q[1])
        /\ p[1] < p[2] /\ q[1] < q[2]
    BY <1>7, <2>3
  <2>5. p[1] = q[1] /\ p[2] = q[2]
    <3>1. p[1] \in Int /\ p[2] \in Int /\ q[1] \in Int /\ q[2] \in Int
      BY <1>7
    <3>. QED
      BY <2>4, <3>1
  <2>. QED
    BY <1>7, <2>5
<1>10. ASSUME NEW c \in B PROVE \E p \in A : f[p] = c
  <2>1. PICK i \in 1..n, j \in 1..n : c = <<i, j>>
    BY CopySorted DEF Conflicts
  <2>2. i < j /\ Overlap(s[i], s[j]) /\ s[j] = r
    BY <2>1, BreakIsSafe
  <2>. DEFINE a == order[i]
              b == order[j]
              p == IF a < b THEN <<a, b>> ELSE <<b, a>>
  <2>3. /\ a \in 1..n /\ b \in 1..n /\ Before(keys, a, b) /\ Overlap(rows[a], rows[b])
        /\ rows[b] = r /\ Place(keys, a) = i /\ Place(keys, b) = j
    BY <1>2, <1>4, <1>5, <2>2
  <2>4. rows[a].start < rows[b].start \/ (rows[a].start = rows[b].start /\ a < b)
    BY <1>1, <2>3 DEF Before
  <2>. HIDE DEF a, b
  <2>5. p \in Overlapping /\ Earlier(p) = a /\ Later(p) = b
    <3>1. CASE a < b
      <4>1. p = <<a, b>>
        BY <3>1
      <4>2. ~(rows[a].start > rows[b].start)
        BY <1>1, <2>3, <2>4
      <4>. QED
        BY <2>3, <3>1, <4>1, <4>2 DEF Overlapping, Earlier, Later
    <3>2. CASE ~(a < b)
      <4>1. p = <<b, a>> /\ rows[a].start < rows[b].start /\ b < a
        <5>1. rows[a].start < rows[b].start
          BY <2>4, <3>2
        <5>2. a # b
          BY <1>1, <2>3, <5>1
        <5>. QED
          BY <2>3, <3>2, <5>1, <5>2
      <4>2. rows[b].start > rows[a].start
        BY <1>1, <2>3, <4>1
      <4>3. Overlap(rows[b], rows[a])
        BY <1>6, <2>3
      <4>. QED
        BY <2>3, <4>1, <4>2, <4>3 DEF Overlapping, Earlier, Later
    <3>. QED
      BY <3>1, <3>2
  <2>. HIDE DEF p
  <2>6. p \in A
    BY <2>3, <2>5
  <2>7. f[p] = c
    BY <2>1, <2>3, <2>5, <2>6
  <2>. QED
    BY <2>6, <2>7
<1>11. f \in Bijection(A, B)
  BY <1>8, <1>9, <1>10 DEF Bijection, Injection, IsInjective, Surjection
<1>. QED
  BY <1>11 DEF ExistsBijection

\* Conflicts reports exactly the conflicts.
LEMMA ConflictsExact ==
    ASSUME rows \in Seq(Rows)
    PROVE  ConflictsComplete
<1>. SUFFICES ASSUME NEW r \in Rows
              PROVE  Cardinality({c \in Conflicts(rows) : CopyRows(rows)[c[2]] = r})
                        = Cardinality({p \in Overlapping : rows[Later(p)] = r})
  BY DEF ConflictsComplete
<1>. DEFINE A == {p \in Overlapping : rows[Later(p)] = r}
<1>1. IsFiniteSet(1..Len(rows))
  BY RowFields, Indices
<1>2. IsFiniteSet((1..Len(rows)) \X (1..Len(rows)))
  BY <1>1, FS_Product
<1>3. A \in SUBSET ((1..Len(rows)) \X (1..Len(rows)))
  BY DEF Overlapping
<1>4. IsFiniteSet(A)
  BY <1>2, <1>3, FS_Subset
<1>. QED
  BY <1>4, PairsCorrespond, FS_Bijection

-----------------------------------------------------------------------------
(* MergeWindows                                                            *)

Windows == [device : Nat, start : Nat, end : Nat, watts : Int]

\* One of the first m windows contains the instant.
Hit(ws, m, at) == \E i \in 1..m : InWindow(ws[i], at)

\* Windows that are not empty, in order, with gaps between them.
Proper(ws) ==
    /\ \A i \in 1..Len(ws) : ws[i].start # 0 /\ ws[i].start < ws[i].end
    /\ \A i, j \in 1..Len(ws) : i < j => ws[i].end < ws[j].start

\* The sorted copy covers what the rows cover.
CopyOK ==
    /\ \A k \in 1..Len(ordered) : ValidWindow(ordered[k], MaxSpan)
    /\ \A j, k \in 1..Len(ordered) : j < k => ordered[j].start <= ordered[k].start
    /\ \A at \in Instants : Hit(ordered, Len(ordered), at) <=> Covered(at)

\* The result so far is the merge of what the loop has gone through.
LoopOK ==
    /\ Proper(merged)
    /\ \A i \in 1..Len(merged) : merged[i].start \in Instants /\ merged[i].end \in Instants
    /\ \A i \in 1..Len(merged), k \in taken + 1..Len(ordered) :
          merged[i].start <= ordered[k].start
    /\ \A at \in Instants : Hit(merged, Len(merged), at) <=> Hit(ordered, taken, at)

\* Where MergeWindows is, and what its copy and its result are there.
MergeInv ==
    /\ ScheduleTypeOK
    /\ phase \in {"input", "refused"} => ordered = <<>> /\ taken = 0 /\ merged = <<>>
    /\ phase \in {"merging", "returned"} => CopyOK /\ LoopOK
    /\ phase = "returned" => taken = Len(ordered)

\* What a window is.
LEMMA WindowFields ==
    ASSUME NEW ws \in Seq(Windows)
    PROVE  /\ Len(ws) \in Nat /\ DOMAIN ws = 1..Len(ws)
           /\ \A i \in 1..Len(ws) :
                 ws[i] \in Windows /\ ws[i].start \in Nat /\ ws[i].end \in Nat
<1>1. \A i \in 1..Len(ws) : ws[i] \in Windows
  OBVIOUS
<1>2. \A w \in Windows : w.start \in Nat /\ w.end \in Nat
  BY DEF Windows
<1>. QED
  BY <1>1, <1>2

\* A round that extends the last window.
LEMMA ExtendsLast ==
    ASSUME NEW ws \in Seq(Windows), Proper(ws), NEW w \in Windows,
           w.start # 0, w.start < w.end,
           Len(ws) > 0, w.start <= ws[Len(ws)].end, ws[Len(ws)].start <= w.start
    PROVE  LET new == MergeInto(ws, w)
           IN  /\ new \in Seq(Windows) /\ Len(new) = Len(ws) /\ Proper(new)
               /\ \A i \in 1..Len(ws) : /\ new[i].start = ws[i].start
                                        /\ new[i].end \in {ws[i].end, w.end}
               /\ \A at \in Nat : Hit(new, Len(new), at)
                                    <=> Hit(ws, Len(ws), at) \/ InWindow(w, at)
<1>. DEFINE n == Len(ws)
            e == IF w.end > ws[n].end THEN w.end ELSE ws[n].end
            new == MergeInto(ws, w)
<1>1. /\ n \in Nat /\ n \in 1..n /\ DOMAIN ws = 1..n
      /\ \A i \in 1..n : ws[i] \in Windows /\ ws[i].start \in Nat /\ ws[i].end \in Nat
      /\ w.start \in Nat /\ w.end \in Nat
  <2>1. w.start \in Nat /\ w.end \in Nat
    BY DEF Windows
  <2>. QED
    BY <2>1, WindowFields
<1>2. e \in Nat /\ e >= w.end /\ e >= ws[n].end /\ e \in {ws[n].end, w.end}
  BY <1>1
<1>. HIDE DEF e
<1>3. new = [ws EXCEPT ![n] = [ws[n] EXCEPT !.end = e]]
  BY DEF MergeInto, e
<1>4. [ws[n] EXCEPT !.end = e] \in Windows
  BY <1>1, <1>2 DEF Windows
<1>5. new \in Seq(Windows) /\ Len(new) = n
  BY <1>1, <1>3, <1>4
<1>6. /\ \A i \in 1..n : i # n => new[i] = ws[i]
      /\ new[n] = [ws[n] EXCEPT !.end = e]
  BY <1>1, <1>3
<1>7. new[n].start = ws[n].start /\ new[n].end = e
  BY <1>1, <1>6 DEF Windows
<1>. HIDE DEF new
<1>8. Proper(new)
  <2>1. ASSUME NEW i \in 1..n PROVE new[i].start # 0 /\ new[i].start < new[i].end
    <3>1. ws[i].start # 0 /\ ws[i].start < ws[i].end
      BY DEF Proper
    <3>2. CASE i = n
      <4>1. ws[n].end \in Nat /\ ws[n].start \in Nat
        BY <1>1
      <4>2. ws[n].start < e
        BY <1>2, <3>1, <3>2, <4>1
      <4>. QED
        BY <1>7, <3>1, <3>2, <4>2
    <3>3. CASE i # n
      BY <1>6, <3>1, <3>3
    <3>. QED
      BY <3>2, <3>3
  <2>2. ASSUME NEW i \in 1..n, NEW j \in 1..n, i < j PROVE new[i].end < new[j].start
    <3>1. ws[i].end < ws[j].start
      BY <2>2 DEF Proper
    <3>2. i # n
      <4>1. n \in Nat
        BY <1>1
      <4>. QED
        BY <2>2, <4>1
    <3>. QED
      BY <1>6, <1>7, <3>1, <3>2
  <2>. QED
    BY <1>5, <2>1, <2>2 DEF Proper
<1>9. ASSUME NEW at \in Nat
      PROVE  Hit(new, n, at) <=> Hit(ws, n, at) \/ InWindow(w, at)
  <2>1. InWindow(new[n], at) <=> InWindow(ws[n], at) \/ InWindow(w, at)
    <3>1. ws[n].start # 0 /\ ws[n].start < ws[n].end
      BY <1>1 DEF Proper
    <3>2. e = w.end \/ e = ws[n].end
      BY <1>2
    <3>. QED
      BY <1>1, <1>2, <1>7, <3>1, <3>2 DEF InWindow
  <2>2. \A i \in 1..n : i # n => (InWindow(new[i], at) <=> InWindow(ws[i], at))
    BY <1>6
  <2>. QED
    BY <1>1, <2>1, <2>2 DEF Hit
<1>10. \A i \in 1..n : new[i].start = ws[i].start /\ new[i].end \in {ws[i].end, w.end}
  BY <1>2, <1>6, <1>7
<1>. QED
  BY <1>5, <1>8, <1>9, <1>10 DEF new

\* A round that starts a new window.
LEMMA StartsNew ==
    ASSUME NEW ws \in Seq(Windows), Proper(ws), NEW w \in Windows,
           w.start # 0, w.start < w.end,
           Len(ws) > 0 => ws[Len(ws)].end < w.start
    PROVE  LET new == MergeInto(ws, w)
           IN  /\ new \in Seq(Windows) /\ Len(new) = Len(ws) + 1 /\ Proper(new)
               /\ \A i \in 1..Len(ws) : new[i] = ws[i]
               /\ new[Len(ws) + 1] = w
               /\ \A at \in Nat : Hit(new, Len(new), at)
                                    <=> Hit(ws, Len(ws), at) \/ InWindow(w, at)
<1>. DEFINE n == Len(ws)
            new == MergeInto(ws, w)
<1>1. /\ n \in Nat
      /\ \A i \in 1..n : ws[i] \in Windows /\ ws[i].start \in Nat /\ ws[i].end \in Nat
      /\ w.start \in Nat /\ w.end \in Nat
  <2>1. w.start \in Nat /\ w.end \in Nat
    BY DEF Windows
  <2>. QED
    BY <2>1, WindowFields
<1>2. new = Append(ws, w)
  <2>1. ~(n > 0 /\ w.start <= ws[n].end)
    BY <1>1
  <2>. QED
    BY <2>1 DEF MergeInto
<1>3. /\ new \in Seq(Windows) /\ Len(new) = n + 1
      /\ \A i \in 1..n : new[i] = ws[i]
      /\ new[n + 1] = w
  BY <1>2
<1>. HIDE DEF new
<1>4. Proper(new)
  <2>1. ASSUME NEW i \in 1..n + 1 PROVE new[i].start # 0 /\ new[i].start < new[i].end
    <3>1. CASE i \in 1..n
      BY <1>3, <3>1 DEF Proper
    <3>2. CASE i = n + 1
      BY <1>3, <3>2
    <3>. QED
      BY <1>1, <3>1, <3>2
  <2>2. ASSUME NEW i \in 1..n + 1, NEW j \in 1..n + 1, i < j PROVE new[i].end < new[j].start
    <3>0. i \in 1..n
      BY <1>1, <2>2
    <3>1. CASE j \in 1..n
      BY <1>3, <2>2, <3>0, <3>1 DEF Proper
    <3>2. CASE j = n + 1
      <4>1. n \in 1..n /\ ws[n].end < w.start /\ ws[n].start < ws[n].end
        BY <1>1, <3>0 DEF Proper
      <4>2. ws[i].end <= ws[n].end
        <5>1. i # n => ws[i].end < ws[n].start
          BY <3>0, <4>1 DEF Proper
        <5>. QED
          BY <1>1, <3>0, <4>1, <5>1
      <4>3. ws[i].end < w.start
        BY <1>1, <3>0, <4>1, <4>2
      <4>. QED
        BY <1>3, <3>0, <3>2, <4>3
    <3>. QED
      BY <1>1, <3>1, <3>2
  <2>. QED
    BY <1>3, <2>1, <2>2 DEF Proper
<1>5. ASSUME NEW at \in Nat
      PROVE  Hit(new, n + 1, at) <=> Hit(ws, n, at) \/ InWindow(w, at)
  <2>1. \A i \in 1..n + 1 : i \in 1..n \/ i = n + 1
    BY <1>1
  <2>2. 1..n \subseteq 1..n + 1 /\ n + 1 \in 1..n + 1
    BY <1>1
  <2>. QED
    BY <1>3, <2>1, <2>2 DEF Hit
<1>. QED
  BY <1>3, <1>4, <1>5 DEF new
\* Instants are the numbers up to the last end.
LEMMA InstantsUpToEnds ==
    /\ Instants \subseteq Nat
    /\ \A a \in Instants, b \in Nat : b <= a => b \in Instants
    /\ \A r \in Rows : /\ r \in Windows /\ r.start \in Nat /\ r.end \in Nat
                       /\ r.end \in Instants
                       /\ r.start < r.end => r.start \in Instants
<1>1. \A r \in Rows : r \in Windows /\ r.start \in Nat /\ r.end \in Nat
  BY ScheduleAssumption DEF Windows
<1>2. Instants \subseteq Nat
  BY <1>1 DEF Instants
<1>3. ASSUME NEW a \in Instants, NEW b \in Nat, b <= a PROVE b \in Instants
  <2>1. CASE a = 0
    BY <1>3, <2>1 DEF Instants
  <2>2. CASE \E r \in Rows : a \in 0..r.end
    <3>1. PICK r \in Rows : a \in 0..r.end
      BY <2>2
    <3>2. b \in 0..r.end
      BY <1>1, <1>3, <3>1
    <3>. QED
      BY <3>1, <3>2 DEF Instants
  <2>. QED
    BY <2>1, <2>2 DEF Instants
<1>4. ASSUME NEW r \in Rows PROVE r.end \in Instants
  <2>1. r.end \in 0..r.end
    BY <1>1
  <2>. QED
    BY <2>1 DEF Instants
<1>5. ASSUME NEW r \in Rows, r.start < r.end PROVE r.start \in Instants
  <2>1. r.start \in 0..r.end
    BY <1>1, <1>5
  <2>. QED
    BY <2>1 DEF Instants
<1>. QED
  BY <1>1, <1>2, <1>3, <1>4, <1>5

\* A round of the loop keeps the result the merge of what was gone through.
LEMMA RoundMerges ==
    ASSUME MergeInv, MergeRound
    PROVE  LoopOK' /\ merged' \in Seq(Windows)
<1>. DEFINE n == Len(merged)
            t == taken + 1
            w == ordered[t]
            new == MergeInto(merged, w)
<1>1. /\ merged' = new /\ taken' = t /\ ordered' = ordered
      /\ merged \in Seq(Windows) /\ ordered \in Seq(Rows) /\ taken \in Nat
      /\ t \in 1..Len(ordered) /\ CopyOK /\ LoopOK
  BY DEF MergeInv, MergeRound, ScheduleTypeOK, Windows
<1>2. w \in Rows
  BY <1>1
<1>3. /\ w \in Windows /\ w.start \in Nat /\ w.end \in Nat /\ w.start # 0 /\ w.start < w.end
      /\ w.start \in Instants /\ w.end \in Instants
  <2>1. w.start # 0 /\ w.start < w.end
    BY <1>1 DEF CopyOK, ValidWindow
  <2>. QED
    BY <1>2, <2>1, InstantsUpToEnds
<1>4. Proper(merged) /\ n \in Nat /\ \A i \in 1..n : merged[i].start \in Nat /\ merged[i].end \in Nat
  BY <1>1, WindowFields DEF LoopOK
<1>5. ASSUME NEW i \in 1..n
      PROVE  /\ merged[i].start \in Instants /\ merged[i].end \in Instants
             /\ merged[i].start <= w.start
  <2>1. t \in taken + 1..Len(ordered)
    BY <1>1
  <2>. QED
    BY <1>1, <2>1 DEF LoopOK
<1>. HIDE DEF w, t
<1>6. /\ new \in Seq(Windows) /\ Proper(new)
      /\ \A i \in 1..Len(new) : /\ new[i].start \in Instants /\ new[i].end \in Instants
                                /\ new[i].start <= w.start
      /\ \A at \in Nat : Hit(new, Len(new), at) <=> Hit(merged, n, at) \/ InWindow(w, at)
  <2>1. CASE n > 0 /\ w.start <= merged[n].end
    <3>1. n \in 1..n /\ merged[n].start <= w.start
      BY <1>4, <1>5, <2>1
    <3>2. /\ new \in Seq(Windows) /\ Proper(new) /\ Len(new) = n
          /\ \A i \in 1..n : /\ new[i].start = merged[i].start
                             /\ new[i].end \in {merged[i].end, w.end}
          /\ \A at \in Nat : Hit(new, Len(new), at) <=> Hit(merged, n, at) \/ InWindow(w, at)
      BY <1>1, <1>3, <1>4, <2>1, <3>1, ExtendsLast
    <3>. QED
      BY <1>3, <1>5, <3>2
  <2>2. CASE ~(n > 0 /\ w.start <= merged[n].end)
    <3>1. n > 0 => merged[n].end < w.start
      BY <1>3, <1>4, <2>2
    <3>2. /\ new \in Seq(Windows) /\ Proper(new) /\ Len(new) = n + 1
          /\ \A i \in 1..n : new[i] = merged[i]
          /\ new[n + 1] = w
          /\ \A at \in Nat : Hit(new, Len(new), at) <=> Hit(merged, n, at) \/ InWindow(w, at)
      BY <1>1, <1>3, <1>4, <3>1, StartsNew
    <3>3. \A i \in 1..n + 1 : i \in 1..n \/ i = n + 1
      BY <1>4
    <3>. QED
      BY <1>3, <1>5, <3>2, <3>3
  <2>. QED
    BY <2>1, <2>2
<1>. HIDE DEF new
<1>7. ASSUME NEW i \in 1..Len(new), NEW k \in t + 1..Len(ordered)
      PROVE  new[i].start <= ordered[k].start
  <2>1. t < k /\ k \in 1..Len(ordered)
    BY <1>1
  <2>2. w.start <= ordered[k].start
    BY <1>1, <2>1 DEF CopyOK, w
  <2>3. ordered[k].start \in Nat /\ new[i].start \in Nat
    BY <1>1, <1>6, <2>1, RowFields, WindowFields
  <2>. QED
    BY <1>3, <1>6, <2>2, <2>3
<1>8. ASSUME NEW at \in Instants
      PROVE  Hit(new, Len(new), at) <=> Hit(ordered, t, at)
  <2>1. at \in Nat
    BY InstantsUpToEnds
  <2>2. Hit(ordered, t, at) <=> Hit(ordered, taken, at) \/ InWindow(w, at)
    <3>1. \A i \in 1..t : i \in 1..taken \/ i = t
      BY <1>1 DEF t
    <3>2. 1..taken \subseteq 1..t /\ t \in 1..t
      BY <1>1 DEF t
    <3>. QED
      BY <3>1, <3>2 DEF Hit, w
  <2>. QED
    BY <1>1, <1>6, <2>1, <2>2 DEF LoopOK
<1>. QED
  BY <1>1, <1>6, <1>7, <1>8 DEF LoopOK
\* An outcome of the unstable sort has every row, and rows in the order of their
\* starts.
LEMMA OrdersArrange ==
    ASSUME NEW rs \in Seq(Rows), NEW order \in Orders(Starts(rs))
    PROVE  /\ order \in [1..Len(rs) -> 1..Len(rs)]
           /\ \A i \in 1..Len(rs) : \E k \in 1..Len(rs) : order[k] = i
           /\ Arrange(rs, order) \in Seq(Rows) /\ Len(Arrange(rs, order)) = Len(rs)
           /\ \A k \in 1..Len(rs) : Arrange(rs, order)[k] = rs[order[k]]
           /\ \A j, k \in 1..Len(rs) :
                 j < k => Arrange(rs, order)[j].start <= Arrange(rs, order)[k].start
<1>. DEFINE n == Len(rs)
            I == 1..n
            keys == Starts(rs)
<1>1. n \in Nat /\ I \in SUBSET Nat /\ keys \in [I -> Int]
  BY StartsType, RowFields
<1>2. IsFiniteSet(I) /\ Cardinality(I) = n
  BY <1>1, Indices
<1>3. order \in Orders(keys)
  OBVIOUS
<1>. HIDE DEF keys, I
<1>4. /\ order \in [1..Cardinality(I) -> I]
      /\ \A j, k \in 1..Cardinality(I) : j < k => keys[order[j]] <= keys[order[k]]
      /\ \A i \in I : \E k \in 1..Cardinality(I) : order[k] = i
  BY <1>1, <1>2, <1>3, OrdersSort
<1>9. /\ order \in [1..n -> 1..n]
      /\ \A j, k \in 1..n : j < k => Starts(rs)[order[j]] <= Starts(rs)[order[k]]
      /\ \A i \in 1..n : \E k \in 1..n : order[k] = i
  BY <1>2, <1>4 DEF I, keys
<1>5. Arrange(rs, order) = [k \in 1..n |-> rs[order[k]]]
  BY <1>9 DEF Arrange
<1>6. \A k \in 1..n : rs[order[k]] \in Rows
  BY <1>9, RowFields
<1>7. Arrange(rs, order) \in Seq(Rows) /\ Len(Arrange(rs, order)) = n
  <2>1. n \in Nat
    BY <1>1
  <2>. HIDE DEF n
  <2>. QED
    BY <2>1, <1>5, <1>6
<1>8. \A j, k \in 1..n : j < k => rs[order[j]].start <= rs[order[k]].start
  <2>1. \A i \in 1..n : Starts(rs)[i] = rs[i].start
    BY StartsType
  <2>2. \A j \in 1..n : order[j] \in 1..n
    BY <1>9
  <2>. HIDE DEF n
  <2>. QED
    BY <1>9, <2>1, <2>2
<1>. QED
  BY <1>9, <1>5, <1>7, <1>8

\* MergeWindows sorts windows that have passed Validate, and its copy covers what
\* they cover.
LEMMA CopyCovers ==
    ASSUME MergeInv, MergeWindows, phase' = "merging"
    PROVE  ordered' \in Seq(Rows) /\ CopyOK'
<1>1. PICK order \in Orders(Starts(rows)) : ordered' = Arrange(rows, order)
  BY DEF MergeWindows
<1>2. rows \in Seq(Rows) /\ rows' = rows /\ Mergeable(rows)
  BY DEF MergeInv, ScheduleTypeOK, MergeWindows
<1>. DEFINE n == Len(rows)
            s == Arrange(rows, order)
<1>3. /\ order \in [1..n -> 1..n]
      /\ \A i \in 1..n : \E k \in 1..n : order[k] = i
      /\ s \in Seq(Rows) /\ Len(s) = n
      /\ \A k \in 1..n : s[k] = rows[order[k]]
      /\ \A j, k \in 1..n : j < k => s[j].start <= s[k].start
  BY <1>2, OrdersArrange
<1>. HIDE DEF s
<1>4. \A k \in 1..n : ValidWindow(s[k], MaxSpan)
  BY <1>2, <1>3 DEF Mergeable
<1>5. ASSUME NEW at \in Instants PROVE Hit(s, n, at) <=> Covered(at)
  <2>1. ASSUME NEW k \in 1..n, InWindow(s[k], at) PROVE Covered(at)
    BY <1>3, <2>1 DEF Covered
  <2>2. ASSUME NEW i \in 1..n, InWindow(rows[i], at) PROVE Hit(s, n, at)
    BY <1>3, <2>2 DEF Hit
  <2>. QED
    BY <2>1, <2>2 DEF Hit, Covered
<1>6. ordered' = s
  BY <1>1 DEF s
<1>7. \A at \in Instants : Covered(at)' <=> Covered(at)
  BY <1>2 DEF Covered
<1>8. Instants' = Instants
  BY DEF Instants
<1>. QED
  BY <1>3, <1>4, <1>5, <1>6, <1>7 DEF CopyOK

\* The inductive invariant of MergeWindows.
LEMMA MergeInvStep ==
    ASSUME MergeInv, [ScheduleNext]_scheduleVars
    PROVE  MergeInv'
<1>1. CASE AddRow
  <2>1. rows' \in Seq(Rows)
    BY <1>1 DEF MergeInv, ScheduleTypeOK, AddRow
  <2>. QED
    BY <1>1, <2>1 DEF MergeInv, ScheduleTypeOK, AddRow
<1>2. CASE MergeWindows
  <2>1. /\ phase = "input" /\ rows' = rows /\ taken' = 0 /\ merged' = <<>>
        /\ ordered = <<>> /\ rows \in Seq(Rows)
    BY <1>2 DEF MergeInv, ScheduleTypeOK, MergeWindows
  <2>2. CASE phase' = "refused"
    <3>1. ordered' = ordered
      BY <1>2, <2>2 DEF MergeWindows
    <3>. QED
      BY <2>1, <2>2, <3>1 DEF MergeInv, ScheduleTypeOK
  <2>3. CASE phase' = "merging"
    <3>1. ordered' \in Seq(Rows) /\ CopyOK'
      BY <1>2, <2>3, CopyCovers
    <3>2. Len(merged') = 0 /\ 1..0 = {}
      BY <2>1
    <3>3. LoopOK'
      BY <2>1, <3>2 DEF LoopOK, Proper, Hit
    <3>4. ScheduleTypeOK'
      BY <2>1, <2>3, <3>1 DEF ScheduleTypeOK
    <3>. QED
      BY <2>3, <3>1, <3>3, <3>4 DEF MergeInv
  <2>. QED
    BY <1>2, <2>2, <2>3 DEF MergeWindows
<1>3. CASE MergeRound
  <2>1. LoopOK' /\ merged' \in Seq(Windows)
    BY <1>3, RoundMerges
  <2>2. /\ phase = "merging" /\ phase' = phase /\ rows' = rows /\ ordered' = ordered
        /\ taken' \in 0..Len(ordered) /\ CopyOK
    BY <1>3 DEF MergeInv, ScheduleTypeOK, MergeRound
  <2>3. CopyOK'
    BY <2>2 DEF CopyOK, Covered, Instants
  <2>4. ScheduleTypeOK'
    BY <2>1, <2>2 DEF MergeInv, ScheduleTypeOK, Windows
  <2>. QED
    BY <2>1, <2>2, <2>3, <2>4 DEF MergeInv
<1>4. CASE MergeReturns
  <2>1. /\ phase = "merging" /\ phase' = "returned" /\ taken' = Len(ordered')
        /\ UNCHANGED <<rows, ordered, taken, merged>> /\ CopyOK /\ LoopOK
    BY <1>4 DEF MergeInv, MergeReturns
  <2>2. CopyOK' /\ LoopOK'
    BY <2>1 DEF CopyOK, LoopOK, Covered, Instants
  <2>3. ScheduleTypeOK'
    BY <2>1 DEF MergeInv, ScheduleTypeOK
  <2>. QED
    BY <2>1, <2>2, <2>3 DEF MergeInv
<1>5. CASE UNCHANGED scheduleVars
  BY <1>5 DEF MergeInv, ScheduleTypeOK, CopyOK, LoopOK, Covered, Instants, scheduleVars
<1>. QED
  BY <1>1, <1>2, <1>3, <1>4, <1>5 DEF ScheduleNext

\* In windows with gaps between them no window begins or ends inside or at the
\* border of another.
LEMMA BordersFree ==
    ASSUME NEW ws \in Seq(Windows), Proper(ws), NEW i \in 1..Len(ws)
    PROVE  ~Hit(ws, Len(ws), ws[i].start - 1) /\ ~Hit(ws, Len(ws), ws[i].end)
<1>1. \A j \in 1..Len(ws) : ws[j].start \in Nat /\ ws[j].end \in Nat
  BY WindowFields
<1>2. ASSUME NEW j \in 1..Len(ws)
      PROVE  ~InWindow(ws[j], ws[i].start - 1) /\ ~InWindow(ws[j], ws[i].end)
  <2>1. /\ ws[i].start < ws[i].end /\ ws[j].start < ws[j].end
        /\ i < j => ws[i].end < ws[j].start
        /\ j < i => ws[j].end < ws[i].start
    BY DEF Proper
  <2>2. ws[j].start \in Int /\ ws[j].end \in Int /\ ws[i].start \in Int /\ ws[i].end \in Int
    BY <1>1
  <2>3. i < j \/ j < i \/ i = j
    OBVIOUS
  <2>. QED
    BY <2>1, <2>2, <2>3 DEF InWindow
<1>. QED
  BY <1>2 DEF Hit

\* Windows that cover what the rows cover, with gaps between them, are the runs.
LEMMA ProperIsRuns ==
    ASSUME rows \in Seq(Rows), NEW ws \in Seq(Windows), Proper(ws),
           \A i \in 1..Len(ws) : ws[i].start \in Instants /\ ws[i].end \in Instants,
           \A at \in Instants : Hit(ws, Len(ws), at) <=> Covered(at)
    PROVE  {<<ws[i].start, ws[i].end>> : i \in 1..Len(ws)} = Runs
<1>. DEFINE n == Len(ws)
<1>1. /\ Instants \subseteq Nat
      /\ \A a \in Instants, b \in Nat : b <= a => b \in Instants
  BY InstantsUpToEnds
<1>2. ~Covered(-1) /\ ~Covered(0 - 1)
  BY RowFields DEF Covered, InWindow
<1>3. ASSUME NEW i \in 1..n
      PROVE  /\ ws[i].start \in Nat /\ ws[i].end \in Nat /\ ws[i].start # 0
             /\ ws[i].start < ws[i].end
             /\ ws[i].start \in Instants /\ ws[i].end \in Instants
             /\ ~Hit(ws, n, ws[i].start - 1) /\ ~Hit(ws, n, ws[i].end)
  BY WindowFields, BordersFree DEF Proper
<1>4. ASSUME NEW i \in 1..n PROVE <<ws[i].start, ws[i].end>> \in Runs
  <2>. DEFINE a == ws[i].start
              b == ws[i].end
  <2>1. /\ a \in Nat /\ b \in Nat /\ a # 0 /\ a < b /\ a \in Instants /\ b \in Instants
        /\ ~Hit(ws, n, a - 1) /\ ~Hit(ws, n, b)
    BY <1>3
  <2>2. ASSUME NEW at \in a..b - 1 PROVE Covered(at)
    <3>1. at \in Nat /\ a <= at /\ at < b
      BY <2>1
    <3>2. at \in Instants
      BY <1>1, <2>1, <3>1
    <3>3. InWindow(ws[i], at)
      BY <2>1, <3>1 DEF InWindow
    <3>4. Hit(ws, n, at)
      BY <3>3 DEF Hit
    <3>. QED
      BY <3>2, <3>4
  <2>3. ~Covered(b)
    BY <2>1
  <2>4. ~Covered(a - 1)
    <3>1. a - 1 \in Instants
      BY <1>1, <2>1
    <3>. QED
      BY <2>1, <3>1
  <2>. HIDE DEF a, b
  <2>5. <<a, b>> \in Runs
    BY <2>1, <2>2, <2>3, <2>4 DEF Runs
  <2>. QED
    BY <2>5 DEF a, b
<1>5. ASSUME NEW r \in Runs PROVE \E i \in 1..n : r = <<ws[i].start, ws[i].end>>
  <2>. DEFINE a == r[1]
              b == r[2]
  <2>1. /\ r = <<a, b>> /\ a \in Instants /\ b \in Instants /\ a < b
        /\ \A at \in a..b - 1 : Covered(at)
        /\ ~Covered(a - 1) /\ ~Covered(b)
    BY DEF Runs
  <2>. HIDE DEF a, b
  <2>2. a \in Nat /\ b \in Nat
    BY <1>1, <2>1
  <2>3. PICK i \in 1..n : InWindow(ws[i], a)
    <3>1. a \in a..b - 1
      BY <2>1, <2>2
    <3>2. Hit(ws, n, a)
      BY <2>1, <3>1
    <3>. QED
      BY <3>2 DEF Hit
  <2>4. /\ ws[i].start \in Nat /\ ws[i].end \in Nat /\ ws[i].start # 0
        /\ ws[i].end \in Instants /\ ~Hit(ws, n, ws[i].end)
        /\ ws[i].start <= a /\ a < ws[i].end
    BY <1>3, <2>3 DEF InWindow
  <2>5. ASSUME NEW at \in Instants, InWindow(ws[i], at) PROVE Covered(at)
    <3>1. Hit(ws, n, at)
      BY <2>5 DEF Hit
    <3>. QED
      BY <3>1
  <2>6. ws[i].start = a
    <3>1. SUFFICES ASSUME ws[i].start < a PROVE FALSE
      BY <2>2, <2>4
    <3>2. a - 1 \in Nat /\ a - 1 <= a /\ InWindow(ws[i], a - 1)
      BY <2>2, <2>4, <3>1 DEF InWindow
    <3>3. a - 1 \in Instants
      BY <1>1, <2>1, <3>2
    <3>. QED
      BY <2>1, <2>5, <3>2, <3>3
  <2>7. ~(ws[i].end < b)
    <3>1. SUFFICES ASSUME ws[i].end < b PROVE FALSE
      OBVIOUS
    <3>2. ws[i].end \in a..b - 1
      BY <2>2, <2>4, <3>1
    <3>3. Covered(ws[i].end)
      BY <2>1, <3>2
    <3>. QED
      BY <2>4, <3>3
  <2>8. ~(b < ws[i].end)
    <3>1. SUFFICES ASSUME b < ws[i].end PROVE FALSE
      OBVIOUS
    <3>2. InWindow(ws[i], b)
      BY <2>1, <2>2, <2>4, <3>1 DEF InWindow
    <3>. QED
      BY <2>1, <2>5, <3>2
  <2>9. ws[i].end = b
    BY <2>2, <2>4, <2>7, <2>8
  <2>. QED
    BY <2>1, <2>6, <2>9
<1>. QED
  BY <1>4, <1>5

\* The loop's invariant gives the result when the loop has gone through all.
LEMMA MergeInvResult ==
    ASSUME MergeInv
    PROVE  MergeExact
<1>. SUFFICES ASSUME phase = "returned"
              PROVE  /\ {<<merged[i].start, merged[i].end>> : i \in 1..Len(merged)} = Runs
                     /\ \A i \in 1..Len(merged) - 1 : merged[i].end < merged[i + 1].start
  BY DEF MergeExact
<1>1. /\ rows \in Seq(Rows) /\ merged \in Seq(Windows) /\ CopyOK /\ LoopOK
      /\ taken = Len(ordered)
  BY DEF MergeInv, ScheduleTypeOK, Windows
<1>2. \A at \in Instants : Hit(merged, Len(merged), at) <=> Covered(at)
  BY <1>1 DEF CopyOK, LoopOK
<1>3. /\ Proper(merged)
      /\ \A i \in 1..Len(merged) : merged[i].start \in Instants /\ merged[i].end \in Instants
  BY <1>1 DEF LoopOK
<1>4. {<<merged[i].start, merged[i].end>> : i \in 1..Len(merged)} = Runs
  BY <1>1, <1>2, <1>3, ProperIsRuns
<1>5. ASSUME NEW i \in 1..Len(merged) - 1 PROVE merged[i].end < merged[i + 1].start
  <2>1. i \in 1..Len(merged) /\ i + 1 \in 1..Len(merged) /\ i < i + 1
    BY <1>1, WindowFields
  <2>. QED
    BY <1>3, <2>1 DEF Proper
<1>. QED
  BY <1>4, <1>5

\* The invariant holds of every call.
LEMMA MergeInvariance == ScheduleSpec => []MergeInv
<1>1. ScheduleInit => MergeInv
  BY DEF ScheduleInit, MergeInv, ScheduleTypeOK
<1>2. MergeInv /\ [ScheduleNext]_scheduleVars => MergeInv'
  BY MergeInvStep
<1>. QED
  BY <1>1, <1>2, PTL DEF ScheduleSpec

\* MergeWindows returns the runs of what its windows cover, for any number of
\* windows of any length and any outcome of its sort.
THEOREM MergesExactly == ScheduleSpec => []MergeExact
<1>. QED
  BY MergeInvariance, MergeInvResult, PTL

\* Conflicts and Capacity find exactly what they look for, in schedules of any
\* length.
THEOREM ChecksAlwaysExact == ScheduleSpec => []ChecksExact
<1>1. MergeInv => ChecksExact
  BY ConflictsExact, CapacityExact DEF MergeInv, ScheduleTypeOK, ChecksExact
<1>. QED
  BY <1>1, MergeInvariance, PTL
-----------------------------------------------------------------------------
(* Arithmetic                                                              *)

\* The integer quotient, from below and from above.
LEMMA Division ==
    ASSUME NEW x \in Nat, NEW d \in Nat \ {0}
    PROVE  x \div d \in Nat /\ d * (x \div d) <= x /\ x < d * (x \div d) + d
OBVIOUS

\* Multiplication keeps the order.
LEMMA Products ==
    ASSUME NEW a \in Int, NEW b \in Int, NEW c \in Nat
    PROVE  (a <= b => c * a <= c * b) /\ (c * a < c * b => a < b)
OBVIOUS

\* The only number between the bounds is the quotient.
LEMMA Quotient ==
    ASSUME NEW x \in Nat, NEW d \in Nat \ {0}, NEW q \in Int, d * q <= x, x < d * q + d
    PROVE  x \div d = q
<1>. DEFINE r == x \div d
<1>1. r \in Nat /\ d * r <= x /\ x < d * r + d
  BY Division
<1>. HIDE DEF r
<1>2. d * (r + 1) = d * r + d /\ d * (q + 1) = d * q + d
  BY <1>1
<1>3. d * q < d * (r + 1) /\ d * r < d * (q + 1)
  BY <1>1, <1>2
<1>4. q < r + 1 /\ r < q + 1
  BY <1>1, <1>3, Products
<1>. QED
  BY <1>1, <1>4 DEF r

\* The least and the greatest number of a set.
LEMMA Extremes ==
    ASSUME NEW S \in SUBSET Int, NEW m \in S
    PROVE  ((\A y \in S : m <= y) => Min(S) = m) /\ ((\A y \in S : y <= m) => Max(S) = m)
<1>1. ASSUME \A y \in S : m <= y PROVE Min(S) = m
  <2>1. Min(S) \in S /\ \A y \in S : Min(S) <= y
    BY <1>1 DEF Min
  <2>2. Min(S) <= m /\ m <= Min(S)
    BY <1>1, <2>1
  <2>3. Min(S) \in Int /\ m \in Int
    BY <2>1
  <2>. QED
    BY <2>2, <2>3
<1>2. ASSUME \A y \in S : y <= m PROVE Max(S) = m
  <2>1. Max(S) \in S /\ \A y \in S : Max(S) >= y
    BY <1>2 DEF Max
  <2>2. Max(S) >= m /\ m >= Max(S)
    BY <1>2, <2>1
  <2>3. Max(S) \in Int /\ m \in Int
    BY <2>1
  <2>. QED
    BY <2>2, <2>3
<1>. QED
  BY <1>1, <1>2

-----------------------------------------------------------------------------
(* Percentile                                                              *)

\* The constants of a table are numbers, and what a measurement is.
LEMMA TableFields ==
    ASSUME table \in Seq(Samples)
    PROVE  /\ MaxGap \in Nat /\ Steps \subseteq Int /\ Parts \in Nat \ {0}
           /\ Len(table) \in Nat
           /\ \A i \in 1..Len(table) :
                 table[i].device \in Nat /\ table[i].at \in Nat /\ table[i].watts \in Nat
<1>1. \A m \in Samples : m.device \in Nat /\ m.at \in Nat /\ m.watts \in Nat
  BY AnalyticsAssumption
<1>2. \A i \in 1..Len(table) : table[i] \in Samples
  OBVIOUS
<1>. QED
  BY <1>1, <1>2, AnalyticsAssumption

\* The part of a percentile, kept between none and all.
Clamp(part) == IF part < 0 THEN 0 ELSE IF part > Parts THEN Parts ELSE part

\* The index is that of an element, and the nearest to the asked part.
LEMMA IndexNearest ==
    ASSUME table \in Seq(Samples), NEW n \in Nat \ {0}, NEW part \in Int
    PROVE  LET q == PercentileIndex(n, part)
               p == Clamp(part)
           IN  /\ q \in 0..n - 1 /\ p \in 0..Parts
               /\ (2 * Parts) * q <= 2 * p * (n - 1) + Parts
               /\ 2 * p * (n - 1) + Parts < (2 * Parts) * (q + 1)
<1>. DEFINE p == Clamp(part)
            d == 2 * Parts
            x == 2 * p * (n - 1) + Parts
            q == PercentileIndex(n, part)
<1>1. Parts \in Nat \ {0} /\ p \in 0..Parts
  BY TableFields DEF Clamp
<1>. HIDE DEF p
<1>2. d \in Nat \ {0} /\ n - 1 \in Nat
  BY <1>1
<1>3. p * (n - 1) \in Nat /\ Parts * (n - 1) \in Nat /\ p * (n - 1) <= Parts * (n - 1)
  <2>1. (n - 1) * p <= (n - 1) * Parts
    BY <1>1, <1>2, Products
  <2>2. (n - 1) * p = p * (n - 1) /\ (n - 1) * Parts = Parts * (n - 1)
    BY <1>1, <1>2
  <2>3. p * (n - 1) \in Nat /\ Parts * (n - 1) \in Nat
    BY <1>1, <1>2
  <2>. QED
    BY <2>1, <2>2, <2>3
<1>4. 2 * p * (n - 1) = 2 * (p * (n - 1)) /\ d * (n - 1) = 2 * (Parts * (n - 1))
  BY <1>1, <1>2
<1>5. x \in Nat /\ x < d * (n - 1) + d
  BY <1>1, <1>3, <1>4
<1>6. q = x \div d
  BY DEF PercentileIndex, Clamp, p
<1>. HIDE DEF q, x, d
<1>7. q \in Nat /\ d * q <= x /\ x < d * q + d
  BY <1>2, <1>5, <1>6, Division
<1>8. d * (q + 1) = d * q + d /\ d * ((n - 1) + 1) = d * (n - 1) + d
  BY <1>2, <1>7
<1>9. d * q < d * ((n - 1) + 1)
  <2>1. d * q \in Int /\ d * ((n - 1) + 1) \in Int
    BY <1>2, <1>7
  <2>. QED
    BY <1>5, <1>7, <1>8, <2>1
<1>10. q < (n - 1) + 1
  BY <1>2, <1>7, <1>9, Products
<1>11. q \in 0..n - 1
  BY <1>7, <1>10
<1>. QED
  BY <1>1, <1>7, <1>8, <1>11 DEF q, x, d, p

\* A greater part has no smaller index, and the extreme parts have the extreme
\* indices.
LEMMA IndexMonotone ==
    ASSUME table \in Seq(Samples), NEW n \in Nat \ {0}, NEW part \in Int
    PROVE  /\ PercentileIndex(n, part) <= PercentileIndex(n, part + 1)
           /\ part <= 0 => PercentileIndex(n, part) = 0
           /\ part >= Parts => PercentileIndex(n, part) = n - 1
<1>. DEFINE d == 2 * Parts
            q == PercentileIndex(n, part)
            r == PercentileIndex(n, part + 1)
            p == Clamp(part)
            s == Clamp(part + 1)
<1>1. /\ q \in 0..n - 1 /\ p \in 0..Parts
      /\ d * q <= 2 * p * (n - 1) + Parts
      /\ 2 * p * (n - 1) + Parts < d * (q + 1)
  BY IndexNearest
<1>2. part + 1 \in Int
  OBVIOUS
<1>3. /\ r \in 0..n - 1 /\ s \in 0..Parts
      /\ d * r <= 2 * s * (n - 1) + Parts
      /\ 2 * s * (n - 1) + Parts < d * (r + 1)
  BY <1>2, IndexNearest
<1>4. Parts \in Nat \ {0} /\ d \in Nat /\ n - 1 \in Nat
  BY TableFields
<1>5. /\ p <= s
      /\ part <= 0 => p = 0
      /\ part >= Parts => p = Parts
  BY <1>4 DEF Clamp
<1>. HIDE DEF q, r, p, s
<1>6. q <= r
  <2>1. 2 * p * (n - 1) <= 2 * s * (n - 1)
    <3>1. (2 * (n - 1)) * p <= (2 * (n - 1)) * s
      BY <1>1, <1>3, <1>4, <1>5, Products
    <3>. QED
      BY <1>1, <1>3, <1>4, <3>1
  <2>2. d * q < d * (r + 1)
    <3>. DEFINE a == d * q
                b == 2 * p * (n - 1)
                c == 2 * s * (n - 1)
                e == d * (r + 1)
    <3>1. a \in Int /\ b \in Int /\ c \in Int /\ e \in Int
      BY <1>1, <1>3, <1>4
    <3>2. a <= b + Parts /\ b <= c /\ c + Parts < e
      BY <1>1, <1>3, <2>1
    <3>. HIDE DEF a, b, c, e
    <3>3. a < e
      BY <1>4, <3>1, <3>2
    <3>. QED
      BY <3>3 DEF a, e
  <2>3. q < r + 1
    BY <1>1, <1>3, <1>4, <2>2, Products
  <2>. QED
    BY <1>1, <1>3, <2>3
<1>7. ASSUME part <= 0 PROVE q = 0
  <2>1. 2 * p * (n - 1) = 0
    BY <1>4, <1>5, <1>7
  <2>2. d * q <= Parts
    BY <1>1, <1>4, <2>1
  <2>3. d * q < d * 1
    BY <1>1, <1>4, <2>2
  <2>4. q < 1
    BY <1>1, <1>4, <2>3, Products
  <2>. QED
    BY <1>1, <2>4
<1>8. ASSUME part >= Parts PROVE q = n - 1
  <2>1. 2 * p * (n - 1) = d * (n - 1)
    BY <1>4, <1>5, <1>8
  <2>2. d * (n - 1) < d * (q + 1)
    <3>1. d * (n - 1) \in Int /\ d * (q + 1) \in Int
      BY <1>1, <1>4
    <3>. QED
      BY <1>1, <1>4, <2>1, <3>1
  <2>3. n - 1 < q + 1
    BY <1>1, <1>4, <2>2, Products
  <2>. QED
    BY <1>1, <1>4, <2>3
<1>. QED
  BY <1>6, <1>7, <1>8 DEF q, r
\* The values of a table and how Percentile sorts them.
Values == [i \in 1..Len(table) |-> table[i].watts]
ValueOrder == StableOrder(Values)

\* The sorted values are the values, none below one that precedes it.
LEMMA ValuesSorted ==
    ASSUME table \in Seq(Samples)
    PROVE  LET n == Len(table)
               s == Arrange(Values, ValueOrder)
           IN  /\ n \in Nat /\ Len(Values) = n /\ Values \in [1..n -> Nat]
               /\ ValueOrder \in [1..n -> 1..n]
               /\ \A j, k \in 1..n : ValueOrder[j] = ValueOrder[k] => j = k
               /\ \A i \in 1..n : \E k \in 1..n : ValueOrder[k] = i
               /\ \A k \in 1..n : s[k] = Values[ValueOrder[k]]
               /\ \A j, k \in 1..n : j <= k => s[j] <= s[k]
<1>. DEFINE n == Len(table)
            s == Arrange(Values, ValueOrder)
<1>1. n \in Nat /\ Values \in [1..n -> Nat] /\ Values \in [1..n -> Int]
  BY TableFields DEF Values
<1>2. Len(Values) = n
  BY <1>1 DEF Values
<1>3. 1..n \in SUBSET Nat /\ IsFiniteSet(1..n) /\ Cardinality(1..n) = n
  BY <1>1, Indices
<1>4. /\ ValueOrder \in [1..n -> 1..n]
      /\ \A j, k \in 1..n : j < k => Before(Values, ValueOrder[j], ValueOrder[k])
      /\ \A i \in 1..n : Place(Values, i) \in 1..n /\ ValueOrder[Place(Values, i)] = i
      /\ \A k \in 1..n : Place(Values, ValueOrder[k]) = k
  <2>. HIDE DEF n
  <2>. QED
    BY <1>1, <1>3, StableOrderSorts DEF ValueOrder
<1>5. \A j, k \in 1..n : ValueOrder[j] = ValueOrder[k] => j = k
  BY <1>4
<1>6. \A i \in 1..n : \E k \in 1..n : ValueOrder[k] = i
  BY <1>4
<1>7. \A k \in 1..n : s[k] = Values[ValueOrder[k]]
  BY <1>4 DEF Arrange
<1>8. ASSUME NEW j \in 1..n, NEW k \in 1..n, j <= k PROVE s[j] <= s[k]
  <2>1. s[j] \in Int /\ s[k] \in Int
    BY <1>1, <1>4, <1>7
  <2>2. j < k => Before(Values, ValueOrder[j], ValueOrder[k])
    BY <1>4
  <2>3. j < k => s[j] <= s[k]
    BY <1>7, <2>1, <2>2 DEF Before
  <2>4. j < k \/ j = k
    BY <1>8
  <2>. HIDE DEF s
  <2>. QED
    BY <2>1, <2>3, <2>4
<1>. QED
  BY <1>1, <1>2, <1>4, <1>5, <1>6, <1>7, <1>8

\* At least as many values are not above the value at a position as there are
\* positions up to it.
LEMMA NotAbove ==
    ASSUME table \in Seq(Samples), NEW k \in 1..Len(table)
    PROVE  LET below == Cardinality({i \in 1..Len(table) :
                            Values[i] <= Arrange(Values, ValueOrder)[k]})
           IN  below \in Nat /\ k <= below
<1>. DEFINE n == Len(table)
            s == Arrange(Values, ValueOrder)
            B == {i \in 1..n : Values[i] <= s[k]}
            f == [j \in 1..k |-> ValueOrder[j]]
<1>1. /\ n \in Nat /\ ValueOrder \in [1..n -> 1..n]
      /\ \A i, j \in 1..n : ValueOrder[i] = ValueOrder[j] => i = j
      /\ \A j \in 1..n : s[j] = Values[ValueOrder[j]]
      /\ \A i, j \in 1..n : i <= j => s[i] <= s[j]
  BY ValuesSorted
<1>. HIDE DEF s
<1>2. k \in Nat /\ 1..k \subseteq 1..n /\ \A j \in 1..k : j <= k
  BY <1>1
<1>3. IsFiniteSet(B) /\ Cardinality(B) \in Nat
  <2>1. IsFiniteSet(1..n) /\ B \in SUBSET (1..n)
    BY <1>1, Indices
  <2>2. IsFiniteSet(B)
    BY <2>1, FS_Subset
  <2>. QED
    BY <2>2, FS_CardinalityType
<1>4. f \in Injection(1..k, B)
  <2>1. ASSUME NEW j \in 1..k PROVE f[j] \in B
    <3>1. j \in 1..n /\ k \in 1..n /\ j <= k
      BY <1>2
    <3>2. ValueOrder[j] \in 1..n /\ Values[ValueOrder[j]] <= s[k]
      BY <1>1, <3>1
    <3>. QED
      BY <3>2
  <2>2. f \in [1..k -> B]
    BY <2>1
  <2>3. \A i, j \in 1..k : f[i] = f[j] => i = j
    BY <1>1, <1>2
  <2>. QED
    BY <2>2, <2>3 DEF Injection, IsInjective
<1>5. Cardinality(1..k) <= Cardinality(B)
  BY <1>3, <1>4, FS_Injection
<1>6. Cardinality(1..k) = k
  BY <1>2, Indices
<1>. QED
  BY <1>3, <1>5, <1>6 DEF s

\* Percentiles are in order, from the smallest value to the largest, and leave
\* the asked part of the values below them.
LEMMA PercentilesExact ==
    ASSUME table \in Seq(Samples)
    PROVE  PercentileOrdered
<1>. DEFINE n == Len(table)
            s == Arrange(Values, ValueOrder)
            below(v) == Cardinality({i \in 1..n : Values[i] <= v})
            V == {Values[i] : i \in 1..n}
<1>1. /\ n \in Nat /\ Len(Values) = n /\ Values \in [1..n -> Nat]
      /\ ValueOrder \in [1..n -> 1..n]
      /\ \A i \in 1..n : \E k \in 1..n : ValueOrder[k] = i
      /\ \A k \in 1..n : s[k] = Values[ValueOrder[k]]
      /\ \A j, k \in 1..n : j <= k => s[j] <= s[k]
  BY ValuesSorted
<1>2. SUFFICES ASSUME n > 0, NEW part \in -1..Parts + 1
               PROVE  /\ Percentile(Values, part) <= Percentile(Values, part + 1)
                      /\ part <= 0 => Percentile(Values, part) = Min(V)
                      /\ part >= Parts => Percentile(Values, part) = Max(V)
                      /\ part \in 0..Parts =>
                            2 * Parts * below(Percentile(Values, part))
                                >= 2 * part * (n - 1) + Parts
  BY <1>1 DEF PercentileOrdered, Values
<1>3. part \in Int /\ part + 1 \in Int /\ n \in Nat \ {0} /\ Parts \in Nat \ {0}
  BY <1>1, <1>2, TableFields
<1>4. ASSUME NEW any \in Int
      PROVE  /\ PercentileIndex(n, any) + 1 \in 1..n
             /\ Percentile(Values, any) = s[PercentileIndex(n, any) + 1]
  <2>1. PercentileIndex(n, any) \in 0..n - 1
    BY <1>3, IndexNearest
  <2>2. Values # <<>>
    BY <1>1, <1>2
  <2>. QED
    BY <1>1, <2>1, <2>2 DEF Percentile, ValueOrder
<1>. HIDE DEF s
<1>. DEFINE q == PercentileIndex(n, part)
            r == PercentileIndex(n, part + 1)
<1>5. /\ q \in 0..n - 1 /\ r \in 0..n - 1 /\ q <= r
      /\ part <= 0 => q = 0
      /\ part >= Parts => q = n - 1
  BY <1>3, IndexMonotone, IndexNearest
<1>6. Percentile(Values, part) = s[q + 1] /\ Percentile(Values, part + 1) = s[r + 1]
  BY <1>3, <1>4
<1>. HIDE DEF q, r
<1>7. q + 1 \in 1..n /\ r + 1 \in 1..n /\ 1 \in 1..n /\ n \in 1..n /\ q + 1 <= r + 1
  BY <1>3, <1>5
<1>8. ASSUME NEW k \in 1..n PROVE s[1] <= s[k] /\ s[k] <= s[n] /\ s[k] \in V
  <2>1. 1 <= k /\ k <= n
    BY <1>3
  <2>2. s[1] <= s[k] /\ s[k] <= s[n]
    BY <1>1, <1>7, <2>1
  <2>3. s[k] = Values[ValueOrder[k]] /\ ValueOrder[k] \in 1..n
    BY <1>1
  <2>. QED
    BY <2>2, <2>3
<1>9. V \in SUBSET Int /\ \A v \in V : \E k \in 1..n : v = s[k]
  <2>1. ASSUME NEW i \in 1..n PROVE Values[i] \in Int /\ \E k \in 1..n : Values[i] = s[k]
    <3>1. PICK k \in 1..n : ValueOrder[k] = i
      BY <1>1
    <3>2. Values[i] = s[k] /\ Values[i] \in Nat
      BY <1>1, <3>1
    <3>. QED
      BY <3>2
  <2>. QED
    BY <2>1
<1>10. Min(V) = s[1] /\ Max(V) = s[n]
  <2>1. \A v \in V : s[1] <= v /\ v <= s[n]
    BY <1>8, <1>9
  <2>2. s[1] \in V /\ s[n] \in V
    BY <1>7, <1>8
  <2>. HIDE DEF V
  <2>. QED
    BY <1>9, <2>1, <2>2, Extremes
<1>11. s[q + 1] <= s[r + 1]
  BY <1>1, <1>7
<1>12. ASSUME part \in 0..Parts
       PROVE  2 * Parts * below(s[q + 1]) >= 2 * part * (n - 1) + Parts
  <2>. DEFINE b == below(s[q + 1])
              d == 2 * Parts
              x == 2 * part * (n - 1) + Parts
  <2>1. b \in Nat /\ q + 1 <= b
    BY <1>7, NotAbove DEF s
  <2>2. x < d * (q + 1)
    <3>1. Clamp(part) = part
      BY <1>3, <1>12 DEF Clamp
    <3>. QED
      BY <1>3, <3>1, IndexNearest DEF q
  <2>. HIDE DEF b
  <2>3. d * (q + 1) <= d * b
    BY <1>3, <1>7, <2>1, Products
  <2>4. x \in Int /\ d * (q + 1) \in Int /\ d * b \in Int /\ d * b = 2 * Parts * b
    BY <1>3, <1>7, <2>1
  <2>5. 2 * Parts * b >= x
    <3>. HIDE DEF x, d
    <3>. QED
      BY <2>2, <2>3, <2>4
  <2>. QED
    BY <2>5 DEF b
<1>. HIDE DEF V, below
<1>. QED
  BY <1>5, <1>6, <1>10, <1>11, <1>12
-----------------------------------------------------------------------------
(* EnergyWh                                                                *)

\* Measurements of a device with none of its others in between, and the energy
\* of all such intervals: what EnergyWh amounts to, without a sort.
Neighbours(t, I) ==
    {p \in I \X I :
        /\ t[p[1]].device = t[p[2]].device /\ t[p[1]].at < t[p[2]].at
        /\ \A i \in I : ~(/\ t[i].device = t[p[1]].device
                          /\ t[p[1]].at < t[i].at /\ t[i].at < t[p[2]].at)}
Energy(t, I) == SumOf([p \in Neighbours(t, I) |-> Trapezoid(t[p[1]], t[p[2]])])

\* Measurements I of t, none of a device at the same time as another.
Distinct(t, I) ==
    /\ I \in SUBSET Nat /\ IsFiniteSet(I)
    /\ \A i \in I : t[i].at \in Nat /\ t[i].watts \in Nat
    /\ \A i, j \in I : t[i].device = t[j].device /\ t[i].at = t[j].at => i = j

\* The energy of an interval is a number.
LEMMA TrapezoidType ==
    ASSUME MaxGap \in Nat, NEW a, NEW b,
           a.at \in Nat, a.watts \in Nat, b.at \in Nat, b.watts \in Nat
    PROVE  Trapezoid(a, b) \in Nat
<1>. DEFINE gap == b.at - a.at
<1>1. gap \in Int /\ a.watts + b.watts \in Nat
  OBVIOUS
<1>2. Trapezoid(a, b) = IF gap <= 0 \/ gap > MaxGap THEN 0 ELSE (a.watts + b.watts) * gap
  BY DEF Trapezoid
<1>3. CASE gap <= 0 \/ gap > MaxGap
  BY <1>2, <1>3
<1>4. CASE ~(gap <= 0 \/ gap > MaxGap)
  <2>1. gap \in Nat
    BY <1>1, <1>4
  <2>. HIDE DEF gap
  <2>2. (a.watts + b.watts) * gap \in Nat
    BY <1>1, <2>1
  <2>. QED
    BY <1>2, <1>4, <2>2
<1>. QED
  BY <1>3, <1>4

\* There are finitely many intervals, each with a natural number.
LEMMA IntervalsType ==
    ASSUME MaxGap \in Nat, NEW t, NEW I, Distinct(t, I)
    PROVE  /\ IsFiniteSet(Neighbours(t, I))
           /\ [p \in Neighbours(t, I) |-> Trapezoid(t[p[1]], t[p[2]])]
                 \in [Neighbours(t, I) -> Int]
           /\ Energy(t, I) \in Nat
<1>1. Neighbours(t, I) \in SUBSET (I \X I)
  BY DEF Neighbours
<1>2. IsFiniteSet(I \X I)
  BY FS_Product DEF Distinct
<1>3. IsFiniteSet(Neighbours(t, I))
  BY <1>1, <1>2, FS_Subset
<1>4. ASSUME NEW p \in Neighbours(t, I) PROVE Trapezoid(t[p[1]], t[p[2]]) \in Int
  <2>1. p[1] \in I /\ p[2] \in I
    BY <1>1
  <2>2. /\ t[p[1]].at \in Nat /\ t[p[1]].watts \in Nat
        /\ t[p[2]].at \in Nat /\ t[p[2]].watts \in Nat
    BY <2>1 DEF Distinct
  <2>3. Trapezoid(t[p[1]], t[p[2]]) \in Nat
    BY <2>2, TrapezoidType
  <2>. QED
    BY <2>3
<1>5. [p \in Neighbours(t, I) |-> Trapezoid(t[p[1]], t[p[2]])] \in [Neighbours(t, I) -> Int]
  BY <1>4
<1>. QED
  BY <1>3, <1>5, SumType DEF Energy

\* Neighbours in the sorted list of a device are neighbours in time, whichever
\* order the sort has left equal times in.
LEMMA AdjacentIsNeighbour ==
    ASSUME MaxGap \in Nat, NEW t, NEW I, Distinct(t, I),
           NEW order \in Orders([i \in I |-> t[i].at])
    PROVE  [p \in Adjacent(t, order) |-> <<order[p[1]], order[p[2]]>>]
              \in Bijection(Adjacent(t, order), Neighbours(t, I))
<1>. DEFINE keys == [i \in I |-> t[i].at]
            n == Cardinality(I)
            A == Adjacent(t, order)
            h == [p \in A |-> <<order[p[1]], order[p[2]]>>]
<1>1. /\ I \in SUBSET Nat /\ IsFiniteSet(I) /\ keys \in [I -> Int]
      /\ \A i \in I : t[i].at \in Nat
      /\ \A i, j \in I : t[i].device = t[j].device /\ t[i].at = t[j].at => i = j
  BY DEF Distinct
<1>2. /\ n \in Nat /\ order \in [1..n -> I]
      /\ \A j, k \in 1..n : order[j] = order[k] => j = k
      /\ \A j, k \in 1..n : j < k => keys[order[j]] <= keys[order[k]]
      /\ \A i \in I : \E k \in 1..n : order[k] = i
  <2>1. order \in Orders(keys)
    OBVIOUS
  <2>2. I \in SUBSET Nat /\ IsFiniteSet(I) /\ keys \in [I -> Int]
    BY <1>1
  <2>3. \A K \in [I -> Int] : \A o \in Orders(K) :
           /\ Cardinality(I) \in Nat /\ o \in [1..Cardinality(I) -> I]
           /\ \A j, k \in 1..Cardinality(I) : o[j] = o[k] => j = k
           /\ \A j, k \in 1..Cardinality(I) : j < k => K[o[j]] <= K[o[k]]
           /\ \A i \in I : \E k \in 1..Cardinality(I) : o[k] = i
    BY <2>2, OrdersSort
  <2>. HIDE DEF keys, n
  <2>4. /\ Cardinality(I) \in Nat /\ order \in [1..Cardinality(I) -> I]
        /\ \A j, k \in 1..Cardinality(I) : order[j] = order[k] => j = k
        /\ \A j, k \in 1..Cardinality(I) : j < k => keys[order[j]] <= keys[order[k]]
        /\ \A i \in I : \E k \in 1..Cardinality(I) : order[k] = i
    BY <2>1, <2>2, <2>3
  <2>. QED
    BY <2>4 DEF n
<1>. HIDE DEF n
<1>3. \A j, k \in 1..n : j < k => t[order[j]].at <= t[order[k]].at
  BY <1>2
<1>4. ASSUME NEW j \in 1..n, NEW k \in 1..n, t[order[j]].at < t[order[k]].at PROVE j < k
  <2>1. t[order[j]].at \in Nat /\ t[order[k]].at \in Nat
    BY <1>1, <1>2
  <2>2. ~(k < j) /\ j # k
    BY <1>3, <1>4, <2>1
  <2>. QED
    BY <1>2, <2>2
<1>5. DOMAIN order = 1..n
  BY <1>2
<1>6. ASSUME NEW p \in A
      PROVE  /\ p = <<p[1], p[2]>> /\ p[1] \in 1..n /\ p[2] \in 1..n /\ p[1] < p[2]
             /\ t[order[p[1]]].device = t[order[p[2]]].device
             /\ \A k \in p[1] + 1..p[2] - 1 : t[order[k]].device # t[order[p[2]]].device
  BY <1>5 DEF Adjacent
<1>7. ASSUME NEW p \in A PROVE h[p] \in Neighbours(t, I)
  <2>. DEFINE a == order[p[1]]
              b == order[p[2]]
  <2>1. /\ p[1] \in 1..n /\ p[2] \in 1..n /\ p[1] < p[2] /\ t[a].device = t[b].device
        /\ \A k \in p[1] + 1..p[2] - 1 : t[order[k]].device # t[b].device
    BY <1>6
  <2>2. a \in I /\ b \in I /\ a # b /\ t[a].at \in Nat /\ t[b].at \in Nat
    <3>1. a \in I /\ b \in I
      BY <1>2, <2>1
    <3>2. a # b
      BY <1>2, <2>1
    <3>. HIDE DEF a, b
    <3>. QED
      BY <1>1, <3>1, <3>2
  <2>3. t[a].at < t[b].at
    <3>1. t[a].at <= t[b].at
      BY <1>3, <2>1
    <3>2. t[a].at # t[b].at
      BY <1>1, <2>1, <2>2
    <3>. HIDE DEF a, b
    <3>. QED
      BY <2>2, <3>1, <3>2
  <2>4. ASSUME NEW i \in I, t[i].device = t[a].device, t[a].at < t[i].at, t[i].at < t[b].at
        PROVE  FALSE
    <3>1. PICK k \in 1..n : order[k] = i
      BY <1>2
    <3>2. p[1] < k /\ k < p[2]
      BY <1>4, <2>1, <2>4, <3>1
    <3>3. k \in p[1] + 1..p[2] - 1
      BY <1>2, <2>1, <3>2
    <3>. QED
      BY <2>1, <2>4, <3>1, <3>3
  <2>5. h[p] = <<a, b>>
    OBVIOUS
  <2>. HIDE DEF a, b, h
  <2>. QED
    BY <2>1, <2>2, <2>3, <2>4, <2>5 DEF Neighbours, a, b
<1>8. ASSUME NEW p \in A, NEW q \in A, h[p] = h[q] PROVE p = q
  <2>1. order[p[1]] = order[q[1]] /\ order[p[2]] = order[q[2]]
    BY <1>8
  <2>2. p[1] = q[1] /\ p[2] = q[2]
    BY <1>2, <1>6, <2>1
  <2>. QED
    BY <1>6, <2>2
<1>9. ASSUME NEW r \in Neighbours(t, I) PROVE \E p \in A : h[p] = r
  <2>1. /\ r = <<r[1], r[2]>> /\ r[1] \in I /\ r[2] \in I
        /\ t[r[1]].device = t[r[2]].device /\ t[r[1]].at < t[r[2]].at
        /\ \A i \in I : ~(/\ t[i].device = t[r[1]].device
                          /\ t[r[1]].at < t[i].at /\ t[i].at < t[r[2]].at)
    BY DEF Neighbours
  <2>2. PICK j \in 1..n : order[j] = r[1]
    BY <1>2, <2>1
  <2>3. PICK k \in 1..n : order[k] = r[2]
    BY <1>2, <2>1
  <2>4. j < k
    BY <1>4, <2>1, <2>2, <2>3
  <2>5. ASSUME NEW l \in j + 1..k - 1 PROVE t[order[l]].device # t[order[k]].device
    <3>1. SUFFICES ASSUME t[order[l]].device = t[order[k]].device PROVE FALSE
      OBVIOUS
    <3>2. l \in 1..n /\ j < l /\ l < k
      BY <1>2
    <3>3. order[l] \in I /\ order[l] # r[1] /\ order[l] # r[2]
      BY <1>2, <2>2, <2>3, <3>2
    <3>4. t[r[1]].at <= t[order[l]].at /\ t[order[l]].at <= t[r[2]].at
      BY <1>3, <2>2, <2>3, <3>2
    <3>5. t[r[1]].at # t[order[l]].at /\ t[order[l]].at # t[r[2]].at
      BY <1>1, <2>1, <2>3, <3>1, <3>3
    <3>6. t[order[l]].at \in Nat /\ t[r[1]].at \in Nat /\ t[r[2]].at \in Nat
      BY <1>1, <2>1, <3>3
    <3>7. t[r[1]].at < t[order[l]].at /\ t[order[l]].at < t[r[2]].at
      BY <3>4, <3>5, <3>6
    <3>. QED
      BY <2>1, <2>3, <3>1, <3>3, <3>7
  <2>6. <<j, k>> \in A
    BY <1>5, <2>1, <2>2, <2>3, <2>4, <2>5 DEF Adjacent
  <2>7. h[<<j, k>>] = r
    BY <2>1, <2>2, <2>3, <2>6
  <2>. QED
    BY <2>6, <2>7
<1>10. h \in [A -> Neighbours(t, I)]
  BY <1>7
<1>. HIDE DEF h, A
<1>11. h \in Bijection(A, Neighbours(t, I))
  BY <1>8, <1>9, <1>10 DEF Bijection, Injection, IsInjective, Surjection
<1>. QED
  BY <1>11 DEF h, A

\* EnergyWh has one outcome.
LEMMA EnergyDetermined ==
    ASSUME MaxGap \in Nat, NEW t, NEW I, Distinct(t, I)
    PROVE  EnergyWh(t, I) = {Energy(t, I)}
<1>. DEFINE keys == [i \in I |-> t[i].at]
            g == [p \in Neighbours(t, I) |-> Trapezoid(t[p[1]], t[p[2]])]
            f(order) == [p \in Adjacent(t, order) |->
                            Trapezoid(t[order[p[1]]], t[order[p[2]]])]
<1>1. I \in SUBSET Nat /\ IsFiniteSet(I) /\ keys \in [I -> Int]
  BY DEF Distinct
<1>2. StableOrder(keys) \in Orders(keys)
  <2>. HIDE DEF keys
  <2>. QED
    BY <1>1, OrdersSort
<1>3. ASSUME NEW order \in Orders(keys) PROVE SumOf(f(order)) = Energy(t, I)
  <2>. DEFINE A == Adjacent(t, order)
              h == [p \in A |-> <<order[p[1]], order[p[2]]>>]
  <2>1. h \in Bijection(A, Neighbours(t, I))
    BY AdjacentIsNeighbour
  <2>2. IsFiniteSet(Neighbours(t, I)) /\ g \in [Neighbours(t, I) -> Int]
    BY IntervalsType
  <2>3. h \in [A -> Neighbours(t, I)] /\ h \in Injection(A, Neighbours(t, I))
    BY <2>1 DEF Bijection, Injection
  <2>4. IsFiniteSet(A)
    BY <2>2, <2>3, FS_Injection
  <2>5. ASSUME NEW p \in A PROVE g[h[p]] = f(order)[p] /\ f(order)[p] \in Int
    <3>1. h[p] \in Neighbours(t, I) /\ h[p] = <<order[p[1]], order[p[2]]>>
      BY <2>3
    <3>2. g[h[p]] = Trapezoid(t[h[p][1]], t[h[p][2]])
      BY <3>1
    <3>3. g[h[p]] \in Int
      BY <2>2, <3>1
    <3>. QED
      BY <3>1, <3>2, <3>3
  <2>6. f(order) \in [A -> Int]
    BY <2>5
  <2>. DEFINE e == f(order)
  <2>7. \A p \in A : g[h[p]] = e[p]
    BY <2>5
  <2>8. e \in [A -> Int]
    BY <2>6
  <2>. HIDE DEF e, g, h, A
  <2>9. SumOf(e) = SumOf(g)
    BY <2>1, <2>2, <2>4, <2>7, <2>8, SumRenamed
  <2>. QED
    BY <2>9 DEF e, g, Energy
<1>4. EnergyWh(t, I) = {SumOf(f(order)) : order \in Orders(keys)}
  BY DEF EnergyWh
<1>. HIDE DEF f, keys
<1>. QED
  BY <1>2, <1>3, <1>4

\* The energy does not depend on what the measurements are numbered by.
LEMMA EnergyRenamed ==
    ASSUME MaxGap \in Nat, NEW t, NEW I, Distinct(t, I),
           NEW s, NEW J, J \in SUBSET Nat, IsFiniteSet(J),
           NEW h \in Bijection(J, I), \A k \in J : s[k] = t[h[k]]
    PROVE  Distinct(s, J) /\ Energy(s, J) = Energy(t, I)
<1>. DEFINE N == Neighbours(s, J)
            M == Neighbours(t, I)
            k == [p \in N |-> <<h[p[1]], h[p[2]]>>]
            f == [p \in N |-> Trapezoid(s[p[1]], s[p[2]])]
            g == [p \in M |-> Trapezoid(t[p[1]], t[p[2]])]
<1>1. /\ h \in [J -> I] /\ \A x, y \in J : h[x] = h[y] => x = y
      /\ \A y \in I : \E x \in J : h[x] = y
  BY DEF Bijection, Injection, IsInjective, Surjection
<1>2. \A j \in J : h[j] \in I /\ s[j] = t[h[j]]
  BY <1>1
<1>3. Distinct(s, J)
  <2>1. \A j \in J : s[j].at \in Nat /\ s[j].watts \in Nat
    BY <1>2 DEF Distinct
  <2>2. ASSUME NEW i \in J, NEW j \in J, s[i].device = s[j].device, s[i].at = s[j].at
        PROVE  i = j
    <3>1. /\ h[i] \in I /\ h[j] \in I
          /\ t[h[i]].device = t[h[j]].device /\ t[h[i]].at = t[h[j]].at
      BY <1>2, <2>2
    <3>2. h[i] = h[j]
      BY <3>1 DEF Distinct
    <3>. QED
      BY <1>1, <3>2
  <2>. QED
    BY <2>1, <2>2 DEF Distinct
<1>4. ASSUME NEW p \in N
      PROVE  /\ p = <<p[1], p[2]>> /\ p[1] \in J /\ p[2] \in J
             /\ s[p[1]].device = s[p[2]].device /\ s[p[1]].at < s[p[2]].at
             /\ \A i \in J : ~(/\ s[i].device = s[p[1]].device
                               /\ s[p[1]].at < s[i].at /\ s[i].at < s[p[2]].at)
  BY DEF Neighbours
<1>5. ASSUME NEW p \in N PROVE <<h[p[1]], h[p[2]]>> \in M
  <2>. DEFINE a == h[p[1]]
              b == h[p[2]]
  <2>1. a \in I /\ b \in I /\ t[a] = s[p[1]] /\ t[b] = s[p[2]]
    BY <1>2, <1>4
  <2>2. t[a].device = t[b].device /\ t[a].at < t[b].at
    BY <1>4, <2>1
  <2>3. ASSUME NEW i \in I, t[i].device = t[a].device, t[a].at < t[i].at, t[i].at < t[b].at
        PROVE  FALSE
    <3>1. PICK j \in J : h[j] = i
      BY <1>1
    <3>2. s[j] = t[i]
      BY <1>2, <3>1
    <3>. QED
      BY <1>4, <2>1, <2>3, <3>2
  <2>. HIDE DEF a, b
  <2>4. <<a, b>> \in M
    BY <2>1, <2>2, <2>3 DEF Neighbours
  <2>. QED
    BY <2>4 DEF a, b
<1>6. ASSUME NEW p \in N, NEW q \in N, k[p] = k[q] PROVE p = q
  <2>1. h[p[1]] = h[q[1]] /\ h[p[2]] = h[q[2]]
    BY <1>6
  <2>2. p[1] = q[1] /\ p[2] = q[2]
    BY <1>1, <1>4, <2>1
  <2>. QED
    BY <1>4, <2>2
<1>7. ASSUME NEW r \in M PROVE \E p \in N : k[p] = r
  <2>1. /\ r = <<r[1], r[2]>> /\ r[1] \in I /\ r[2] \in I
        /\ t[r[1]].device = t[r[2]].device /\ t[r[1]].at < t[r[2]].at
        /\ \A i \in I : ~(/\ t[i].device = t[r[1]].device
                          /\ t[r[1]].at < t[i].at /\ t[i].at < t[r[2]].at)
    BY DEF Neighbours
  <2>2. PICK x \in J : h[x] = r[1]
    BY <1>1, <2>1
  <2>3. PICK y \in J : h[y] = r[2]
    BY <1>1, <2>1
  <2>4. s[x] = t[r[1]] /\ s[y] = t[r[2]]
    BY <1>2, <2>2, <2>3
  <2>5. \A i \in J : ~(/\ s[i].device = s[x].device
                       /\ s[x].at < s[i].at /\ s[i].at < s[y].at)
    BY <1>2, <2>1, <2>4
  <2>6. <<x, y>> \in N
    BY <2>1, <2>4, <2>5 DEF Neighbours
  <2>7. k[<<x, y>>] = r
    BY <2>1, <2>2, <2>3, <2>6
  <2>. QED
    BY <2>6, <2>7
<1>8. k \in [N -> M]
  BY <1>5
<1>9. k \in Bijection(N, M)
  <2>. HIDE DEF k, N, M
  <2>. QED
    BY <1>6, <1>7, <1>8 DEF Bijection, Injection, IsInjective, Surjection
<1>10. IsFiniteSet(N) /\ f \in [N -> Int]
  BY <1>3, IntervalsType
<1>11. g \in [M -> Int]
  BY IntervalsType
<1>12. ASSUME NEW p \in N PROVE g[k[p]] = f[p]
  <2>1. k[p] \in M /\ k[p] = <<h[p[1]], h[p[2]]>>
    BY <1>5
  <2>2. g[k[p]] = Trapezoid(t[h[p[1]]], t[h[p[2]]])
    BY <2>1
  <2>3. t[h[p[1]]] = s[p[1]] /\ t[h[p[2]]] = s[p[2]]
    BY <1>2, <1>4
  <2>. QED
    BY <2>2, <2>3
<1>. HIDE DEF f, g, k, N, M
<1>13. SumOf(f) = SumOf(g)
  BY <1>9, <1>10, <1>11, <1>12, SumRenamed
<1>. QED
  BY <1>3, <1>13 DEF Energy, f, g, N, M

\* A cut at an instant at which every device measured splits no interval.
LEMMA EnergyCut ==
    ASSUME MaxGap \in Nat, NEW t, NEW I, Distinct(t, I), NEW cut \in Int,
           \A i \in I : \E j \in I : t[j].device = t[i].device /\ t[j].at = cut
    PROVE  LET A == {i \in I : t[i].at <= cut}
               B == {i \in I : t[i].at >= cut}
           IN  /\ Distinct(t, A) /\ Distinct(t, B)
               /\ Energy(t, I) = Energy(t, A) + Energy(t, B)
<1>. DEFINE A == {i \in I : t[i].at <= cut}
            B == {i \in I : t[i].at >= cut}
            f == [p \in Neighbours(t, A) |-> Trapezoid(t[p[1]], t[p[2]])]
            g == [p \in Neighbours(t, B) |-> Trapezoid(t[p[1]], t[p[2]])]
            e == [p \in Neighbours(t, I) |-> Trapezoid(t[p[1]], t[p[2]])]
<1>1. /\ I \in SUBSET Nat /\ IsFiniteSet(I)
      /\ \A i \in I : t[i].at \in Nat /\ t[i].watts \in Nat
      /\ \A i, j \in I : t[i].device = t[j].device /\ t[i].at = t[j].at => i = j
  BY DEF Distinct
<1>2. \A S \in SUBSET I : Distinct(t, S)
  BY <1>1, FS_Subset DEF Distinct
<1>3. /\ A \in SUBSET I /\ \A i \in I : i \in A <=> t[i].at <= cut
      /\ B \in SUBSET I /\ \A i \in I : i \in B <=> t[i].at >= cut
  OBVIOUS
<1>. HIDE DEF A, B
<1>4. Distinct(t, A) /\ Distinct(t, B)
  BY <1>2, <1>3
<1>5. ASSUME NEW S \in SUBSET I, NEW p
      PROVE  p \in Neighbours(t, S) <=>
               /\ p = <<p[1], p[2]>> /\ p[1] \in S /\ p[2] \in S
               /\ t[p[1]].device = t[p[2]].device /\ t[p[1]].at < t[p[2]].at
               /\ \A i \in S : ~(/\ t[i].device = t[p[1]].device
                                 /\ t[p[1]].at < t[i].at /\ t[i].at < t[p[2]].at)
  BY DEF Neighbours
<1>6. ASSUME NEW p \in Neighbours(t, I)
      PROVE  p \in Neighbours(t, A) \/ p \in Neighbours(t, B)
  <2>1. /\ p = <<p[1], p[2]>> /\ p[1] \in I /\ p[2] \in I
        /\ t[p[1]].device = t[p[2]].device /\ t[p[1]].at < t[p[2]].at
        /\ \A i \in I : ~(/\ t[i].device = t[p[1]].device
                          /\ t[p[1]].at < t[i].at /\ t[i].at < t[p[2]].at)
    BY DEF Neighbours
  <2>2. PICK j \in I : t[j].device = t[p[1]].device /\ t[j].at = cut
    BY <2>1
  <2>3. t[p[1]].at \in Nat /\ t[p[2]].at \in Nat
    BY <1>1, <2>1
  <2>4. t[p[2]].at <= cut \/ t[p[1]].at >= cut
    BY <2>1, <2>2, <2>3
  <2>5. CASE t[p[2]].at <= cut
    <3>1. p[1] \in A /\ p[2] \in A
      BY <1>3, <2>1, <2>3, <2>5
    <3>. QED
      BY <1>3, <1>5, <2>1, <3>1
  <2>6. CASE t[p[1]].at >= cut
    <3>1. p[1] \in B /\ p[2] \in B
      BY <1>3, <2>1, <2>3, <2>6
    <3>. QED
      BY <1>3, <1>5, <2>1, <3>1
  <2>. QED
    BY <2>4, <2>5, <2>6
<1>7. ASSUME NEW p \in Neighbours(t, A)
      PROVE  p \in Neighbours(t, I) /\ t[p[1]].at \in Nat /\ t[p[1]].at < cut
  <2>1. /\ p = <<p[1], p[2]>> /\ p[1] \in A /\ p[2] \in A
        /\ t[p[1]].device = t[p[2]].device /\ t[p[1]].at < t[p[2]].at
        /\ \A i \in A : ~(/\ t[i].device = t[p[1]].device
                          /\ t[p[1]].at < t[i].at /\ t[i].at < t[p[2]].at)
    BY DEF Neighbours
  <2>2. /\ p[1] \in I /\ p[2] \in I /\ t[p[1]].at \in Nat /\ t[p[2]].at \in Nat
        /\ t[p[2]].at <= cut
    BY <1>1, <1>3, <2>1
  <2>3. ASSUME NEW i \in I, t[i].device = t[p[1]].device,
               t[p[1]].at < t[i].at, t[i].at < t[p[2]].at
        PROVE  FALSE
    <3>1. t[i].at \in Nat /\ t[i].at <= cut
      BY <1>1, <2>2, <2>3
    <3>2. i \in A
      BY <1>3, <3>1
    <3>. QED
      BY <2>1, <2>3, <3>2
  <2>4. p \in Neighbours(t, I)
    BY <1>5, <2>1, <2>2, <2>3
  <2>. QED
    BY <2>1, <2>2, <2>4
<1>8. ASSUME NEW p \in Neighbours(t, B)
      PROVE  p \in Neighbours(t, I) /\ t[p[1]].at \in Nat /\ t[p[1]].at >= cut
  <2>1. /\ p = <<p[1], p[2]>> /\ p[1] \in B /\ p[2] \in B
        /\ t[p[1]].device = t[p[2]].device /\ t[p[1]].at < t[p[2]].at
        /\ \A i \in B : ~(/\ t[i].device = t[p[1]].device
                          /\ t[p[1]].at < t[i].at /\ t[i].at < t[p[2]].at)
    BY DEF Neighbours
  <2>2. /\ p[1] \in I /\ p[2] \in I /\ t[p[1]].at \in Nat /\ t[p[2]].at \in Nat
        /\ t[p[1]].at >= cut
    BY <1>1, <1>3, <2>1
  <2>3. ASSUME NEW i \in I, t[i].device = t[p[1]].device,
               t[p[1]].at < t[i].at, t[i].at < t[p[2]].at
        PROVE  FALSE
    <3>1. t[i].at \in Nat /\ t[i].at >= cut
      BY <1>1, <2>2, <2>3
    <3>2. i \in B
      BY <1>3, <3>1
    <3>. QED
      BY <2>1, <2>3, <3>2
  <2>4. p \in Neighbours(t, I)
    BY <1>5, <2>1, <2>2, <2>3
  <2>. QED
    BY <2>1, <2>2, <2>4
<1>9. Neighbours(t, I) = Neighbours(t, A) \cup Neighbours(t, B)
  BY <1>6, <1>7, <1>8
<1>10. Neighbours(t, A) \cap Neighbours(t, B) = {}
  BY <1>7, <1>8
<1>11. /\ IsFiniteSet(Neighbours(t, A)) /\ f \in [Neighbours(t, A) -> Int]
       /\ IsFiniteSet(Neighbours(t, B)) /\ g \in [Neighbours(t, B) -> Int]
       /\ e \in [Neighbours(t, I) -> Int]
  BY <1>4, IntervalsType
<1>12. /\ \A p \in Neighbours(t, A) : e[p] = f[p]
       /\ \A p \in Neighbours(t, B) : e[p] = g[p]
  BY <1>7, <1>8
<1>13. SumOf(e) = SumOf(f) + SumOf(g)
  <2>. DEFINE D == Neighbours(t, A)
              E == Neighbours(t, B)
              S == Neighbours(t, I)
  <2>1. /\ IsFiniteSet(D) /\ IsFiniteSet(E)
        /\ f \in [D -> Int] /\ g \in [E -> Int] /\ e \in [S -> Int]
    BY <1>11
  <2>2. D \cap E = {} /\ S = D \cup E
    BY <1>9, <1>10
  <2>3. (\A x \in D : e[x] = f[x]) /\ (\A x \in E : e[x] = g[x])
    BY <1>12
  <2>. HIDE DEF e, f, g, D, E, S
  <2>. QED
    BY <2>1, <2>2, <2>3, SumOfUnion
<1>14. Energy(t, I) = Energy(t, A) + Energy(t, B)
  BY <1>13 DEF Energy
<1>. QED
  BY <1>4, <1>14 DEF A, B

\* The energy of a table is one number, whichever order the measurements arrived
\* in, and the sum of two when it is cut where the devices measured.
LEMMA EnergyAdds ==
    ASSUME table \in Seq(Samples)
    PROVE  EnergyAdditive
<1>. DEFINE n == Len(table)
            all == 1..n
<1>1. /\ MaxGap \in Nat /\ n \in Nat
      /\ \A i \in all : table[i].at \in Nat /\ table[i].watts \in Nat
  BY TableFields
<1>2. all \in SUBSET Nat /\ IsFiniteSet(all) /\ Cardinality(all) = n
  BY <1>1, Indices
<1>3. SUFFICES ASSUME DistinctTimes(table)
               PROVE  /\ Cardinality(EnergyWh(table, all)) = 1
                      /\ \A arrival \in Orders([i \in all |-> 0]) :
                            EnergyWh(Arrange(table, arrival), all) = EnergyWh(table, all)
                      /\ \A cut \in Times :
                            (\A i \in all : \E j \in all :
                                table[j].device = table[i].device /\ table[j].at = cut) =>
                              EnergyWh(table, all) =
                                 Plus(EnergyWh(table, {i \in all : table[i].at <= cut}),
                                      EnergyWh(table, {i \in all : table[i].at >= cut}))
  BY DEF EnergyAdditive
<1>4. Distinct(table, all)
  BY <1>1, <1>2, <1>3 DEF Distinct, DistinctTimes
<1>5. EnergyWh(table, all) = {Energy(table, all)}
  BY <1>1, <1>4, EnergyDetermined
<1>6. Cardinality(EnergyWh(table, all)) = 1
  BY <1>5, FS_Singleton
<1>7. ASSUME NEW arrival \in Orders([i \in all |-> 0])
      PROVE  EnergyWh(Arrange(table, arrival), all) = EnergyWh(table, all)
  <2>. DEFINE keys == [i \in all |-> 0]
              s == Arrange(table, arrival)
  <2>1. keys \in [all -> Int] /\ arrival \in Orders(keys)
    OBVIOUS
  <2>2. /\ arrival \in [1..Cardinality(all) -> all]
        /\ \A j, k \in 1..Cardinality(all) : arrival[j] = arrival[k] => j = k
        /\ \A i \in all : \E k \in 1..Cardinality(all) : arrival[k] = i
    <3>1. arrival \in Orders(keys)
      OBVIOUS
    <3>. HIDE DEF keys, all
    <3>. QED
      BY <1>2, <2>1, OrdersSort
  <2>3. arrival \in Bijection(all, all)
    BY <1>2, <2>2 DEF Bijection, Injection, IsInjective, Surjection
  <2>4. \A k \in all : s[k] = table[arrival[k]]
    BY <1>2, <2>2 DEF Arrange
  <2>5. Distinct(s, all) /\ Energy(s, all) = Energy(table, all)
    <3>1. MaxGap \in Nat
      BY <1>1
    <3>. HIDE DEF s, all
    <3>2. \A h \in Bijection(all, all) :
             (\A k \in all : s[k] = table[h[k]]) =>
                 Distinct(s, all) /\ Energy(s, all) = Energy(table, all)
      BY <1>2, <1>4, <3>1, EnergyRenamed
    <3>. QED
      BY <2>3, <2>4, <3>2
  <2>. HIDE DEF s, all
  <2>6. EnergyWh(s, all) = {Energy(s, all)}
    BY <1>1, <2>5, EnergyDetermined
  <2>. QED
    BY <1>5, <2>5, <2>6 DEF s
<1>8. ASSUME NEW cut \in Times,
             \A i \in all : \E j \in all :
                table[j].device = table[i].device /\ table[j].at = cut
      PROVE  EnergyWh(table, all) =
                 Plus(EnergyWh(table, {i \in all : table[i].at <= cut}),
                      EnergyWh(table, {i \in all : table[i].at >= cut}))
  <2>. DEFINE A == {i \in all : table[i].at <= cut}
              B == {i \in all : table[i].at >= cut}
  <2>1. cut \in Int
    <3>1. \A m \in Samples : 0..m.at + 1 \in SUBSET Int
      BY AnalyticsAssumption
    <3>. QED
      BY <3>1 DEF Times
  <2>2. /\ Distinct(table, A) /\ Distinct(table, B)
        /\ Energy(table, all) = Energy(table, A) + Energy(table, B)
    <3>. HIDE DEF all
    <3>. QED
      BY <1>1, <1>4, <1>8, <2>1, EnergyCut
  <2>. HIDE DEF A, B
  <2>3. /\ EnergyWh(table, A) = {Energy(table, A)}
        /\ EnergyWh(table, B) = {Energy(table, B)}
    BY <1>1, <2>2, EnergyDetermined
  <2>4. EnergyWh(table, all) = Plus(EnergyWh(table, A), EnergyWh(table, B))
    BY <1>5, <2>2, <2>3 DEF Plus
  <2>. QED
    BY <2>4 DEF A, B
<1>. QED
  BY <1>6, <1>7, <1>8

-----------------------------------------------------------------------------
(* Summarize, Bucketize                                                    *)

\* Finitely many numbers have a least and a greatest one.
LEMMA LeastAndGreatest ==
    ASSUME NEW I \in SUBSET Nat, IsFiniteSet(I), I # {}, NEW f \in [I -> Int]
    PROVE  /\ \E a \in I : \A i \in I : f[a] <= f[i]
           /\ \E b \in I : \A i \in I : f[i] <= f[b]
<1>. DEFINE n == Cardinality(I)
            order == StableOrder(f)
<1>1. /\ n \in Nat /\ order \in [1..n -> I]
      /\ \A j, k \in 1..n : j < k => f[order[j]] <= f[order[k]]
      /\ \A i \in I : \E k \in 1..n : order[k] = i
  BY OrdersSort
<1>. HIDE DEF n, order
<1>2. 1 \in 1..n /\ n \in 1..n
  <2>1. PICK i \in I : TRUE
    OBVIOUS
  <2>2. PICK k \in 1..n : order[k] = i
    BY <1>1
  <2>. QED
    BY <1>1, <2>2
<1>3. \A k \in 1..n : order[k] \in I /\ f[order[k]] \in Int
  BY <1>1
<1>4. ASSUME NEW k \in 1..n PROVE f[order[1]] <= f[order[k]] /\ f[order[k]] <= f[order[n]]
  <2>1. f[order[1]] <= f[order[k]]
    BY <1>1, <1>2, <1>3
  <2>2. f[order[k]] <= f[order[n]]
    BY <1>1, <1>2, <1>3
  <2>. QED
    BY <2>1, <2>2
<1>5. \A i \in I : f[order[1]] <= f[i] /\ f[i] <= f[order[n]]
  BY <1>1, <1>4
<1>6. order[1] \in I /\ order[n] \in I
  BY <1>2, <1>3
<1>. QED
  BY <1>5, <1>6

\* The lowest and the highest power of measurements, 0 the highest of none.
LEMMA LowAndPeak ==
    ASSUME NEW s, NEW J \in SUBSET Nat, IsFiniteSet(J), \A i \in J : s[i].watts \in Nat
    PROVE  /\ Peak(s, J) \in Nat /\ Low(s, J) \in Nat
           /\ Peak(s, J) = 0 \/ \E i \in J : Peak(s, J) = s[i].watts
           /\ \A i \in J : s[i].watts <= Peak(s, J)
           /\ \A i \in J : Low(s, J) <= s[i].watts
<1>. DEFINE W == {s[i].watts : i \in J}
            f == [i \in J |-> s[i].watts]
            V == {0} \cup W
<1>0. V \in SUBSET Int /\ W \in SUBSET Int /\ 0 \in V /\ f \in [J -> Int]
  OBVIOUS
<1>1. CASE J = {}
  <2>1. V = {0}
    BY <1>1
  <2>2. Max(V) = 0
    <3>1. \A y \in V : y <= 0
      BY <2>1
    <3>. HIDE DEF V
    <3>. QED
      BY <1>0, <3>1, Extremes
  <2>. QED
    BY <1>1, <2>2 DEF Low, Peak
<1>2. CASE J # {}
  <2>1. PICK a \in J : \A i \in J : f[a] <= f[i]
    <3>. HIDE DEF f
    <3>. QED
      BY <1>0, <1>2, LeastAndGreatest
  <2>2. PICK b \in J : \A i \in J : f[i] <= f[b]
    <3>. HIDE DEF f
    <3>. QED
      BY <1>0, <1>2, LeastAndGreatest
  <2>3. \A i \in J : s[a].watts <= s[i].watts /\ s[i].watts <= s[b].watts
    BY <2>1, <2>2
  <2>4. Min(W) = s[a].watts
    <3>1. s[a].watts \in W /\ \A y \in W : s[a].watts <= y
      BY <2>3
    <3>. QED
      BY <1>0, <3>1, Extremes
  <2>5. Max(V) = s[b].watts
    <3>1. s[b].watts \in V /\ 0 <= s[b].watts /\ \A y \in W : y <= s[b].watts
      BY <2>3
    <3>2. \A y \in V : y <= s[b].watts
      BY <3>1
    <3>. HIDE DEF V, W
    <3>. QED
      BY <1>0, <3>1, <3>2, Extremes
  <2>6. s[a].watts \in Nat /\ s[b].watts \in Nat
    OBVIOUS
  <2>7. /\ Max(V) \in Nat /\ (\E i \in J : Max(V) = s[i].watts)
        /\ (\A i \in J : s[i].watts <= Max(V))
    BY <2>3, <2>5, <2>6
  <2>8. Min(W) \in Nat /\ \A i \in J : Min(W) <= s[i].watts
    BY <2>3, <2>4, <2>6
  <2>. HIDE DEF V, W
  <2>. QED
    BY <1>2, <2>7, <2>8 DEF V, W, Low, Peak
<1>. QED
  BY <1>1, <1>2

\* The buckets reach the end of the window, and the last of them is needed.
LEMMA BucketsReach ==
    ASSUME NEW start \in Nat, NEW end \in Nat, NEW step \in Nat \ {0}, start < end
    PROVE  LET N == BucketCount(start, end, step)
           IN  /\ N \in Nat \ {0}
               /\ step * (N - 1) < end - start /\ end - start <= step * N
<1>. DEFINE x == end - start + step - 1
            N == x \div step
<1>1. x \in Nat /\ end - start \in Nat \ {0}
  OBVIOUS
<1>2. N \in Nat /\ step * N <= x /\ x < step * N + step
  <2>. HIDE DEF x
  <2>. QED
    BY <1>1, Division
<1>3. BucketCount(start, end, step) = N
  BY DEF BucketCount
<1>. HIDE DEF N
<1>4. step * N \in Int /\ step * (N - 1) = step * N - step
  BY <1>2
<1>5. step * (N - 1) < end - start /\ end - start <= step * N
  BY <1>2, <1>4
<1>6. N # 0
  <2>1. SUFFICES ASSUME N = 0 PROVE FALSE
    OBVIOUS
  <2>2. step * N = 0
    BY <2>1
  <2>. QED
    BY <1>1, <1>5, <2>2
<1>. QED
  BY <1>2, <1>3, <1>5, <1>6

\* Where bucket k of a window starts and ends.
From(start, step, k) == start + (k - 1) * step
To(start, end, step, k) ==
    IF From(start, step, k) + step > end THEN end ELSE From(start, step, k) + step

\* A bucket lies in the window and is not empty, it starts where the one before
\* it ends, the last one ends with the window, and the quotient of a time is the
\* number of the bucket it is in.
LEMMA BucketBorders ==
    ASSUME NEW start \in Nat, NEW end \in Nat, NEW step \in Nat \ {0}, start < end,
           NEW k \in 1..BucketCount(start, end, step)
    PROVE  /\ From(start, step, k) \in Nat /\ To(start, end, step, k) \in Nat
           /\ start <= From(start, step, k) /\ To(start, end, step, k) <= end
           /\ From(start, step, k) < To(start, end, step, k)
           /\ k = 1 => From(start, step, k) = start
           /\ k > 1 => From(start, step, k) = To(start, end, step, k - 1)
           /\ k = BucketCount(start, end, step) => To(start, end, step, k) = end
           /\ \A at \in Nat : start <= at /\ at < end =>
                 ((at - start) \div step = k - 1
                     <=> From(start, step, k) <= at /\ at < To(start, end, step, k))
<1>. DEFINE N == BucketCount(start, end, step)
            y == step * (k - 1)
            from == From(start, step, k)
            to == To(start, end, step, k)
<1>1. N \in Nat \ {0} /\ step * (N - 1) < end - start /\ end - start <= step * N
  BY BucketsReach
<1>2. k \in 1..N
  OBVIOUS
<1>. HIDE DEF N
<1>3. k - 1 \in Nat /\ k - 1 <= N - 1 /\ k \in Nat /\ N - 1 \in Nat
  BY <1>1, <1>2
<1>4. y \in Nat
  BY <1>3
<1>5. y <= step * (N - 1) /\ step * (N - 1) \in Nat
  BY <1>3, Products
<1>6. from = start + y
  BY <1>3 DEF From
<1>7. to = IF from + step > end THEN end ELSE from + step
  BY DEF To
<1>8. k = 1 => y = 0
  OBVIOUS
<1>9. k = N => step * N = y + step
  BY <1>3
<1>10. k > 1 => From(start, step, k - 1) + step = start + y
  <2>1. (k - 1 - 1) * step + step = step * (k - 1)
    BY <1>3
  <2>. QED
    BY <1>3, <2>1 DEF From
<1>11. k > 1 => To(start, end, step, k - 1) = IF start + y > end THEN end ELSE start + y
  BY <1>10 DEF To
<1>. HIDE DEF from, to
<1>12. /\ from \in Nat /\ to \in Nat /\ start <= from /\ to <= end /\ from < to
       /\ k = 1 => from = start
       /\ k = N => to = end
  <2>1. y < end - start
    BY <1>1, <1>4, <1>5
  <2>. HIDE DEF y
  <2>2. from \in Nat /\ to \in Nat /\ start <= from /\ to <= end /\ from < to
    BY <1>4, <1>6, <1>7, <2>1
  <2>3. k = 1 => from = start
    BY <1>6, <1>8
  <2>4. k = N => to = end
    BY <1>1, <1>4, <1>6, <1>7, <1>9
  <2>. QED
    BY <2>2, <2>3, <2>4
<1>13. k > 1 => from = To(start, end, step, k - 1)
  <2>. HIDE DEF y
  <2>. QED
    BY <1>4, <1>6, <1>11, <1>12
<1>14. ASSUME NEW at \in Nat, start <= at, at < end
       PROVE  (at - start) \div step = k - 1 <=> from <= at /\ at < to
  <2>. DEFINE x == at - start
  <2>1. x \in Nat
    BY <1>14
  <2>2. x \div step = k - 1 <=> y <= x /\ x < y + step
    <3>1. ASSUME x \div step = k - 1 PROVE y <= x /\ x < y + step
      <4>. HIDE DEF x
      <4>1. step * (x \div step) <= x /\ x < step * (x \div step) + step
        BY <2>1, Division
      <4>. QED
        BY <3>1, <4>1
    <3>2. ASSUME y <= x, x < y + step PROVE x \div step = k - 1
      <4>. HIDE DEF x
      <4>1. \A q \in Int : step * q <= x /\ x < step * q + step => x \div step = q
        BY <2>1, Quotient
      <4>. QED
        BY <1>3, <3>2, <4>1
    <3>. QED
      BY <3>1, <3>2
  <2>3. y <= x /\ x < y + step <=> from <= at /\ at < to
    <3>. HIDE DEF y
    <3>. QED
      BY <1>4, <1>6, <1>7, <1>14
  <2>. QED
    BY <2>2, <2>3
<1>. QED
  BY <1>12, <1>13, <1>14 DEF from, to, N

\* What the buckets of a window are.
LEMMA BucketFields ==
    ASSUME NEW start \in Nat, NEW end \in Nat, NEW step \in Nat \ {0}, start < end, NEW s
    PROVE  LET b == Bucketize(s, start, end, step)
               N == BucketCount(start, end, step)
           IN  /\ Len(b) = N /\ b # <<>>
               /\ \A k \in 1..N :
                     LET mine == InBucket(s, start, end, step, k)
                     IN  /\ b[k].start = From(start, step, k)
                         /\ b[k].end = To(start, end, step, k)
                         /\ b[k].samples = Cardinality(mine) /\ b[k].total = Total(s, mine)
                         /\ b[k].min = Low(s, mine) /\ b[k].max = Peak(s, mine)
<1>. DEFINE N == BucketCount(start, end, step)
            mine(k) == InBucket(s, start, end, step, k)
            row(k) == [start   |-> From(start, step, k),
                       end     |-> To(start, end, step, k),
                       samples |-> Cardinality(mine(k)), total |-> Total(s, mine(k)),
                       min     |-> Low(s, mine(k)), max |-> Peak(s, mine(k))]
            b == Bucketize(s, start, end, step)
            R == {row(k) : k \in 1..N}
<1>1. N \in Nat \ {0}
  BY BucketsReach
<1>2. b = [k \in 1..N |-> row(k)]
  <2>1. ~(step <= 0 \/ start >= end)
    OBVIOUS
  <2>. QED
    BY <2>1 DEF Bucketize, From, To
<1>. HIDE DEF b, N
<1>3. \A k \in 1..N : row(k) \in R
  OBVIOUS
<1>4. /\ \A k \in 1..N : b[k] = row(k)
      /\ b \in Seq(R) /\ Len(b) = N
  <2>. HIDE DEF row, R
  <2>. QED
    BY <1>1, <1>2, <1>3
<1>5. b # <<>>
  BY <1>1, <1>4
<1>6. ASSUME NEW k \in 1..N
      PROVE  /\ b[k].start = From(start, step, k)
             /\ b[k].end = To(start, end, step, k)
             /\ b[k].samples = Cardinality(mine(k)) /\ b[k].total = Total(s, mine(k))
             /\ b[k].min = Low(s, mine(k)) /\ b[k].max = Peak(s, mine(k))
  <2>1. b[k] = row(k)
    BY <1>4
  <2>. QED
    BY <2>1
<1>. HIDE DEF row, R
<1>7. Len(b) = N
  BY <1>4
<1>. QED
  BY <1>5, <1>6, <1>7 DEF b, N

\* A list of measurements of a window.
InTheWindow(s, start, end) ==
    /\ Len(s) \in Nat
    /\ \A i \in 1..Len(s) : /\ s[i].at \in Nat /\ s[i].watts \in Nat
                            /\ start <= s[i].at /\ s[i].at < end

\* Each measurement of a window is counted in one bucket.
LEMMA BucketParts ==
    ASSUME NEW start \in Nat, NEW end \in Nat, NEW step \in Nat \ {0}, start < end,
           NEW s, InTheWindow(s, start, end)
    PROVE  LET N == BucketCount(start, end, step)
           IN  /\ \A k \in 1..N : /\ InBucket(s, start, end, step, k) \in SUBSET (1..Len(s))
                                  /\ InBucket(s, start, end, step, k) \in SUBSET Nat
                                  /\ IsFiniteSet(InBucket(s, start, end, step, k))
               /\ \A i \in 1..Len(s) : \E k \in 1..N : i \in InBucket(s, start, end, step, k)
               /\ \A j, k \in 1..N : j # k =>
                     InBucket(s, start, end, step, j) \cap InBucket(s, start, end, step, k) = {}
<1>. DEFINE N == BucketCount(start, end, step)
            mine(k) == InBucket(s, start, end, step, k)
<1>1. N \in Nat \ {0} /\ end - start <= step * N
  BY BucketsReach
<1>. HIDE DEF N
<1>2. Len(s) \in Nat /\ IsFiniteSet(1..Len(s)) /\ 1..Len(s) \in SUBSET Nat
  BY Indices DEF InTheWindow
<1>3. ASSUME NEW k \in 1..N
      PROVE  mine(k) \in SUBSET (1..Len(s)) /\ mine(k) \in SUBSET Nat /\ IsFiniteSet(mine(k))
  <2>1. mine(k) \in SUBSET (1..Len(s))
    BY DEF InBucket
  <2>. HIDE DEF mine
  <2>. QED
    BY <1>2, <2>1, FS_Subset
<1>4. ASSUME NEW i \in 1..Len(s) PROVE \E k \in 1..N : i \in mine(k)
  <2>. DEFINE x == s[i].at - start
              q == x \div step
  <2>1. s[i].at \in Nat /\ start <= s[i].at /\ s[i].at < end
    BY DEF InTheWindow
  <2>2. x \in Nat /\ x < end - start
    BY <2>1
  <2>3. q \in Nat /\ step * q <= x
    <3>. HIDE DEF x
    <3>. QED
      BY <2>2, Division
  <2>4. q < N
    <3>. HIDE DEF q, x
    <3>1. step * q \in Int /\ step * N \in Int
      BY <1>1, <2>3
    <3>2. step * q < step * N
      BY <1>1, <2>2, <2>3, <3>1
    <3>. QED
      BY <1>1, <2>3, <3>2, Products
  <2>5. q + 1 \in 1..N /\ q = q + 1 - 1
    <3>. HIDE DEF q
    <3>. QED
      BY <1>1, <2>3, <2>4
  <2>6. i \in mine(q + 1)
    BY <2>1, <2>5 DEF InBucket
  <2>. HIDE DEF q, mine
  <2>. QED
    BY <2>5, <2>6
<1>5. ASSUME NEW j \in 1..N, NEW k \in 1..N, j # k PROVE mine(j) \cap mine(k) = {}
  <2>1. \A i \in mine(j) : (s[i].at - start) \div step = j - 1
    BY DEF InBucket
  <2>2. \A i \in mine(k) : (s[i].at - start) \div step = k - 1
    BY DEF InBucket
  <2>3. j - 1 # k - 1
    BY <1>1, <1>5
  <2>. HIDE DEF mine
  <2>. QED
    BY <2>1, <2>2, <2>3
<1>. QED
  BY <1>3, <1>4, <1>5 DEF N

\* The power of measurements has a sum between its least and its greatest, as
\* often as there are measurements.
LEMMA BucketMeans ==
    ASSUME NEW s, NEW J \in SUBSET Nat, IsFiniteSet(J), \A i \in J : s[i].watts \in Nat
    PROVE  /\ Low(s, J) * Cardinality(J) <= Total(s, J)
           /\ Total(s, J) <= Peak(s, J) * Cardinality(J)
<1>. DEFINE f == [i \in J |-> s[i].watts]
<1>1. /\ Low(s, J) \in Nat /\ Peak(s, J) \in Nat
      /\ \A i \in J : Low(s, J) <= s[i].watts /\ s[i].watts <= Peak(s, J)
  BY LowAndPeak
<1>2. f \in [J -> Nat]
  OBVIOUS
<1>3. \A i \in J : Low(s, J) <= f[i] /\ f[i] <= Peak(s, J)
  BY <1>1
<1>. HIDE DEF f
<1>4. Low(s, J) * Cardinality(J) <= SumOf(f) /\ SumOf(f) <= Peak(s, J) * Cardinality(J)
  BY <1>1, <1>2, <1>3, SumBounds
<1>. QED
  BY <1>4 DEF f, Total

\* The size, the total and the peak of each bucket.
Sizes(s, start, end, step) ==
    [k \in 1..BucketCount(start, end, step) |-> Cardinality(InBucket(s, start, end, step, k))]
Totals(s, start, end, step) ==
    [k \in 1..BucketCount(start, end, step) |-> Total(s, InBucket(s, start, end, step, k))]
Peaks(s, start, end, step) ==
    {Peak(s, InBucket(s, start, end, step, k)) : k \in 1..BucketCount(start, end, step)}

\* The buckets add up to the summary of the list.
LEMMA BucketsAddUp ==
    ASSUME NEW start \in Nat, NEW end \in Nat, NEW step \in Nat \ {0}, start < end,
           NEW s, InTheWindow(s, start, end)
    PROVE  /\ SumOf(Sizes(s, start, end, step)) = Len(s)
           /\ SumOf(Totals(s, start, end, step)) = Total(s, 1..Len(s))
           /\ Max(Peaks(s, start, end, step)) = Peak(s, 1..Len(s))
<1>. DEFINE N == BucketCount(start, end, step)
            K == 1..N
            J == 1..Len(s)
            mine(k) == InBucket(s, start, end, step, k)
<1>1. N \in Nat \ {0}
  BY BucketsReach
<1>2. IsFiniteSet(K) /\ 1 \in K
  BY <1>1, Indices
<1>3. J \in SUBSET Nat /\ IsFiniteSet(J) /\ Cardinality(J) = Len(s)
  BY Indices DEF InTheWindow
<1>4. /\ \A k \in K : mine(k) \in SUBSET J /\ mine(k) \in SUBSET Nat /\ IsFiniteSet(mine(k))
      /\ \A i \in J : \E k \in K : i \in mine(k)
      /\ \A j, k \in K : j # k => mine(j) \cap mine(k) = {}
  BY BucketParts
<1>5. \A i \in J : s[i].watts \in Nat
  BY DEF InTheWindow
<1>. HIDE DEF N, K, J, mine
<1>6. SumOf([k \in K |-> Cardinality(mine(k))]) = Len(s)
  <2>. DEFINE A == [k \in K |-> mine(k)]
              W == UNION {A[k] : k \in K}
  <2>1. \A k \in K : A[k] = mine(k)
    OBVIOUS
  <2>2. W = J
    BY <1>4, <2>1
  <2>3. [k \in K |-> Cardinality(mine(k))] = [k \in K |-> Cardinality(A[k])]
    BY <2>1
  <2>4. /\ \A k \in K : IsFiniteSet(A[k])
        /\ \A j, k \in K : j # k => A[j] \cap A[k] = {}
    BY <1>4, <2>1
  <2>. HIDE DEF A
  <2>5. SumOf([k \in K |-> Cardinality(A[k])]) = Cardinality(W)
    BY <1>2, <2>4, SumOfParts
  <2>. QED
    BY <1>3, <2>2, <2>3, <2>5
<1>7. SumOf([k \in K |-> Total(s, mine(k))]) = Total(s, J)
  <2>. DEFINE f == [i \in J |-> s[i].watts]
              g(k) == [i \in mine(k) |-> s[i].watts]
              A == [k \in K |-> Units(g(k))]
              W == UNION {A[k] : k \in K}
  <2>1. f \in [J -> Int] /\ \A i \in J : f[i] = s[i].watts
    BY <1>5
  <2>2. ASSUME NEW k \in K
        PROVE  g(k) \in [mine(k) -> Int] /\ \A i \in mine(k) : g(k)[i] = f[i]
    BY <1>4, <1>5
  <2>3. \A u : u \in Units(f) <=> \E i \in J : \E v \in 1..f[i] : u = <<i, v>>
    <3>. HIDE DEF f
    <3>. QED
      BY <2>1, UnitsAre
  <2>4. ASSUME NEW k \in K
        PROVE  /\ \A u : u \in Units(g(k)) <=> \E i \in mine(k) : \E v \in 1..f[i] : u = <<i, v>>
               /\ IsFiniteSet(Units(g(k)))
    <3>. DEFINE e == g(k)
    <3>1. e \in [mine(k) -> Int] /\ \A i \in mine(k) : e[i] = f[i]
      BY <2>2
    <3>2. IsFiniteSet(mine(k))
      BY <1>4
    <3>. HIDE DEF e, f, g
    <3>3. \A u : u \in Units(e) <=> \E i \in mine(k) : \E v \in 1..e[i] : u = <<i, v>>
      BY <3>1, UnitsAre
    <3>4. \A u : u \in Units(e) <=> \E i \in mine(k) : \E v \in 1..f[i] : u = <<i, v>>
      BY <3>1, <3>3
    <3>5. IsFiniteSet(Units(e))
      BY <3>1, <3>2, SumType
    <3>. QED
      BY <3>4, <3>5 DEF e
  <2>. HIDE DEF f, g
  <2>5. \A k \in K : A[k] = Units(g(k))
    OBVIOUS
  <2>. HIDE DEF A
  <2>6. W = Units(f)
    <3>1. ASSUME NEW u \in Units(f) PROVE u \in W
      <4>1. PICK i \in J : \E v \in 1..f[i] : u = <<i, v>>
        BY <2>3
      <4>2. PICK k \in K : i \in mine(k)
        BY <1>4
      <4>3. u \in A[k]
        BY <2>4, <2>5, <4>1, <4>2
      <4>. QED
        BY <4>3
    <3>2. ASSUME NEW k \in K, NEW u \in A[k] PROVE u \in Units(f)
      <4>1. PICK i \in mine(k) : \E v \in 1..f[i] : u = <<i, v>>
        BY <2>4, <2>5
      <4>2. i \in J
        BY <1>4
      <4>. QED
        BY <2>3, <4>1, <4>2
    <3>. QED
      BY <3>1, <3>2
  <2>7. \A k \in K : IsFiniteSet(A[k])
    BY <2>4, <2>5
  <2>8. ASSUME NEW j \in K, NEW k \in K, j # k PROVE A[j] \cap A[k] = {}
    <3>1. SUFFICES ASSUME NEW u \in A[j], u \in A[k] PROVE FALSE
      OBVIOUS
    <3>2. PICK i \in mine(j) : \E v \in 1..f[i] : u = <<i, v>>
      BY <2>4, <2>5
    <3>3. PICK l \in mine(k) : \E v \in 1..f[l] : u = <<l, v>>
      BY <2>4, <2>5, <3>1
    <3>4. i = l
      BY <3>2, <3>3
    <3>. QED
      BY <1>4, <2>8, <3>4
  <2>9. SumOf([k \in K |-> Cardinality(A[k])]) = Cardinality(W)
    <3>. HIDE DEF W
    <3>1. \A j, k \in K : j # k => A[j] \cap A[k] = {}
      BY <2>8
    <3>. QED
      BY <1>2, <2>7, <3>1, SumOfParts DEF W
  <2>10. [k \in K |-> SumOf(g(k))] = [k \in K |-> Cardinality(A[k])]
    BY <2>5 DEF SumOf
  <2>11. SumOf(f) = Cardinality(W)
    BY <2>6 DEF SumOf
  <2>12. SumOf([k \in K |-> SumOf(g(k))]) = SumOf(f)
    BY <2>9, <2>10, <2>11
  <2>. QED
    BY <2>12 DEF f, g, Total
<1>8. Max({Peak(s, mine(k)) : k \in K}) = Peak(s, J)
  <2>. DEFINE peak(k) == Peak(s, mine(k))
              P == Peak(s, J)
              S == {peak(k) : k \in K}
  <2>1. /\ P \in Nat /\ (P = 0 \/ \E i \in J : P = s[i].watts)
        /\ \A i \in J : s[i].watts <= P
    BY <1>3, <1>5, LowAndPeak
  <2>2. ASSUME NEW k \in K
        PROVE  /\ peak(k) \in Nat /\ (peak(k) = 0 \/ \E i \in mine(k) : peak(k) = s[i].watts)
               /\ \A i \in mine(k) : s[i].watts <= peak(k)
    <3>1. mine(k) \in SUBSET Nat /\ IsFiniteSet(mine(k)) /\ \A i \in mine(k) : s[i].watts \in Nat
      BY <1>4, <1>5
    <3>. QED
      BY <3>1, LowAndPeak
  <2>. HIDE DEF P, peak
  <2>3. ASSUME NEW k \in K PROVE peak(k) <= P
    <3>1. CASE peak(k) = 0
      BY <2>1, <3>1
    <3>2. CASE \E i \in mine(k) : peak(k) = s[i].watts
      BY <1>4, <2>1, <3>2
    <3>. QED
      BY <2>2, <3>1, <3>2
  <2>4. \E k \in K : peak(k) = P
    <3>1. CASE P = 0
      <4>1. peak(1) \in Nat /\ peak(1) <= P
        BY <1>2, <2>2, <2>3
      <4>. QED
        BY <1>2, <3>1, <4>1
    <3>2. ASSUME NEW i \in J, P = s[i].watts PROVE \E k \in K : peak(k) = P
      <4>1. PICK k \in K : i \in mine(k)
        BY <1>4
      <4>2. P <= peak(k) /\ peak(k) <= P /\ peak(k) \in Nat
        BY <2>2, <2>3, <3>2, <4>1
      <4>. QED
        BY <2>1, <4>2
    <3>. QED
      BY <2>1, <3>1, <3>2
  <2>5. S \in SUBSET Int /\ P \in S /\ \A y \in S : y <= P
    BY <2>2, <2>3, <2>4
  <2>. HIDE DEF S
  <2>6. Max(S) = P
    BY <2>5, Extremes
  <2>. QED
    BY <2>6 DEF S, P, peak
<1>. QED
  BY <1>6, <1>7, <1>8 DEF N, K, J, mine, Sizes, Totals, Peaks

\* The query returns every row of the device in the window, once.
LEMMA WindowRows ==
    ASSUME table \in Seq(Samples), NEW d, NEW start \in Nat, NEW end \in Nat
    PROVE  LET w == TelemetryWindow(table, d, start, end)
           IN  /\ InTheWindow(w, start, end)
               /\ \E h \in Bijection(1..Len(w), Selected(table, d, start, end)) :
                     \A k \in 1..Len(w) : w[k] = table[h[k]]
<1>. DEFINE I == Selected(table, d, start, end)
            keys == [i \in I |-> table[i].at]
            h == StableOrder(keys)
            m == Cardinality(I)
            w == Arrange(table, h)
<1>1. /\ Len(table) \in Nat
      /\ \A i \in 1..Len(table) : table[i].at \in Nat /\ table[i].watts \in Nat
  BY TableFields
<1>2. /\ I \in SUBSET (1..Len(table))
      /\ \A i \in I : start <= table[i].at /\ table[i].at < end
  BY DEF Selected
<1>3. IsFiniteSet(1..Len(table)) /\ 1..Len(table) \in SUBSET Nat
  BY <1>1, Indices
<1>. HIDE DEF I
<1>4. I \in SUBSET Nat /\ IsFiniteSet(I) /\ keys \in [I -> Int]
  <2>1. I \in SUBSET Nat /\ IsFiniteSet(I)
    BY <1>2, <1>3, FS_Subset
  <2>2. \A i \in I : table[i].at \in Int
    BY <1>1, <1>2
  <2>. QED
    BY <2>1, <2>2
<1>5. /\ m \in Nat /\ h \in [1..m -> I]
      /\ \A j, k \in 1..m : h[j] = h[k] => j = k
      /\ \A i \in I : \E k \in 1..m : h[k] = i
  <2>. HIDE DEF keys
  <2>. QED
    BY <1>4, OrdersSort
<1>. HIDE DEF h, m
<1>6. w = [k \in 1..m |-> table[h[k]]]
  BY <1>5 DEF Arrange
<1>7. \A k \in 1..m : h[k] \in I /\ h[k] \in 1..Len(table) /\ table[h[k]] \in Samples
  <2>1. \A k \in 1..m : h[k] \in I
    BY <1>5
  <2>2. \A i \in 1..Len(table) : table[i] \in Samples
    OBVIOUS
  <2>. QED
    BY <1>2, <2>1, <2>2
<1>8. Len(w) = m /\ \A k \in 1..m : w[k] = table[h[k]]
  <2>1. m \in Nat
    BY <1>5
  <2>2. w \in Seq(Samples) /\ Len(w) = m
    BY <1>6, <1>7, <2>1
  <2>. QED
    BY <1>6, <2>2
<1>. HIDE DEF w
<1>9. InTheWindow(w, start, end)
  <2>1. Len(w) \in Nat
    BY <1>5, <1>8
  <2>2. ASSUME NEW k \in 1..Len(w)
        PROVE  /\ w[k].at \in Nat /\ w[k].watts \in Nat /\ start <= w[k].at /\ w[k].at < end
    <3>1. w[k] = table[h[k]] /\ h[k] \in I /\ h[k] \in 1..Len(table)
      BY <1>7, <1>8
    <3>. QED
      BY <1>1, <1>2, <3>1
  <2>. QED
    BY <2>1, <2>2 DEF InTheWindow
<1>10. h \in Bijection(1..Len(w), I)
  BY <1>5, <1>8 DEF Bijection, Injection, IsInjective, Surjection
<1>11. \E g \in Bijection(1..Len(w), I) : \A k \in 1..Len(w) : w[k] = table[g[k]]
  BY <1>8, <1>10
<1>12. TelemetryWindow(table, d, start, end) = w
  BY DEF TelemetryWindow, w, h, I
<1>. QED
  BY <1>9, <1>11, <1>12 DEF I

\* The measurements of a list between two instants.
Between(s, from, to) == {i \in 1..Len(s) : from <= s[i].at /\ s[i].at < to}

\* Counting in the result of the query is counting in the table.
LEMMA WindowCounts ==
    ASSUME table \in Seq(Samples), NEW d, NEW start \in Nat, NEW end \in Nat,
           NEW from \in Nat, NEW to \in Nat, start <= from, to <= end,
           NEW w, w = TelemetryWindow(table, d, start, end)
    PROVE  Cardinality(Between(w, from, to)) = Cardinality(Selected(table, d, from, to))
<1>. DEFINE I == Selected(table, d, start, end)
            J == 1..Len(w)
            D == {i \in J : from <= w[i].at /\ w[i].at < to}
            E == {i \in 1..Len(table) : /\ table[i].device = d
                                        /\ from <= table[i].at /\ table[i].at < to}
<1>1. InTheWindow(w, start, end)
  BY WindowRows
<1>2. PICK h \in Bijection(J, I) : \A k \in J : w[k] = table[h[k]]
  BY WindowRows
<1>3. /\ h \in [J -> I] /\ \A x, y \in J : h[x] = h[y] => x = y
      /\ \A y \in I : \E x \in J : h[x] = y
  <2>. HIDE DEF I, J
  <2>. QED
    BY <1>2 DEF Bijection, Injection, IsInjective, Surjection
<1>4. \A i \in 1..Len(table) : table[i].at \in Nat
  BY TableFields
<1>5. \A i : i \in I <=> i \in 1..Len(table) /\ table[i].device = d
                         /\ start <= table[i].at /\ table[i].at < end
  BY DEF Selected
<1>6. IsFiniteSet(J)
  BY <1>1, Indices DEF InTheWindow
<1>7. \A i : i \in E <=> i \in 1..Len(table) /\ table[i].device = d
                         /\ from <= table[i].at /\ table[i].at < to
  OBVIOUS
<1>8. \A i \in E : i \in I
  BY <1>4, <1>5, <1>7
<1>9. D \in SUBSET J /\ \A i \in J : i \in D <=> from <= w[i].at /\ w[i].at < to
  OBVIOUS
<1>. HIDE DEF I, J, D, E
<1>10. ASSUME NEW i \in J PROVE i \in D <=> h[i] \in E
  <2>1. h[i] \in I /\ w[i] = table[h[i]]
    BY <1>2, <1>3
  <2>. QED
    BY <1>5, <1>7, <1>9, <2>1
<1>. DEFINE g == [i \in D |-> h[i]]
<1>11. g \in [D -> E] /\ \A i \in D : g[i] = h[i]
  BY <1>9, <1>10
<1>12. \A x, y \in D : g[x] = g[y] => x = y
  BY <1>3, <1>9
<1>13. \A y \in E : \E x \in D : g[x] = y
  BY <1>3, <1>8, <1>10
<1>. HIDE DEF g
<1>14. ExistsBijection(D, E)
  BY <1>11, <1>12, <1>13
     DEF ExistsBijection, Bijection, Injection, IsInjective, Surjection
<1>15. IsFiniteSet(D)
  BY <1>6, <1>9, FS_Subset
<1>16. Cardinality(D) = Cardinality(E)
  BY <1>14, <1>15, FS_Bijection
<1>. QED
  BY <1>16 DEF D, E, J, Between, Selected

\* The buckets of a window are exact.
LEMMA WindowIsExact ==
    ASSUME table \in Seq(Samples), NEW d, NEW start \in Nat, NEW end \in Nat,
           NEW step \in Nat \ {0}, start < end
    PROVE  WindowExact(d, start, end, step)
<1>. DEFINE b == Buckets(d, start, end, step)
            sum == DeviceSummary(d, start, end)
            w == TelemetryWindow(table, d, start, end)
            N == BucketCount(start, end, step)
            mine(k) == InBucket(w, start, end, step, k)
            total(k) == Total(w, mine(k))
            low(k) == Low(w, mine(k))
            peak(k) == Peak(w, mine(k))
            all == Total(w, 1..Len(w))
            top == Peak(w, 1..Len(w))
<1>3. InTheWindow(w, start, end)
  BY WindowRows
<1>4. b = Bucketize(w, start, end, step)
  BY DEF Buckets
<1>5. sum.samples = Len(w) /\ sum.total = all /\ sum.peak = top
  <2>1. sum = [samples |-> Len(w), total |-> all, peak |-> top]
    BY DEF DeviceSummary, Summarize
  <2>. HIDE DEF w, all, top, sum
  <2>. QED
    BY <2>1
<1>. HIDE DEF b, w, sum
<1>6. /\ Len(b) = N /\ b # <<>>
      /\ \A k \in 1..N :
            /\ b[k].start = From(start, step, k) /\ b[k].end = To(start, end, step, k)
            /\ b[k].samples = Cardinality(mine(k)) /\ b[k].total = total(k)
            /\ b[k].min = low(k) /\ b[k].max = peak(k)
  BY <1>4, BucketFields
<1>7. N \in Nat \ {0}
  BY BucketsReach
<1>8. /\ SumOf([k \in 1..N |-> Cardinality(mine(k))]) = Len(w)
      /\ SumOf([k \in 1..N |-> total(k)]) = all
      /\ Max({peak(k) : k \in 1..N}) = top
  <2>1. /\ SumOf(Sizes(w, start, end, step)) = Len(w)
        /\ SumOf(Totals(w, start, end, step)) = Total(w, 1..Len(w))
        /\ Max(Peaks(w, start, end, step)) = Peak(w, 1..Len(w))
    BY <1>3, BucketsAddUp
  <2>. QED
    BY <2>1, Zenon DEF Sizes, Totals, Peaks
<1>9. \A k \in 1..N : /\ mine(k) \in SUBSET (1..Len(w)) /\ mine(k) \in SUBSET Nat
                      /\ IsFiniteSet(mine(k))
  BY <1>3, BucketParts
<1>10. ASSUME NEW k \in 1..N
       PROVE  low(k) * Cardinality(mine(k)) <= total(k) /\ total(k) <= peak(k) * Cardinality(mine(k))
  <2>1. mine(k) \in SUBSET Nat /\ IsFiniteSet(mine(k)) /\ \A i \in mine(k) : w[i].watts \in Nat
    BY <1>3, <1>9 DEF InTheWindow
  <2>. HIDE DEF mine
  <2>. QED
    BY <2>1, BucketMeans
<1>11. ASSUME NEW k \in 1..N
       PROVE  /\ From(start, step, k) < To(start, end, step, k)
              /\ k = 1 => From(start, step, k) = start
              /\ k > 1 => From(start, step, k) = To(start, end, step, k - 1)
              /\ k = N => To(start, end, step, k) = end
              /\ Cardinality(mine(k)) = Cardinality({i \in 1..Len(table) :
                    /\ table[i].device = d /\ From(start, step, k) <= table[i].at
                    /\ table[i].at < To(start, end, step, k)})
  <2>. DEFINE from == From(start, step, k)
              to == To(start, end, step, k)
  <2>1. /\ from \in Nat /\ to \in Nat /\ start <= from /\ to <= end /\ from < to
        /\ k = 1 => from = start
        /\ k > 1 => from = To(start, end, step, k - 1)
        /\ k = N => to = end
        /\ \A at \in Nat : start <= at /\ at < end =>
              ((at - start) \div step = k - 1 <=> from <= at /\ at < to)
    BY BucketBorders
  <2>. HIDE DEF from, to
  <2>2. mine(k) = {i \in 1..Len(w) : from <= w[i].at /\ w[i].at < to}
    <3>1. \A i \in 1..Len(w) : w[i].at \in Nat /\ start <= w[i].at /\ w[i].at < end
      BY <1>3 DEF InTheWindow
    <3>2. \A i \in 1..Len(w) : (w[i].at - start) \div step = k - 1
                                  <=> from <= w[i].at /\ w[i].at < to
      BY <2>1, <3>1
    <3>. QED
      BY <3>1, <3>2 DEF InBucket
  <2>3. Cardinality({i \in 1..Len(w) : from <= w[i].at /\ w[i].at < to})
          = Cardinality({i \in 1..Len(table) :
               /\ table[i].device = d /\ from <= table[i].at /\ table[i].at < to})
    <3>1. Cardinality(Between(w, from, to)) = Cardinality(Selected(table, d, from, to))
      BY <2>1, WindowCounts DEF w
    <3>. QED
      BY <3>1 DEF Between, Selected
  <2>4. Cardinality(mine(k)) = Cardinality({i \in 1..Len(table) :
               /\ table[i].device = d /\ from <= table[i].at /\ table[i].at < to})
    BY <2>2, <2>3
  <2>. QED
    BY <2>1, <2>4 DEF from, to
<1>. HIDE DEF N, mine, total, low, peak, all, top
<1>12. b[1].start = start /\ b[Len(b)].end = end
  <2>1. 1 \in 1..N /\ N \in 1..N
    BY <1>7
  <2>. QED
    BY <1>6, <1>11, <2>1
<1>13. ASSUME NEW k \in 1..N
       PROVE  /\ b[k].start < b[k].end
              /\ k > 1 => b[k].start = b[k - 1].end
              /\ b[k].samples = Cardinality({i \in 1..Len(table) :
                    /\ table[i].device = d
                    /\ b[k].start <= table[i].at /\ table[i].at < b[k].end})
              /\ b[k].min * b[k].samples <= b[k].total
              /\ b[k].total <= b[k].max * b[k].samples
  <2>1. /\ b[k].start = From(start, step, k) /\ b[k].end = To(start, end, step, k)
        /\ b[k].samples = Cardinality(mine(k)) /\ b[k].total = total(k)
        /\ b[k].min = low(k) /\ b[k].max = peak(k)
    BY <1>6
  <2>2. k > 1 => b[k].start = b[k - 1].end
    <3>1. k > 1 => k - 1 \in 1..N
      BY <1>7
    <3>. QED
      BY <1>6, <1>11, <2>1, <3>1
  <2>3. b[k].samples = Cardinality({i \in 1..Len(table) :
                    /\ table[i].device = d
                    /\ b[k].start <= table[i].at /\ table[i].at < b[k].end})
    BY <1>11, <2>1
  <2>4. b[k].min * b[k].samples <= b[k].total /\ b[k].total <= b[k].max * b[k].samples
    BY <1>10, <2>1
  <2>. QED
    BY <1>11, <2>1, <2>2, <2>3, <2>4
<1>14. /\ SumOf([k \in 1..N |-> b[k].samples]) = sum.samples
       /\ SumOf([k \in 1..N |-> b[k].total]) = sum.total
       /\ Max({b[k].max : k \in 1..N}) = sum.peak
  <2>1. [k \in 1..N |-> b[k].samples] = [k \in 1..N |-> Cardinality(mine(k))]
    BY <1>6
  <2>2. [k \in 1..N |-> b[k].total] = [k \in 1..N |-> total(k)]
    BY <1>6
  <2>3. {b[k].max : k \in 1..N} = {peak(k) : k \in 1..N}
    BY <1>6
  <2>. QED
    BY <1>5, <1>8, <2>1, <2>2, <2>3
<1>15. Len(b) = N /\ b # <<>>
  BY <1>6
<1>. QED
  BY <1>12, <1>13, <1>14, <1>15, Zenon DEF b, sum, WindowExact

\* The buckets of every window are exact.
LEMMA BucketsAreExact ==
    ASSUME table \in Seq(Samples)
    PROVE  BucketsExact
<1>1. \A m \in Samples : 0..m.at + 1 \in SUBSET Nat
  BY AnalyticsAssumption
<1>2. Times \in SUBSET Nat
  BY <1>1 DEF Times
<1>3. \A step \in Steps : step > 0 => step \in Nat \ {0}
  BY TableFields
<1>. QED
  BY <1>2, <1>3, WindowIsExact DEF BucketsExact

\* The reports of every table are right and agree: the buckets of a window are
\* exact and add up to its summary, the energy depends neither on the order of
\* arrival nor on a cut, and percentiles are ordered.
THEOREM ReportsAlwaysAgree == AnalyticsSpec => []ReportsAgree
<1>1. AnalyticsInit => table \in Seq(Samples)
  BY DEF AnalyticsInit
<1>2. ASSUME table \in Seq(Samples), [AddSample]_table PROVE (table \in Seq(Samples))'
  BY <1>2 DEF AddSample
<1>3. table \in Seq(Samples) => ReportsAgree
  BY BucketsAreExact, EnergyAdds, PercentilesExact DEF ReportsAgree
<1>. QED
  BY <1>1, <1>2, <1>3, PTL DEF AnalyticsSpec
=============================================================================
