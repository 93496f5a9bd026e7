---------------------------- MODULE DataLemmas ----------------------------
(***************************************************************************)
(* Induction for the provers at hand.  A theorem about an operator P(_)    *)
(* cannot be applied by them, one about a set can: induction is stated     *)
(* here over the set of the numbers, or of the sets, that have a property, *)
(* and recursion over a function that holds the step.                      *)
(***************************************************************************)
EXTENDS Sorting, Integers, WellFoundedInduction, FiniteSetTheorems, TLAPS

(* Numbers have a least element.                                            *)
LEMMA LeastNumber ==
  ASSUME NEW S \in SUBSET Nat, S # {}
  PROVE  \E n \in S : \A m \in S : n <= m
<1> DEFINE R == {ss \in Nat \X Nat : ss[1] < ss[2]}
<1>1. IsWellFoundedOn(R, Nat)
  BY NatLessThanWellFounded DEF OpToRel
<1> HIDE DEF R
<1>2. PICK n \in S : \A m \in S : ~ (<<m, n>> \in R)
  BY <1>1, WFMin
<1>3. \A m \in S : ~ (m < n)
  BY <1>2 DEF R
<1> QED BY <1>3

(* A set that holds zero and every successor holds the naturals.            *)
LEMMA NatSetInduction ==
  ASSUME NEW S, 0 \in S, \A n \in Nat : n \in S => n + 1 \in S
  PROVE  Nat \subseteq S
<1> SUFFICES ASSUME Nat \ S # {} PROVE FALSE
  OBVIOUS
<1>1. PICK n \in Nat \ S : \A m \in Nat \ S : n <= m
  BY LeastNumber
<1>2. n # 0 /\ n - 1 \in Nat /\ n - 1 \in S
  BY <1>1
<1> QED BY <1>1, <1>2

(* The same up to a bound.                                                  *)
LEMMA UpToInduction ==
  ASSUME NEW N \in Nat, NEW S, 0 \in S, \A n \in 1 .. N : n - 1 \in S => n \in S
  PROVE  0 .. N \subseteq S
<1> DEFINE T == S \cup {n \in Nat : n > N}
<1>1. 0 \in T
  OBVIOUS
<1>2. \A n \in Nat : n \in T => n + 1 \in T
  <2> SUFFICES ASSUME NEW n \in Nat, n \in T PROVE n + 1 \in T
    OBVIOUS
  <2>1. CASE n + 1 <= N
    <3>1. n \in S /\ n + 1 \in 1 .. N /\ (n + 1) - 1 = n
      BY <2>1
    <3> QED
      BY <3>1
  <2>2. CASE ~(n + 1 <= N)
    BY <2>2
  <2> QED
    BY <2>1, <2>2
<1> HIDE DEF T
<1>3. Nat \subseteq T
  BY <1>1, <1>2, NatSetInduction
<1> QED BY <1>3 DEF T

(* A function that begins at base and goes on by step.                      *)
Iterates(f, N, base, step) ==
  f[0] = base /\ \A n \in 1 .. N : f[n] = step[<<n, f[n - 1]>>]

(* Recursion up to a bound: there is such a function.                       *)
LEMMA RecursionExists ==
  ASSUME NEW N \in Nat, NEW V, NEW base \in V,
         NEW D, D = (1 .. N) \X V, NEW step \in [D -> V]
  PROVE  \E f \in [0 .. N -> V] : Iterates(f, N, base, step)
<1>1. step \in [(1 .. N) \X V -> V]
  OBVIOUS
<1> DEFINE Good(m, f) == f[0] = base /\ \A n \in 1 .. m : f[n] = step[<<n, f[n - 1]>>]
           S == {m \in 0 .. N : \E f \in [0 .. m -> V] : Good(m, f)}
<1>2. 0 \in S
  <2> DEFINE g == [i \in 0 .. 0 |-> base]
  <2>1. g \in [0 .. 0 -> V] /\ g[0] = base
    OBVIOUS
  <2>2. 1 .. 0 = {} /\ 0 \in 0 .. N
    OBVIOUS
  <2> HIDE DEF g
  <2>3. Good(0, g)
    BY <2>1, <2>2
  <2> QED
    BY <2>1, <2>2, <2>3
<1>3. ASSUME NEW m \in 1 .. N, m - 1 \in S PROVE m \in S
  <2>1. PICK f \in [0 .. m - 1 -> V] : Good(m - 1, f)
    BY <1>3
  <2> DEFINE g == [i \in 0 .. m |-> IF i = m THEN step[<<m, f[m - 1]>>] ELSE f[i]]
  <2>2. f[m - 1] \in V /\ m \in Nat
    OBVIOUS
  <2>3. step[<<m, f[m - 1]>>] \in V
    BY <2>2
  <2>4. g \in [0 .. m -> V] /\ g[m] = step[<<m, f[m - 1]>>] /\ \A i \in 0 .. m - 1 : g[i] = f[i]
    BY <2>2, <2>3
  <2> HIDE DEF g
  <2>5. g[0] = base
    BY <2>1, <2>2, <2>4
  <2>6. ASSUME NEW n \in 1 .. m PROVE g[n] = step[<<n, g[n - 1]>>]
    <3>1. CASE n = m
      BY <2>2, <2>4, <3>1, SMTT(30)
    <3>2. CASE n # m
      <4>1. n \in 0 .. m - 1 /\ n - 1 \in 0 .. m - 1 /\ n \in 1 .. m - 1
        BY <3>2
      <4> QED
        BY <2>1, <2>4, <4>1
    <3> QED
      BY <3>1, <3>2
  <2> QED
    BY <2>4, <2>5, <2>6
<1> HIDE DEF S
<1>4. 0 .. N \subseteq S
  BY <1>2, <1>3, UpToInduction
<1> QED BY <1>4 DEF S, Iterates

(* A choice of an element of every subset of W but the empty one.           *)
Picks(pick, W) == \A s \in SUBSET W : s # {} => pick[s] \in s

(* Induction over the subsets of a finite set that takes one element away   *)
(* at a time, the one that is picked.                                       *)
LEMMA PickInduction ==
  ASSUME NEW W, IsFiniteSet(W), NEW pick, Picks(pick, W),
         NEW F, {} \in F, \A s \in SUBSET W : s # {} /\ s \ {pick[s]} \in F => s \in F
  PROVE  SUBSET W \subseteq F
<1> USE DEF Picks
<1> DEFINE N == {n \in Nat : \A s \in SUBSET W : Cardinality(s) = n => s \in F}
<1>1. \A s \in SUBSET W : IsFiniteSet(s) /\ Cardinality(s) \in Nat
  BY FS_Subset, FS_CardinalityType
<1>2. 0 \in N
  BY <1>1, FS_EmptySet
<1>3. ASSUME NEW n \in Nat, n \in N PROVE n + 1 \in N
  <2> SUFFICES ASSUME NEW s \in SUBSET W, Cardinality(s) = n + 1 PROVE s \in F
    OBVIOUS
  <2>1. s # {} /\ IsFiniteSet(s)
    BY <1>1, FS_EmptySet
  <2>2. Cardinality(s \ {pick[s]}) = n
    <3>1. Cardinality(s \ {pick[s]}) = Cardinality(s) - 1
      BY <2>1, FS_RemoveElement
    <3> QED
      BY <3>1
  <2>3. s \ {pick[s]} \in F
    BY <1>3, <2>2
  <2> QED
    BY <2>1, <2>3
<1> HIDE DEF N
<1>4. Nat \subseteq N
  BY <1>2, <1>3, NatSetInduction
<1> QED BY <1>1, <1>4 DEF N

(* f is defined by recursion that goes the same way.                        *)
Recurs(f, W, pick, base, step) ==
  /\ f[{}] = base
  /\ \A s \in SUBSET W : s # {} => f[s] = step[<<pick[s], f[s \ {pick[s]}]>>]

(* There is such a function, for any base and step.                         *)
LEMMA PickRecursion ==
  ASSUME NEW W, IsFiniteSet(W), NEW pick, Picks(pick, W),
         NEW V, NEW base \in V, NEW D, D = W \X V, NEW step \in [D -> V]
  PROVE  \E f \in [SUBSET W -> V] : Recurs(f, W, pick, base, step)
<1> USE DEF Picks
<1> DEFINE Small(n) == {s \in SUBSET W : Cardinality(s) <= n}
           Good(n, f) == f[{}] = base /\ \A s \in Small(n) : s # {} =>
                                           f[s] = step[<<pick[s], f[s \ {pick[s]}]>>]
           S == {n \in Nat : \E f \in [Small(n) -> V] : Good(n, f)}
<1>1. \A s \in SUBSET W : IsFiniteSet(s) /\ Cardinality(s) \in Nat
  BY FS_Subset, FS_CardinalityType
<1>2. ASSUME NEW n \in Nat, NEW s \in Small(n + 1), s # {} PROVE s \ {pick[s]} \in Small(n) /\ pick[s] \in W
  <2>1. pick[s] \in s /\ IsFiniteSet(s)
    BY <1>1, <1>2
  <2>2. Cardinality(s \ {pick[s]}) = Cardinality(s) - 1
    BY <2>1, FS_RemoveElement
  <2> QED
    BY <1>1, <2>1, <2>2
<1>3. Small(0) = {{}}
  <2>1. \A s \in SUBSET W : Cardinality(s) <= 0 => s = {}
    BY <1>1, FS_EmptySet
  <2>2. {} \in Small(0)
    BY FS_EmptySet
  <2> QED
    BY <2>1, <2>2
<1>4. 0 \in S
  <2> DEFINE g == [s \in {{}} |-> base]
  <2>1. g \in [{{}} -> V] /\ g[{}] = base
    OBVIOUS
  <2> HIDE DEF g
  <2> QED
    BY <1>3, <2>1
<1>5. ASSUME NEW n \in Nat, n \in S PROVE n + 1 \in S
  <2>1. PICK f \in [Small(n) -> V] : Good(n, f)
    BY <1>5
  <2> DEFINE g == [s \in Small(n + 1) |-> IF s \in Small(n) THEN f[s]
                                          ELSE step[<<pick[s], f[s \ {pick[s]}]>>]]
  <2>2. {} \in Small(n) /\ \A s \in Small(n) : s \in Small(n + 1)
    BY <1>1, FS_EmptySet
  <2>3. \A s \in Small(n + 1) : g[s] \in V
    <3> SUFFICES ASSUME NEW s \in Small(n + 1) PROVE g[s] \in V
      OBVIOUS
    <3>1. CASE s \in Small(n)
      BY <3>1
    <3>2. CASE s \notin Small(n)
      <4>1. s # {}
        BY <2>2, <3>2
      <4>2. s \ {pick[s]} \in Small(n) /\ pick[s] \in W
        BY <1>2, <4>1
      <4>3. f[s \ {pick[s]}] \in V
        BY <4>2
      <4> QED
        BY <3>2, <4>2, <4>3
    <3> QED
      BY <3>1, <3>2
  <2>4. /\ g \in [Small(n + 1) -> V]
        /\ \A s \in Small(n) : g[s] = f[s]
        /\ \A s \in Small(n + 1) : s \notin Small(n) => g[s] = step[<<pick[s], f[s \ {pick[s]}]>>]
    BY <2>2, <2>3
  <2> HIDE DEF g, Small
  <2>5. g[{}] = base
    BY <2>1, <2>2, <2>4
  <2>6. ASSUME NEW s \in Small(n + 1), s # {} PROVE g[s] = step[<<pick[s], g[s \ {pick[s]}]>>]
    <3>1. g[s \ {pick[s]}] = f[s \ {pick[s]}]
      BY <1>2, <2>4, <2>6
    <3> QED
      BY <2>1, <2>4, <2>6, <3>1
  <2>7. Good(n + 1, g)
    BY <2>5, <2>6
  <2>8. n + 1 \in Nat
    OBVIOUS
  <2> QED
    BY <2>4, <2>7, <2>8
<1> HIDE DEF S
<1>6. Cardinality(W) \in S
  <2>1. Nat \subseteq S
    BY <1>4, <1>5, NatSetInduction
  <2> QED
    BY <1>1, <2>1
<1>7. Small(Cardinality(W)) = SUBSET W
  <2>1. \A s \in SUBSET W : Cardinality(s) <= Cardinality(W)
    BY FS_Subset
  <2> QED
    BY <2>1
<1>8. PICK f \in [SUBSET W -> V] : Good(Cardinality(W), f)
  BY <1>6, <1>7 DEF S
<1>9. Recurs(f, W, pick, base, step)
  BY <1>7, <1>8 DEF Recurs
<1> QED
  BY <1>9

-----------------------------------------------------------------------------
(* The elements of S before x.                                              *)
Before(x, S, R) == {y \in S : <<y, x>> \in R}

(* Sorting: the elements before one are fewer the earlier it is.            *)
LEMMA FewerBefore ==
  ASSUME NEW S, IsFiniteSet(S), NEW R, Orders(R, S)
  PROVE  /\ \A x \in S : Cardinality(Before(x, S, R)) \in 0 .. Cardinality(S) - 1
         /\ \A x, y \in S : <<x, y>> \in R =>
              Cardinality(Before(x, S, R)) < Cardinality(Before(y, S, R))
<1>1. \A T \in SUBSET S : IsFiniteSet(T) /\ Cardinality(T) \in Nat
  BY FS_Subset, FS_CardinalityType
<1>2. ASSUME NEW T \in SUBSET S, NEW x \in S \ T, NEW B \in SUBSET T
      PROVE  Cardinality(B) <= Cardinality(T)
  BY <1>1, FS_Subset
<1>3. ASSUME NEW x \in S PROVE Cardinality(Before(x, S, R)) \in 0 .. Cardinality(S) - 1
  <2>1. Before(x, S, R) \in SUBSET (S \ {x})
    BY DEF Before, Orders
  <2>2. IsFiniteSet(S \ {x}) /\ Cardinality(S \ {x}) = Cardinality(S) - 1
    BY FS_RemoveElement
  <2>3. Cardinality(Before(x, S, R)) <= Cardinality(S \ {x})
    BY <2>1, <2>2, FS_Subset
  <2>4. Cardinality(Before(x, S, R)) \in Nat /\ Cardinality(S) \in Nat
    BY <1>1, <2>1
  <2> QED
    BY <2>2, <2>3, <2>4
<1>4. ASSUME NEW x \in S, NEW y \in S, <<x, y>> \in R
      PROVE  Cardinality(Before(x, S, R)) < Cardinality(Before(y, S, R))
  <2>1. Before(y, S, R) \in SUBSET S /\ x \in Before(y, S, R)
    BY <1>4 DEF Before
  <2>2. Before(x, S, R) \in SUBSET (Before(y, S, R) \ {x})
    BY <1>4 DEF Before, Orders
  <2>3. IsFiniteSet(Before(y, S, R)) /\ Cardinality(Before(y, S, R)) \in Nat
    BY <1>1, <2>1
  <2>4. /\ IsFiniteSet(Before(y, S, R) \ {x})
        /\ Cardinality(Before(y, S, R) \ {x}) = Cardinality(Before(y, S, R)) - 1
    BY <2>1, <2>3, FS_RemoveElement
  <2>5. Cardinality(Before(x, S, R)) <= Cardinality(Before(y, S, R) \ {x})
    BY <2>2, <2>4, FS_Subset
  <2>6. Cardinality(Before(x, S, R)) \in Nat
    BY <1>1, <2>1, <2>2
  <2> QED
    BY <2>3, <2>4, <2>5, <2>6
<1> QED
  BY <1>3, <1>4

(* s holds the n elements of S once each, in the order R.                   *)
IsSorting(s, n, S, R) ==
  /\ n \in Nat /\ s \in [1 .. n -> S]
  /\ \A k \in 1 .. n : Cardinality(Before(s[k], S, R)) = k - 1
  /\ \A x \in S : \E k \in 1 .. n : s[k] = x
  /\ \A i, j \in 1 .. n : i < j <=> <<s[i], s[j]>> \in R

(* so there is one element for each number of elements before it, and the   *)
(* sorted sequence holds every element once, in order.                      *)
LEMMA SortedProperties ==
  ASSUME NEW S, IsFiniteSet(S), NEW R, Orders(R, S)
  PROVE  IsSorting(SortedBy(S, R), Cardinality(S), S, R)
<1> DEFINE N == Cardinality(S)
           rank == [x \in S |-> Cardinality(Before(x, S, R))]
<1>1. N \in Nat
  BY FS_CardinalityType
<1>2. /\ \A x \in S : rank[x] = Cardinality(Before(x, S, R))
      /\ rank \in [S -> 0 .. N - 1]
      /\ \A x, y \in S : <<x, y>> \in R => rank[x] < rank[y]
  BY FewerBefore
<1> HIDE DEF rank
<1>3. \A x, y \in S : rank[x] = rank[y] => x = y
  <2> SUFFICES ASSUME NEW x \in S, NEW y \in S, rank[x] = rank[y], x # y PROVE FALSE
    OBVIOUS
  <2>1. rank[x] \in Int /\ rank[y] \in Int
    BY <1>2
  <2>2. rank[x] < rank[y] \/ rank[y] < rank[x]
    BY <1>2 DEF Orders
  <2> QED
    BY <2>1, <2>2
<1>4. rank \in Injection(S, 0 .. N - 1)
  BY <1>2, <1>3 DEF Injection, IsInjective
<1>5. IsFiniteSet(0 .. N - 1) /\ Cardinality(0 .. N - 1) = N
  BY <1>1, FS_Interval, SMTT(30)
<1>6. rank \in Surjection(S, 0 .. N - 1)
  BY <1>4, <1>5, FS_Injection
<1>7. \A m \in 0 .. N - 1 : \E x \in S : rank[x] = m
  BY <1>6 DEF Surjection
<1> DEFINE s == SortedBy(S, R)
<1>8. DOMAIN s = 1 .. N /\ \A n \in 1 .. N : s[n] \in S /\ rank[s[n]] = n - 1
  <2>1. s = [n \in 1 .. N |-> CHOOSE x \in S : Cardinality(Before(x, S, R)) = n - 1]
    BY DEF SortedBy, Before
  <2> SUFFICES ASSUME NEW n \in 1 .. N PROVE s[n] \in S /\ rank[s[n]] = n - 1
    BY <2>1
  <2>2. PICK x \in S : rank[x] = n - 1
    BY <1>1, <1>7
  <2>3. s[n] = CHOOSE y \in S : Cardinality(Before(y, S, R)) = n - 1
    BY <2>1
  <2>4. s[n] \in S /\ Cardinality(Before(s[n], S, R)) = n - 1
    BY <1>2, <2>2, <2>3
  <2> QED
    BY <1>2, <2>4
<1> HIDE DEF s
<1>9. s \in [1 .. N -> S]
  <2>1. s = [n \in 1 .. N |-> CHOOSE x \in S : Cardinality(Before(x, S, R)) = n - 1]
    BY DEF s, SortedBy, Before
  <2>2. \A n \in 1 .. N : (CHOOSE x \in S : Cardinality(Before(x, S, R)) = n - 1) \in S
    BY <1>8, <2>1
  <2> QED
    BY <2>1, <2>2
<1>10. ASSUME NEW x \in S PROVE \E n \in 1 .. N : s[n] = x
  <2>1. rank[x] + 1 \in 1 .. N /\ (rank[x] + 1) - 1 = rank[x]
    BY <1>1, <1>2
  <2>2. s[rank[x] + 1] \in S /\ rank[s[rank[x] + 1]] = rank[x]
    BY <1>8, <2>1
  <2> QED
    BY <1>3, <2>1, <2>2
<1>11. ASSUME NEW i \in 1 .. N, NEW j \in 1 .. N PROVE i < j <=> <<s[i], s[j]>> \in R
  <2>1. s[i] \in S /\ s[j] \in S /\ rank[s[i]] = i - 1 /\ rank[s[j]] = j - 1
    BY <1>8
  <2>2. CASE <<s[i], s[j]>> \in R
    <3>1. rank[s[i]] < rank[s[j]]
      BY <1>2, <2>1, <2>2
    <3> QED
      BY <2>1, <2>2, <3>1
  <2>3. CASE <<s[i], s[j]>> \notin R
    <3>1. s[i] = s[j] \/ rank[s[j]] < rank[s[i]]
      BY <1>2, <2>1, <2>3 DEF Orders
    <3>2. ~(rank[s[i]] < rank[s[j]])
      BY <2>1, <3>1
    <3> QED
      BY <2>1, <2>3, <3>2
  <2> QED
    BY <2>2, <2>3
<1>12. s \in [1 .. N -> S] /\ \A k \in 1 .. N : Cardinality(Before(s[k], S, R)) = k - 1
  BY <1>2, <1>8, <1>9
<1>13. IsSorting(s, N, S, R)
  BY <1>1, <1>10, <1>11, <1>12 DEF IsSorting
<1> QED
  BY <1>13 DEF s

(* g lists S in m places, one before the other by R.                        *)
ListsBy(g, m, S, R) ==
  /\ g \in [1 .. m -> S]
  /\ \A x \in S : \E n \in 1 .. m : g[n] = x
  /\ \A i, j \in 1 .. m : i < j => <<g[i], g[j]>> \in R

(* There is one such sequence only.                                         *)
LEMMA SortedUnique ==
  ASSUME NEW S, NEW R, Orders(R, S), NEW m \in Nat, NEW g, ListsBy(g, m, S, R)
  PROVE  IsFiniteSet(S) /\ Cardinality(S) = m /\ SortedBy(S, R) = g
<1> USE DEF ListsBy
<1>1. ASSUME NEW i \in 1 .. m, NEW j \in 1 .. m, g[i] = g[j] PROVE i = j
  <2>1. ~(i < j) /\ ~(j < i)
    BY <1>1 DEF Orders
  <2> QED
    BY <2>1
<1>2. g \in Bijection(1 .. m, S)
  BY <1>1 DEF Bijection, Injection, IsInjective, Surjection
<1>3. IsFiniteSet(1 .. m) /\ Cardinality(1 .. m) = m
  BY FS_Interval
<1>4. ExistsBijection(1 .. m, S)
  BY <1>2 DEF ExistsBijection
<1>5. IsFiniteSet(S) /\ Cardinality(S) = m
  BY <1>3, <1>4, FS_Bijection
<1>6. ASSUME NEW n \in 1 .. m PROVE Cardinality(Before(g[n], S, R)) = n - 1
  <2> DEFINE T == Before(g[n], S, R)
             h == [i \in 1 .. n - 1 |-> g[i]]
  <2>1. ASSUME NEW i \in 1 .. m PROVE g[i] \in T <=> i < n
    <3>1. CASE i < n
      BY <2>1, <3>1 DEF Before
    <3>2. CASE i = n
      BY <3>2 DEF Before, Orders
    <3>3. CASE n < i
      <4>1. <<g[n], g[i]>> \in R
        BY <3>3
      <4>2. ~(<<g[i], g[n]>> \in R)
        BY <4>1 DEF Orders
      <4> QED
        BY <3>3, <4>2 DEF Before
    <3> QED
      BY <3>1, <3>2, <3>3
  <2>2. T \subseteq S
    BY DEF Before
  <2> HIDE DEF T
  <2>3. \A i \in 1 .. n - 1 : i \in 1 .. m /\ i < n
    OBVIOUS
  <2>4. h \in [1 .. n - 1 -> T]
    BY <2>1, <2>3
  <2>5. \A i, j \in 1 .. n - 1 : h[i] = h[j] => i = j
    BY <1>1, <2>3
  <2>6. \A x \in T : \E i \in 1 .. n - 1 : h[i] = x
    <3> SUFFICES ASSUME NEW x \in T PROVE \E i \in 1 .. n - 1 : h[i] = x
      OBVIOUS
    <3>1. PICK i \in 1 .. m : g[i] = x
      BY <2>2
    <3>2. i \in 1 .. n - 1
      BY <2>1, <3>1
    <3> QED
      BY <3>1, <3>2
  <2> HIDE DEF h
  <2>7. h \in Bijection(1 .. n - 1, T)
    BY <2>4, <2>5, <2>6 DEF Bijection, Injection, IsInjective, Surjection
  <2>8. n - 1 \in Nat /\ ExistsBijection(1 .. n - 1, T)
    BY <2>7 DEF ExistsBijection
  <2> QED
    BY <2>8, FS_CountingElements DEF T
<1> DEFINE s == SortedBy(S, R)
<1>7. /\ s \in [1 .. m -> S]
      /\ \A n \in 1 .. m : Cardinality(Before(s[n], S, R)) = n - 1
  <2>1. IsSorting(s, m, S, R)
    BY <1>5, SortedProperties
  <2> QED
    BY <2>1 DEF IsSorting
<1> HIDE DEF s
<1>8. ASSUME NEW n \in 1 .. m PROVE s[n] = g[n]
  <2>1. s[n] \in S
    BY <1>7
  <2>2. PICK i \in 1 .. m : g[i] = s[n]
    BY <2>1
  <2>3. i - 1 = n - 1
    BY <1>6, <1>7, <2>2
  <2> QED
    BY <2>2, <2>3
<1>9. s = g
  BY <1>7, <1>8
<1> QED
  BY <1>5, <1>9 DEF s

(* Numbers are ordered by less-than.                                        *)
LEMMA NumbersOrdered ==
  ASSUME NEW places \in SUBSET Int
  PROVE  Orders({p \in places \X places : p[1] < p[2]}, places)
BY DEF Orders

(* The m numbers of a set in ascending order.                               *)
Lists(g, m, places) ==
  /\ g \in [1 .. m -> places]
  /\ \A x \in places : \E n \in 1 .. m : g[n] = x
  /\ \A i, j \in 1 .. m : i < j => g[i] < g[j]

(* A sequence is selected by any ascending list of its places.              *)
LEMMA SelectedBy ==
  ASSUME NEW s, NEW places \in SUBSET Int, NEW m \in Nat, NEW g, Lists(g, m, places)
  PROVE  /\ IsFiniteSet(places) /\ Cardinality(places) = m /\ Ascending(places) = g
         /\ Selected(s, places) = [n \in 1 .. m |-> s[g[n]]]
<1> DEFINE R == {p \in places \X places : p[1] < p[2]}
<1>1. Orders(R, places)
  BY NumbersOrdered
<1>2. \A i, j \in 1 .. m : i < j => <<g[i], g[j]>> \in R
  BY DEF Lists
<1> HIDE DEF R
<1>3. IsFiniteSet(places) /\ Cardinality(places) = m /\ SortedBy(places, R) = g
  <2>1. ListsBy(g, m, places, R)
    BY <1>2 DEF Lists, ListsBy
  <2> QED
    BY <1>1, <2>1, SortedUnique
<1> QED
  BY <1>3 DEF R, Ascending, Selected

(* Ascending lists every number of a finite set once, and they rise.        *)
LEMMA AscendingProperties ==
  ASSUME NEW places \in SUBSET Int, IsFiniteSet(places)
  PROVE  /\ Cardinality(places) \in Nat
         /\ Ascending(places) \in [1 .. Cardinality(places) -> places]
         /\ \A x \in places : \E n \in 1 .. Cardinality(places) : Ascending(places)[n] = x
         /\ \A i, j \in 1 .. Cardinality(places) :
              i < j => Ascending(places)[i] < Ascending(places)[j]
<1>1. PICK R : R = {p \in places \X places : p[1] < p[2]}
  OBVIOUS
<1>2. Orders(R, places)
  BY <1>1, NumbersOrdered
<1>3. PICK a : a = SortedBy(places, R)
  OBVIOUS
<1>4. /\ Cardinality(places) \in Nat
      /\ a \in [1 .. Cardinality(places) -> places]
      /\ \A x \in places : \E n \in 1 .. Cardinality(places) : a[n] = x
      /\ \A i, j \in 1 .. Cardinality(places) : i < j <=> <<a[i], a[j]>> \in R
  <2>1. IsSorting(a, Cardinality(places), places, R)
    BY <1>2, <1>3, SortedProperties
  <2> QED
    BY <2>1 DEF IsSorting
<1>5. \A i, j \in 1 .. Cardinality(places) : i < j => a[i] < a[j]
  BY <1>1, <1>4
<1>6. a = Ascending(places)
  BY <1>1, <1>3 DEF Ascending
<1> QED
  BY <1>4, <1>5, <1>6

(* log is the beginning of both.                                            *)
Begins(log, both, V) ==
  /\ log \in Seq(V) /\ both \in Seq(V) /\ Len(log) <= Len(both)
  /\ \A i \in 1 .. Len(log) : both[i] = log[i]

(* Places of the beginning select the same of both.                         *)
LEMMA SelectedInBeginning ==
  ASSUME NEW V, NEW log, NEW both, Begins(log, both, V), NEW places \in SUBSET (1 .. Len(log))
  PROVE  /\ Selected(both, places) = Selected(log, places)
         /\ Selected(log, places) \in Seq(V)
         /\ Len(Selected(log, places)) = Cardinality(places)
         /\ \A n \in 1 .. Cardinality(places) :
              /\ Ascending(places)[n] \in 1 .. Len(log)
              /\ Selected(log, places)[n] = log[Ascending(places)[n]]
<1> USE DEF Begins
<1>1. places \in SUBSET Int /\ Len(log) \in Nat
  OBVIOUS
<1>2. IsFiniteSet(places)
  <2>1. IsFiniteSet(1 .. Len(log))
    BY <1>1, FS_Interval
  <2> QED
    BY <2>1, FS_Subset
<1>3. PICK m, a : m = Cardinality(places) /\ a = Ascending(places)
  OBVIOUS
<1>4. m \in Nat /\ a \in [1 .. m -> places]
  BY <1>1, <1>2, <1>3, AscendingProperties
<1>5. \A n \in 1 .. m : a[n] \in 1 .. Len(log) /\ both[a[n]] = log[a[n]] /\ log[a[n]] \in V
  <2>1. \A n \in 1 .. m : a[n] \in 1 .. Len(log)
    BY <1>4
  <2>2. \A i \in 1 .. Len(log) : log[i] \in V
    OBVIOUS
  <2> QED
    BY <2>1, <2>2
<1>6. PICK old : old = [n \in 1 .. m |-> log[a[n]]]
  OBVIOUS
<1>7. Selected(log, places) = old /\ Selected(both, places) = old
  BY <1>3, <1>5, <1>6 DEF Selected
<1>8. old \in Seq(V) /\ Len(old) = m /\ \A n \in 1 .. m : old[n] = log[a[n]]
  BY <1>4, <1>5, <1>6
<1> QED
  BY <1>3, <1>5, <1>7, <1>8

(* What was selected grew by all that the sequence grew by.                 *)
Grew(few, more, log, both, V) ==
  /\ more \in Seq(V)
  /\ Len(more) = Len(few) + (Len(both) - Len(log))
  /\ \A n \in 1 .. Len(few) : more[n] = few[n]
  /\ \A n \in 1 .. Len(both) - Len(log) : more[Len(few) + n] = both[Len(log) + n]

(* Places of the beginning and all those behind it select the rest of both  *)
(* as well.                                                                 *)
LEMMA SelectedExtended ==
  ASSUME NEW V, NEW log, NEW both, Begins(log, both, V), NEW places \in SUBSET (1 .. Len(log)),
         NEW all, all = places \cup (Len(log) + 1) .. Len(both)
  PROVE  Grew(Selected(log, places), Selected(both, all), log, both, V)
<1>1. PICK whole : whole = all
  OBVIOUS
<1> USE DEF Begins
<1>2. PICK k \in Nat : k = Len(both) - Len(log) /\ Len(both) = Len(log) + k
  OBVIOUS
<1>3. whole = places \cup (Len(log) + 1) .. (Len(log) + k)
  BY <1>2, <1>1
<1>4. places \in SUBSET Int /\ Len(log) \in Nat
  OBVIOUS
<1>5. IsFiniteSet(places)
  <2>1. IsFiniteSet(1 .. Len(log))
    BY <1>4, FS_Interval
  <2> QED
    BY <2>1, FS_Subset
<1>6. PICK m, a : m = Cardinality(places) /\ a = Ascending(places)
  OBVIOUS
<1>7. /\ m \in Nat /\ a \in [1 .. m -> places]
      /\ \A x \in places : \E n \in 1 .. m : a[n] = x
  BY <1>4, <1>5, <1>6, AscendingProperties
<1>8. \A i, j \in 1 .. m : i < j => a[i] < a[j]
  BY <1>4, <1>5, <1>6, AscendingProperties
<1>9. \A n \in 1 .. m : a[n] \in 1 .. Len(log) /\ both[a[n]] = log[a[n]] /\ log[a[n]] \in V
  <2>1. \A n \in 1 .. m : a[n] \in 1 .. Len(log)
    BY <1>7
  <2>2. \A i \in 1 .. Len(log) : log[i] \in V
    OBVIOUS
  <2> QED
    BY <2>1, <2>2
<1>10. PICK old : old = [n \in 1 .. m |-> log[a[n]]]
  OBVIOUS
<1>11. Selected(log, places) = old /\ Selected(both, places) = old
  BY <1>6, <1>9, <1>10 DEF Selected
<1>12. /\ old \in Seq(V) /\ Len(old) = m
      /\ \A n \in 1 .. m : old[n] = both[a[n]] /\ old[n] = log[a[n]]
  BY <1>7, <1>9, <1>10
<1>13. PICK N \in Nat : N = m + k
  BY <1>7
<1>14. PICK g : g = [n \in 1 .. N |-> IF n <= m THEN a[n] ELSE Len(log) + (n - m)]
  OBVIOUS
<1>15. /\ \A n \in 1 .. m : g[n] = a[n]
       /\ \A n \in 1 .. k : g[m + n] = Len(log) + n
       /\ \A n \in 1 .. N : n \in 1 .. m \/ (n - m \in 1 .. k /\ n = m + (n - m))
       /\ DOMAIN g = 1 .. N
  BY <1>7, <1>14, <1>13
<1>16. \A n \in 1 .. N : g[n] \in whole
  <2> SUFFICES ASSUME NEW n \in 1 .. N PROVE g[n] \in whole
    OBVIOUS
  <2>1. CASE n \in 1 .. m
    <3>1. g[n] = a[n] /\ a[n] \in places
      BY <1>7, <1>15, <2>1
    <3> QED
      BY <1>3, <3>1
  <2>2. CASE n - m \in 1 .. k /\ n = m + (n - m)
    <3>1. g[n] = Len(log) + (n - m)
      BY <1>15, <2>2
    <3>2. Len(log) + (n - m) \in (Len(log) + 1) .. (Len(log) + k)
      BY <1>4, <2>2
    <3> QED
      BY <1>3, <3>1, <3>2
  <2> QED
    BY <1>15, <2>1, <2>2
<1>17. g \in [1 .. N -> whole]
  BY <1>14, <1>16
<1>18. ASSUME NEW x \in whole PROVE \E n \in 1 .. N : g[n] = x
  <2>1. CASE x \in places
    BY <1>7, <1>15, <1>13, <2>1
  <2>2. CASE x \in (Len(log) + 1) .. (Len(log) + k)
    <3>1. x - Len(log) \in 1 .. k /\ Len(log) + (x - Len(log)) = x
      BY <1>4, <2>2
    <3>2. m + (x - Len(log)) \in 1 .. N
      BY <1>4, <1>7, <1>13, <3>1
    <3>3. g[m + (x - Len(log))] = Len(log) + (x - Len(log))
      BY <1>15, <3>1
    <3> QED
      BY <3>1, <3>2, <3>3
  <2> QED
    BY <1>3, <2>1, <2>2
<1>19. ASSUME NEW i \in 1 .. N, NEW j \in 1 .. N, i < j PROVE g[i] < g[j]
  <2>1. CASE i \in 1 .. m /\ j \in 1 .. m
    BY <1>7, <1>15, <1>19, <1>8, <2>1
  <2>2. CASE i \in 1 .. m /\ j - m \in 1 .. k /\ j = m + (j - m)
    <3>1. g[i] \in 1 .. Len(log) /\ g[j] = Len(log) + (j - m)
      BY <1>9, <1>15, <2>2
    <3> QED
      BY <1>4, <1>7, <2>2, <3>1
  <2>3. CASE i - m \in 1 .. k /\ i = m + (i - m) /\ j - m \in 1 .. k /\ j = m + (j - m)
    <3>1. g[i] = Len(log) + (i - m) /\ g[j] = Len(log) + (j - m)
      BY <1>15, <2>3
    <3> QED
      BY <1>4, <1>7, <1>19, <3>1
  <2>4. ~(i - m \in 1 .. k /\ j \in 1 .. m)
    BY <1>7, <1>19
  <2> QED
    BY <1>15, <2>1, <2>2, <2>3, <2>4
<1>20. Selected(both, whole) = [n \in 1 .. N |-> both[g[n]]]
  <2>1. whole \in SUBSET Int
    <3>1. \A x \in (Len(log) + 1) .. (Len(log) + k) : x \in Int
      OBVIOUS
    <3>2. \A x \in whole : x \in Int
      BY <1>4, <1>3, <3>1
    <3> QED
      BY <3>2
  <2>2. \A i, j \in 1 .. N : i < j => g[i] < g[j]
    BY <1>19
  <2>3. \A x \in whole : \E n \in 1 .. N : g[n] = x
    BY <1>18
  <2>4. Lists(g, N, whole)
    BY <1>17, <2>2, <2>3 DEF Lists
  <2> QED
    BY <2>1, <2>4, SelectedBy
<1>21. \A n \in 1 .. N : both[g[n]] \in V
  <2>1. \A x \in whole : x \in 1 .. Len(both)
    <3>1. \A x \in (Len(log) + 1) .. (Len(log) + k) : x \in 1 .. Len(both)
      BY <1>2, <1>4
    <3>2. \A x \in 1 .. Len(log) : x \in 1 .. Len(both)
      BY <1>2, <1>4
    <3> QED
      BY <1>3, <3>1, <3>2
  <2>2. \A x \in 1 .. Len(both) : both[x] \in V
    OBVIOUS
  <2> SUFFICES ASSUME NEW n \in 1 .. N PROVE both[g[n]] \in V
    OBVIOUS
  <2>3. g[n] \in whole
    BY <1>16
  <2> QED
    BY <2>1, <2>2, <2>3
<1>22. PICK new : new = Selected(both, whole)
  OBVIOUS
<1>23. new \in Seq(V) /\ Len(new) = N /\ \A n \in 1 .. N : new[n] = both[g[n]]
  BY <1>7, <1>20, <1>21, <1>22
<1>24. \A n \in 1 .. m : n \in 1 .. N
  BY <1>7, <1>13
<1>25. \A n \in 1 .. k : m + n \in 1 .. N
  BY <1>7, <1>13
<1>26. \A n \in 1 .. m : new[n] = old[n]
  <2> SUFFICES ASSUME NEW n \in 1 .. m PROVE new[n] = old[n]
    OBVIOUS
  <2>1. new[n] = both[g[n]] /\ g[n] = a[n]
    BY <1>15, <1>23, <1>24
  <2> QED
    BY <1>12, <2>1
<1>27. \A n \in 1 .. k : new[m + n] = both[Len(log) + n]
  <2> SUFFICES ASSUME NEW n \in 1 .. k PROVE new[m + n] = both[Len(log) + n]
    OBVIOUS
  <2>1. new[m + n] = both[g[m + n]] /\ g[m + n] = Len(log) + n
    BY <1>15, <1>23, <1>25
  <2> QED
    BY <2>1
<1> QED
  BY <1>2, <1>11, <1>12, <1>22, <1>23, <1>1, <1>26, <1>27, <1>13 DEF Grew

-----------------------------------------------------------------------------
(* The elements of a list of m that holds nothing twice.                    *)
Elements(P, f, m) ==
  /\ P = {f[i] : i \in 1 .. m}
  /\ \A i, j \in 1 .. m : i # j => f[i] # f[j]

(* There are as many as it has places.                                      *)
LEMMA ElementsCounted ==
  ASSUME NEW m \in Nat, NEW f, NEW P, Elements(P, f, m)
  PROVE  IsFiniteSet(P) /\ Cardinality(P) = m
<1> USE DEF Elements
<1>1. PICK g : g = [i \in 1 .. m |-> f[i]]
  OBVIOUS
<1>2. g \in Bijection(1 .. m, P)
  BY <1>1 DEF Bijection, Injection, Surjection, IsInjective
<1>3. IsFiniteSet(1 .. m) /\ Cardinality(1 .. m) = m
  BY FS_Interval
<1>4. ExistsBijection(1 .. m, P)
  BY <1>2 DEF ExistsBijection
<1> QED
  BY <1>3, <1>4, FS_Bijection

(* A finite set of positive numbers that holds the number below each of its *)
(* numbers holds the numbers from 1.                                        *)
LEMMA ClosedNumbers ==
  ASSUME NEW P \in SUBSET (Nat \ {0}), NEW m \in Nat, IsFiniteSet(P), Cardinality(P) = m,
         \A p \in P : p - 1 \in P \cup {0}
  PROVE  P = 1 .. m
<1>1. ASSUME NEW p \in P PROVE 1 .. p \subseteq P
  <2> DEFINE S == {i \in 0 .. p : i < p => p - i \in P}
  <2>1. p \in Nat
    OBVIOUS
  <2>2. 0 \in S
    BY <2>1
  <2>3. ASSUME NEW i \in 1 .. p, i - 1 \in S PROVE i \in S
    <3>1. p - (i - 1) \in P
      BY <2>3
    <3>2. p - (i - 1) - 1 \in P \cup {0}
      BY <3>1
    <3> QED
      BY <2>1, <3>2
  <2> HIDE DEF S
  <2>4. 0 .. p \subseteq S
    BY <2>1, <2>2, <2>3, UpToInduction
  <2>5. ASSUME NEW q \in 1 .. p PROVE q \in P
    <3>1. p - q \in 0 .. p /\ p - q < p /\ p - (p - q) = q
      BY <2>1
    <3> QED
      BY <2>4, <3>1 DEF S
  <2> QED
    BY <2>5
<1>2. ASSUME NEW p \in P PROVE p \in 1 .. m
  <2>1. p \in Nat \ {0} /\ Cardinality(1 .. p) = p
    BY FS_Interval
  <2>2. Cardinality(1 .. p) <= m
    BY <1>1, FS_Subset
  <2> QED
    BY <2>1, <2>2
<1>3. IsFiniteSet(1 .. m) /\ Cardinality(1 .. m) = m
  BY FS_Interval
<1> QED
  BY <1>2, <1>3, FS_Subset

(* A list of m elements that holds the numbers from 1 to m holds nothing    *)
(* else and nothing twice.                                                  *)
LEMMA OntoNumbers ==
  ASSUME NEW m \in Nat, NEW f, \A i \in 1 .. m : \E j \in 1 .. m : f[j] = i
  PROVE  /\ \A j \in 1 .. m : f[j] \in 1 .. m
         /\ \A i, j \in 1 .. m : i # j => f[i] # f[j]
<1>1. PICK h : h = [i \in 1 .. m |-> CHOOSE j \in 1 .. m : f[j] = i]
  OBVIOUS
<1>2. h \in [1 .. m -> 1 .. m] /\ \A i \in 1 .. m : f[h[i]] = i
  BY <1>1
<1>3. h \in Injection(1 .. m, 1 .. m)
  <2>1. \A a, b \in 1 .. m : h[a] = h[b] => a = b
    BY <1>2
  <2> QED
    BY <1>2, <2>1 DEF Injection, IsInjective
<1>4. IsFiniteSet(1 .. m)
  BY FS_Interval
<1>5. h \in Surjection(1 .. m, 1 .. m)
  BY <1>3, <1>4, FS_Injection
<1>6. \A j \in 1 .. m : \E i \in 1 .. m : h[i] = j
  BY <1>5 DEF Surjection
<1>7. ASSUME NEW j \in 1 .. m PROVE f[j] \in 1 .. m /\ h[f[j]] = j
  <2>1. PICK i \in 1 .. m : h[i] = j
    BY <1>6
  <2>2. f[j] = i
    BY <1>2, <2>1
  <2> QED
    BY <2>1, <2>2
<1> QED
  BY <1>7

-----------------------------------------------------------------------------
(* What a number is divided by another, rounded down.                       *)
LEMMA Quotient ==
  ASSUME NEW d \in Nat, NEW z \in Nat \ {0}
  PROVE  d \div z \in Nat /\ (d \div z) * z <= d /\ d < (d \div z) * z + z
OBVIOUS

(* There is one such number.                                                *)
LEMMA QuotientUnique ==
  ASSUME NEW d \in Nat, NEW z \in Nat \ {0}, NEW q \in Nat, q * z <= d, d < q * z + z
  PROVE  d \div z = q
<1>1. PICK p \in Nat : p = d \div z /\ p * z <= d /\ d < p * z + z
  BY Quotient
<1>2. ASSUME NEW a \in Nat, NEW b \in Nat, a < b PROVE a * z + z <= b * z
  <2>1. PICK k \in Nat : b = a + 1 + k
    <3>1. b - a - 1 \in Nat /\ b = a + 1 + (b - a - 1)
      BY <1>2
    <3> QED
      BY <3>1
  <2>2. b * z = a * z + z + k * z /\ k * z >= 0
    BY <2>1
  <2>3. b * z \in Int /\ a * z \in Int /\ k * z \in Int
    BY <2>1
  <2> QED
    BY <2>2, <2>3
<1>3. p * z \in Int /\ q * z \in Int
  BY <1>1
<1>4. ~(p < q)
  <2>1. p < q => p * z + z <= q * z
    BY <1>1, <1>2
  <2> QED
    BY <1>1, <1>3, <2>1
<1>5. ~(q < p)
  <2>1. q < p => q * z + z <= p * z
    BY <1>1, <1>2
  <2> QED
    BY <1>1, <1>3, <2>1
<1> QED
  BY <1>1, <1>4, <1>5

(* Counting on, the quotient stays until the divisor is full.               *)
LEMMA NextQuotient ==
  ASSUME NEW d \in Nat, NEW z \in Nat \ {0}
  PROVE  /\ d + 1 < (d \div z) * z + z => (d + 1) \div z = d \div z
         /\ d + 1 >= (d \div z) * z + z => /\ (d + 1) \div z = d \div z + 1
                                          /\ ((d + 1) \div z) * z = d + 1
<1>1. PICK q \in Nat : q = d \div z /\ q * z <= d /\ d < q * z + z
  BY Quotient
<1>2. q * z \in Int /\ (q + 1) * z = q * z + z
  OBVIOUS
<1>3. d + 1 < q * z + z => (d + 1) \div z = q
  BY <1>1, <1>2, QuotientUnique, SMTT(30)
<1>4. ASSUME d + 1 >= q * z + z PROVE (d + 1) \div z = q + 1 /\ (q + 1) * z = d + 1
  <2>1. (q + 1) * z = d + 1
    BY <1>1, <1>2, <1>4
  <2>2. q + 1 \in Nat /\ (q + 1) * z <= d + 1 /\ d + 1 < (q + 1) * z + z
    BY <2>1
  <2> QED
    BY <2>1, <2>2, QuotientUnique
<1> QED
  BY <1>1, <1>3, <1>4

(* Division keeps the order.                                                *)
LEMMA QuotientRises ==
  ASSUME NEW c \in Nat, NEW d \in Nat, c <= d, NEW z \in Nat \ {0}
  PROVE  c \div z <= d \div z
<1>1. PICK q \in Nat : q = c \div z /\ q * z <= c
  BY Quotient
<1>2. PICK p \in Nat : p = d \div z /\ d < p * z + z
  BY Quotient
<1>3. ASSUME p < q PROVE FALSE
  <2>1. PICK k \in Nat : q = p + 1 + k
    <3>1. q - p - 1 \in Nat /\ q = p + 1 + (q - p - 1)
      BY <1>3
    <3> QED
      BY <3>1
  <2>2. q * z = p * z + z + k * z /\ k * z >= 0
    BY <2>1
  <2>3. q * z \in Int /\ p * z \in Int /\ k * z \in Int
    BY <2>1
  <2> QED
    BY <1>1, <1>2, <2>2, <2>3
<1> QED
  BY <1>1, <1>2, <1>3

=============================================================================
