---------------------------- MODULE NumberLemmas ----------------------------
(* Facts about natural numbers that the proof modules share.               *)
EXTENDS Naturals, FiniteSetTheorems, WellFoundedInduction, TLAPS

\* Every non-empty set of naturals has a least element: the choice of a free
\* slot and the choice of the first run both are one.
LEMMA LeastNatural ==
    ASSUME NEW S \in SUBSET Nat, S # {}
    PROVE  \E m \in S : \A n \in S : m <= n
<1> DEFINE Less == OpToRel(<, Nat)
<1>1. PICK m \in S : \A n \in S : <<n, m>> \notin Less
  <2>1. IsWellFoundedOn(Less, Nat)
    BY NatLessThanWellFounded
  <2> HIDE DEF Less
  <2> QED
    BY <2>1, WFMin
<1>2. \A n \in S : ~(n < m)
  BY <1>1 DEF OpToRel
<1> QED
  BY <1>2

\* A non-empty set of naturals with a bound has a greatest element: the newest
\* of a store's files.
LEMMA GreatestNatural ==
    ASSUME NEW N \in Nat, NEW S \in SUBSET (0 .. N), S # {}
    PROVE  \E m \in S : \A n \in S : n <= m
<1> DEFINE T == {N - n : n \in S}
<1>1. T \in SUBSET Nat /\ T # {}
  <2>1. \A n \in S : N - n \in Nat
    OBVIOUS
  <2>2. T \in SUBSET Nat
    BY <2>1
  <2>3. PICK n \in S : TRUE
    OBVIOUS
  <2>4. N - n \in T
    OBVIOUS
  <2> QED
    BY <2>2, <2>4
<1>2. PICK t \in T : \A u \in T : t <= u
  <2> HIDE DEF T
  <2> QED
    BY <1>1, LeastNatural
<1>3. PICK m \in S : t = N - m
  BY <1>2
<1>4. ASSUME NEW n \in S PROVE n <= m
  <2>1. N - m <= N - n
    BY <1>2, <1>3
  <2>2. n \in 0 .. N /\ m \in 0 .. N
    OBVIOUS
  <2> QED
    BY <2>1, <2>2
<1> QED
  BY <1>4

-----------------------------------------------------------------------------
(* Sums over a finite set, whichever way the elements are taken.           *)

\* The element a sum takes next.
One(T) == CHOOSE x \in T : TRUE

\* g has the sum of f over every part of S.
Sums(g, f, S) ==
    g = [T \in SUBSET S |-> IF T = {} THEN 0 ELSE f[One(T)] + g[T \ {One(T)}]]

\* The sum of f over S.
Total(f, S) == (CHOOSE g : Sums(g, f, S))[S]

\* What is left when an element is taken.
LEMMA OneLess ==
    ASSUME NEW T, IsFiniteSet(T), NEW x \in T
    PROVE  /\ IsFiniteSet(T \ {x}) /\ Cardinality(T) \in Nat \ {0}
           /\ Cardinality(T \ {x}) = Cardinality(T) - 1
<1>1. IsFiniteSet(T \ {x}) /\ Cardinality(T \ {x}) = Cardinality(T) - 1
  BY FS_RemoveElement
<1>2. Cardinality(T) \in Nat /\ Cardinality(T) # 0
  BY FS_CardinalityType, FS_EmptySet
<1> QED
  BY <1>1, <1>2

\* g has the fold of every part of S: a part's value is a step from the value
\* of the part without the element that is picked.
Folds(g, base, pick, step, S) ==
    g = [T \in SUBSET S |-> IF T = {} THEN base ELSE step[<<g[T \ {pick[T]}], pick[T]>>]]

\* There are such folds, of a finite set.
LEMMA FoldsExist ==
    ASSUME NEW S, IsFiniteSet(S), NEW V, NEW base \in V, NEW pick, NEW step,
           \A T \in SUBSET S : T # {} => pick[T] \in T,
           \A v \in V, x \in S : step[<<v, x>>] \in V
    PROVE  \E g \in [SUBSET S -> V] : Folds(g, base, pick, step, S)
<1> DEFINE Small(n) == {T \in SUBSET S : Cardinality(T) =< n}
           Value(g, T) == IF T = {} THEN base ELSE step[<<g[T \ {pick[T]}], pick[T]>>]
           Some(n) == \E g \in [Small(n) -> V] : \A T \in Small(n) : g[T] = Value(g, T)
           Bad == {n \in Nat : ~Some(n)}
<1>1. \A T \in SUBSET S : IsFiniteSet(T) /\ Cardinality(T) \in Nat
  BY FS_Subset, FS_CardinalityType
<1>2. ASSUME NEW T \in SUBSET S, T # {}
      PROVE  /\ pick[T] \in S /\ T \ {pick[T]} \in SUBSET S
             /\ Cardinality(T) \in Nat \ {0} /\ Cardinality(T \ {pick[T]}) = Cardinality(T) - 1
  <2>1. pick[T] \in T
    BY <1>2
  <2> QED
    BY <1>1, <2>1, OneLess
<1>3. Some(0)
  <2> DEFINE g == [T \in Small(0) |-> base]
  <2>1. ASSUME NEW T \in Small(0), T # {} PROVE FALSE
    <3>1. T \in SUBSET S /\ Cardinality(T) =< 0
      OBVIOUS
    <3>2. Cardinality(T) \in Nat /\ Cardinality(T) # 0
      BY <1>2, <2>1, <3>1
    <3> QED
      BY <3>1, <3>2
  <2>2. g \in [Small(0) -> V] /\ \A T \in Small(0) : g[T] = Value(g, T)
    BY <2>1
  <2> QED
    BY <2>2
<1>4. ASSUME NEW n \in Nat, Some(n) PROVE Some(n + 1)
  <2>1. PICK g \in [Small(n) -> V] : \A T \in Small(n) : g[T] = Value(g, T)
    BY <1>4
  <2> DEFINE h == [T \in Small(n + 1) |-> Value(g, T)]
  <2>2. ASSUME NEW T \in Small(n + 1), T # {}
        PROVE  T \ {pick[T]} \in Small(n) /\ pick[T] \in S
    BY <1>2, <2>2
  <2>3. \A T \in Small(n + 1) : Value(g, T) \in V
    BY <2>1, <2>2
  <2>4. h \in [Small(n + 1) -> V]
    BY <2>3
  <2>5. Small(n) \subseteq Small(n + 1)
    BY <1>1
  <2>6. \A T \in Small(n) : h[T] = g[T]
    BY <2>1, <2>5
  <2>7. \A T \in Small(n + 1) : h[T] = Value(h, T)
    BY <2>2, <2>5, <2>6
  <2> QED
    BY <2>4, <2>7
<1> HIDE DEF Some
<1>5. \A n \in Nat : Some(n)
  <2> SUFFICES ASSUME Bad # {} PROVE FALSE
    OBVIOUS
  <2>1. PICK m \in Bad : \A n \in Bad : m <= n
    <3>1. Bad \in SUBSET Nat
      OBVIOUS
    <3> QED
      BY <3>1, LeastNatural
  <2>2. m \in Nat /\ m # 0 /\ ~Some(m)
    BY <1>3, <2>1
  <2>3. m - 1 \in Nat /\ (m - 1) + 1 = m
    BY <2>2
  <2>4. Some(m - 1)
    BY <2>1, <2>3
  <2> QED
    BY <1>4, <2>2, <2>3, <2>4
<1>6. PICK g \in [Small(Cardinality(S)) -> V] :
        \A T \in Small(Cardinality(S)) : g[T] = Value(g, T)
  BY <1>1, <1>5 DEF Some
<1>7. Small(Cardinality(S)) = SUBSET S
  BY FS_Subset, <1>1
<1>8. g \in [SUBSET S -> V] /\ g = [T \in SUBSET S |-> Value(g, T)]
  BY <1>6, <1>7
<1> QED
  BY <1>8 DEF Folds

\* There are such sums.
LEMMA SumsExist ==
    ASSUME NEW S, IsFiniteSet(S), NEW f, \A x \in S : f[x] \in Nat
    PROVE  \E g \in [SUBSET S -> Nat] : Sums(g, f, S)
<1> DEFINE pick == [T \in SUBSET S |-> One(T)]
           step == [p \in Nat \X S |-> f[p[2]] + p[1]]
<1>1. \A T \in SUBSET S : T # {} => pick[T] = One(T) /\ One(T) \in T
  BY DEF One
<1>2. \A v \in Nat, x \in S : step[<<v, x>>] = f[x] + v /\ step[<<v, x>>] \in Nat
  OBVIOUS
<1> HIDE DEF pick, step
<1>3. PICK g \in [SUBSET S -> Nat] : Folds(g, 0, pick, step, S)
  <2>1. \A T \in SUBSET S : T # {} => pick[T] \in T
    BY <1>1
  <2>2. \A v \in Nat, x \in S : step[<<v, x>>] \in Nat
    BY <1>2
  <2>3. 0 \in Nat
    OBVIOUS
  <2> QED
    BY <2>1, <2>2, <2>3, FoldsExist
<1>4. ASSUME NEW T \in SUBSET S, T # {}
      PROVE  step[<<g[T \ {pick[T]}], pick[T]>>] = f[One(T)] + g[T \ {One(T)}]
  <2>1. One(T) \in S /\ T \ {One(T)} \in SUBSET S
    BY <1>1, <1>4
  <2>2. g[T \ {One(T)}] \in Nat
    BY <2>1
  <2> QED
    BY <1>1, <1>2, <1>4, <2>1, <2>2
<1>5. \A T \in SUBSET S : g[T] = IF T = {} THEN 0 ELSE f[One(T)] + g[T \ {One(T)}]
  BY <1>3, <1>4 DEF Folds
<1> QED
  BY <1>5 DEF Sums

\* Sums of what agrees agree.
LEMMA SumsAgree ==
    ASSUME NEW S, IsFiniteSet(S), NEW R, NEW f, NEW e, NEW g, NEW h, Sums(g, f, S), Sums(h, e, R),
           S \subseteq R, \A x \in S : f[x] = e[x]
    PROVE  g[S] = h[S]
<1> DEFINE Bad == {Cardinality(T) : T \in {U \in SUBSET S : g[U] # h[U]}}
<1>1. \A T \in SUBSET S : IsFiniteSet(T) /\ Cardinality(T) \in Nat
  BY FS_Subset, FS_CardinalityType
<1> SUFFICES ASSUME Bad # {} PROVE FALSE
  OBVIOUS
<1>2. PICK m \in Bad : \A n \in Bad : m <= n
  <2>1. Bad \in SUBSET Nat
    BY <1>1
  <2> HIDE DEF Bad
  <2> QED
    BY <2>1, LeastNatural
<1>3. PICK T \in SUBSET S : g[T] # h[T] /\ m = Cardinality(T)
  BY <1>2
<1>4. T # {}
  BY <1>3 DEF Sums
<1> DEFINE x == One(T)
<1>5. x \in T
  BY <1>4 DEF One
<1> HIDE DEF x
<1>6. g[T] = f[x] + g[T \ {x}] /\ h[T] = e[x] + h[T \ {x}] /\ f[x] = e[x]
  BY <1>4, <1>5 DEF Sums, x
<1>7. Cardinality(T \ {x}) = m - 1 /\ m \in Nat
  BY <1>1, <1>3, <1>5, OneLess
<1>8. T \ {x} \in SUBSET S /\ g[T \ {x}] # h[T \ {x}]
  BY <1>3, <1>6
<1>9. Cardinality(T \ {x}) \in Bad
  BY <1>8
<1> HIDE DEF Bad
<1> QED
  BY <1>2, <1>7, <1>9

\* In g any element may be taken first.
AnyFirst(g, f, S) == \A T \in SUBSET S : \A x \in T : g[T] = f[x] + g[T \ {x}]

\* Any element may be taken first.
LEMMA SumsSplit ==
    ASSUME NEW S, IsFiniteSet(S), NEW f, \A x \in S : f[x] \in Nat,
           NEW g \in [SUBSET S -> Nat], Sums(g, f, S)
    PROVE  AnyFirst(g, f, S)
<1> DEFINE Splits(U) == \A u \in U : g[U] = f[u] + g[U \ {u}]
           Bad == {Cardinality(U) : U \in {V \in SUBSET S : ~Splits(V)}}
<1>1. \A U \in SUBSET S : IsFiniteSet(U) /\ Cardinality(U) \in Nat /\ g[U] \in Nat
  BY FS_Subset, FS_CardinalityType
<1> SUFFICES ASSUME Bad # {} PROVE FALSE
  BY DEF AnyFirst
<1>2. PICK m \in Bad : \A n \in Bad : m <= n
  <2>1. Bad \in SUBSET Nat
    BY <1>1
  <2> HIDE DEF Bad
  <2> QED
    BY <2>1, LeastNatural
<1>3. PICK U \in SUBSET S : ~Splits(U) /\ m = Cardinality(U)
  BY <1>2
<1>4. PICK u \in U : g[U] # f[u] + g[U \ {u}]
  BY <1>3
<1> DEFINE y == One(U)
<1>5. y \in U
  BY <1>4 DEF One
<1>6. g[U] = f[y] + g[U \ {y}]
  BY <1>4 DEF Sums
<1> HIDE DEF y
<1>7. y # u
  BY <1>4, <1>6
<1>8. ASSUME NEW z \in U PROVE Splits(U \ {z})
  <2>1. Cardinality(U \ {z}) = m - 1 /\ m \in Nat /\ U \ {z} \in SUBSET S
    BY <1>1, <1>3, OneLess
  <2>2. Cardinality(U \ {z}) \notin Bad
    <3> HIDE DEF Bad
    <3> QED
      BY <1>2, <2>1
  <2> QED
    BY <2>1, <2>2
<1>9. g[U \ {y}] = f[u] + g[(U \ {y}) \ {u}] /\ g[U \ {u}] = f[y] + g[(U \ {u}) \ {y}]
  BY <1>5, <1>7, <1>8
<1>10. (U \ {y}) \ {u} = (U \ {u}) \ {y}
  OBVIOUS
<1>11. f[u] \in Nat /\ f[y] \in Nat /\ g[(U \ {u}) \ {y}] \in Nat
  BY <1>1, <1>5
<1>12. g[U] = f[y] + (f[u] + g[(U \ {u}) \ {y}])
  BY <1>6, <1>9, <1>10
<1>13. f[u] + g[U \ {u}] = f[u] + (f[y] + g[(U \ {u}) \ {y}])
  BY <1>9
<1> QED
  BY <1>4, <1>11, <1>12, <1>13

\* The sum is what any sums say.
LEMMA TotalIs ==
    ASSUME NEW S, IsFiniteSet(S), NEW R, NEW f, NEW e, \A x \in S : f[x] \in Nat /\ f[x] = e[x],
           S \subseteq R, NEW h, Sums(h, e, R)
    PROVE  Total(f, S) = h[S]
<1>1. \E g : Sums(g, f, S)
  BY SumsExist
<1> DEFINE g == CHOOSE g : Sums(g, f, S)
<1>2. Sums(g, f, S) /\ Total(f, S) = g[S]
  BY <1>1 DEF Total
<1> HIDE DEF g
<1> QED
  BY <1>2, SumsAgree

\* The sum over nothing, and the sum and one more.
LEMMA TotalSplit ==
    ASSUME NEW S, IsFiniteSet(S), NEW f, \A x \in S : f[x] \in Nat
    PROVE  /\ Total(f, S) \in Nat
           /\ S = {} => Total(f, S) = 0
           /\ \A x \in S : Total(f, S) = f[x] + Total(f, S \ {x})
<1>1. PICK g \in [SUBSET S -> Nat] : Sums(g, f, S)
  BY SumsExist
<1>2. \A T \in SUBSET S : IsFiniteSet(T) /\ g[T] \in Nat
  BY <1>1, FS_Subset
<1>3. \A T \in SUBSET S : Total(f, T) = g[T]
  BY <1>1, <1>2, TotalIs
<1>4. S = {} => g[S] = 0
  BY <1>1 DEF Sums
<1>5. AnyFirst(g, f, S)
  BY <1>1, SumsSplit
<1>6. \A x \in S : g[S] = f[x] + g[S \ {x}]
  BY <1>5 DEF AnyFirst
<1> QED
  BY <1>2, <1>3, <1>4, <1>6

\* Sums of what agrees.
LEMMA TotalSame ==
    ASSUME NEW S, IsFiniteSet(S), NEW f, NEW e, \A x \in S : f[x] \in Nat /\ f[x] = e[x]
    PROVE  Total(f, S) = Total(e, S)
<1>1. PICK g \in [SUBSET S -> Nat] : Sums(g, e, S)
  BY SumsExist
<1> QED
  BY <1>1, TotalIs

\* The sum over two parts.
LEMMA TotalUnion ==
    ASSUME NEW A, NEW B, IsFiniteSet(A), IsFiniteSet(B), A \cap B = {},
           NEW f, \A x \in A \union B : f[x] \in Nat
    PROVE  Total(f, A \union B) = Total(f, A) + Total(f, B)
<1> DEFINE Adds(U) == Total(f, A \union U) = Total(f, A) + Total(f, U)
           Bad == {Cardinality(U) : U \in {V \in SUBSET B : ~Adds(V)}}
<1>1. \A U \in SUBSET B : IsFiniteSet(U) /\ Cardinality(U) \in Nat /\ IsFiniteSet(A \union U)
  BY FS_Subset, FS_CardinalityType, FS_Union
<1>2. \A U \in SUBSET B : Total(f, U) \in Nat /\ Total(f, A \union U) \in Nat /\ Total(f, A) \in Nat
  BY <1>1, TotalSplit
<1> SUFFICES ASSUME Bad # {} PROVE FALSE
  OBVIOUS
<1>3. PICK m \in Bad : \A n \in Bad : m <= n
  <2>1. Bad \in SUBSET Nat
    BY <1>1
  <2> HIDE DEF Bad
  <2> QED
    BY <2>1, LeastNatural
<1>4. PICK U \in SUBSET B : ~Adds(U) /\ m = Cardinality(U)
  BY <1>3
<1>5. U # {}
  <2> SUFFICES ASSUME U = {} PROVE FALSE
    OBVIOUS
  <2>1. Total(f, U) = 0 /\ A \union U = A
    BY <1>1, TotalSplit
  <2> QED
    BY <1>2, <1>4, <2>1
<1>6. PICK u \in U : TRUE
  BY <1>5
<1>7. Total(f, U) = f[u] + Total(f, U \ {u})
  BY <1>1, <1>6, TotalSplit
<1>8. Total(f, A \union U) = f[u] + Total(f, A \union (U \ {u}))
  <2>1. (A \union U) \ {u} = A \union (U \ {u})
    BY <1>6
  <2>2. /\ IsFiniteSet(A \union U) /\ u \in A \union U
        /\ \A x \in A \union U : f[x] \in Nat
    BY <1>1, <1>6
  <2>3. Total(f, A \union U) = f[u] + Total(f, (A \union U) \ {u})
    BY <2>2, TotalSplit
  <2> QED
    BY <2>1, <2>3
<1>9. Adds(U \ {u})
  <2>1. Cardinality(U \ {u}) = m - 1 /\ m \in Nat /\ U \ {u} \in SUBSET B
    BY <1>1, <1>4, <1>6, OneLess
  <2>2. Cardinality(U \ {u}) \notin Bad
    <3> HIDE DEF Bad
    <3> QED
      BY <1>3, <2>1
  <2> QED
    BY <2>1, <2>2
<1>10. f[u] \in Nat /\ U \ {u} \in SUBSET B
  BY <1>6
<1> HIDE DEF Bad
<1> QED
  BY <1>2, <1>4, <1>7, <1>8, <1>9, <1>10

\* Nothing counted comes to nothing.
LEMMA TotalZero ==
    ASSUME NEW S, IsFiniteSet(S), NEW f, \A x \in S : f[x] = 0
    PROVE  Total(f, S) = 0
<1> DEFINE g == [T \in SUBSET S |-> 0]
<1>1. \A T \in SUBSET S : T # {} => One(T) \in S /\ f[One(T)] = 0 /\ g[T \ {One(T)}] = 0
  BY DEF One
<1>2. Sums(g, f, S)
  BY <1>1 DEF Sums
<1>3. g[S] = 0
  OBVIOUS
<1> HIDE DEF g
<1> QED
  BY <1>2, <1>3, TotalIs
=============================================================================
