----------------------------- MODULE SumTheorems -----------------------------
(***************************************************************************)
(* Sums of integers over finite sets: what the proofs about balances need  *)
(* to know of SumFunctionOnSet.  The sum is a recursive function that      *)
(* takes out one chosen element after the other; that it is well defined   *)
(* and does not depend on the order is proved here by descent.             *)
(***************************************************************************)
EXTENDS Functions, FiniteSetTheorems, TLAPS

------------------------------------------------------------------------------
(* Descent.                                                                *)

(* A set of naturals that holds the predecessor of each of its elements is *)
(* empty.                                                                  *)
LEMMA NatDescent ==
    ASSUME NEW Bad \in SUBSET Nat,
           \A n \in Bad : n # 0 /\ n - 1 \in Bad
    PROVE  Bad = {}
<1> SUFFICES ASSUME Bad # {} PROVE FALSE
    OBVIOUS
<1> DEFINE R == OpToRel(<, Nat)
<1>1. IsWellFoundedOn(R, Nat) /\ Bad \subseteq Nat
    BY NatLessThanWellFounded, Zenon
<1> HIDE DEF R
<1>2. PICK n \in Bad : \A m \in Bad : <<m, n>> \notin R
    BY <1>1, WFMin, Zenon
<1>3. n \in Nat /\ n # 0 /\ n - 1 \in Bad
    OBVIOUS
<1>4. n - 1 \in Nat /\ n - 1 < n
    BY <1>3
<1>5. <<n - 1, n>> \in R
    BY <1>3, <1>4 DEF R, OpToRel
<1> QED
    BY <1>2, <1>3, <1>5

(* Subsets of a finite set that lose an element and stay in the family     *)
(* for ever do not exist.                                                  *)
LEMMA SubsetDescent ==
    ASSUME NEW S, IsFiniteSet(S), NEW Bad \in SUBSET (SUBSET S),
           \A T \in Bad : \E x \in T : T \ {x} \in Bad
    PROVE  Bad = {}
<1> DEFINE K == {Cardinality(T) : T \in Bad}
<1>1. ASSUME NEW T \in Bad
      PROVE  IsFiniteSet(T) /\ Cardinality(T) \in Nat
    BY FS_Subset, FS_CardinalityType, Zenon
<1>2. K \in SUBSET Nat
    BY <1>1, Zenon
<1>3. ASSUME NEW n \in K PROVE n # 0 /\ n - 1 \in K
  <2>1. PICK T \in Bad : n = Cardinality(T)
    OBVIOUS
  <2>2. PICK x \in T : T \ {x} \in Bad
    OBVIOUS
  <2>3. Cardinality(T \ {x}) = Cardinality(T) - 1
    BY <1>1, FS_RemoveElement
  <2>4. Cardinality(T \ {x}) \in Nat /\ Cardinality(T) \in Nat
    BY <1>1, <2>2
  <2>5. Cardinality(T \ {x}) \in K
    BY <2>2
  <2>6. n # 0 /\ n - 1 = Cardinality(T \ {x})
    BY <2>1, <2>3, <2>4
  <2> QED
    BY <2>5, <2>6, Zenon
<1> HIDE DEF K
<1>4. K = {}
    BY <1>2, <1>3, NatDescent, Zenon
<1> QED
    BY <1>4 DEF K

------------------------------------------------------------------------------
(* The recursive function behind a sum.                                    *)
Pick(T) == CHOOSE x \in T : TRUE

IsSum(g, f, D) ==
    g = [T \in D |-> IF T = {} THEN 0 ELSE f[Pick(T)] + g[T \ {Pick(T)}]]

(* The fold that defines SumFunctionOnSet is such a function.              *)
LEMMA SumUnfold ==
    ASSUME NEW f, NEW S
    PROVE  SumFunctionOnSet(f, S) = (CHOOSE g : IsSum(g, f, SUBSET S))[S]
    BY DEF SumFunctionOnSet, FoldFunctionOnSet, MapThenFoldSet, IsSum, Pick

(* The element a set gives up first is one of it.                          *)
LEMMA PickIn ==
    ASSUME NEW T, T # {}
    PROVE  Pick(T) \in T
    BY DEF Pick

(* Such a function exists: one on the sets of at most n elements extends   *)
(* to the sets of at most n + 1.                                           *)
LEMMA SumExists ==
    ASSUME NEW f, NEW S, IsFiniteSet(S)
    PROVE  \E g : IsSum(g, f, SUBSET S)
<1> DEFINE D(n) == {T \in SUBSET S : Cardinality(T) <= n}
           Bad == {n \in Nat : ~\E g : IsSum(g, f, D(n))}
<1>1. ASSUME NEW T \in SUBSET S
      PROVE  /\ IsFiniteSet(T) /\ Cardinality(T) \in Nat
             /\ Cardinality(T) <= Cardinality(S)
             /\ Cardinality(T) = 0 <=> T = {}
             /\ T # {} => Cardinality(T \ {Pick(T)}) = Cardinality(T) - 1
  <2>1. IsFiniteSet(T) /\ Cardinality(T) <= Cardinality(S)
    BY FS_Subset
  <2> QED
    BY <2>1, FS_CardinalityType, FS_EmptySet, FS_RemoveElement, PickIn, Zenon
<1>2. \E g : IsSum(g, f, D(0))
  <2>1. ASSUME NEW T \in D(0) PROVE T = {}
    <3>1. T \in SUBSET S /\ Cardinality(T) <= 0
      OBVIOUS
    <3>2. Cardinality(T) \in Nat /\ (Cardinality(T) = 0 <=> T = {})
      BY <1>1, <3>1, Zenon
    <3> QED
      BY <3>1, <3>2
  <2>2. IsSum([T \in D(0) |-> 0], f, D(0))
    BY <2>1 DEF IsSum
  <2> QED
    BY <2>2, Zenon
<1>3. ASSUME NEW n \in Nat, n # 0, \E g : IsSum(g, f, D(n - 1))
      PROVE  \E g : IsSum(g, f, D(n))
  <2>1. PICK h : IsSum(h, f, D(n - 1))
    BY <1>3, Zenon
  <2> DEFINE g == [T \in D(n) |-> IF T = {} THEN 0
                                  ELSE f[Pick(T)] + h[T \ {Pick(T)}]]
  <2>2. ASSUME NEW T \in D(n - 1) PROVE T \in D(n)
    <3>1. T \in SUBSET S /\ Cardinality(T) <= n - 1
      OBVIOUS
    <3>2. Cardinality(T) \in Nat
      BY <1>1, <3>1, Zenon
    <3>3. Cardinality(T) <= n
      BY <3>1, <3>2
    <3> QED
      BY <3>1, <3>3
  <2>3. \A T \in D(n) : T # {} => T \ {Pick(T)} \in D(n - 1)
    BY <1>1
  <2>4. \A T \in D(n - 1) : h[T] = IF T = {} THEN 0
                                   ELSE f[Pick(T)] + h[T \ {Pick(T)}]
    BY <2>1, Zenon DEF IsSum
  <2> HIDE DEF D
  <2>5. \A T \in D(n - 1) : g[T] = h[T]
    BY <2>2, <2>4, Zenon
  <2>6. \A T \in D(n) : T # {} => g[T \ {Pick(T)}] = h[T \ {Pick(T)}]
    BY <2>3, <2>5, Zenon
  <2>7. IsSum(g, f, D(n))
    BY <2>6, Zenon DEF IsSum
  <2> QED
    BY <2>7
<1>4. Bad \in SUBSET Nat
    OBVIOUS
<1>5. ASSUME NEW n \in Bad PROVE n # 0 /\ n - 1 \in Bad
  <2>0. n \in Nat /\ ~\E g : IsSum(g, f, D(n))
    OBVIOUS
  <2> HIDE DEF D
  <2>1. n # 0
    BY <1>2, <2>0
  <2>2. n - 1 \in Nat
    BY <2>0, <2>1
  <2> QED
    BY <1>3, <2>0, <2>1, <2>2, Zenon
<1> HIDE DEF Bad
<1>6. Bad = {}
    BY <1>4, <1>5, NatDescent, Zenon
<1>7. Cardinality(S) \in Nat
    BY FS_CardinalityType
<1>8. \E g : IsSum(g, f, D(Cardinality(S)))
    BY <1>6, <1>7, Zenon DEF Bad
<1>9. D(Cardinality(S)) = SUBSET S
    BY <1>1, Zenon
<1> HIDE DEF D
<1> QED
    BY <1>8, <1>9, Zenon

(* Two such functions agree where both are defined.                        *)
LEMMA SumUnique ==
    ASSUME NEW f, NEW S, NEW R \in SUBSET S, IsFiniteSet(R)
    PROVE  \A g, h : IsSum(g, f, SUBSET S) /\ IsSum(h, f, SUBSET R) => g[R] = h[R]
<1> SUFFICES ASSUME NEW g, IsSum(g, f, SUBSET S), NEW h, IsSum(h, f, SUBSET R)
             PROVE  g[R] = h[R]
    BY Zenon
<1> DEFINE Bad == {T \in SUBSET R : g[T] # h[T]}
<1>1. ASSUME NEW T \in Bad PROVE \E x \in T : T \ {x} \in Bad
  <2>1. T \in SUBSET S /\ T \in SUBSET R /\ g[T] # h[T]
    OBVIOUS
  <2>2. g[T] = IF T = {} THEN 0 ELSE f[Pick(T)] + g[T \ {Pick(T)}]
    BY <2>1, Zenon DEF IsSum
  <2>3. h[T] = IF T = {} THEN 0 ELSE f[Pick(T)] + h[T \ {Pick(T)}]
    BY <2>1, Zenon DEF IsSum
  <2>4. T # {} /\ g[T \ {Pick(T)}] # h[T \ {Pick(T)}]
    BY <2>1, <2>2, <2>3
  <2> QED
    BY <2>1, <2>4, PickIn, Zenon
<1>2. Bad \in SUBSET (SUBSET R)
    OBVIOUS
<1> HIDE DEF Bad
<1>3. Bad = {}
    BY <1>1, <1>2, SubsetDescent, Zenon
<1> QED
    BY <1>3 DEF Bad

------------------------------------------------------------------------------
(* What a sum is.                                                          *)

(* One function on all subsets gives the sum over each of them.            *)
LEMMA SumOfSubset ==
    ASSUME NEW f, NEW S, IsFiniteSet(S), NEW g, IsSum(g, f, SUBSET S),
           NEW T \in SUBSET S
    PROVE  SumFunctionOnSet(f, T) = g[T]
<1> DEFINE h == CHOOSE h : IsSum(h, f, SUBSET T)
<1>1. IsFiniteSet(T)
    BY FS_Subset
<1>2. IsSum(h, f, SUBSET T)
    BY <1>1, SumExists, Zenon
<1>3. SumFunctionOnSet(f, T) = h[T]
    BY SumUnfold, Zenon
<1> HIDE DEF h
<1>4. g[T] = h[T]
    BY <1>1, <1>2, SumUnique
<1> QED
    BY <1>3, <1>4, Zenon

(* No elements, no sum: what Reconcile's COALESCE makes of no postings.    *)
LEMMA SumEmpty ==
    ASSUME NEW f
    PROVE  SumFunctionOnSet(f, {}) = 0
<1>1. IsFiniteSet({})
    BY FS_EmptySet
<1>2. PICK g : IsSum(g, f, SUBSET {})
    BY <1>1, SumExists, Zenon
<1>3. SumFunctionOnSet(f, {}) = g[{}]
  <2>1. \A T \in SUBSET {} : SumFunctionOnSet(f, T) = g[T]
    BY <1>1, <1>2, SumOfSubset, Zenon
  <2>2. {} \in SUBSET {}
    OBVIOUS
  <2> QED
    BY <2>1, <2>2, Zenon
<1> QED
    BY <1>2, <1>3 DEF IsSum

(* The defining equation, for the element the fold takes first.            *)
LEMMA SumPick ==
    ASSUME NEW f, NEW S, IsFiniteSet(S), S # {}
    PROVE  SumFunctionOnSet(f, S) =
               f[Pick(S)] + SumFunctionOnSet(f, S \ {Pick(S)})
<1>1. PICK g : IsSum(g, f, SUBSET S)
    BY SumExists, Zenon
<1>2. /\ SumFunctionOnSet(f, S) = g[S]
      /\ SumFunctionOnSet(f, S \ {Pick(S)}) = g[S \ {Pick(S)}]
    BY <1>1, SumOfSubset
<1> QED
    BY <1>1, <1>2, Zenon DEF IsSum

(* Integers add up to an integer.                                          *)
LEMMA SumInt ==
    ASSUME NEW f, NEW S, IsFiniteSet(S), \A x \in S : f[x] \in Int
    PROVE  SumFunctionOnSet(f, S) \in Int
<1> DEFINE Bad == {T \in SUBSET S : SumFunctionOnSet(f, T) \notin Int}
<1>1. ASSUME NEW T \in Bad PROVE \E x \in T : T \ {x} \in Bad
  <2>1. T \in SUBSET S /\ SumFunctionOnSet(f, T) \notin Int /\ IsFiniteSet(T)
    BY FS_Subset
  <2>2. T # {}
    BY <2>1, SumEmpty
  <2>3. SumFunctionOnSet(f, T) = f[Pick(T)] + SumFunctionOnSet(f, T \ {Pick(T)})
    BY <2>1, <2>2, SumPick
  <2>4. Pick(T) \in T /\ f[Pick(T)] \in Int
    BY <2>1, <2>2, PickIn
  <2>5. SumFunctionOnSet(f, T \ {Pick(T)}) \notin Int
    BY <2>1, <2>3, <2>4
  <2>6. T \ {Pick(T)} \in Bad
    BY <2>1, <2>5
  <2> QED
    BY <2>4, <2>6, Zenon
<1>2. Bad \in SUBSET (SUBSET S)
    OBVIOUS
<1> HIDE DEF Bad
<1>3. Bad = {}
    BY <1>1, <1>2, SubsetDescent, Zenon
<1> QED
    BY <1>3 DEF Bad

(* Any element may be taken out first.                                     *)
LEMMA SumRemove ==
    ASSUME NEW f, NEW S, IsFiniteSet(S), \A x \in S : f[x] \in Int, NEW y \in S
    PROVE  SumFunctionOnSet(f, S) = f[y] + SumFunctionOnSet(f, S \ {y})
<1> DEFINE sum(T) == SumFunctionOnSet(f, T)
           Bad == {T \in SUBSET S : \E z \in T : sum(T) # f[z] + sum(T \ {z})}
<1>1. ASSUME NEW T \in SUBSET S PROVE IsFiniteSet(T) /\ sum(T) \in Int
  <2>1. IsFiniteSet(T)
    BY FS_Subset
  <2> QED
    BY <2>1, SumInt
<1>2. ASSUME NEW T \in SUBSET S, T # {}
      PROVE  Pick(T) \in T /\ sum(T) = f[Pick(T)] + sum(T \ {Pick(T)})
    BY <1>1, <1>2, PickIn, SumPick
<1> HIDE DEF sum
<1>3. ASSUME NEW T \in Bad PROVE \E x \in T : T \ {x} \in Bad
  <2>1. PICK z \in T : sum(T) # f[z] + sum(T \ {z})
    OBVIOUS
  <2> DEFINE x == Pick(T)
  <2>2. T \in SUBSET S /\ x \in T /\ sum(T) = f[x] + sum(T \ {x})
    BY <1>2
  <2> HIDE DEF x
  <2>3. x # z
    BY <2>1, <2>2
  <2> SUFFICES ASSUME T \ {x} \notin Bad, T \ {z} \notin Bad PROVE FALSE
    BY <2>2, Zenon
  <2>4. sum(T \ {x}) = f[z] + sum((T \ {x}) \ {z})
    BY <2>2, <2>3, Zenon
  <2>5. sum(T \ {z}) = f[x] + sum((T \ {z}) \ {x})
    BY <2>2, <2>3, Zenon
  <2>6. (T \ {x}) \ {z} = (T \ {z}) \ {x}
    OBVIOUS
  <2>7. f[x] \in Int /\ f[z] \in Int /\ sum((T \ {x}) \ {z}) \in Int
    BY <1>1, <2>2
  <2>8. sum(T) = f[x] + (f[z] + sum((T \ {x}) \ {z}))
    BY <2>2, <2>4, Zenon
  <2>9. sum(T) # f[z] + (f[x] + sum((T \ {x}) \ {z}))
    BY <2>1, <2>5, <2>6, Zenon
  <2> HIDE DEF Bad
  <2> QED
    BY <2>7, <2>8, <2>9
<1>4. Bad \in SUBSET (SUBSET S)
    OBVIOUS
<1>5. Bad = {}
  <2> HIDE DEF Bad
  <2> QED
    BY <1>3, <1>4, SubsetDescent, Zenon
<1> QED
    BY <1>5, Zenon DEF sum

------------------------------------------------------------------------------
(* How sums combine.                                                       *)

(* An element more adds its value: one more entry in the journal.          *)
LEMMA SumAdd ==
    ASSUME NEW f, NEW S, IsFiniteSet(S), NEW y, y \notin S,
           \A x \in S \cup {y} : f[x] \in Int
    PROVE  SumFunctionOnSet(f, S \cup {y}) = f[y] + SumFunctionOnSet(f, S)
<1> DEFINE U == S \cup {y}
<1>1. IsFiniteSet(U) /\ y \in U /\ U \ {y} = S /\ \A x \in U : f[x] \in Int
    BY FS_AddElement
<1> HIDE DEF U
<1>2. SumFunctionOnSet(f, U) = f[y] + SumFunctionOnSet(f, U \ {y})
    BY <1>1, SumRemove
<1> QED
    BY <1>1, <1>2, Zenon DEF U

(* The sum over a set depends on the values at its elements only.          *)
LEMMA SumSame ==
    ASSUME NEW f, NEW g, NEW S, IsFiniteSet(S), \A x \in S : f[x] = g[x]
    PROVE  SumFunctionOnSet(f, S) = SumFunctionOnSet(g, S)
<1> DEFINE Bad == {T \in SUBSET S : SumFunctionOnSet(f, T) # SumFunctionOnSet(g, T)}
<1>1. ASSUME NEW T \in Bad PROVE \E x \in T : T \ {x} \in Bad
  <2>1. /\ T \in SUBSET S /\ IsFiniteSet(T)
        /\ SumFunctionOnSet(f, T) # SumFunctionOnSet(g, T)
    BY FS_Subset
  <2>2. T # {}
    BY <2>1, SumEmpty, Zenon
  <2>3. /\ SumFunctionOnSet(f, T) = f[Pick(T)] + SumFunctionOnSet(f, T \ {Pick(T)})
        /\ SumFunctionOnSet(g, T) = g[Pick(T)] + SumFunctionOnSet(g, T \ {Pick(T)})
    BY <2>1, <2>2, SumPick, Zenon
  <2>4. Pick(T) \in T /\ f[Pick(T)] = g[Pick(T)]
    BY <2>1, <2>2, PickIn
  <2>5. SumFunctionOnSet(f, T \ {Pick(T)}) # SumFunctionOnSet(g, T \ {Pick(T)})
    BY <2>1, <2>3, <2>4, Zenon
  <2>6. T \ {Pick(T)} \in Bad
    BY <2>1, <2>5
  <2> QED
    BY <2>4, <2>6, Zenon
<1>2. Bad \in SUBSET (SUBSET S)
    OBVIOUS
<1> HIDE DEF Bad
<1>3. Bad = {}
    BY <1>1, <1>2, SubsetDescent, Zenon
<1> QED
    BY <1>3 DEF Bad

(* The sum of pointwise sums.                                              *)
LEMMA SumPlus ==
    ASSUME NEW f, NEW g, NEW h, NEW S, IsFiniteSet(S),
           \A x \in S : f[x] \in Int /\ g[x] \in Int /\ h[x] = f[x] + g[x]
    PROVE  SumFunctionOnSet(h, S) = SumFunctionOnSet(f, S) + SumFunctionOnSet(g, S)
<1> DEFINE s(e, T) == SumFunctionOnSet(e, T)
           Bad == {T \in SUBSET S : s(h, T) # s(f, T) + s(g, T)}
<1>1. ASSUME NEW T \in SUBSET S
      PROVE  /\ IsFiniteSet(T)
             /\ s(f, T) \in Int /\ s(g, T) \in Int
             /\ T = {} => s(f, T) = 0 /\ s(g, T) = 0 /\ s(h, T) = 0
             /\ T # {} => /\ Pick(T) \in T
                          /\ s(f, T) = f[Pick(T)] + s(f, T \ {Pick(T)})
                          /\ s(g, T) = g[Pick(T)] + s(g, T \ {Pick(T)})
                          /\ s(h, T) = h[Pick(T)] + s(h, T \ {Pick(T)})
  <2>1. IsFiniteSet(T)
    BY FS_Subset
  <2>2. s(f, T) \in Int /\ s(g, T) \in Int
    BY <2>1, SumInt
  <2> QED
    BY <2>1, <2>2, PickIn, SumPick, SumEmpty, Zenon
<1> HIDE DEF s
<1>2. ASSUME NEW T \in Bad PROVE \E x \in T : T \ {x} \in Bad
  <2> DEFINE x == Pick(T)
  <2>1. T \in SUBSET S /\ s(h, T) # s(f, T) + s(g, T)
    OBVIOUS
  <2>2. T # {}
    <3>1. T = {} => s(f, T) = 0 /\ s(g, T) = 0 /\ s(h, T) = 0
      BY <1>1, <2>1, Zenon
    <3> HIDE DEF Bad
    <3> QED
      BY <2>1, <3>1
  <2>3. /\ x \in T
        /\ s(f, T) = f[x] + s(f, T \ {x})
        /\ s(g, T) = g[x] + s(g, T \ {x})
        /\ s(h, T) = h[x] + s(h, T \ {x})
    BY <1>1, <2>1, <2>2, Zenon
  <2> HIDE DEF x
  <2>4. /\ f[x] \in Int /\ g[x] \in Int /\ h[x] = f[x] + g[x]
        /\ s(f, T \ {x}) \in Int /\ s(g, T \ {x}) \in Int
    BY <1>1, <2>1, <2>3, Zenon
  <2>5. s(h, T \ {x}) # s(f, T \ {x}) + s(g, T \ {x})
    <3> HIDE DEF Bad
    <3> QED
      BY <2>1, <2>3, <2>4
  <2>6. T \ {x} \in Bad
    BY <2>1, <2>5
  <2> QED
    BY <2>3, <2>6, Zenon
<1>3. Bad \in SUBSET (SUBSET S)
    OBVIOUS
<1>4. Bad = {}
  <2> HIDE DEF Bad
  <2> QED
    BY <1>2, <1>3, SubsetDescent, Zenon
<1> QED
    BY <1>4 DEF s

(* Zeros add up to zero.                                                   *)
LEMMA SumZero ==
    ASSUME NEW f, NEW S, IsFiniteSet(S), \A x \in S : f[x] = 0
    PROVE  SumFunctionOnSet(f, S) = 0
<1> DEFINE s == SumFunctionOnSet(f, S)
<1>1. \A x \in S : f[x] \in Int /\ f[x] = f[x] + f[x]
    OBVIOUS
<1>2. s = s + s
    BY <1>1, SumPlus, SMTT(30)
<1>3. s \in Int
    BY <1>1, SumInt, Zenon
<1>4. s = 0
  <2> HIDE DEF s
  <2> QED
    BY <1>2, <1>3
<1> QED
    BY <1>4, Zenon

(* Opposites add up to the opposite: the postings of a reversal.           *)
LEMMA SumNegate ==
    ASSUME NEW f, NEW g, NEW S, IsFiniteSet(S),
           \A x \in S : f[x] \in Int /\ g[x] = -f[x]
    PROVE  SumFunctionOnSet(g, S) = -SumFunctionOnSet(f, S)
<1> DEFINE z == [x \in S |-> 0]
<1>1. \A x \in S : f[x] \in Int /\ g[x] \in Int /\ z[x] = f[x] + g[x] /\ z[x] = 0
    OBVIOUS
<1> HIDE DEF z
<1>2. SumFunctionOnSet(z, S) = SumFunctionOnSet(f, S) + SumFunctionOnSet(g, S)
    BY <1>1, SumPlus
<1>3. SumFunctionOnSet(z, S) = 0
    BY <1>1, SumZero
<1>4. SumFunctionOnSet(f, S) \in Int /\ SumFunctionOnSet(g, S) \in Int
    BY <1>1, SumInt
<1> QED
    BY <1>2, <1>3, <1>4

(* The sum over two disjoint sets.                                         *)
LEMMA SumUnion ==
    ASSUME NEW f, NEW A, NEW B, IsFiniteSet(A), IsFiniteSet(B), A \cap B = {},
           \A x \in A \cup B : f[x] \in Int
    PROVE  SumFunctionOnSet(f, A \cup B) = SumFunctionOnSet(f, A) + SumFunctionOnSet(f, B)
<1> DEFINE s(T) == SumFunctionOnSet(f, T)
           Bad == {T \in SUBSET B : s(A \cup T) # s(A) + s(T)}
<1>1. s(A) \in Int
    BY SumInt
<1>2. ASSUME NEW T \in SUBSET B, NEW x \in T
      PROVE  /\ s(T \ {x}) \in Int /\ f[x] \in Int
             /\ s(T) = f[x] + s(T \ {x})
             /\ s(A \cup T) = f[x] + s(A \cup (T \ {x}))
             /\ s(A \cup (T \ {x})) \in Int
  <2>1. IsFiniteSet(T) /\ IsFiniteSet(T \ {x}) /\ \A y \in T : f[y] \in Int
    BY FS_Subset
  <2> DEFINE U == A \cup T
             V == A \cup (T \ {x})
  <2>2. U \ {x} = V /\ x \in U /\ \A y \in U : f[y] \in Int
    OBVIOUS
  <2>3. IsFiniteSet(U)
    BY <2>1, FS_Union, Zenon
  <2> HIDE DEF U
  <2>4. IsFiniteSet(V)
    BY <2>2, <2>3, FS_Subset
  <2>5. s(U) = f[x] + s(U \ {x})
    BY <2>2, <2>3, SumRemove
  <2>6. s(T) = f[x] + s(T \ {x})
    BY <2>1, SumRemove
  <2>7. s(T \ {x}) \in Int
    BY <2>1, SumInt
  <2>8. s(V) \in Int
    <3>1. \A y \in V : f[y] \in Int
      OBVIOUS
    <3> HIDE DEF V
    <3> QED
      BY <2>4, <3>1, SumInt
  <2> QED
    BY <2>1, <2>2, <2>5, <2>6, <2>7, <2>8, Zenon DEF U
<1>3. s(A \cup {}) = s(A) + s({})
  <2>1. A \cup {} = A /\ s({}) = 0
    BY SumEmpty
  <2> HIDE DEF s
  <2> QED
    BY <1>1, <2>1
<1> HIDE DEF s
<1>4. ASSUME NEW T \in Bad PROVE \E x \in T : T \ {x} \in Bad
  <2>1. T \in SUBSET B /\ s(A \cup T) # s(A) + s(T)
    OBVIOUS
  <2>2. PICK x \in T : TRUE
    BY <1>3, <2>1, Zenon
  <2>3. /\ s(T \ {x}) \in Int /\ f[x] \in Int
        /\ s(T) = f[x] + s(T \ {x})
        /\ s(A \cup T) = f[x] + s(A \cup (T \ {x}))
        /\ s(A \cup (T \ {x})) \in Int
    BY <1>2, <2>1, Zenon
  <2>4. s(A \cup (T \ {x})) # s(A) + s(T \ {x})
    <3> HIDE DEF Bad
    <3> QED
      BY <1>1, <2>1, <2>3
  <2>5. T \ {x} \in Bad
    BY <2>1, <2>4
  <2> QED
    BY <2>5, Zenon
<1>5. Bad \in SUBSET (SUBSET B)
    OBVIOUS
<1>6. Bad = {}
  <2> HIDE DEF Bad
  <2> QED
    BY <1>4, <1>5, SubsetDescent, Zenon
<1> QED
    BY <1>6 DEF s

(* Sums by key add up to the sum over all keys.                            *)
LEMMA SumByKey ==
    ASSUME NEW f, NEW I, IsFiniteSet(I), \A i \in I : f[i] \in Int, NEW k,
           NEW g, NEW B, IsFiniteSet(B),
           \A b \in B : g[b] = SumFunctionOnSet(f, {i \in I : k[i] = b})
    PROVE  SumFunctionOnSet(g, B) = SumFunctionOnSet(f, {i \in I : k[i] \in B})
<1> DEFINE of(T) == {i \in I : k[i] \in T}
           at(b) == {i \in I : k[i] = b}
           Bad == {T \in SUBSET B :
                      SumFunctionOnSet(g, T) # SumFunctionOnSet(f, of(T))}
<1>1. ASSUME NEW T \in Bad PROVE \E x \in T : T \ {x} \in Bad
  <2>1. /\ T \in SUBSET B /\ IsFiniteSet(T)
        /\ SumFunctionOnSet(g, T) # SumFunctionOnSet(f, of(T))
    BY FS_Subset
  <2>2. T # {}
    <3>1. T = {} => of(T) = {}
      OBVIOUS
    <3> QED
      BY <2>1, <3>1, SumEmpty, Zenon
  <2> DEFINE x == Pick(T)
  <2>3. /\ x \in T
        /\ SumFunctionOnSet(g, T) = g[x] + SumFunctionOnSet(g, T \ {x})
    BY <2>1, <2>2, PickIn, SumPick, Zenon
  <2> HIDE DEF x
  <2>4. /\ of(T) = of(T \ {x}) \cup at(x)
        /\ of(T \ {x}) \cap at(x) = {}
        /\ of(T \ {x}) \in SUBSET I /\ at(x) \in SUBSET I
    BY <2>3
  <2>5. IsFiniteSet(of(T \ {x})) /\ IsFiniteSet(at(x))
    BY <2>4, FS_Subset, Zenon
  <2>6. g[x] = SumFunctionOnSet(f, at(x))
    BY <2>1, <2>3
  <2> HIDE DEF of, at
  <2>7. /\ \A i \in of(T \ {x}) \cup at(x) : f[i] \in Int
        /\ \A i \in of(T \ {x}) : f[i] \in Int
        /\ \A i \in at(x) : f[i] \in Int
    BY <2>4
  <2>8. SumFunctionOnSet(f, of(T \ {x}) \cup at(x)) =
           SumFunctionOnSet(f, of(T \ {x})) + SumFunctionOnSet(f, at(x))
    BY <2>4, <2>5, <2>7, SumUnion, Zenon
  <2>9. /\ SumFunctionOnSet(f, of(T \ {x})) \in Int
        /\ SumFunctionOnSet(f, at(x)) \in Int
    BY <2>5, <2>7, SumInt
  <2>10. SumFunctionOnSet(g, T \ {x}) # SumFunctionOnSet(f, of(T \ {x}))
    <3> HIDE DEF Bad
    <3>1. SumFunctionOnSet(f, of(T)) =
             SumFunctionOnSet(f, of(T \ {x})) + SumFunctionOnSet(f, at(x))
      BY <2>4, <2>8, Zenon
    <3> QED
      BY <2>1, <2>3, <2>6, <2>9, <3>1
  <2>11. T \ {x} \in Bad
    BY <2>1, <2>10
  <2> QED
    BY <2>3, <2>11, Zenon
<1>2. Bad \in SUBSET (SUBSET B)
    OBVIOUS
<1>3. Bad = {}
  <2> HIDE DEF Bad
  <2> QED
    BY <1>1, <1>2, SubsetDescent, Zenon
<1>4. B \notin Bad
    BY <1>3
<1> QED
    BY <1>4

==============================================================================
