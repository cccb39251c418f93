------------------------------ MODULE SumTheorems ------------------------------
(***************************************************************************)
(* Facts about sums over finite sets, which MapThenSumSet adds up in the   *)
(* order CHOOSE takes the elements, and about what is computed one step    *)
(* after the other.  The library has no theorems about its folds; these    *)
(* are what the proofs about weights and balances need.                    *)
(*                                                                         *)
(* Induction over numbers, or the subsets of a set, is done by a least     *)
(* counterexample, which theorem WFMin gives.                              *)
(***************************************************************************)
EXTENDS FiniteSetsExt, FiniteSetTheorems, NaturalsInduction, TLAPS

\* A set of numbers has a least one.
LEMMA LeastNat ==
  ASSUME NEW S, S \subseteq Nat, S # {}
  PROVE  \E m \in S : \A x \in S : m =< x
<1> DEFINE R == OpToRel(<, Nat)
<1>1. PICK m \in S : \A y \in S : ~(<<y, m>> \in R)
  <2>1. IsWellFoundedOn(R, Nat)
    BY NatLessThanWellFounded
  <2> HIDE DEF R
  <2> QED
    BY <2>1, WFMin
<1>2. \A y \in S : ~(y < m)
  BY <1>1 DEF OpToRel
<1> QED
  BY <1>2

Pick(S) == CHOOSE x \in S : TRUE

\* Function g is the sum of w over each subset of S, element by element.
Adds(g, w, S) ==
  g = [s \in SUBSET S |-> IF s = {} THEN 0 ELSE w[Pick(s)] + g[s \ {Pick(s)}]]

SumOf(w, S) == MapThenSumSet(LAMBDA x : w[x], S)

\* A set of subsets of a finite set has a minimal one.
LEMMA MinimalSubset ==
  ASSUME NEW S, IsFiniteSet(S), NEW T, T \subseteq SUBSET S, T # {}
  PROVE  \E x \in T : \A y \in T : y \subseteq x => y = x
<1>1. IsWellFoundedOn(StrictSubsetOrdering(S), SUBSET S)
  BY FS_StrictSubsetOrderingWellFounded, FS_FiniteSubsetsOfFinite
<1>2. PICK x \in T : \A y \in T : ~(<<y, x>> \in StrictSubsetOrdering(S))
  BY <1>1, WFMin
<1>3. ASSUME NEW y \in T, y \subseteq x, y # x PROVE FALSE
  BY <1>2, <1>3 DEF StrictSubsetOrdering
<1> QED
  BY <1>3

\* An element picked from a set is in it.
LEMMA PickIn == ASSUME NEW S, S # {} PROVE Pick(S) \in S
  BY DEF Pick

\* What adds up the subsets of a set and of a larger one agrees on the former.
LEMMA AddsUnique ==
  ASSUME NEW V, IsFiniteSet(V), NEW U, U \subseteq V, NEW w,
         NEW g, Adds(g, w, V), NEW h, Adds(h, w, U)
  PROVE  \A s \in SUBSET U : g[s] = h[s]
<1> DEFINE Bad == {s \in SUBSET U : g[s] # h[s]}
<1>1. SUFFICES ASSUME Bad # {} PROVE FALSE
  OBVIOUS
<1>2. IsFiniteSet(U)
  BY FS_Subset
<1>3. PICK s \in Bad : \A y \in Bad : y \subseteq s => y = s
  <2> HIDE DEF Bad
  <2>1. Bad \subseteq SUBSET U
    BY DEF Bad
  <2> QED
    BY <1>1, <1>2, <2>1, MinimalSubset
<1>4. s \in SUBSET U /\ s \in SUBSET V /\ g[s] # h[s]
  OBVIOUS
<1>5. CASE s = {}
  BY <1>4, <1>5 DEF Adds
<1>6. CASE s # {}
  <2> DEFINE r == s \ {Pick(s)}
  <2>1. r \subseteq s /\ r # s
    BY <1>6, PickIn
  <2>2. g[r] = h[r]
    BY <1>3, <2>1
  <2>3. g[s] = w[Pick(s)] + g[r] /\ h[s] = w[Pick(s)] + h[r]
    BY <1>4, <1>6 DEF Adds
  <2> QED
    BY <1>4, <2>2, <2>3
<1> QED
  BY <1>5, <1>6

\* There is such a function, with whole values if those added are.
LEMMA AddsExists ==
  ASSUME NEW S, IsFiniteSet(S), NEW w, \A x \in S : w[x] \in Int
  PROVE  \E g \in [SUBSET S -> Int] : Adds(g, w, S)
<1> DEFINE Good(T) == \E g \in [SUBSET T -> Int] : Adds(g, w, T)
           Bad == {T \in SUBSET S : ~Good(T)}
<1>1. SUFFICES ASSUME Bad # {} PROVE FALSE
  <2> S \in SUBSET S
    OBVIOUS
  <2> QED
    OBVIOUS
<1>2. PICK T \in Bad : \A y \in Bad : y \subseteq T => y = T
  <2> HIDE DEF Bad
  <2>1. Bad \subseteq SUBSET S
    BY DEF Bad
  <2> QED
    BY <1>1, <2>1, MinimalSubset
<1>3. T \in SUBSET S /\ ~Good(T) /\ IsFiniteSet(T)
  BY FS_Subset
<1> DEFINE G(U) == CHOOSE g : g \in [SUBSET U -> Int] /\ Adds(g, w, U)
           Rest(s) == s \ {Pick(s)}
           f == [s \in SUBSET T |-> IF s = {} THEN 0 ELSE w[Pick(s)] + G(Rest(s))[Rest(s)]]
<1>4. ASSUME NEW U \in SUBSET T, U # T
      PROVE  G(U) \in [SUBSET U -> Int] /\ Adds(G(U), w, U)
  <2>1. U \in SUBSET S
    BY <1>3
  <2>2. Good(U)
    BY <1>2, <1>4, <2>1
  <2> QED
    BY <2>2
<1> HIDE DEF G, Good, Bad
<1>5. ASSUME NEW s \in SUBSET T, s # {}
      PROVE  Rest(s) \in SUBSET T /\ Rest(s) # T /\ Rest(s) # s /\ Pick(s) \in S
  BY <1>3, <1>5, PickIn
<1>6. ASSUME NEW s \in SUBSET T, s # {} PROVE f[Rest(s)] = G(Rest(s))[Rest(s)]
  <2> DEFINE r == Rest(s)
  <2>1. r \in SUBSET T /\ r # T
    BY <1>5, <1>6
  <2>2. Adds(G(r), w, r)
    BY <1>4, <2>1
  <2> HIDE DEF Rest
  <2>3. CASE r = {}
    BY <2>1, <2>2, <2>3 DEF Adds
  <2>4. CASE r # {}
    <3>1. Rest(r) \in SUBSET T /\ Rest(r) # T /\ Rest(r) \subseteq r
      BY <1>5, <2>1, <2>4 DEF Rest
    <3>2. Adds(G(Rest(r)), w, Rest(r))
      BY <1>4, <3>1
    <3>3. IsFiniteSet(r)
      BY <1>3, <2>1, FS_Subset
    <3>4. G(r)[Rest(r)] = G(Rest(r))[Rest(r)]
      BY <2>2, <3>1, <3>2, <3>3, AddsUnique
    <3>5. f[r] = w[Pick(r)] + G(Rest(r))[Rest(r)]
      BY <2>1, <2>4
    <3>6. G(r)[r] = w[Pick(r)] + G(r)[Rest(r)]
      BY <2>2, <2>4 DEF Adds, Rest
    <3> QED
      BY <3>4, <3>5, <3>6
  <2> QED
    BY <2>3, <2>4
<1>7. f \in [SUBSET T -> Int]
  <2>1. ASSUME NEW s \in SUBSET T, s # {} PROVE w[Pick(s)] + G(Rest(s))[Rest(s)] \in Int
    <3>1. G(Rest(s)) \in [SUBSET Rest(s) -> Int] /\ Pick(s) \in S
      BY <1>4, <1>5, <2>1
    <3>2. G(Rest(s))[Rest(s)] \in Int
      <4> HIDE DEF Rest
      <4> QED
        BY <3>1
    <3> QED
      BY <3>1, <3>2
  <2> HIDE DEF Rest
  <2> QED
    BY <2>1
<1>8. Adds(f, w, T)
  <2>1. ASSUME NEW s \in SUBSET T
        PROVE  f[s] = IF s = {} THEN 0 ELSE w[Pick(s)] + f[s \ {Pick(s)}]
    BY <1>6
  <2> HIDE DEF f
  <2>2. f = [s \in SUBSET T |-> f[s]]
    BY <1>7
  <2> QED
    BY <2>1, <2>2 DEF Adds
<1> QED
  <2> HIDE DEF f
  <2> QED
    BY <1>3, <1>7, <1>8 DEF Good

\* So the sum of the library is one: of the whole set.
LEMMA SumIsAdded ==
  ASSUME NEW S, IsFiniteSet(S), NEW w, \A x \in S : w[x] \in Int
  PROVE  \E g \in [SUBSET S -> Int] : Adds(g, w, S) /\ SumOf(w, S) = g[S]
<1> DEFINE g == CHOOSE iter : Adds(iter, w, S)
<1>1. PICK h \in [SUBSET S -> Int] : Adds(h, w, S)
  BY AddsExists
<1>2. Adds(g, w, S)
  BY <1>1
<1>3. SumOf(w, S) = g[S]
  BY DEF SumOf, MapThenSumSet, MapThenFoldSet, Adds, Pick
<1> HIDE DEF g
<1>4. \A s \in SUBSET S : g[s] = h[s]
  BY <1>1, <1>2, AddsUnique
<1>5. DOMAIN g = SUBSET S /\ g = [s \in SUBSET S |-> g[s]]
  BY <1>2 DEF Adds
<1>6. g \in [SUBSET S -> Int]
  BY <1>1, <1>4, <1>5
<1> QED
  BY <1>2, <1>3, <1>6

\* And its values at the subsets are their sums.
LEMMA SumOfSubset ==
  ASSUME NEW S, IsFiniteSet(S), NEW w, \A x \in S : w[x] \in Int,
         NEW g, Adds(g, w, S), NEW T \in SUBSET S
  PROVE  g[T] = SumOf(w, T)
<1>1. IsFiniteSet(T)
  BY FS_Subset
<1>2. PICK h \in [SUBSET T -> Int] : Adds(h, w, T) /\ SumOf(w, T) = h[T]
  BY <1>1, SumIsAdded
<1>3. \A s \in SUBSET T : g[s] = h[s]
  BY <1>2, AddsUnique
<1> QED
  BY <1>2, <1>3, T \in SUBSET T

-------------------------------------------------------------------------------
\* The sum of whole numbers is one, of naturals a natural, and of none 0.
LEMMA SumType ==
  ASSUME NEW S, IsFiniteSet(S), NEW w, \A x \in S : w[x] \in Int
  PROVE  SumOf(w, S) \in Int
<1>1. PICK g \in [SUBSET S -> Int] : Adds(g, w, S) /\ SumOf(w, S) = g[S]
  BY SumIsAdded
<1> QED
  BY <1>1

\* A sum of natural numbers is one.
LEMMA SumNat ==
  ASSUME NEW S, IsFiniteSet(S), NEW w, \A x \in S : w[x] \in Nat
  PROVE  SumOf(w, S) \in Nat
<1>0. \A x \in S : w[x] \in Int
  OBVIOUS
<1>1. PICK g \in [SUBSET S -> Int] : Adds(g, w, S) /\ SumOf(w, S) = g[S]
  BY <1>0, SumIsAdded
<1> DEFINE Bad == {T \in SUBSET S : g[T] \notin Nat}
<1>2. ASSUME Bad # {} PROVE FALSE
  <2>1. PICK T \in Bad : \A y \in Bad : y \subseteq T => y = T
    <3> HIDE DEF Bad
    <3>1. Bad \subseteq SUBSET S
      BY DEF Bad
    <3> QED
      BY <1>2, <3>1, MinimalSubset
  <2>2. T \in SUBSET S /\ g[T] \notin Nat /\ T # {}
    BY <1>1 DEF Adds
  <2> DEFINE p == Pick(T)
             R == T \ {p}
  <2>3. p \in T /\ R \in SUBSET S
    BY <2>2, PickIn
  <2>4. g[T] = w[p] + g[R] /\ w[p] \in Nat
    BY <1>1, <2>2, <2>3 DEF Adds
  <2>5. g[R] \in Nat
    BY <2>1, <2>3
  <2> HIDE DEF p, R
  <2> QED
    BY <2>2, <2>4, <2>5
<1> QED
  BY <1>1, <1>2, S \in SUBSET S

\* The sum over no element is zero.
LEMMA SumEmpty == ASSUME NEW w PROVE SumOf(w, {}) = 0
<1>1. PICK g \in [SUBSET {} -> Int] : Adds(g, w, {}) /\ SumOf(w, {}) = g[{}]
  BY SumIsAdded, FS_EmptySet
<1> QED
  BY <1>1 DEF Adds

\* It depends on what is added only.
LEMMA SumSame ==
  ASSUME NEW S, IsFiniteSet(S), NEW w, NEW v, \A x \in S : w[x] \in Int /\ v[x] = w[x]
  PROVE  SumOf(v, S) = SumOf(w, S)
<1>1. PICK g \in [SUBSET S -> Int] : Adds(g, w, S) /\ SumOf(w, S) = g[S]
  BY SumIsAdded
<1>2. PICK h \in [SUBSET S -> Int] : Adds(h, v, S) /\ SumOf(v, S) = h[S]
  BY SumIsAdded
<1>3. Adds(h, w, S)
  <2>1. ASSUME NEW s \in SUBSET S
        PROVE  h[s] = IF s = {} THEN 0 ELSE w[Pick(s)] + h[s \ {Pick(s)}]
    <3>1. CASE s = {}
      BY <1>2, <3>1 DEF Adds
    <3>2. CASE s # {}
      <4>1. w[Pick(s)] = v[Pick(s)]
        BY <3>2, PickIn
      <4> QED
        BY <1>2, <3>2, <4>1 DEF Adds
    <3> QED
      BY <3>1, <3>2
  <2>2. h = [s \in SUBSET S |-> h[s]]
    BY <1>2
  <2> QED
    BY <2>1, <2>2 DEF Adds
<1> QED
  BY <1>1, <1>2, <1>3, AddsUnique, S \in SUBSET S

\* Any element can be added last.
LEMMA SumRemove ==
  ASSUME NEW S, IsFiniteSet(S), NEW w, \A x \in S : w[x] \in Int, NEW e \in S
  PROVE  SumOf(w, S) = w[e] + SumOf(w, S \ {e})
<1>1. PICK g \in [SUBSET S -> Int] : Adds(g, w, S) /\ SumOf(w, S) = g[S]
  BY SumIsAdded
<1> DEFINE Bad == {T \in SUBSET S : \E x \in T : g[T] # w[x] + g[T \ {x}]}
<1>2. ASSUME Bad # {} PROVE FALSE
  <2>1. PICK T \in Bad : \A y \in Bad : y \subseteq T => y = T
    <3> HIDE DEF Bad
    <3>1. Bad \subseteq SUBSET S
      BY DEF Bad
    <3> QED
      BY <1>2, <3>1, MinimalSubset
  <2>2. PICK x \in T : g[T] # w[x] + g[T \ {x}]
    OBVIOUS
  <2> DEFINE p == Pick(T)
             R == T \ {p}
             Q == T \ {x}
  <2>3. p \in T /\ T \in SUBSET S /\ R \in SUBSET S /\ Q \in SUBSET S
    BY PickIn
  <2>4. g[T] = w[p] + g[R]
    BY <1>1, <2>2, <2>3 DEF Adds
  <2>5. x # p
    BY <2>2, <2>4
  <2>6. R \notin Bad /\ Q \notin Bad
    BY <2>1, <2>3
  <2>7. x \in R /\ p \in Q /\ R \ {x} = Q \ {p}
    BY <2>3, <2>5
  <2>8. g[R] = w[x] + g[R \ {x}] /\ g[Q] = w[p] + g[Q \ {p}]
    BY <2>3, <2>6, <2>7
  <2>9. w[x] \in Int /\ w[p] \in Int /\ g[R \ {x}] \in Int
    BY <1>1, <2>3
  <2>10. g[T] = w[p] + (w[x] + g[R \ {x}]) /\ g[Q] = w[p] + g[R \ {x}]
    BY <2>4, <2>7, <2>8
  <2> HIDE DEF p, R, Q
  <2>11. g[T] = w[x] + g[Q]
    BY <2>9, <2>10
  <2> QED
    BY <2>2, <2>11 DEF Q
<1>3. g[S] = w[e] + g[S \ {e}]
  BY <1>2, S \in SUBSET S
<1>4. g[S \ {e}] = SumOf(w, S \ {e})
  BY <1>1, SumOfSubset, S \ {e} \in SUBSET S
<1> QED
  BY <1>1, <1>3, <1>4

\* An element more adds its weight to the sum.
LEMMA SumAdd ==
  ASSUME NEW S, IsFiniteSet(S), NEW e, e \notin S, NEW w, \A x \in S \cup {e} : w[x] \in Int
  PROVE  SumOf(w, S \cup {e}) = w[e] + SumOf(w, S)
<1>1. IsFiniteSet(S \cup {e}) /\ (S \cup {e}) \ {e} = S
  BY FS_AddElement
<1> QED
  BY <1>1, SumRemove, e \in S \cup {e}

\* Two disjoint sets add up to their union.
LEMMA SumUnion ==
  ASSUME NEW S, IsFiniteSet(S), NEW w, \A x \in S : w[x] \in Int,
         NEW T \in SUBSET S
  PROVE  SumOf(w, S) = SumOf(w, T) + SumOf(w, S \ T)
<1> DEFINE Bad == {U \in SUBSET T : SumOf(w, (S \ T) \cup U) # SumOf(w, U) + SumOf(w, S \ T)}
<1>1. ASSUME Bad # {} PROVE FALSE
  <2>1. IsFiniteSet(T)
    BY FS_Subset
  <2>2. PICK U \in Bad : \A y \in Bad : y \subseteq U => y = U
    <3> HIDE DEF Bad
    <3>1. Bad \subseteq SUBSET T
      BY DEF Bad
    <3> QED
      BY <1>1, <2>1, <3>1, MinimalSubset
  <2> DEFINE V == (S \ T) \cup U
  <2>3. /\ U \subseteq T /\ IsFiniteSet(U) /\ IsFiniteSet(V)
        /\ V \subseteq S /\ U \subseteq S /\ S \ T \subseteq S
    <3>1. U \in SUBSET T /\ U \in SUBSET S /\ V \in SUBSET S
      OBVIOUS
    <3> QED
      BY <3>1, FS_Subset
  <2>4. SumOf(w, S \ T) \in Int
    <3>1. IsFiniteSet(S \ T)
      BY <2>3, FS_Subset, S \ T \in SUBSET S
    <3> QED
      BY <3>1, SumType
  <2>5. U # {}
    <3> SUFFICES ASSUME U = {} PROVE FALSE
      OBVIOUS
    <3>1. V = S \ T /\ SumOf(w, U) = 0
      BY SumEmpty
    <3> QED
      BY <2>4, <3>1
  <2> DEFINE p == Pick(U)
             R == U \ {p}
  <2>6. p \in U /\ p \in V /\ V \ {p} = (S \ T) \cup R /\ R \in SUBSET T
    BY <2>3, <2>5, PickIn
  <2>7. R \notin Bad
    BY <2>2, <2>6
  <2>8. SumOf(w, (S \ T) \cup R) = SumOf(w, R) + SumOf(w, S \ T)
    BY <2>6, <2>7
  <2>9. SumOf(w, V) = w[p] + SumOf(w, V \ {p})
    BY <2>3, <2>6, SumRemove
  <2>10. SumOf(w, U) = w[p] + SumOf(w, R)
    BY <2>3, <2>6, SumRemove
  <2>11. w[p] \in Int /\ SumOf(w, R) \in Int
    <3>1. IsFiniteSet(R) /\ R \subseteq S
      BY <2>3, FS_Subset, R \in SUBSET U
    <3> QED
      BY <2>3, <2>6, <3>1, SumType
  <2>12. PICK a \in Int, b \in Int, c \in Int :
           a = w[p] /\ b = SumOf(w, R) /\ c = SumOf(w, S \ T)
    BY <2>4, <2>11
  <2> HIDE DEF p, R, V
  <2>13. SumOf(w, V) = a + (b + c) /\ SumOf(w, U) = a + b
    BY <2>6, <2>8, <2>9, <2>10, <2>12
  <2>14. SumOf(w, V) = SumOf(w, U) + SumOf(w, S \ T)
    BY <2>12, <2>13
  <2> QED
    BY <2>2, <2>14 DEF V
<1>2. T \notin Bad
  BY <1>1
<1> QED
  <2>1. (S \ T) \cup T = S
    OBVIOUS
  <2> QED
    BY <1>2, <2>1

\* A part adds up to no more than the whole.
LEMMA SumSubset ==
  ASSUME NEW S, IsFiniteSet(S), NEW w, \A x \in S : w[x] \in Nat,
         NEW T \in SUBSET S
  PROVE  SumOf(w, T) =< SumOf(w, S)
<1>1. IsFiniteSet(T) /\ IsFiniteSet(S \ T)
  BY FS_Subset, S \ T \in SUBSET S
<1>2. SumOf(w, T) \in Nat /\ SumOf(w, S \ T) \in Nat
  BY <1>1, SumNat
<1> QED
  BY <1>2, SumUnion

\* Two parts of which each has more than half of the whole have an element in
\* common.
LEMMA MajoritiesMeet ==
  ASSUME NEW S, IsFiniteSet(S), NEW w, \A x \in S : w[x] \in Nat,
         NEW T \in SUBSET S, NEW U \in SUBSET S,
         2 * SumOf(w, T) > SumOf(w, S), 2 * SumOf(w, U) > SumOf(w, S)
  PROVE  T \cap U # {}
<1> SUFFICES ASSUME T \cap U = {} PROVE FALSE
  OBVIOUS
<1>1. U \in SUBSET (S \ T) /\ IsFiniteSet(S \ T) /\ IsFiniteSet(T) /\ IsFiniteSet(U)
  BY FS_Subset, S \ T \in SUBSET S
<1>2. SumOf(w, U) =< SumOf(w, S \ T)
  BY <1>1, SumSubset
<1>3. SumOf(w, T) \in Nat /\ SumOf(w, U) \in Nat /\ SumOf(w, S \ T) \in Nat
  BY <1>1, SumNat
<1> QED
  BY <1>2, <1>3, SumUnion

-------------------------------------------------------------------------------
\* What is computed in N steps of a function exists.
Steps(f, S, N, x, step) ==
  f \in [0..N -> S] /\ f[0] = x /\ \A i \in 1..N : f[i] = step[<<f[i - 1], i>>]

\* A function defined by its first value and a step exists.
LEMMA StepsExist ==
  ASSUME NEW S, NEW x \in S, NEW N \in Nat, NEW step \in [S \X (1..N) -> S]
  PROVE  \E f : Steps(f, S, N, x, step)
<1> DEFINE Runs(f, n) == /\ f \in [0..n -> S] /\ f[0] = x
                         /\ \A i \in 1..n : f[i] = step[<<f[i - 1], i>>]
           Bad == {n \in 0..N : ~\E f : Runs(f, n)}
<1>1. ASSUME Bad # {} PROVE FALSE
  <2>1. PICK n \in Bad : \A k \in Bad : n =< k
    <3>1. Bad \subseteq Nat
      OBVIOUS
    <3> HIDE DEF Bad
    <3> QED
      BY <1>1, <3>1, LeastNat
  <2>2. n # 0
    <3>1. Runs([i \in 0..0 |-> x], 0)
      OBVIOUS
    <3> QED
      BY <2>1, <3>1
  <2>3. n \in 1..N /\ n - 1 \in 0..N /\ n - 1 \notin Bad
    BY <2>1, <2>2
  <2>4. PICK f : Runs(f, n - 1)
    BY <2>3
  <2> DEFINE g == [i \in 0..n |-> IF i < n THEN f[i] ELSE step[<<f[n - 1], n>>]]
  <2>5. f[n - 1] \in S /\ step[<<f[n - 1], n>>] \in S
    BY <2>3, <2>4
  <2>6. g \in [0..n -> S] /\ g[0] = x
    BY <2>3, <2>4, <2>5
  <2>7. ASSUME NEW i \in 1..n PROVE g[i] = step[<<g[i - 1], i>>]
    <3>1. CASE i < n
      <4>1. i \in 1..(n - 1) /\ g[i] = f[i] /\ g[i - 1] = f[i - 1]
        BY <2>3, <3>1
      <4>2. f[i] = step[<<f[i - 1], i>>]
        BY <2>4, <4>1
      <4> QED
        BY <4>1, <4>2
    <3>2. CASE i = n
      <4>1. n \in 0..n /\ n - 1 \in 0..n /\ n - 1 < n
        BY <2>3
      <4>2. g[n] = step[<<f[n - 1], n>>] /\ g[n - 1] = f[n - 1]
        BY <4>1
      <4> HIDE DEF g
      <4> QED
        BY <3>2, <4>2
    <3> QED
      BY <2>3, <3>1, <3>2
  <2>8. Runs(g, n)
    BY <2>6, <2>7
  <2> HIDE DEF g, Runs
  <2> QED
    BY <2>1, <2>8
<1>2. \E f : Runs(f, N)
  <2> HIDE DEF Runs
  <2> QED
    BY <1>1, N \in 0..N
<1> QED
  BY <1>2 DEF Steps

===============================================================================
