-------------------------- MODULE OfflineCacheProofs --------------------------
(***************************************************************************)
(* Proofs about OfflineCache: the catalogue and the disk agree, and what a  *)
(* run of the storage policy may evict and a run of the planner may queue.   *)
(* Sums of sizes and hours are folds over finite sets: the lemmas on them    *)
(* come first.                                                              *)
(***************************************************************************)
EXTENDS OfflineCache, FiniteSetTheorems, WellFoundedInduction, TLAPS

-----------------------------------------------------------------------------
(* The invariant.                                                          *)

DiskTypes ==
  /\ downloaded \in SUBSET Videos
  /\ files \in SUBSET Videos
  /\ path \in [Videos -> Paths]
  /\ arriving \in [Videos -> Paths]

(* A downloaded video has a path. What arrives has its file, unless an      *)
(* eviction took it meanwhile.                                              *)
PathsKnown == \A v \in downloaded : path[v] # "none"
ArrivingHasFile == Arrivals \subseteq files \union torn

DiskInv ==
  /\ DiskTypes
  /\ PathsKnown
  /\ ArrivingHasFile
  /\ CatalogueMatchesDisk

-----------------------------------------------------------------------------
(* Induction and folds over finite sets.                                   *)

(* A nonempty set of naturals has a least element.                          *)
LEMMA LeastOf ==
  ASSUME NEW K \in SUBSET Nat, K # {}
  PROVE  Min(K) \in K /\ \A k \in K : Min(K) <= k
<1>1. PICK x \in K : \A y \in K : ~ (<<y, x>> \in OpToRel(<, Nat))
  BY NatLessThanWellFounded, WFMin, Zenon
<1>2. \A y \in K : y \in Nat /\ x \in Nat
  OBVIOUS
<1>3. \A y \in K : ~ (y < x)
  BY <1>1, <1>2, Zenon DEF OpToRel
<1>4. \A y \in K : x <= y
  BY <1>2, <1>3
<1> QED
  BY <1>4 DEF Min

(* Induction over the subsets of a finite set, smallest first.              *)
LEMMA SubsetInduction ==
  ASSUME NEW V, IsFiniteSet(V), NEW P,
         \A S \in SUBSET V : (\A T \in SUBSET S : T # S => T \in P) => S \in P
  PROVE  \A S \in SUBSET V : S \in P
<1> DEFINE Bad == {S \in SUBSET V : S \notin P}
           K == {Cardinality(S) : S \in Bad}
<1>1. \A S \in SUBSET V : IsFiniteSet(S) /\ Cardinality(S) \in Nat
  BY FS_Subset, FS_CardinalityType
<1>2. SUFFICES ASSUME Bad # {} PROVE FALSE
  OBVIOUS
<1>3. K \in SUBSET Nat /\ K # {}
  BY <1>1, <1>2
<1> HIDE DEF K
<1>4. Min(K) \in K /\ \A k \in K : Min(K) <= k
  BY <1>3, LeastOf
<1>5. PICK S \in Bad : Cardinality(S) = Min(K)
  BY <1>4 DEF K
<1>6. ASSUME NEW T \in SUBSET S, T # S
      PROVE  T \in P
  <2>1. T \in SUBSET V /\ S \in SUBSET V
    BY <1>5
  <2>2. IsFiniteSet(S)
    BY <1>1, <2>1
  <2>3. Cardinality(T) < Cardinality(S)
    <3>1. Cardinality(T) <= Cardinality(S) /\ (Cardinality(T) = Cardinality(S) => T = S)
      BY <2>2, FS_Subset
    <3> QED
      BY <1>1, <1>6, <2>1, <3>1
  <2>4. T \in Bad => Cardinality(T) \in K
    BY DEF K
  <2>5. T \notin Bad
    BY <1>1, <1>4, <1>5, <2>1, <2>3, <2>4
  <2> QED
    BY <2>1, <2>5
<1>7. S \in P
  BY <1>6
<1> QED
  BY <1>7

(* pick picks an element of every nonempty subset of V.                     *)
Picks(pick, V) == \A S \in SUBSET V : S # {} => pick[S] \in S

(* g folds the subsets of V.                                                *)
FoldOf(g, V, pick, step, base) ==
  g = [S \in SUBSET V |-> IF S = {} THEN base ELSE step[pick[S]][g[S \ {pick[S]}]]]

(* A fold over the subsets of a finite set is defined: what comes of one is  *)
(* what step makes of the element picked from it and of the rest.           *)
LEMMA FoldExists ==
  ASSUME NEW V, IsFiniteSet(V), NEW pick, Picks(pick, V),
         NEW W, NEW base \in W, NEW step, \A x \in V, w \in W : step[x][w] \in W
  PROVE  \E g \in [SUBSET V -> W] : FoldOf(g, V, pick, step, base)
<1> DEFINE D(n) == {S \in SUBSET V : Cardinality(S) <= n}
           Agrees(g, n) == \A S \in D(n) : g[S] = IF S = {} THEN base
                                                ELSE step[pick[S]][g[S \ {pick[S]}]]
           Q == {n \in Nat : \E g \in [D(n) -> W] : Agrees(g, n)}
<1> USE DEF Picks
<1>1. \A S \in SUBSET V : IsFiniteSet(S) /\ Cardinality(S) \in Nat
  BY FS_Subset, FS_CardinalityType
<1>2. 0 \in Q
  <2>1. \A S \in D(0) : S = {}
    BY <1>1, FS_EmptySet
  <2> DEFINE g == [S \in D(0) |-> base]
  <2>2. g \in [D(0) -> W] /\ Agrees(g, 0)
    BY <2>1
  <2> QED
    BY <2>2
<1>3. ASSUME NEW n \in Q
      PROVE  n + 1 \in Q
  <2>0. n \in Nat
    OBVIOUS
  <2>1. PICK g \in [D(n) -> W] : Agrees(g, n)
    OBVIOUS
  <2> DEFINE h == [S \in D(n + 1) |-> IF S = {} THEN base ELSE step[pick[S]][g[S \ {pick[S]}]]]
  <2>2. ASSUME NEW S \in D(n + 1), S # {}
        PROVE  /\ S \ {pick[S]} \in D(n) /\ pick[S] \in V
               /\ S \ {pick[S]} \in D(n + 1)
    <3>1. S \in SUBSET V /\ pick[S] \in S /\ Cardinality(S) <= n + 1
      BY <2>2
    <3>2. Cardinality(S \ {pick[S]}) = Cardinality(S) - 1
      BY <1>1, <3>1, FS_RemoveElement
    <3> QED
      BY <1>1, <2>0, <3>1, <3>2
  <2>3. \A S \in D(n) : S \in D(n + 1)
    BY <1>1, <2>0
  <2>4. \A S \in D(n) : h[S] = g[S]
    BY <2>1, <2>3
  <2>5. h \in [D(n + 1) -> W]
    <3>1. ASSUME NEW S \in D(n + 1) PROVE h[S] \in W
      <4>1. CASE S = {}
        BY <4>1
      <4>2. CASE S # {}
        <5>1. g[S \ {pick[S]}] \in W
          BY <2>1, <2>2, <4>2
        <5>2. step[pick[S]][g[S \ {pick[S]}]] \in W
          BY <2>2, <4>2, <5>1
        <5> QED
          BY <4>2, <5>2
      <4> QED
        BY <4>1, <4>2
    <3> QED
      BY <3>1
  <2>6. Agrees(h, n + 1)
    <3>1. ASSUME NEW S \in D(n + 1), S # {}
          PROVE  h[S] = step[pick[S]][h[S \ {pick[S]}]]
      <4>1. h[S \ {pick[S]}] = g[S \ {pick[S]}]
        BY <2>2, <2>4, <3>1
      <4> HIDE DEF D
      <4> QED
        BY <3>1, <4>1
    <3>2. ASSUME NEW S \in D(n + 1), S = {}
          PROVE  h[S] = base
      BY <3>2
    <3> QED
      BY <3>1, <3>2
  <2>7. n + 1 \in Nat
    BY <2>0
  <2> QED
    BY <2>5, <2>6, <2>7
<1> DEFINE N == Cardinality(V)
<1>4. N \in Q
  <2> HIDE DEF Q
  <2> DEFINE K == Nat \ Q
  <2>1. SUFFICES ASSUME K # {} PROVE FALSE
    BY <1>1
  <2>2. K \in SUBSET Nat
    OBVIOUS
  <2>3. Min(K) \in K /\ \A k \in K : Min(K) <= k
    BY <2>1, <2>2, LeastOf
  <2> HIDE DEF K
  <2>4. Min(K) \in Nat /\ Min(K) \notin Q /\ Min(K) # 0
    BY <1>2, <2>3 DEF K
  <2>5. Min(K) - 1 \in Nat /\ Min(K) - 1 \notin K
    BY <2>3, <2>4
  <2>6. Min(K) - 1 \in Q
    BY <2>5 DEF K
  <2>7. (Min(K) - 1) + 1 \in Q
    BY <1>3, <2>6
  <2> QED
    BY <2>4, <2>7
<1>5. D(N) = SUBSET V
  <2>1. \A S \in SUBSET V : Cardinality(S) <= N
    BY FS_Subset
  <2> QED
    BY <2>1
<1>6. PICK g \in [SUBSET V -> W] : \A S \in SUBSET V :
        g[S] = IF S = {} THEN base ELSE step[pick[S]][g[S \ {pick[S]}]]
  BY <1>4, <1>5
<1>7. g = [S \in SUBSET V |-> IF S = {} THEN base ELSE step[pick[S]][g[S \ {pick[S]}]]]
  BY <1>6
<1> QED
  BY <1>7 DEF FoldOf

(* g goes to W, one element picked at a time.                               *)
Stays(g, V, pick, W) ==
  /\ g[{}] \in W
  /\ \A S \in SUBSET V : S # {} => (g[S \ {pick[S]}] \in W => g[S] \in W)

(* What holds of the empty set and is kept by the element picked, holds of   *)
(* every subset.                                                            *)
LEMMA FoldStays ==
  ASSUME NEW V, IsFiniteSet(V), NEW pick, Picks(pick, V),
         NEW g, NEW W, Stays(g, V, pick, W)
  PROVE  \A S \in SUBSET V : g[S] \in W
<1> USE DEF Picks, Stays
<1> DEFINE P == {S \in SUBSET V : g[S] \in W}
<1>1. ASSUME NEW S \in SUBSET V, \A T \in SUBSET S : T # S => T \in P
      PROVE  S \in P
  <2>1. CASE S = {}
    BY <2>1
  <2>2. CASE S # {}
    <3>1. S \ {pick[S]} \in P
      BY <1>1, <2>2
    <3> QED
      BY <2>2, <3>1
  <2> QED
    BY <2>1, <2>2
<1>2. \A S \in SUBSET V : S \in P
  <2> HIDE DEF P
  <2> QED
    BY <1>1, SubsetInduction
<1> QED
  BY <1>2

-----------------------------------------------------------------------------
(* Sums.                                                                   *)

(* The element a sum takes first, and the values it can add.                *)
First(S) == CHOOSE x \in S : TRUE
Values(f, V) == \A v \in V : f[v] \in Nat

(* g sums the values of f over the subsets of V.                            *)
Sums(g, f, V) ==
  /\ g[{}] = 0
  /\ \A S \in SUBSET V : S # {} => g[S] = f[First(S)] + g[S \ {First(S)}]

(* What MapThenSumSet computes.                                             *)
LEMMA SumsExist ==
  ASSUME NEW V, IsFiniteSet(V), NEW f, Values(f, V)
  PROVE  \E g \in [SUBSET V -> Nat] : Sums(g, f, V) /\ Total(f, V) = g[V]
<1> DEFINE pick == [S \in SUBSET V |-> First(S)]
           step == [x \in V |-> [w \in Nat |-> f[x] + w]]
           IsSum(g) == g = [S \in SUBSET V |-> IF S = {} THEN 0
                                               ELSE f[First(S)] + g[S \ {First(S)}]]
           chosen == CHOOSE g : IsSum(g)
<1>1. \A S \in SUBSET V : S # {} => First(S) \in S
  BY DEF First
<1>2. Picks(pick, V)
  BY <1>1 DEF Picks
<1>3. \A x \in V, w \in Nat : step[x][w] \in Nat
  BY DEF Values
<1>4. PICK g \in [SUBSET V -> Nat] :
        g = [S \in SUBSET V |-> IF S = {} THEN 0 ELSE step[pick[S]][g[S \ {pick[S]}]]]
  <2> DEFINE W == Nat
             base == 0
  <2>1. base \in W /\ \A x \in V, w \in W : step[x][w] \in W
    BY <1>3
  <2> HIDE DEF pick, step, W, base
  <2>2. \E g \in [SUBSET V -> W] : FoldOf(g, V, pick, step, base)
    BY <1>2, <2>1, FoldExists
  <2> QED
    BY <2>2 DEF W, base, FoldOf
<1>5. \A S \in SUBSET V : S # {} => g[S] = f[First(S)] + g[S \ {First(S)}]
  BY <1>1, <1>4
<1>6. IsSum(g)
  BY <1>4, <1>5
<1>7. IsSum(chosen)
  BY <1>6
<1>8. Total(f, V) = chosen[V]
  BY DEF Total, MapThenSumSet, MapThenFoldSet, First
<1> HIDE DEF chosen
<1>9. /\ chosen[{}] = 0
      /\ \A S \in SUBSET V : S # {} => chosen[S] = f[First(S)] + chosen[S \ {First(S)}]
  BY <1>7
<1>10. \A S \in SUBSET V : chosen[S] \in Nat
  <2> DEFINE P == {S \in SUBSET V : chosen[S] \in Nat}
  <2>1. ASSUME NEW S \in SUBSET V, \A T \in SUBSET S : T # S => T \in P
        PROVE  S \in P
    <3>1. CASE S = {}
      BY <1>9, <3>1
    <3>2. CASE S # {}
      <4>1. First(S) \in S /\ f[First(S)] \in Nat
        BY <1>1, <3>2 DEF Values
      <4>2. S \ {First(S)} \in P
        BY <2>1, <4>1
      <4>3. chosen[S \ {First(S)}] \in Nat
        BY <4>2
      <4>4. chosen[S] = f[First(S)] + chosen[S \ {First(S)}]
        BY <1>9, <3>2
      <4>5. chosen[S] \in Nat
        BY <4>1, <4>3, <4>4
      <4> QED
        BY <4>5
    <3> QED
      BY <3>1, <3>2
  <2>2. \A S \in SUBSET V : S \in P
    <3> HIDE DEF P
    <3> QED
      BY <2>1, SubsetInduction
  <2> QED
    BY <2>2
<1>11. chosen \in [SUBSET V -> Nat]
  BY <1>7, <1>10
<1> QED
  BY <1>8, <1>9, <1>11 DEF Sums

(* A sum over a subset is what the sum over the set computes for it.         *)
LEMMA SumsOfSubsets ==
  ASSUME NEW V, IsFiniteSet(V), NEW f, Values(f, V), NEW g \in [SUBSET V -> Nat],
         Sums(g, f, V), NEW S \in SUBSET V
  PROVE  Total(f, S) = g[S]
<1>1. IsFiniteSet(S) /\ Values(f, S)
  BY FS_Subset DEF Values
<1>2. PICK h \in [SUBSET S -> Nat] : Sums(h, f, S) /\ Total(f, S) = h[S]
  BY <1>1, SumsExist
<1> DEFINE P == {R \in SUBSET S : h[R] = g[R]}
<1>3. ASSUME NEW R \in SUBSET S, \A T \in SUBSET R : T # R => T \in P
      PROVE  R \in P
  <2>1. CASE R = {}
    BY <1>2, <2>1 DEF Sums
  <2>2. CASE R # {}
    <3>1. First(R) \in R
      BY <2>2 DEF First
    <3>2. R \ {First(R)} \in P
      BY <1>3, <3>1
    <3>3. R \in SUBSET V
      OBVIOUS
    <3>4. h[R] = f[First(R)] + h[R \ {First(R)}]
      BY <1>2, <2>2 DEF Sums
    <3>5. g[R] = f[First(R)] + g[R \ {First(R)}]
      BY <2>2, <3>3 DEF Sums
    <3> QED
      BY <3>2, <3>4, <3>5
  <2> QED
    BY <2>1, <2>2
<1>4. \A R \in SUBSET S : R \in P
  <2> HIDE DEF P
  <2> QED
    BY <1>1, <1>3, SubsetInduction
<1> QED
  BY <1>2, <1>4

(* The empty sum, and the sum of the first element and the rest.            *)
LEMMA TotalFirst ==
  ASSUME NEW V, IsFiniteSet(V), NEW f, Values(f, V)
  PROVE  /\ Total(f, V) \in Nat
         /\ V = {} => Total(f, V) = 0
         /\ V # {} => Total(f, V) = f[First(V)] + Total(f, V \ {First(V)})
<1>1. PICK g \in [SUBSET V -> Nat] : Sums(g, f, V) /\ Total(f, V) = g[V]
  BY SumsExist
<1>2. \A S \in SUBSET V : Total(f, S) = g[S]
  BY <1>1, SumsOfSubsets
<1>3. V \in SUBSET V /\ V \ {First(V)} \in SUBSET V
  OBVIOUS
<1> QED
  BY <1>1, <1>2, <1>3 DEF Sums

(* Any element may be summed last.                                          *)
LEMMA TotalRemove ==
  ASSUME NEW V, IsFiniteSet(V), NEW f, Values(f, V), NEW v \in V
  PROVE  Total(f, V) = f[v] + Total(f, V \ {v})
<1> DEFINE P == {S \in SUBSET V : \A x \in S : Total(f, S) = f[x] + Total(f, S \ {x})}
<1>1. \A S \in SUBSET V : IsFiniteSet(S) /\ Values(f, S) /\ Total(f, S) \in Nat
  <2>1. \A S \in SUBSET V : IsFiniteSet(S) /\ Values(f, S)
    BY FS_Subset DEF Values
  <2> QED
    BY <2>1, TotalFirst
<1>2. ASSUME NEW S \in SUBSET V, \A T \in SUBSET S : T # S => T \in P
      PROVE  S \in P
  <2>1. SUFFICES ASSUME NEW x \in S PROVE Total(f, S) = f[x] + Total(f, S \ {x})
    OBVIOUS
  <2> DEFINE y == First(S)
  <2>2. y \in S
    BY DEF First
  <2>3. Total(f, S) = f[y] + Total(f, S \ {y})
    BY <1>1, TotalFirst
  <2> HIDE DEF y
  <2>4. CASE x = y
    BY <2>3, <2>4
  <2>5. CASE x # y
    <3>1. S \ {y} \in P /\ S \ {x} \in P
      BY <1>2, <2>2
    <3>2. Total(f, S \ {y}) = f[x] + Total(f, (S \ {y}) \ {x})
      BY <2>5, <3>1
    <3>3. Total(f, S \ {x}) = f[y] + Total(f, (S \ {x}) \ {y})
      BY <2>2, <2>5, <3>1
    <3>4. (S \ {y}) \ {x} = (S \ {x}) \ {y} /\ (S \ {x}) \ {y} \in SUBSET V
      OBVIOUS
    <3>5. f[x] \in Nat /\ f[y] \in Nat /\ Total(f, (S \ {x}) \ {y}) \in Nat
      BY <1>1, <2>2, <3>4 DEF Values
    <3>6. Total(f, (S \ {y}) \ {x}) = Total(f, (S \ {x}) \ {y})
      BY <3>4, Zenon
    <3> QED
      BY <2>3, <3>2, <3>3, <3>5, <3>6
  <2> QED
    BY <2>4, <2>5
<1>3. \A S \in SUBSET V : S \in P
  <2> HIDE DEF P
  <2> QED
    BY <1>2, SubsetInduction
<1> QED
  BY <1>3

(* A set sums to a part of it and to what is left.                          *)
LEMMA TotalSplit ==
  ASSUME NEW V, IsFiniteSet(V), NEW f, Values(f, V), NEW A \in SUBSET V
  PROVE  /\ Total(f, V) = Total(f, A) + Total(f, V \ A)
         /\ Total(f, V) \in Nat /\ Total(f, A) \in Nat /\ Total(f, V \ A) \in Nat
<1> DEFINE P == {S \in SUBSET V : Total(f, V) = Total(f, S) + Total(f, V \ S)}
<1>1. \A S \in SUBSET V : IsFiniteSet(S) /\ Values(f, S) /\ Total(f, S) \in Nat
  <2>1. \A S \in SUBSET V : IsFiniteSet(S) /\ Values(f, S)
    BY FS_Subset DEF Values
  <2> QED
    BY <2>1, TotalFirst
<1>2. ASSUME NEW S \in SUBSET V, \A T \in SUBSET S : T # S => T \in P
      PROVE  S \in P
  <2>1. CASE S = {}
    <3>1. Total(f, S) = 0 /\ V \ S = V /\ Total(f, V) \in Nat
      BY <1>1, <2>1, TotalFirst
    <3> QED
      BY <3>1
  <2>2. CASE S # {}
    <3>1. PICK x \in S : TRUE
      BY <2>2
    <3> DEFINE R == S \ {x}
               U == V \ S
               N == V \ R
    <3>2. R \in P
      BY <1>2
    <3>3. Total(f, V) = Total(f, R) + Total(f, N)
      BY <3>2
    <3>4. Total(f, S) = f[x] + Total(f, R)
      BY <1>1, TotalRemove
    <3>5. x \in N /\ N \ {x} = U /\ N \in SUBSET V
      OBVIOUS
    <3>6. Total(f, N) = f[x] + Total(f, U)
      <4> HIDE DEF N, U
      <4> QED
        BY <1>1, <3>5, TotalRemove
    <3>7. f[x] \in Nat /\ Total(f, R) \in Nat /\ Total(f, U) \in Nat
      BY <1>1 DEF Values
    <3> HIDE DEF R, U, N
    <3>8. Total(f, V) = Total(f, S) + Total(f, U)
      BY <3>3, <3>4, <3>6, <3>7
    <3> QED
      BY <3>8 DEF U
  <2> QED
    BY <2>1, <2>2
<1>3. \A S \in SUBSET V : S \in P
  <2> HIDE DEF P
  <2> QED
    BY <1>2, SubsetInduction
<1>4. V \ A \in SUBSET V /\ V \in SUBSET V
  OBVIOUS
<1> QED
  BY <1>1, <1>3, <1>4

(* Smaller values sum to no more.                                           *)
LEMMA TotalOrder ==
  ASSUME NEW V, IsFiniteSet(V), NEW f, Values(f, V), NEW h, Values(h, V),
         \A v \in V : f[v] <= h[v]
  PROVE  Total(f, V) <= Total(h, V)
<1> DEFINE P == {S \in SUBSET V : Total(f, S) <= Total(h, S)}
<1>1. \A S \in SUBSET V :
         /\ IsFiniteSet(S) /\ Values(f, S) /\ Values(h, S)
         /\ Total(f, S) \in Nat /\ Total(h, S) \in Nat
  <2>1. \A S \in SUBSET V : IsFiniteSet(S) /\ Values(f, S) /\ Values(h, S)
    BY FS_Subset DEF Values
  <2> QED
    BY <2>1, TotalFirst
<1>2. ASSUME NEW S \in SUBSET V, \A T \in SUBSET S : T # S => T \in P
      PROVE  S \in P
  <2>1. CASE S = {}
    <3>1. Total(f, S) = 0 /\ Total(h, S) = 0
      BY <1>1, <2>1, TotalFirst
    <3> QED
      BY <3>1
  <2>2. CASE S # {}
    <3>1. PICK x \in S : TRUE
      BY <2>2
    <3> DEFINE R == S \ {x}
    <3>2. R \in P
      BY <1>2
    <3>3. Total(f, S) = f[x] + Total(f, R) /\ Total(h, S) = h[x] + Total(h, R)
      BY <1>1, TotalRemove
    <3>4. f[x] \in Nat /\ h[x] \in Nat /\ f[x] <= h[x]
          /\ Total(f, R) \in Nat /\ Total(h, R) \in Nat /\ Total(f, R) <= Total(h, R)
      BY <1>1, <3>2 DEF Values
    <3> HIDE DEF R
    <3> QED
      BY <3>3, <3>4
  <2> QED
    BY <2>1, <2>2
<1>3. \A S \in SUBSET V : S \in P
  <2> HIDE DEF P
  <2> QED
    BY <1>2, SubsetInduction
<1> QED
  BY <1>3

-----------------------------------------------------------------------------
(* What a run of the policy evicts.                                        *)

(* order names every element of the finite set S once.                      *)
Enumerates(order, S) ==
  /\ Cardinality(S) \in Nat
  /\ order \in [1..Cardinality(S) -> S]
  /\ Len(order) = Cardinality(S)
  /\ order \in Seq(S)
  /\ \A s \in S : \E i \in 1..Cardinality(S) : order[i] = s

(* The orders of a finite set enumerate it.                                 *)
LEMMA OrderEnumerates ==
  ASSUME NEW S, IsFiniteSet(S), NEW order \in SetToSeqs(S)
  PROVE  Enumerates(order, S)
<1> DEFINE n == Cardinality(S)
<1>1. n \in Nat
  BY FS_CardinalityType
<1>2. order \in [1..n -> S] /\ \A i, j \in 1..n : i # j => order[i] # order[j]
  BY DEF SetToSeqs
<1>3. order \in Seq(S) /\ Len(order) = n
  BY <1>1, <1>2
<1>4. IsFiniteSet(1..n) /\ Cardinality(1..n) = n
  BY <1>1, FS_Interval
<1>5. order \in Injection(1..n, S)
  BY <1>2 DEF Injection, IsInjective
<1>6. order \in Surjection(1..n, S)
  BY <1>4, <1>5, FS_Injection
<1>7. \A s \in S : \E i \in 1..n : order[i] = s
  BY <1>6 DEF Surjection
<1> QED
  BY <1>1, <1>2, <1>3, <1>7 DEF Enumerates

Freeing == [v \in Videos |-> Freed(v)]

(* Without the last of the first k of an order the library is over the limit. *)
NotEnough(order, k) ==
  \A j \in 0..(k - 1) :
     ~ (Total(size, downloaded) - Total(Freeing, {order[i] : i \in 1..j}) <= Limit)

(* The loop evicts a prefix of its order, of a batch at most and no more     *)
(* than is enough.                                                          *)
LEMMA UntilEnoughIsPrefix ==
  ASSUME CacheAssumption, NEW S, IsFiniteSet(S), NEW order \in SetToSeqs(S)
  PROVE  \E k \in 0..Cardinality(S) :
           k <= EvictBatch /\ NotEnough(order, k) /\ UntilEnough(order) = SubSeq(order, 1, k)
<1> DEFINE n == Cardinality(S)
           Rest(k) == Total(size, downloaded)
                        - Total([v \in Videos |-> Freed(v)], {order[i] : i \in 1..k})
           K == {k \in 0..Len(order) : k = EvictBatch \/ k = Len(order) \/ Rest(k) <= Limit}
<1>1. n \in Nat /\ Len(order) = n
  BY OrderEnumerates DEF Enumerates
<1>2. UntilEnough(order) = SubSeq(order, 1, Min(K))
  BY DEF UntilEnough
<1>3. K \in SUBSET (0..n) /\ K \in SUBSET Nat /\ n \in K /\ (EvictBatch <= n => EvictBatch \in K)
  BY <1>1 DEF CacheAssumption
<1> HIDE DEF K
<1>4. Min(K) \in K /\ \A k \in K : Min(K) <= k
  BY <1>3, LeastOf
<1>5. Min(K) \in 0..n /\ Min(K) <= EvictBatch
  BY <1>1, <1>3, <1>4 DEF CacheAssumption
<1>6. ASSUME NEW j \in 0..(Min(K) - 1)
      PROVE  ~ (Rest(j) <= Limit)
  <2> DEFINE m == Min(K)
             l == Len(order)
  <2>3. m \in 0..l /\ l \in Nat /\ j \in 0..(m - 1)
    BY <1>1, <1>5
  <2> HIDE DEF m, l
  <2>4. j \in 0..l /\ ~ (m <= j)
    BY <2>3
  <2>1. j \in 0..Len(order) /\ ~ (Min(K) <= j)
    BY <2>4 DEF m, l
  <2>2. j \notin K
    BY <1>4, <2>1
  <2> QED
    BY <2>1, <2>2 DEF K
<1>7. NotEnough(order, Min(K))
  BY <1>6 DEF NotEnough, Freeing
<1> QED
  BY <1>2, <1>5, <1>7

(* The positions before one of a prefix, and what they hold.                *)
LEMMA PrefixHolds ==
  ASSUME NEW S, NEW s \in Seq(S), NEW k \in 0..Len(s)
  PROVE  /\ SubSeq(s, 1, k) \in Seq(S)
         /\ Len(SubSeq(s, 1, k)) = k
         /\ DOMAIN SubSeq(s, 1, k) = 1..k
         /\ \A i \in 1..k : SubSeq(s, 1, k)[i] = s[i]
  OBVIOUS

(* The candidates a run may evict if unlink refuses some of them.           *)
Unspared(stamps, refused) == {v \in Candidates(stamps) : ~Spared(v, refused)}

(* A run evicts the first k, at most a batch, of an order of the candidates *)
(* that are not spared.                                                     *)
FirstOfOrder(stamps, gone) ==
  \E refused \in SUBSET Undeletable :
  \E order \in Sorted(stamps, Unspared(stamps, refused)) :
  \E k \in 0..Cardinality(Unspared(stamps, refused)) :
     k <= EvictBatch /\ NotEnough(order, k) /\ gone = SubSeq(order, 1, k)

(* What a run evicts is the first of an order, or nothing.                  *)
LEMMA EvictionIsPrefix ==
  ASSUME CacheAssumption, DiskTypes, NEW stamps, NEW gone \in Evictions(stamps)
  PROVE  gone = << >> \/ FirstOfOrder(stamps, gone)
<1>1. CASE Limit = 0
  BY <1>1 DEF Evictions
<1>2. CASE Limit # 0
  <2>1. PICK refused \in SUBSET (Undeletable \intersect downloaded) :
          \E order \in Evictable(stamps, refused) : gone = UntilEnough(order)
    BY <1>2 DEF Evictions
  <2> DEFINE S == Unspared(stamps, refused)
  <2>2. PICK order \in Sorted(stamps, S) : gone = UntilEnough(order)
    BY <2>1 DEF Evictable, Unspared
  <2>3. S \in SUBSET Videos
    BY DEF Candidates, DiskTypes, Unspared
  <2>4. IsFiniteSet(S)
    BY <2>3, FS_Subset DEF CacheAssumption
  <2> HIDE DEF S
  <2>5. order \in SetToSeqs(S)
    BY <2>2 DEF Sorted
  <2>6. PICK k \in 0..Cardinality(S) : k <= EvictBatch /\ NotEnough(order, k) /\ UntilEnough(order) = SubSeq(order, 1, k)
    BY <2>4, <2>5, UntilEnoughIsPrefix
  <2>7. gone = SubSeq(order, 1, k)
    BY <2>2, <2>6
  <2> QED
    BY <2>1, <2>2, <2>6, <2>7 DEF S, FirstOfOrder
<1> QED
  BY <1>1, <1>2

(* What a run may take: the first of an order, a batch at most.              *)
Taken(stamps, V) ==
  \/ V = {}
  \/ \E refused \in SUBSET Undeletable :
     \E order \in Sorted(stamps, Unspared(stamps, refused)) :
     \E k \in 0..Cardinality(Unspared(stamps, refused)) :
        k <= EvictBatch /\ NotEnough(order, k) /\ V = {order[i] : i \in 1..k}

(* The facts about one order that every use of Taken starts from.           *)
LEMMA OrderOfUnspared ==
  ASSUME CacheAssumption, DiskTypes, NEW stamps, NEW refused,
         NEW order \in Sorted(stamps, Unspared(stamps, refused))
  PROVE  Enumerates(order, Unspared(stamps, refused))
<1> DEFINE U == Unspared(stamps, refused)
<1>1. U \in SUBSET Videos
  BY DEF Unspared, Candidates, DiskTypes
<1>2. order \in SetToSeqs(U)
  BY DEF Sorted
<1> HIDE DEF U
<1>3. IsFiniteSet(U)
  BY <1>1, FS_Subset DEF CacheAssumption
<1>4. Enumerates(order, U)
  BY <1>2, <1>3, OrderEnumerates
<1> QED
  BY <1>4 DEF U

(* A run takes so, and so does a run that is cut short.                     *)
LEMMA EvictionTakes ==
  ASSUME CacheAssumption, DiskTypes, NEW stamps, NEW gone \in Evictions(stamps)
  PROVE  /\ Taken(stamps, ToSet(gone))
         /\ \A k \in DOMAIN gone : Taken(stamps, ToSet(SubSeq(gone, 1, k - 1)))
<1>1. CASE gone = << >>
  <2>1. ToSet(gone) = {} /\ DOMAIN gone = {}
    BY <1>1 DEF ToSet
  <2> QED
    BY <2>1 DEF Taken
<1>2. ASSUME NEW refused \in SUBSET Undeletable,
             NEW order \in Sorted(stamps, Unspared(stamps, refused)),
             NEW k \in 0..Cardinality(Unspared(stamps, refused)),
             k <= EvictBatch, NotEnough(order, k), gone = SubSeq(order, 1, k)
      PROVE  /\ Taken(stamps, ToSet(gone))
             /\ \A j \in DOMAIN gone : Taken(stamps, ToSet(SubSeq(gone, 1, j - 1)))
  <2> DEFINE U == Unspared(stamps, refused)
  <2>0. Enumerates(order, U) /\ k \in 0..Cardinality(U)
    BY OrderOfUnspared
  <2> HIDE DEF U
  <2>1. order \in Seq(U) /\ k \in 0..Len(order) /\ Cardinality(U) \in Nat
    BY <2>0 DEF Enumerates
  <2>2. gone \in Seq(U) /\ Len(gone) = k /\ DOMAIN gone = 1..k
        /\ \A i \in 1..k : gone[i] = order[i]
    BY <1>2, <2>1, PrefixHolds
  <2>3. ToSet(gone) = {order[i] : i \in 1..k}
    BY <2>2 DEF ToSet
  <2>4. Taken(stamps, ToSet(gone))
    BY <1>2, <2>3 DEF Taken
  <2>5. ASSUME NEW j \in DOMAIN gone
        PROVE  Taken(stamps, ToSet(SubSeq(gone, 1, j - 1)))
    <3>1. /\ k \in Nat /\ k <= Cardinality(U) /\ Cardinality(U) \in Nat
          /\ EvictBatch \in Nat /\ k <= EvictBatch
          /\ j \in 1..k /\ Len(gone) = k
      BY <1>2, <2>1, <2>2 DEF CacheAssumption, U
    <3> DEFINE m == j - 1
               s == SubSeq(gone, 1, m)
    <3>2. /\ m \in 0..k /\ m \in 0..Cardinality(U) /\ m <= EvictBatch
          /\ \A i \in 1..m : i \in 1..k
      <4> DEFINE c == Cardinality(U)
      <4>1. k \in Nat /\ c \in Nat /\ EvictBatch \in Nat /\ k <= c /\ k <= EvictBatch /\ j \in 1..k
        BY <3>1
      <4> HIDE DEF c
      <4>2. m \in 0..k /\ m \in 0..c /\ m <= EvictBatch
        BY <4>1
      <4>3. \A i \in 1..m : i \in 1..k
        BY <4>1
      <4> QED
        BY <4>2, <4>3 DEF c
    <3>3. NotEnough(order, m)
      <4>1. SUFFICES ASSUME NEW i \in 0..(m - 1) PROVE i \in 0..(k - 1)
        BY <1>2 DEF NotEnough
      <4>2. j \in Int /\ k \in Int /\ j <= k
        BY <3>1
      <4> QED
        BY <4>2
    <3> HIDE DEF m
    <3>4. DOMAIN s = 1..m /\ \A i \in 1..m : s[i] = gone[i]
      <4>1. gone \in Seq(U) /\ m \in 0..Len(gone)
        BY <2>2, <3>2
      <4> QED
        BY <4>1, PrefixHolds
    <3> HIDE DEF s
    <3>5. \A i \in 1..m : s[i] = order[i]
      BY <2>2, <3>2, <3>4
    <3>6. ToSet(s) = {order[i] : i \in 1..m}
      BY <3>4, <3>5 DEF ToSet
    <3>7. Taken(stamps, ToSet(s))
      BY <3>2, <3>3, <3>6 DEF Taken, U
    <3> QED
      BY <3>7 DEF s, m
  <2> QED
    BY <2>4, <2>5
<1>3. gone = << >> \/ FirstOfOrder(stamps, gone)
  BY EvictionIsPrefix
<1>4. ASSUME gone # << >>
      PROVE  /\ Taken(stamps, ToSet(gone))
             /\ \A k \in DOMAIN gone : Taken(stamps, ToSet(SubSeq(gone, 1, k - 1)))
  <2>1. PICK refused \in SUBSET Undeletable :
          \E order \in Sorted(stamps, Unspared(stamps, refused)) :
          \E k \in 0..Cardinality(Unspared(stamps, refused)) :
             k <= EvictBatch /\ NotEnough(order, k) /\ gone = SubSeq(order, 1, k)
    BY <1>3, <1>4 DEF FirstOfOrder
  <2>2. PICK order \in Sorted(stamps, Unspared(stamps, refused)) :
          \E k \in 0..Cardinality(Unspared(stamps, refused)) :
             k <= EvictBatch /\ NotEnough(order, k) /\ gone = SubSeq(order, 1, k)
    BY <2>1
  <2>3. PICK k \in 0..Cardinality(Unspared(stamps, refused)) :
             k <= EvictBatch /\ NotEnough(order, k) /\ gone = SubSeq(order, 1, k)
    BY <2>2
  <2> QED
    BY <1>2, <2>3
<1> QED
  BY <1>1, <1>4

(* What is taken was downloaded, is a batch at most and is not protected.    *)
LEMMA TakenIsEvictable ==
  ASSUME CacheAssumption, DiskTypes, NEW stamps, NEW V, Taken(stamps, V)
  PROVE  /\ V \subseteq downloaded
         /\ Cardinality(V) <= EvictBatch
         /\ ProtectLiked => V \intersect liked = {}
<1>1. CASE V = {}
  BY <1>1, FS_EmptySet DEF CacheAssumption
<1>2. ASSUME NEW refused \in SUBSET Undeletable,
             NEW order \in Sorted(stamps, Unspared(stamps, refused)),
             NEW k \in 0..Cardinality(Unspared(stamps, refused)),
             k <= EvictBatch, NotEnough(order, k), V = {order[i] : i \in 1..k}
      PROVE  /\ V \subseteq downloaded
             /\ Cardinality(V) <= EvictBatch
             /\ ProtectLiked => V \intersect liked = {}
  <2> DEFINE U == Unspared(stamps, refused)
             f == [i \in 1..k |-> order[i]]
  <2>0. Enumerates(order, U)
    BY OrderOfUnspared
  <2>2. U \subseteq downloaded /\ (ProtectLiked => U \intersect liked = {})
    BY DEF Unspared, Candidates, Spared
  <2> HIDE DEF U
  <2>1. order \in [1..Cardinality(U) -> U] /\ Cardinality(U) \in Nat
    BY <2>0 DEF Enumerates
  <2>3. \A i \in 1..k : i \in 1..Cardinality(U)
    BY <2>1 DEF U
  <2>4. V \subseteq U
    BY <1>2, <2>1, <2>3
  <2>5. f \in Surjection(1..k, V)
    BY <1>2 DEF Surjection
  <2>6. IsFiniteSet(1..k) /\ Cardinality(1..k) = k
    <3>1. k \in Nat /\ k \in Int /\ 1 \in Int
      BY <2>1 DEF U
    <3>2. IsFiniteSet(1..k) /\ Cardinality(1..k) = IF 1 > k THEN 0 ELSE (k - 1) + 1
      BY <3>1, FS_Interval
    <3> QED
      BY <3>1, <3>2
  <2>7. IsFiniteSet(V) /\ Cardinality(V) <= Cardinality(1..k)
    BY <2>5, <2>6, FS_Surjection
  <2>8. Cardinality(V) <= EvictBatch
    BY <1>2, <2>6, <2>7, FS_CardinalityType DEF CacheAssumption
  <2> QED
    BY <2>2, <2>4, <2>8
<1> QED
  BY <1>1, <1>2 DEF Taken

Unwanted == rejected \union disliked \union (IF ByScore THEN {} ELSE watched)

(* With no more rows than the query returns, all of the library is a         *)
(* candidate.                                                               *)
LEMMA AllAreCandidates ==
  ASSUME CacheAssumption, DiskTypes, Cardinality(downloaded) <= CandidateLimit,
         NEW stamps, NEW w \in downloaded
  PROVE  w \in Candidates(stamps)
<1> DEFINE before == {u \in downloaded \ {w} : Place(stamps, u) < Place(stamps, w)}
<1>1. IsFiniteSet(downloaded) /\ Cardinality(downloaded) \in Nat
  BY FS_Subset, FS_CardinalityType DEF CacheAssumption, DiskTypes
<1>2. IsFiniteSet(downloaded \ {w}) /\ Cardinality(downloaded \ {w}) = Cardinality(downloaded) - 1
  BY <1>1, FS_RemoveElement
<1>3. before \in SUBSET (downloaded \ {w})
  OBVIOUS
<1> HIDE DEF before
<1>4. IsFiniteSet(before) /\ Cardinality(before) <= Cardinality(downloaded \ {w})
  BY <1>2, <1>3, FS_Subset
<1>5. Cardinality(before) \in Nat /\ CandidateLimit \in Nat
  BY <1>4, FS_CardinalityType DEF CacheAssumption
<1>6. Cardinality(before) < CandidateLimit
  BY <1>1, <1>2, <1>4, <1>5
<1> QED
  BY <1>6 DEF Candidates, before

(* A wanted video is never sooner than an unwanted one.                     *)
LEMMA UnwantedGoFirst ==
  ASSUME CacheAssumption, NEW stamps, NEW u, NEW w, u \notin Unwanted, w \in Unwanted
  PROVE  ~ Sooner(stamps, u, w)
<1> DEFINE a == EvictionKey(u)
           b == EvictionKey(w)
<1>1. CASE ByScore
  <2>1. /\ a[1] = 1 /\ a[2] = 1
        /\ b[1] \in {0, 1} /\ b[2] \in {0, 1} /\ (b[1] = 0 \/ b[2] = 0)
    BY <1>1 DEF Unwanted, EvictionKey, Lacks
  <2> HIDE DEF a, b
  <2>2. a # b /\ ~ KeyBefore(a, b)
    <3>1. a # b
      BY <2>1
    <3>2. ASSUME NEW i \in 1..4, a[i] < b[i], \A j \in 1..(i - 1) : a[j] = b[j]
          PROVE  FALSE
      <4>1. CASE i = 1
        BY <2>1, <3>2, <4>1
      <4>2. CASE i = 2
        BY <2>1, <3>2, <4>2
      <4>3. CASE i \in {3, 4}
        <5>1. a[1] = b[1] /\ a[2] = b[2]
          BY <3>2, <4>3
        <5> QED
          BY <2>1, <5>1
      <4> QED
        BY <4>1, <4>2, <4>3
    <3> QED
      BY <3>1, <3>2 DEF KeyBefore
  <2> QED
    BY <2>2 DEF Sooner, a, b
<1>2. CASE ~ ByScore
  <2>1. /\ a[1] = 1 /\ a[2] = 1 /\ a[3] = 1
        /\ b[1] \in {0, 1} /\ b[2] \in {0, 1} /\ b[3] \in {0, 1}
        /\ b[1] = 0 \/ b[2] = 0 \/ b[3] = 0
    BY <1>2 DEF Unwanted, EvictionKey, Lacks
  <2> HIDE DEF a, b
  <2>2. a # b /\ ~ KeyBefore(a, b)
    <3>1. a # b
      BY <2>1
    <3>2. ASSUME NEW i \in 1..4, a[i] < b[i], \A j \in 1..(i - 1) : a[j] = b[j]
          PROVE  FALSE
      <4>1. CASE i = 1
        BY <2>1, <3>2, <4>1
      <4>2. CASE i = 2
        BY <2>1, <3>2, <4>2
      <4>3. CASE i = 3
        BY <2>1, <3>2, <4>3
      <4>4. CASE i = 4
        <5>1. a[1] = b[1] /\ a[2] = b[2] /\ a[3] = b[3]
          BY <3>2, <4>4
        <5> QED
          BY <2>1, <5>1
      <4> QED
        BY <4>1, <4>2, <4>3, <4>4
    <3> QED
      BY <3>1, <3>2 DEF KeyBefore
  <2> QED
    BY <2>2 DEF Sooner, a, b
<1> QED
  BY <1>1, <1>2

(* If a run takes a wanted video, the unwanted ones that stay could not be   *)
(* evicted: they come before it in the order.                               *)
LEMMA TakenWantedLast ==
  ASSUME CacheAssumption, DiskTypes, Cardinality(downloaded) <= CandidateLimit,
         NEW stamps, NEW V, Taken(stamps, V),
         NEW u \in V, u \notin Unwanted,
         NEW w \in downloaded, w \notin V, w \in Unwanted
  PROVE  w \in Undeletable \union (IF ProtectLiked THEN liked ELSE {})
<1>1. ASSUME NEW refused \in SUBSET Undeletable,
             NEW order \in Sorted(stamps, Unspared(stamps, refused)),
             NEW k \in 0..Cardinality(Unspared(stamps, refused)),
             V = {order[i] : i \in 1..k}
      PROVE  w \in Undeletable \union (IF ProtectLiked THEN liked ELSE {})
  <2> DEFINE U == Unspared(stamps, refused)
             c == Cardinality(U)
  <2>0. Enumerates(order, U)
    BY OrderOfUnspared
  <2>2. k \in 0..c /\ \A i, j \in DOMAIN order : i < j => Sooner(stamps, order[i], order[j])
    BY DEF Sorted
  <2>3. w \in Candidates(stamps)
    BY AllAreCandidates
  <2> HIDE DEF U
  <2>1. order \in [1..c -> U] /\ c \in Nat /\ \A s \in U : \E i \in 1..c : order[i] = s
    BY <2>0 DEF Enumerates
  <2> HIDE DEF c
  <2>4. w \notin U
    <3>1. SUFFICES ASSUME w \in U PROVE FALSE
      OBVIOUS
    <3>2. PICK j \in 1..c : order[j] = w
      BY <2>1, <3>1
    <3>3. PICK i \in 1..k : order[i] = u
      BY <1>1
    <3>4. ~ (j \in 1..k)
      BY <1>1, <3>2
    <3>5. i < j /\ i \in 1..c
      BY <2>1, <2>2, <3>4
    <3>6. Sooner(stamps, u, w)
      BY <2>1, <2>2, <3>2, <3>3, <3>5
    <3> QED
      BY <3>6, UnwantedGoFirst
  <2>5. Spared(w, refused)
    BY <2>3, <2>4 DEF U, Unspared
  <2> QED
    BY <2>5 DEF Spared
<1> QED
  BY <1>1 DEF Taken

-----------------------------------------------------------------------------
(* The catalogue and the disk.                                             *)

(* An empty catalogue and the watch folders' files agree.                   *)
LEMMA Initially ==
  ASSUME CacheAssumption, Init
  PROVE  DiskInv
BY DEF CacheAssumption, Init, DiskInv, DiskTypes, PathsKnown, ArrivingHasFile,
       CatalogueMatchesDisk, Arrivals, Paths

(* A run of the policy, complete or cut short after an unlink: who had an    *)
(* arriving file or a row without one is noted in torn.                      *)
LEMMA EvictKeepsDisk ==
  ASSUME DiskInv, NEW stamps, NEW gone, ToSet(gone) \subseteq downloaded,
         NEW halfway, NEW lost, halfway \subseteq lost,
         Evict(stamps, gone, halfway, lost),
         \/ arriving' = arriving
         \/ arriving' = [v \in Videos |-> "none"] /\ Arrivals \subseteq lost
  PROVE  DiskInv'
<1> DEFINE V == ToSet(gone)
<1>1. /\ downloaded' = downloaded \ V
      /\ path' = [v \in Videos |-> IF v \in V THEN "none" ELSE path[v]]
      /\ files' = files \ {v \in V \union halfway : path[v] = "file"}
      /\ torn' = (torn \ V) \union lost \union
                    {v \in V : path[v] = "part" \/ arriving[v] # "none"}
  BY DEF Evict
<1>2. V \subseteq downloaded
  OBVIOUS
<1> HIDE DEF V
<1>3. /\ downloaded \in SUBSET Videos /\ files \in SUBSET Videos
      /\ path \in [Videos -> Paths] /\ arriving \in [Videos -> Paths]
  BY DEF DiskInv, DiskTypes
<1>4. /\ \A v \in downloaded : path[v] \in {"file", "part"}
      /\ \A v \in Videos : arriving[v] # "none" => v \in files \union torn
  BY <1>3 DEF DiskInv, PathsKnown, ArrivingHasFile, Arrivals, Paths
<1>5. DiskTypes'
  <2>1. downloaded' \in SUBSET Videos /\ files' \in SUBSET Videos
    BY <1>1, <1>3
  <2>2. path' \in [Videos -> Paths]
    BY <1>1, <1>3 DEF Paths
  <2>3. arriving' \in [Videos -> Paths]
    BY <1>3 DEF Paths
  <2> QED
    BY <2>1, <2>2, <2>3 DEF DiskTypes
<1>6. PathsKnown'
  BY <1>1, <1>3, <1>4 DEF PathsKnown
<1>7. \A v \in Videos : arriving'[v] # "none" => arriving[v] # "none"
  BY <1>3
<1>8. ArrivingHasFile'
  <2>1. SUFFICES ASSUME NEW v \in Videos, arriving'[v] # "none"
                 PROVE  v \in files' \union torn'
    BY DEF ArrivingHasFile, Arrivals
  <2>2. arriving[v] # "none" /\ v \in files \union torn
    BY <1>4, <1>7, <2>1
  <2>3. CASE v \in V
    BY <1>1, <2>2, <2>3
  <2>4. CASE v \notin V
    BY <1>1, <2>2, <2>4
  <2> QED
    BY <2>3, <2>4
<1>9. downloaded' \subseteq files' \union torn'
  <2>1. downloaded \subseteq files \union torn
    BY DEF DiskInv, CatalogueMatchesDisk
  <2> QED
    BY <1>1, <2>1
<1>10. files' \subseteq downloaded' \union Arrivals' \union Local \union torn'
  <2>1. files \subseteq downloaded \union Arrivals \union Local \union torn
    BY DEF DiskInv, CatalogueMatchesDisk
  <2>2. SUFFICES ASSUME NEW v \in files', v \notin Local
                 PROVE  v \in downloaded' \union Arrivals' \union torn'
    OBVIOUS
  <2>3. v \in files /\ v \in Videos
    BY <1>1, <1>3, <2>2
  <2>4. CASE v \in V
    <3>1. path[v] = "part"
      BY <1>1, <1>2, <1>4, <2>2, <2>4
    <3> QED
      BY <1>1, <2>4, <3>1
  <2>5. CASE v \notin V /\ v \in downloaded
    BY <1>1, <2>5
  <2>6. CASE v \notin V /\ v \in torn
    BY <1>1, <2>6
  <2>7. CASE v \in Arrivals
    <3>1. Arrivals \subseteq Arrivals' \/ Arrivals \subseteq lost
      BY DEF Arrivals
    <3> QED
      BY <1>1, <2>7, <3>1
  <2> QED
    BY <2>1, <2>2, <2>3, <2>4, <2>5, <2>6, <2>7
<1> QED
  BY <1>5, <1>6, <1>8, <1>9, <1>10 DEF DiskInv, CatalogueMatchesDisk

(* A scan of a watch folder enters a file that is there.                     *)
LEMMA ScanKeepsDisk ==
  ASSUME DiskInv, NEW v \in Local, ScanLocal(v), CacheAssumption
  PROVE  DiskInv'
<1>1. /\ v \in Videos /\ v \in files
      /\ downloaded' = downloaded \union {v}
      /\ path' = [path EXCEPT ![v] = "file"]
      /\ torn' = torn \ {v}
      /\ files' = files /\ arriving' = arriving
  BY DEF ScanLocal, CacheAssumption, disk
<1>2. Arrivals' = Arrivals
  BY <1>1 DEF Arrivals
<1>3. DiskTypes'
  BY <1>1 DEF DiskInv, DiskTypes, Paths
<1>4. PathsKnown'
  BY <1>1 DEF DiskInv, DiskTypes, PathsKnown
<1>5. ArrivingHasFile'
  BY <1>1, <1>2 DEF DiskInv, ArrivingHasFile
<1>6. CatalogueMatchesDisk'
  BY <1>1, <1>2 DEF DiskInv, CatalogueMatchesDisk
<1> QED
  BY <1>3, <1>4, <1>5, <1>6 DEF DiskInv

(* yt-dlp puts a file on the disk that the catalogue does not know yet.      *)
LEMMA FetchKeepsDisk ==
  ASSUME DiskInv, NEW v \in Videos, NEW name \in {"file", "part"}, NEW archived,
         Fetch(v, name, archived)
  PROVE  DiskInv'
<1>1. /\ downloaded' = downloaded /\ path' = path /\ torn' = torn
      /\ files' = files \union {v}
      /\ arriving' = [arriving EXCEPT ![v] = name]
  BY DEF Fetch, catalogue
<1>2. arriving \in [Videos -> Paths]
  BY DEF DiskInv, DiskTypes
<1>3. Arrivals' = Arrivals \union {v}
  BY <1>1, <1>2 DEF Arrivals
<1>4. DiskTypes'
  BY <1>1 DEF DiskInv, DiskTypes, Paths
<1>5. PathsKnown' /\ ArrivingHasFile' /\ CatalogueMatchesDisk'
  BY <1>1, <1>3 DEF DiskInv, PathsKnown, ArrivingHasFile, CatalogueMatchesDisk
<1> QED
  BY <1>4, <1>5 DEF DiskInv

(* The download that ends enters what arrived.                              *)
LEMMA FinishKeepsDisk ==
  ASSUME DiskInv, NEW v \in Videos, NEW bytes, FinishJob(v, bytes)
  PROVE  DiskInv'
<1>1. /\ arriving[v] # "none"
      /\ downloaded' = downloaded \union {v}
      /\ path' = [path EXCEPT ![v] = arriving[v]]
      /\ arriving' = [arriving EXCEPT ![v] = "none"]
      /\ torn' = IF v \in files THEN torn \ {v} ELSE torn
      /\ files' = files
  BY DEF FinishJob
<1>2. path \in [Videos -> Paths] /\ arriving \in [Videos -> Paths]
  BY DEF DiskInv, DiskTypes
<1>3. Arrivals' = Arrivals \ {v} /\ v \in Arrivals
  BY <1>1, <1>2 DEF Arrivals
<1>4. v \in files \union torn
  BY <1>3 DEF DiskInv, ArrivingHasFile
<1>5. DiskTypes'
  BY <1>1 DEF DiskInv, DiskTypes, Paths
<1>6. PathsKnown'
  BY <1>1 DEF DiskInv, DiskTypes, PathsKnown
<1>7. ArrivingHasFile'
  BY <1>1, <1>3, <1>4 DEF DiskInv, ArrivingHasFile
<1>8. CatalogueMatchesDisk'
  BY <1>1, <1>3, <1>4 DEF DiskInv, CatalogueMatchesDisk
<1> QED
  BY <1>5, <1>6, <1>7, <1>8 DEF DiskInv

(* A crash loses what the download thread had.                              *)
LEMMA CrashKeepsDisk ==
  ASSUME DiskInv, Crash
  PROVE  DiskInv'
<1>1. /\ downloaded' = downloaded /\ path' = path /\ files' = files
      /\ arriving' = [v \in Videos |-> "none"]
      /\ torn' = torn \union Arrivals
  BY DEF Crash, Die
<1>2. Arrivals' = {}
  BY <1>1 DEF Arrivals
<1> QED
  BY <1>1, <1>2 DEF DiskInv, DiskTypes, PathsKnown, ArrivingHasFile, CatalogueMatchesDisk, Paths

(* What the other operations leave alone.                                   *)
LEMMA DiskUnchanged ==
  ASSUME DiskInv, UNCHANGED <<downloaded, path, arriving, files, torn>>
  PROVE  DiskInv'
BY DEF DiskInv, DiskTypes, PathsKnown, ArrivingHasFile, CatalogueMatchesDisk, Arrivals

(* Every operation keeps the catalogue and the disk in agreement.           *)
LEMMA Inductive ==
  ASSUME CacheAssumption, DiskInv, [Next]_vars
  PROVE  DiskInv'
<1> USE DEF catalogue, disk
<1>0. DiskTypes
  BY DEF DiskInv
<1>1. ASSUME NEW stamps, NEW gone \in Evictions(stamps)
      PROVE  /\ ToSet(gone) \subseteq downloaded
             /\ \A k \in DOMAIN gone : ToSet(SubSeq(gone, 1, k - 1)) \subseteq downloaded
  BY <1>0, <1>1, EvictionTakes, TakenIsEvictable
<1>2. ASSUME NEW v \in Videos, NEW queue \in BOOLEAN, Discover(v, queue) PROVE DiskInv'
  BY <1>2, DiskUnchanged DEF Discover
<1>3. ASSUME NEW v \in Videos, FetchArtwork(v) \/ AddUrl(v) \/ LeaveJob(v) PROVE DiskInv'
  BY <1>3, DiskUnchanged DEF FetchArtwork, AddUrl, LeaveJob
<1>4. ASSUME NEW v \in Local, ScanLocal(v) PROVE DiskInv'
  BY <1>4, ScanKeepsDisk
<1>5. ASSUME NEW p \in Profiles, NEW v \in Videos, NEW like, NEW dislike, NEW c,
             Feedback(p, v, like, dislike, c)
      PROVE  DiskInv'
  BY <1>5, DiskUnchanged DEF Feedback
<1>6. ASSUME NEW v \in Videos, NEW flag, Reject(v, flag) PROVE DiskInv'
  BY <1>6, DiskUnchanged DEF Reject
<1>7. ASSUME NEW v \in Videos, NEW name \in {"file", "part"}, NEW b, Fetch(v, name, b)
      PROVE  DiskInv'
  BY <1>7, FetchKeepsDisk
<1>8. ASSUME NEW v \in Videos, NEW bytes, FinishJob(v, bytes) PROVE DiskInv'
  BY <1>8, FinishKeepsDisk
<1>9. CASE RefreshScores \/ PlanOffline
  BY <1>9, DiskUnchanged DEF RefreshScores, PlanOffline
<1>10. CASE EnforceStorage \/ SyncMaintenance
  <2>1. arriving' = arriving /\ \E gone \in Evictions(times) : Evict(times, gone, {}, {})
    BY <1>10 DEF EnforceStorage, SyncMaintenance
  <2> QED
    BY <1>1, <2>1, EvictKeepsDisk
<1>11. CASE RecommendationCycle
  <2>1. arriving' = arriving
    BY <1>11 DEF RecommendationCycle
  <2>2. \E stamps : \E gone \in Evictions(stamps) : Evict(stamps, gone, {}, {})
    BY <1>11 DEF RecommendationCycle
  <2> QED
    BY <1>1, <2>1, <2>2, EvictKeepsDisk
<1>12. CASE Crash
  BY <1>12, CrashKeepsDisk
<1>13. CASE CrashWhileEvicting
  <2>1. arriving' = [v \in Videos |-> "none"]
    BY <1>13 DEF CrashWhileEvicting, Die
  <2>2. PICK gone \in Evictions(times) : \E k \in DOMAIN gone :
          Evict(times, SubSeq(gone, 1, k - 1), {gone[k]}, Arrivals \union {gone[k]})
    BY <1>13 DEF CrashWhileEvicting
  <2>3. PICK k \in DOMAIN gone :
          Evict(times, SubSeq(gone, 1, k - 1), {gone[k]}, Arrivals \union {gone[k]})
    BY <2>2
  <2>4. ToSet(SubSeq(gone, 1, k - 1)) \subseteq downloaded
    BY <1>1
  <2> QED
    BY <2>1, <2>3, <2>4, EvictKeepsDisk
<1>14. CASE UNCHANGED vars
  BY <1>14, DiskUnchanged DEF vars
<1> QED
  BY <1>2, <1>3, <1>4, <1>5, <1>6, <1>7, <1>8, <1>9, <1>10, <1>11, <1>12, <1>13, <1>14
     DEF Next

(* Every step keeps DiskInv, from the start.                                *)
THEOREM Invariance == Spec => []DiskInv
BY CacheAssumption, Initially, Inductive, PTL DEF Spec

(* The catalogue and the disk agree in every state: whatever planner, feeds, *)
(* users and the policy do and wherever the process dies, a row that says    *)
(* downloaded has its file and a file has its row, but for the videos whose  *)
(* download or eviction was cut short (downloader, storage_policy).          *)
THEOREM CatalogueMatchesDiskHolds == Spec => []CatalogueMatchesDisk
<1>1. DiskInv => CatalogueMatchesDisk
  BY DEF DiskInv
<1> QED
  BY <1>1, Invariance, PTL

-----------------------------------------------------------------------------
(* What leaves the library.                                                *)

(* Only a run of the policy takes videos from the library, by the age of     *)
(* rows before or after a refresh of the scores.                            *)
LEMMA LibraryShrinks ==
  ASSUME CacheAssumption, DiskInv, [Next]_vars
  PROVE  \E stamps :
            /\ Taken(stamps, downloaded \ downloaded')
            /\ downloaded \ downloaded' # {} => downloaded' \subseteq downloaded
<1> USE DEF catalogue, disk
<1>0. DiskTypes
  BY DEF DiskInv
<1>1. CASE downloaded \ downloaded' = {}
  BY <1>1 DEF Taken
<1>2. ASSUME NEW stamps, NEW s, NEW halfway, NEW lost,
             Evict(stamps, s, halfway, lost), Taken(stamps, ToSet(s))
      PROVE  \E st :
                /\ Taken(st, downloaded \ downloaded')
                /\ downloaded' \subseteq downloaded
  <2>1. ToSet(s) \subseteq downloaded
    BY <1>0, <1>2, TakenIsEvictable
  <2>2. downloaded' = downloaded \ ToSet(s)
    BY <1>2 DEF Evict
  <2>3. downloaded \ downloaded' = ToSet(s)
    BY <2>1, <2>2
  <2> QED
    BY <1>2, <2>2, <2>3
<1>3. CASE EnforceStorage \/ SyncMaintenance
  <2>1. PICK gone \in Evictions(times) : Evict(times, gone, {}, {})
    BY <1>3 DEF EnforceStorage, SyncMaintenance
  <2>2. Taken(times, ToSet(gone))
    BY <1>0, EvictionTakes
  <2> QED
    BY <1>2, <2>1, <2>2
<1>4. CASE RecommendationCycle
  <2>1. PICK stamps : \E gone \in Evictions(stamps) : Evict(stamps, gone, {}, {})
    BY <1>4 DEF RecommendationCycle
  <2>2. PICK gone \in Evictions(stamps) : Evict(stamps, gone, {}, {})
    BY <2>1
  <2>3. Taken(stamps, ToSet(gone))
    BY <1>0, EvictionTakes
  <2> QED
    BY <1>2, <2>2, <2>3
<1>5. CASE CrashWhileEvicting
  <2>1. PICK gone \in Evictions(times) : \E k \in DOMAIN gone :
          Evict(times, SubSeq(gone, 1, k - 1), {gone[k]}, Arrivals \union {gone[k]})
    BY <1>5 DEF CrashWhileEvicting
  <2>2. PICK k \in DOMAIN gone :
          Evict(times, SubSeq(gone, 1, k - 1), {gone[k]}, Arrivals \union {gone[k]})
    BY <2>1
  <2>3. Taken(times, ToSet(SubSeq(gone, 1, k - 1)))
    BY <1>0, EvictionTakes
  <2> QED
    BY <1>2, <2>2, <2>3
<1>6. ASSUME ~ (EnforceStorage \/ SyncMaintenance), ~ RecommendationCycle, ~ CrashWhileEvicting
      PROVE  downloaded \subseteq downloaded'
  BY <1>6 DEF Next, vars, Discover, FetchArtwork, AddUrl, LeaveJob, ScanLocal, Feedback,
       Reject, Fetch, FinishJob, RefreshScores, PlanOffline, Crash
<1> QED
  BY <1>1, <1>3, <1>4, <1>5, <1>6

(* No step takes more than a batch from the library, and none takes a video  *)
(* that is liked while likes protect (StoragePolicyManager.enforce_once).    *)
THEOREM EvictsABatchHolds == Spec => EvictsABatch
<1>1. ASSUME CacheAssumption, DiskInv, [Next]_vars
      PROVE  /\ Cardinality(downloaded \ downloaded') <= EvictBatch
             /\ ProtectLiked => (downloaded \ downloaded') \intersect liked = {}
  <2>1. PICK stamps : Taken(stamps, downloaded \ downloaded')
    BY <1>1, LibraryShrinks
  <2>2. DiskTypes
    BY <1>1 DEF DiskInv
  <2> QED
    BY <1>1, <2>1, <2>2, TakenIsEvictable
<1>2. DiskInv /\ [Next]_vars =>
        [LET gone == downloaded \ downloaded'
         IN /\ Cardinality(gone) <= EvictBatch
            /\ ProtectLiked => gone \intersect liked = {}]_vars
  BY <1>1, CacheAssumption
<1> QED
  BY <1>2, Invariance, PTL DEF Spec, EvictsABatch

(* A step takes a video that is neither rejected, disliked nor (under        *)
(* watched_oldest) watched only if the unwanted ones that stay are protected *)
(* or may refuse to be deleted, as long as the query sees every row          *)
(* (_watched_oldest_key, _low_score_key, list_storage_candidates).           *)
THEOREM WantedVideosLastHolds == Spec => WantedVideosLast
<1>1. ASSUME CacheAssumption, DiskInv, [Next]_vars,
             Cardinality(downloaded) <= CandidateLimit,
             (downloaded \ downloaded') \ Unwanted # {}
      PROVE  downloaded' \intersect Unwanted
               \subseteq Undeletable \union (IF ProtectLiked THEN liked ELSE {})
  <2>1. PICK stamps :
           /\ Taken(stamps, downloaded \ downloaded')
           /\ downloaded' \subseteq downloaded
    BY <1>1, LibraryShrinks
  <2>2. DiskTypes
    BY <1>1 DEF DiskInv
  <2>3. PICK u \in downloaded \ downloaded' : u \notin Unwanted
    BY <1>1
  <2>4. ASSUME NEW w \in downloaded' \intersect Unwanted
        PROVE  w \in Undeletable \union (IF ProtectLiked THEN liked ELSE {})
    BY <1>1, <2>1, <2>2, <2>3, TakenWantedLast
  <2> QED
    BY <2>4
<1>2. DiskInv /\ [Next]_vars =>
        [LET gone == downloaded \ downloaded'
             unwanted == rejected \union disliked \union (IF ByScore THEN {} ELSE watched)
         IN (Cardinality(downloaded) <= CandidateLimit /\ gone \ unwanted # {}) =>
              downloaded' \intersect unwanted
                \subseteq Undeletable \union (IF ProtectLiked THEN liked ELSE {})]_vars
  BY <1>1, CacheAssumption DEF Unwanted
<1> QED
  BY <1>2, Invariance, PTL DEF Spec, WantedVideosLast

(* What a run of the policy takes from the library: a batch at most, nothing *)
(* protected, and wanted videos last (StoragePolicyManager.enforce_once).    *)
THEOREM EvictionSparesTheWantedHolds == Spec => EvictionSparesTheWanted
BY EvictsABatchHolds, WantedVideosLastHolds DEF EvictionSparesTheWanted

-----------------------------------------------------------------------------
(* What a run of the planner queues.                                       *)

(* A nonempty set of the first numbers has a greatest element.              *)
LEMMA GreatestOf ==
  ASSUME NEW n \in Nat, NEW K \in SUBSET (1..n), K # {}
  PROVE  Max(K) \in K /\ \A k \in K : k <= Max(K)
<1> DEFINE L == {n - k : k \in K}
<1>1. L \in SUBSET Nat /\ L # {}
  <2>1. \A k \in K : n - k \in Nat
    OBVIOUS
  <2> QED
    BY <2>1
<1> HIDE DEF L
<1>2. Min(L) \in L /\ \A l \in L : Min(L) <= l
  BY <1>1, LeastOf
<1>3. PICK k \in K : n - k = Min(L)
  BY <1>2 DEF L
<1>4. \A j \in K : n - j \in L
  BY DEF L
<1>5. \A j \in K : k >= j
  BY <1>2, <1>3, <1>4
<1> QED
  BY <1>5 DEF Max

(* What the loop of the planner carries.                                    *)
PlanType ==
  [queue : SUBSET Videos, deficit : Int, bytes : Int, have : SUBSET Videos,
   size : [Videos -> Nat]]

(* A planned video takes time, and bytes.                                   *)
LEMMA Durations ==
  ASSUME CacheAssumption, NEW v \in Videos
  PROVE  /\ PlannedDuration(v) \in Nat /\ PlannedDuration(v) > 0
         /\ PlannedDuration(v) * Rate \in Nat /\ PlannedDuration(v) * Rate > 0
<1>1. Duration[v] \in Nat /\ Fallback \in Nat \ {0} /\ Rate \in Nat \ {0}
  BY DEF CacheAssumption
<1>2. PlannedDuration(v) \in Nat /\ PlannedDuration(v) > 0
  BY <1>1 DEF PlannedDuration
<1> DEFINE d == PlannedDuration(v)
<1>3. d \in Nat /\ d > 0 /\ Rate \in Nat /\ Rate > 0
  BY <1>1, <1>2
<1> HIDE DEF d
<1>4. d * Rate \in Nat /\ d * Rate > 0
  BY <1>3
<1> QED
  BY <1>2, <1>4 DEF d

(* The fields of a plan with one more video.                                *)
LEMMA PlanAlsoFields ==
  ASSUME CacheAssumption, NEW plan \in PlanType, NEW v \in Videos
  PROVE  /\ PlanAlso(plan, v) \in PlanType
         /\ PlanAlso(plan, v).queue = plan.queue \union {v}
         /\ PlanAlso(plan, v).deficit = plan.deficit - PlannedDuration(v)
         /\ PlanAlso(plan, v).bytes = plan.bytes + Estimate(plan, v)
         /\ PlanAlso(plan, v).have = plan.have
         /\ PlanAlso(plan, v).size = plan.size
<1>1. plan.size[v] \in Nat /\ plan.bytes \in Int /\ plan.deficit \in Int
  BY DEF PlanType
<1>2. Estimate(plan, v) \in Int
  BY <1>1, Durations DEF Estimate
<1>3. PlannedDuration(v) \in Int
  BY Durations
<1>4. plan.deficit - PlannedDuration(v) \in Int /\ plan.bytes + Estimate(plan, v) \in Int
  BY <1>1, <1>2, <1>3
<1> DEFINE d == plan.deficit - PlannedDuration(v)
           b == plan.bytes + Estimate(plan, v)
<1>5. PlanAlso(plan, v) = [plan EXCEPT !.queue = plan.queue \union {v}, !.deficit = d, !.bytes = b]
  BY DEF PlanAlso, PlanType
<1>6. d \in Int /\ b \in Int
  BY <1>4
<1> HIDE DEF d, b
<1> DEFINE q == plan.queue \union {v}
<1>8. q \in SUBSET Videos
  BY DEF PlanType
<1> HIDE DEF q
<1>9. PlanAlso(plan, v) = [plan EXCEPT !.queue = q, !.deficit = d, !.bytes = b]
  BY <1>5 DEF q
<1>10. /\ plan.have \in SUBSET Videos /\ plan.size \in [Videos -> Nat]
       /\ plan = [queue |-> plan.queue, deficit |-> plan.deficit, bytes |-> plan.bytes,
                  have |-> plan.have, size |-> plan.size]
  BY DEF PlanType
<1>11. PlanAlso(plan, v) = [queue |-> q, deficit |-> d, bytes |-> b,
                            have |-> plan.have, size |-> plan.size]
  BY <1>9, <1>10
<1>7. /\ PlanAlso(plan, v) \in PlanType
      /\ PlanAlso(plan, v).queue = q
      /\ PlanAlso(plan, v).deficit = d
      /\ PlanAlso(plan, v).bytes = b
      /\ PlanAlso(plan, v).have = plan.have
      /\ PlanAlso(plan, v).size = plan.size
  BY <1>6, <1>8, <1>10, <1>11 DEF PlanType
<1> QED
  BY <1>7 DEF d, b, q

(* What the planner starts from when the videos of D, of sizes sz, are there. *)
Start(D, sz) ==
  [queue |-> {}, deficit |-> Deficit(D), bytes |-> Total(sz, D), have |-> D, size |-> sz]

(* g is what the loop carries after any of the recommendations recs.        *)
Loops(g, recs, base) ==
  /\ g[{}] = base
  /\ \A S \in SUBSET (DOMAIN recs) :
       S # {} => g[S] = PlanVideo(g[S \ {Max(S)}], recs[Max(S)])

(* The turns of the loop, as a function of the positions already seen.      *)
LEMMA LoopExists ==
  ASSUME CacheAssumption, NEW n \in Nat, NEW recs \in [1..n -> Videos], NEW base \in PlanType
  PROVE  \E g : /\ g \in [SUBSET (1..n) -> PlanType]
                /\ Loops(g, recs, base)
                /\ FoldLeft(PlanVideo, base, recs) = g[1..n]
<1> DEFINE V == 1..n
           pick == [S \in SUBSET V |-> Max(S)]
           step == [i \in V |-> [w \in PlanType |-> PlanVideo(w, recs[i])]]
           IsFold(g) == g = [S \in SUBSET V |-> IF S = {} THEN base
                                                ELSE PlanVideo(g[S \ {Max(S)}], recs[Max(S)])]
           chosen == CHOOSE g : IsFold(g)
<1>0. IsFiniteSet(V) /\ DOMAIN recs = V
  BY FS_Interval
<1>1. \A S \in SUBSET V : S # {} => Max(S) \in S
  BY GreatestOf
<1>2. Picks(pick, V)
  BY <1>1 DEF Picks
<1>3. \A w \in PlanType, v \in Videos : PlanVideo(w, v) \in PlanType
  BY PlanAlsoFields DEF PlanVideo
<1>4. \A i \in V, w \in PlanType : step[i][w] \in PlanType
  BY <1>3
<1>5. PICK g \in [SUBSET V -> PlanType] : FoldOf(g, V, pick, step, base)
  <2> DEFINE W == PlanType
  <2>1. base \in W /\ \A i \in V, w \in W : step[i][w] \in W
    BY <1>4
  <2> HIDE DEF pick, step, W, V
  <2>2. \E g \in [SUBSET V -> W] : FoldOf(g, V, pick, step, base)
    BY <1>0, <1>2, <2>1, FoldExists
  <2> QED
    BY <2>2 DEF W
<1>6. \A S \in SUBSET V : S # {} => g[S] = PlanVideo(g[S \ {Max(S)}], recs[Max(S)])
  <2>1. SUFFICES ASSUME NEW S \in SUBSET V, S # {}
                 PROVE  g[S] = PlanVideo(g[S \ {Max(S)}], recs[Max(S)])
    OBVIOUS
  <2>2. g[S] = step[pick[S]][g[S \ {pick[S]}]]
    BY <1>5, <2>1 DEF FoldOf
  <2>3. pick[S] = Max(S) /\ Max(S) \in V /\ g[S \ {Max(S)}] \in PlanType
    BY <1>1, <2>1
  <2> QED
    BY <2>2, <2>3
<1>7. g[{}] = base
  BY <1>5 DEF FoldOf
<1>8. IsFold(g)
  BY <1>6, <1>7
<1>9. IsFold(chosen)
  BY <1>8
<1>10. FoldLeft(PlanVideo, base, recs) = chosen[V]
  BY <1>0 DEF FoldLeft, MapThenFoldSet
<1> HIDE DEF chosen
<1>11. /\ chosen[{}] = base
       /\ \A S \in SUBSET V : S # {} => chosen[S] = PlanVideo(chosen[S \ {Max(S)}], recs[Max(S)])
  BY <1>9
<1>12. \A S \in SUBSET V : chosen[S] \in PlanType
  <2>1. ASSUME NEW S \in SUBSET V, S # {}, chosen[S \ {pick[S]}] \in PlanType
        PROVE  chosen[S] \in PlanType
    <3>1. pick[S] = Max(S) /\ Max(S) \in 1..n
      BY <1>1, <2>1
    <3> DEFINE w == chosen[S \ {Max(S)}]
               v == recs[Max(S)]
    <3>2. w \in PlanType /\ v \in Videos /\ chosen[S] = PlanVideo(w, v)
      BY <1>11, <2>1, <3>1
    <3> HIDE DEF w, v
    <3> QED
      BY <1>3, <3>2
  <2>2. chosen[{}] \in PlanType
    BY <1>11
  <2> DEFINE W == PlanType
  <2>3. Stays(chosen, V, pick, W)
    BY <2>1, <2>2 DEF Stays
  <2> HIDE DEF V, pick, W
  <2>5. \A S \in SUBSET V : chosen[S] \in W
    BY <1>0, <1>2, <2>3, FoldStays
  <2> QED
    BY <2>5 DEF W
<1>13. chosen \in [SUBSET V -> PlanType]
  BY <1>9, <1>12
<1> QED
  BY <1>0, <1>10, <1>11, <1>13 DEF Loops

(* The seconds and the bytes a video is planned with.                       *)
Seconds == [v \in Videos |-> PlannedDuration(v)]
Bytes == [v \in Videos |-> PlannedDuration(v) * Rate]

Room == IF Limit > Reserve THEN Limit - Reserve ELSE 0

(* The hours and bytes of sets of videos are numbers.                       *)
LEMMA Planned ==
  ASSUME CacheAssumption, NEW V \in SUBSET Videos
  PROVE  /\ IsFiniteSet(V) /\ Cardinality(V) \in Nat
         /\ Values(Seconds, V) /\ Values(Bytes, V) /\ Values(Duration, V)
         /\ Total(Seconds, V) \in Nat /\ Total(Bytes, V) \in Nat /\ Total(Duration, V) \in Nat
<1>1. IsFiniteSet(V) /\ Cardinality(V) \in Nat
  BY FS_Subset, FS_CardinalityType DEF CacheAssumption
<1>2. \A v \in V : Seconds[v] = PlannedDuration(v) /\ Bytes[v] = PlannedDuration(v) * Rate
  BY DEF Seconds, Bytes
<1>3. \A v \in V : PlannedDuration(v) \in Nat /\ PlannedDuration(v) * Rate \in Nat
  BY Durations
<1>4. Values(Seconds, V) /\ Values(Bytes, V) /\ Values(Duration, V)
  BY <1>2, <1>3 DEF CacheAssumption, Values
<1>5. Total(Seconds, V) \in Nat /\ Total(Bytes, V) \in Nat /\ Total(Duration, V) \in Nat
  BY <1>1, <1>4, TotalFirst
<1> QED
  BY <1>1, <1>4, <1>5

(* What holds of the plan while the loop runs: of the videos queued, all but *)
(* one leave a deficit, and the bytes are those stored and those planned.    *)
Frugal(plan, D, sz) ==
  /\ plan \in PlanType
  /\ plan.have = D /\ plan.size = sz
  /\ plan.queue \intersect (D \union queued) = {}
  /\ Cardinality(plan.queue) <= PlanBatch
  /\ plan.deficit = Deficit(D) - Total(Seconds, plan.queue)
  /\ plan.queue # {} => \E last \in plan.queue :
                            Deficit(D) > Total(Seconds, plan.queue \ {last})
  /\ plan.bytes = Total(sz, D) + Total(Bytes, plan.queue)
  /\ Limit > 0 /\ plan.queue # {} => plan.bytes <= Room

(* The sizes known are those of downloaded videos.                          *)
Library(D, sz) ==
  /\ D \in SUBSET Videos
  /\ sz \in [Videos -> Nat]
  /\ \A v \in Videos \ D : sz[v] = 0

(* The hours and bytes of a library are numbers.                            *)
LEMMA LibraryTotals ==
  ASSUME CacheAssumption, NEW D, NEW sz, Library(D, sz)
  PROVE  /\ Total(sz, D) \in Nat /\ Deficit(D) \in Int /\ Unwatched(D) \in SUBSET Videos
         /\ Deficit(D) = Target - Total(Duration, Unwatched(D))
<1>1. Unwatched(D) \in SUBSET Videos
  BY DEF Library, Unwatched
<1>2. Total(Duration, Unwatched(D)) \in Nat /\ Target \in Nat
  BY <1>1, Planned DEF CacheAssumption
<1>3. IsFiniteSet(D) /\ Values(sz, D)
  BY FS_Subset DEF Library, CacheAssumption, Values
<1>4. Total(sz, D) \in Nat
  BY <1>3, TotalFirst
<1>5. Deficit(D) = Target - Total(Duration, Unwatched(D))
  BY DEF Deficit
<1>6. Deficit(D) \in Int
  BY <1>2, <1>5
<1> QED
  BY <1>1, <1>4, <1>5, <1>6

(* A turn of the loop keeps a plan frugal: it looks before it queues.       *)
LEMMA PlanVideoIsFrugal ==
  ASSUME CacheAssumption, NEW D, NEW sz, Library(D, sz), NEW plan, Frugal(plan, D, sz),
         NEW v \in Videos, v \notin plan.queue
  PROVE  /\ Frugal(PlanVideo(plan, v), D, sz)
         /\ PlanVideo(plan, v).queue \subseteq plan.queue \union {v}
<1>1. CASE PlanVideo(plan, v) = plan
  BY <1>1
<1>2. CASE PlanVideo(plan, v) # plan
  <2> DEFINE new == PlanAlso(plan, v)
  <2>1. /\ plan.deficit > 0 /\ Cardinality(plan.queue) < PlanBatch
        /\ Eligible(plan, v) /\ Fits(plan, v)
        /\ PlanVideo(plan, v) = new
    BY <1>2 DEF PlanVideo
  <2>2. plan \in PlanType /\ plan.have = D /\ plan.size = sz /\ plan.queue \in SUBSET Videos
    BY DEF Frugal, PlanType
  <2>3. /\ new \in PlanType
        /\ new.queue = plan.queue \union {v}
        /\ new.deficit = plan.deficit - PlannedDuration(v)
        /\ new.bytes = plan.bytes + Estimate(plan, v)
        /\ new.have = D /\ new.size = sz
    BY <2>2, PlanAlsoFields
  <2> HIDE DEF new
  <2>4. v \notin D /\ v \notin queued /\ sz[v] = 0
    BY <2>1, <2>2 DEF Eligible, Library
  <2>5. Estimate(plan, v) = PlannedDuration(v) * Rate
    BY <2>2, <2>4 DEF Estimate
  <2> DEFINE d == PlannedDuration(v)
             b == PlannedDuration(v) * Rate
  <2>6. d \in Nat /\ b \in Nat /\ Seconds[v] = d /\ Bytes[v] = b
    BY Durations DEF Seconds, Bytes
  <2>7. new.bytes = plan.bytes + b /\ new.deficit = plan.deficit - d
    BY <2>3, <2>5
  <2> HIDE DEF d, b
  <2>8. new.queue \in SUBSET Videos /\ v \in new.queue /\ new.queue \ {v} = plan.queue
    BY <2>2, <2>3
  <2>9. /\ IsFiniteSet(new.queue) /\ Values(Seconds, new.queue) /\ Values(Bytes, new.queue)
        /\ Total(Seconds, plan.queue) \in Nat /\ Total(Bytes, plan.queue) \in Nat
        /\ IsFiniteSet(plan.queue) /\ Cardinality(plan.queue) \in Nat
    BY <2>2, <2>8, Planned
  <2>10. /\ Total(Seconds, new.queue) = d + Total(Seconds, plan.queue)
         /\ Total(Bytes, new.queue) = b + Total(Bytes, plan.queue)
    <3>1. Total(Seconds, new.queue) = Seconds[v] + Total(Seconds, new.queue \ {v})
      BY <2>8, <2>9, TotalRemove
    <3>2. Total(Bytes, new.queue) = Bytes[v] + Total(Bytes, new.queue \ {v})
      BY <2>8, <2>9, TotalRemove
    <3> QED
      BY <2>6, <2>8, <3>1, <3>2
  <2>11. Total(sz, D) \in Nat /\ Deficit(D) \in Int
    BY LibraryTotals
  <2>12. /\ plan.deficit = Deficit(D) - Total(Seconds, plan.queue)
         /\ plan.bytes = Total(sz, D) + Total(Bytes, plan.queue)
         /\ plan.queue \intersect (D \union queued) = {}
    BY DEF Frugal
  <2>13. new.queue \intersect (D \union queued) = {}
    BY <2>3, <2>4, <2>12
  <2>14. Cardinality(new.queue) <= PlanBatch
    <3>1. Cardinality(new.queue) = Cardinality(plan.queue) + 1
      BY <2>3, <2>9, FS_AddElement
    <3>2. PlanBatch \in Nat
      BY DEF CacheAssumption
    <3> QED
      BY <2>1, <2>9, <3>1, <3>2
  <2>15. new.deficit = Deficit(D) - Total(Seconds, new.queue)
    BY <2>6, <2>7, <2>9, <2>10, <2>11, <2>12
  <2>16. Deficit(D) > Total(Seconds, new.queue \ {v})
    <3>1. Total(Seconds, new.queue \ {v}) = Total(Seconds, plan.queue)
      BY <2>8
    <3> QED
      BY <2>1, <2>9, <2>11, <2>12, <3>1
  <2>17. new.bytes = Total(sz, D) + Total(Bytes, new.queue)
    BY <2>6, <2>7, <2>9, <2>10, <2>11, <2>12
  <2>18. Limit > 0 => new.bytes <= Room
    BY <2>1, <2>3 DEF Fits, Room
  <2>19. Frugal(new, D, sz)
    BY <2>3, <2>8, <2>13, <2>14, <2>15, <2>16, <2>17, <2>18 DEF Frugal
  <2> QED
    BY <2>1, <2>3, <2>19
<1> QED
  BY <1>1, <1>2

(* The loop starts with nothing queued.                                     *)
LEMMA StartIsFrugal ==
  ASSUME CacheAssumption, NEW D, NEW sz, Library(D, sz)
  PROVE  Frugal(Start(D, sz), D, sz)
<1>1. Total(sz, D) \in Nat /\ Deficit(D) \in Int
  BY LibraryTotals
<1>2. Start(D, sz) \in PlanType
  BY <1>1 DEF Start, PlanType, Library
<1>3. IsFiniteSet({}) /\ Cardinality({}) = 0 /\ Total(Seconds, {}) = 0 /\ Total(Bytes, {}) = 0
  <2>1. IsFiniteSet({}) /\ Cardinality({}) = 0
    BY FS_EmptySet
  <2>2. Values(Seconds, {}) /\ Values(Bytes, {})
    BY DEF Values
  <2> QED
    BY <2>1, <2>2, TotalFirst
<1>4. Start(D, sz).queue = {} /\ Start(D, sz).deficit = Deficit(D)
      /\ Start(D, sz).bytes = Total(sz, D) /\ Start(D, sz).have = D /\ Start(D, sz).size = sz
  BY DEF Start
<1>5. PlanBatch \in Nat
  BY DEF CacheAssumption
<1> QED
  BY <1>1, <1>2, <1>3, <1>4, <1>5 DEF Frugal

(* Every plan of the planner is frugal.                                     *)
LEMMA PlanIsFrugal ==
  ASSUME CacheAssumption, NEW D, NEW sz, Library(D, sz), NEW recs \in Recommendations
  PROVE  Plan(recs, D, sz) = {} \/ \E plan : Frugal(plan, D, sz) /\ Plan(recs, D, sz) = plan.queue
<1>1. PICK n \in Nat : /\ recs \in [1..n -> Videos]
                       /\ \A i, j \in 1..n : i # j => recs[i] # recs[j]
  <2>1. PICK s \in SetToSeqs(Known) : recs = SubSeq(s, 1, Min({Len(s), MaxCandidates}))
    BY DEF Recommendations
  <2>2. IsFiniteSet(Known) /\ Known \in SUBSET Videos
    BY FS_Subset DEF CacheAssumption, Known
  <2> DEFINE c == Cardinality(Known)
             m == Min({Len(s), MaxCandidates})
  <2>3. c \in Nat /\ s \in [1..c -> Known] /\ Len(s) = c
        /\ \A i, j \in 1..c : i # j => s[i] # s[j]
    BY <2>2, FS_CardinalityType DEF SetToSeqs
  <2>4. m \in Nat /\ m <= c
    <3>1. {Len(s), MaxCandidates} \in SUBSET Nat /\ {Len(s), MaxCandidates} # {}
      BY <2>3 DEF CacheAssumption
    <3>2. m \in {Len(s), MaxCandidates} /\ \A k \in {Len(s), MaxCandidates} : m <= k
      BY <3>1, LeastOf
    <3> HIDE DEF m
    <3> QED
      BY <2>3, <3>1, <3>2
  <2> HIDE DEF m, c
  <2>5. s \in Seq(Known) /\ m \in 0..Len(s)
    BY <2>3, <2>4
  <2>6. \A i \in 1..m : i \in 1..c
    BY <2>3, <2>4
  <2>7. /\ recs \in Seq(Known) /\ Len(recs) = m /\ DOMAIN recs = 1..m
        /\ \A i \in 1..m : recs[i] = s[i]
    BY <2>1, <2>5, PrefixHolds DEF m
  <2>8. recs \in [1..m -> Videos]
    BY <2>2, <2>7
  <2>9. \A i, j \in 1..m : i # j => recs[i] # recs[j]
    BY <2>3, <2>6, <2>7
  <2> QED
    BY <2>4, <2>8, <2>9
<1>2. CASE Deficit(D) <= 0
  BY <1>2 DEF Plan
<1>3. CASE ~ (Deficit(D) <= 0)
  <2>1. Frugal(Start(D, sz), D, sz) /\ Start(D, sz) \in PlanType /\ Start(D, sz).queue = {}
    BY StartIsFrugal DEF Frugal, Start
  <2>2. PICK g : /\ g \in [SUBSET (1..n) -> PlanType]
                 /\ Loops(g, recs, Start(D, sz))
                 /\ FoldLeft(PlanVideo, Start(D, sz), recs) = g[1..n]
    BY <1>1, <2>1, LoopExists
  <2>3. Plan(recs, D, sz) = g[1..n].queue
    BY <1>3, <2>2 DEF Plan, Start
  <2>4. n \in Nat /\ IsFiniteSet(1..n)
    <3>1. n \in Int /\ 1 \in Int
      OBVIOUS
    <3> QED
      BY <3>1, FS_Interval
  <2> DEFINE V == 1..n
             P == {S \in SUBSET V : /\ Frugal(g[S], D, sz)
                                    /\ g[S].queue \subseteq {recs[i] : i \in S}}
  <2>9. IsFiniteSet(V)
    BY <2>4
  <2>5. ASSUME NEW S \in SUBSET V, \A T \in SUBSET S : T # S => T \in P
        PROVE  S \in P
    <3>1. CASE S = {}
      BY <2>1, <2>2, <3>1 DEF Loops
    <3>2. CASE S # {}
      <4> DEFINE k == Max(S)
                 R == S \ {k}
      <4>1. k \in S /\ k \in V
        BY <3>2, GreatestOf
      <4>2. g[S] = PlanVideo(g[R], recs[k])
        BY <1>1, <2>2, <3>2 DEF Loops
      <4>3. R \in P
        BY <2>5, <4>1
      <4> HIDE DEF k
      <4>4. Frugal(g[R], D, sz) /\ g[R].queue \subseteq {recs[i] : i \in R}
        BY <4>3
      <4>5. recs[k] \in Videos /\ recs[k] \notin {recs[i] : i \in R}
        BY <1>1, <4>1
      <4> DEFINE q == g[R]
                 v == recs[k]
      <4>6. Frugal(q, D, sz) /\ v \in Videos /\ v \notin q.queue /\ g[S] = PlanVideo(q, v)
        BY <4>2, <4>4, <4>5
      <4> HIDE DEF q, v
      <4>7. Frugal(g[S], D, sz) /\ g[S].queue \subseteq q.queue \union {v}
        BY <4>6, PlanVideoIsFrugal
      <4>8. g[S].queue \subseteq {recs[i] : i \in S}
        BY <4>1, <4>4, <4>7 DEF q, v
      <4> QED
        BY <4>7, <4>8
    <3> QED
      BY <3>1, <3>2
  <2>6. \A S \in SUBSET V : S \in P
    <3> HIDE DEF P, V
    <3> QED
      BY <2>5, <2>9, SubsetInduction
  <2>7. V \in SUBSET V
    OBVIOUS
  <2>8. Frugal(g[V], D, sz)
    BY <2>6, <2>7
  <2> QED
    BY <2>3, <2>8
<1> QED
  BY <1>2, <1>3

(* What a run queues, with the library E it leaves behind: a part of the one *)
(* it planned for, of no larger files.                                      *)
LEMMA PlansAreFrugal ==
  ASSUME CacheAssumption, NEW D, NEW sz, Library(D, sz), NEW E, NEW ez, Library(E, ez),
         E \subseteq D, \A v \in E : ez[v] <= sz[v],
         NEW more \in Plans(D, sz), more # {}
  PROVE  /\ more \intersect queued = {}
         /\ Cardinality(more) <= PlanBatch
         /\ \E last \in more :
               Target - Total(Duration, Unwatched(E)) > Total(Seconds, more \ {last})
         /\ Limit > 0 => Total(ez, E) + Total(Bytes, more) <= Limit - Reserve
<1>1. PICK recs \in Recommendations : more = Plan(recs, D, sz)
  BY DEF Plans
<1>2. PICK plan : Frugal(plan, D, sz) /\ more = plan.queue
  BY <1>1, PlanIsFrugal
<1>3. /\ more \in SUBSET Videos /\ more \intersect queued = {} /\ Cardinality(more) <= PlanBatch
      /\ \E last \in more : Deficit(D) > Total(Seconds, more \ {last})
      /\ Limit > 0 => Total(sz, D) + Total(Bytes, more) <= Room
  BY <1>2 DEF Frugal, PlanType
<1>4. Total(Duration, Unwatched(E)) <= Total(Duration, Unwatched(D))
  <2>1. Unwatched(E) \in SUBSET Unwatched(D) /\ Unwatched(D) \in SUBSET Videos
    BY DEF Unwatched, Library
  <2>2. IsFiniteSet(Unwatched(D)) /\ Values(Duration, Unwatched(D))
    BY <2>1, Planned
  <2>3. /\ Total(Duration, Unwatched(D))
             = Total(Duration, Unwatched(E)) + Total(Duration, Unwatched(D) \ Unwatched(E))
        /\ Total(Duration, Unwatched(D)) \in Nat /\ Total(Duration, Unwatched(E)) \in Nat
        /\ Total(Duration, Unwatched(D) \ Unwatched(E)) \in Nat
    BY <2>1, <2>2, TotalSplit
  <2> QED
    BY <2>3
<1>5. /\ Deficit(D) = Target - Total(Duration, Unwatched(D))
      /\ Total(Duration, Unwatched(D)) \in Nat /\ Total(Duration, Unwatched(E)) \in Nat
      /\ Target \in Nat
  BY LibraryTotals, Planned DEF CacheAssumption
<1>6. PICK last \in more : Deficit(D) > Total(Seconds, more \ {last})
  BY <1>3
<1>7. Target - Total(Duration, Unwatched(E)) > Total(Seconds, more \ {last})
  <2>1. Total(Seconds, more \ {last}) \in Nat
    BY <1>3, Planned
  <2> QED
    BY <1>4, <1>5, <1>6, <2>1
<1>8. Total(ez, E) <= Total(sz, D) /\ Total(ez, E) \in Nat /\ Total(sz, D) \in Nat
  <2>1. IsFiniteSet(D) /\ IsFiniteSet(E) /\ E \in SUBSET D
        /\ Values(sz, D) /\ Values(sz, E) /\ Values(ez, E)
    BY FS_Subset DEF Library, CacheAssumption, Values
  <2>2. Total(sz, D) = Total(sz, E) + Total(sz, D \ E)
        /\ Total(sz, D) \in Nat /\ Total(sz, E) \in Nat /\ Total(sz, D \ E) \in Nat
    BY <2>1, TotalSplit
  <2>3. Total(ez, E) <= Total(sz, E)
    BY <2>1, TotalOrder
  <2>4. Total(ez, E) \in Nat
    BY <2>1, TotalFirst
  <2> QED
    BY <2>2, <2>3, <2>4
<1>9. Limit > 0 => Total(ez, E) + Total(Bytes, more) <= Limit - Reserve
  <2>1. SUFFICES ASSUME Limit > 0
                 PROVE  Total(ez, E) + Total(Bytes, more) <= Limit - Reserve
    OBVIOUS
  <2>2. Total(Bytes, more) \in Nat /\ Total(Bytes, more) > 0
    <3>1. IsFiniteSet(more) /\ Values(Bytes, more) /\ more \ {last} \in SUBSET Videos
      BY <1>3, Planned
    <3>2. Total(Bytes, more) = Bytes[last] + Total(Bytes, more \ {last})
      BY <3>1, TotalRemove
    <3>3. Total(Bytes, more \ {last}) \in Nat
      BY <3>1, Planned
    <3>4. Bytes[last] = PlannedDuration(last) * Rate
      BY <1>3 DEF Bytes
    <3>5. PlannedDuration(last) * Rate \in Nat /\ PlannedDuration(last) * Rate > 0
      BY <1>3, Durations
    <3> DEFINE b == PlannedDuration(last) * Rate
    <3>6. Total(Bytes, more) = b + Total(Bytes, more \ {last}) /\ b \in Nat /\ b > 0
      BY <3>2, <3>4, <3>5
    <3> HIDE DEF b
    <3> QED
      BY <3>3, <3>6
  <2>3. Limit \in Nat /\ Reserve \in Nat
    BY DEF CacheAssumption
  <2>4. Total(sz, D) + Total(Bytes, more) <= Room
    BY <1>3, <2>1
  <2>5. Limit > Reserve /\ Room = Limit - Reserve
    BY <1>8, <2>2, <2>3, <2>4 DEF Room
  <2> QED
    BY <1>8, <2>2, <2>3, <2>4, <2>5
<1> QED
  BY <1>3, <1>7, <1>9

(* What the planner relies on: sizes are recorded of downloaded videos only, *)
(* and what it queued is queued.                                            *)
PlanInv == Library(downloaded, size) /\ planned \subseteq queued

(* An eviction leaves a part of the library, and of what is left the sizes. *)
LEMMA EvictedLibrary ==
  ASSUME Library(downloaded, size), NEW stamps, NEW gone, NEW halfway, NEW lost,
         Evict(stamps, gone, halfway, lost)
  PROVE  /\ Library(downloaded', size')
         /\ downloaded' \subseteq downloaded
         /\ \A v \in downloaded' : size'[v] <= size[v]
<1>1. /\ downloaded' = downloaded \ ToSet(gone)
      /\ size' = [v \in Videos |-> IF v \in ToSet(gone) THEN 0 ELSE size[v]]
  BY DEF Evict
<1> QED
  BY <1>1 DEF Library

(* What leaves the library alone and drops plans with their jobs.           *)
LEMMA PlanInvUnchanged ==
  ASSUME PlanInv, UNCHANGED <<downloaded, size>>, planned' \ planned \subseteq queued' \ queued,
         queued \ planned \subseteq queued', planned \intersect planned' \subseteq queued'
  PROVE  PlanInv'
BY DEF PlanInv

(* Every operation keeps PlanInv.                                           *)
LEMMA PlanInductive ==
  ASSUME CacheAssumption, PlanInv, [Next]_vars
  PROVE  PlanInv'
<1> USE DEF catalogue, PlanInv
<1>1. ASSUME NEW v \in Videos, NEW queue \in BOOLEAN, Discover(v, queue) PROVE PlanInv'
  BY <1>1 DEF Discover
<1>2. ASSUME NEW v \in Videos, FetchArtwork(v) \/ AddUrl(v) PROVE PlanInv'
  BY <1>2 DEF FetchArtwork, AddUrl
<1>3. ASSUME NEW v \in Videos, LeaveJob(v) PROVE PlanInv'
  BY <1>3 DEF LeaveJob
<1>4. ASSUME NEW v \in Local, ScanLocal(v) PROVE PlanInv'
  <2>1. /\ v \in Videos /\ Size[v] \in Nat /\ planned' = planned /\ queued' = queued
        /\ downloaded' = downloaded \union {v} /\ size' = [size EXCEPT ![v] = Size[v]]
    BY <1>4 DEF ScanLocal, CacheAssumption
  <2> QED
    BY <2>1 DEF Library
<1>5. ASSUME NEW p \in Profiles, NEW v \in Videos, NEW like, NEW dislike, NEW c,
             Feedback(p, v, like, dislike, c)
      PROVE  PlanInv'
  BY <1>5 DEF Feedback
<1>6. ASSUME NEW v \in Videos, NEW flag, Reject(v, flag) PROVE PlanInv'
  BY <1>6 DEF Reject
<1>7. ASSUME NEW v \in Videos, NEW name, NEW b, Fetch(v, name, b) PROVE PlanInv'
  BY <1>7 DEF Fetch
<1>8. ASSUME NEW v \in Videos, NEW bytes \in {0, Size[v]}, FinishJob(v, bytes) PROVE PlanInv'
  <2>1. /\ bytes \in Nat
        /\ planned' = planned \ {v} /\ queued' = queued \ {v}
        /\ downloaded' = downloaded \union {v} /\ size' = [size EXCEPT ![v] = bytes]
    BY <1>8 DEF FinishJob, CacheAssumption
  <2> QED
    BY <2>1 DEF Library
<1>9. CASE RefreshScores
  BY <1>9 DEF RefreshScores
<1>10. CASE PlanOffline
  BY <1>10 DEF PlanOffline, Queue
<1>11. CASE EnforceStorage
  BY <1>11, EvictedLibrary DEF EnforceStorage
<1>12. CASE SyncMaintenance \/ RecommendationCycle
  <2>1. planned' \subseteq queued'
    BY <1>12 DEF SyncMaintenance, RecommendationCycle, Queue
  <2>2. \E stamps, gone : Evict(stamps, gone, {}, {})
    BY <1>12 DEF SyncMaintenance, RecommendationCycle
  <2> QED
    BY <2>1, <2>2, EvictedLibrary
<1>13. CASE Crash
  BY <1>13 DEF Crash, Die
<1>14. CASE CrashWhileEvicting
  <2>1. planned' = planned /\ queued' = queued
    BY <1>14 DEF CrashWhileEvicting, Die
  <2>2. \E stamps, gone, halfway, lost : Evict(stamps, gone, halfway, lost)
    BY <1>14 DEF CrashWhileEvicting
  <2> QED
    BY <2>1, <2>2, EvictedLibrary
<1>15. CASE UNCHANGED vars
  BY <1>15 DEF vars
<1> QED
  BY <1>1, <1>2, <1>3, <1>4, <1>5, <1>6, <1>7, <1>8, <1>9, <1>10, <1>11, <1>12, <1>13,
     <1>14, <1>15 DEF Next

(* Every step keeps PlanInv, from the start.                                *)
THEOREM PlanInvariance == Spec => []PlanInv
<1>1. CacheAssumption /\ Init => PlanInv
  BY DEF Init, PlanInv, Library
<1> QED
  BY <1>1, CacheAssumption, PlanInductive, PTL DEF Spec


(* What the planner owes: a batch at most, only what is missing and only     *)
(* what fits, in what the step leaves behind.                               *)
OwedByPlanner(new) ==
  /\ Cardinality(new) <= PlanBatch
  /\ \E last \in new :
       Target - Total(Duration, Unwatched(downloaded')) > Total(Seconds, new \ {last})
  /\ Limit > 0 => Total(size', downloaded') + Total(Bytes, new) <= Limit - Reserve

(* What a run queues it owes in the state it leaves, evictions included.    *)
LEMMA QueuedIsFrugal ==
  ASSUME CacheAssumption, PlanInv, NEW D, NEW sz, Library(D, sz),
         Library(downloaded', size'), downloaded' \subseteq D,
         \A v \in downloaded' : size'[v] <= sz[v],
         NEW more \in Plans(D, sz), Queue(more), planned' \ planned # {}
  PROVE  OwedByPlanner(planned' \ planned)
<1>1. planned' = planned \union more /\ more # {}
  BY DEF Queue
<1>2. /\ more \intersect queued = {}
      /\ Cardinality(more) <= PlanBatch
      /\ \E last \in more :
            Target - Total(Duration, Unwatched(downloaded')) > Total(Seconds, more \ {last})
      /\ Limit > 0 => Total(size', downloaded') + Total(Bytes, more) <= Limit - Reserve
  <2> DEFINE E == downloaded'
             ez == size'
  <2>1. Library(E, ez) /\ E \subseteq D /\ \A v \in E : ez[v] <= sz[v]
    OBVIOUS
  <2> HIDE DEF E, ez
  <2>2. /\ more \intersect queued = {}
        /\ Cardinality(more) <= PlanBatch
        /\ \E last \in more :
              Target - Total(Duration, Unwatched(E)) > Total(Seconds, more \ {last})
        /\ Limit > 0 => Total(ez, E) + Total(Bytes, more) <= Limit - Reserve
    BY <1>1, <2>1, PlansAreFrugal
  <2> QED
    BY <2>2 DEF E, ez
<1>3. planned' \ planned = more
  BY <1>1, <1>2 DEF PlanInv
<1> QED
  BY <1>2, <1>3 DEF OwedByPlanner

(* A run of the planner, alone, in a sync or after a refresh of the scores,  *)
(* queues at most a batch; all but one of what it queues leaves a deficit of *)
(* unwatched hours; and what it queues fits next to what is there           *)
(* (OfflinePlanner.plan_once).                                              *)
THEOREM PlannerIsFrugalHolds == Spec => PlannerIsFrugal
<1>1. ASSUME CacheAssumption, PlanInv, [Next]_vars, planned' \ planned # {}
      PROVE  OwedByPlanner(planned' \ planned)
  <2> USE <1>1
  <2>1. Library(downloaded, size)
    BY DEF PlanInv
  <2>2. CASE PlanOffline
    <3>1. PICK more \in Plans(downloaded, size) : Queue(more)
      BY <2>2 DEF PlanOffline
    <3>2. downloaded' = downloaded /\ size' = size
      BY <2>2 DEF PlanOffline, catalogue
    <3>3. \A v \in downloaded : size[v] <= size[v]
      BY <2>1 DEF Library
    <3>4. /\ Library(downloaded', size') /\ downloaded' \subseteq downloaded
          /\ \A v \in downloaded' : size'[v] <= size[v]
      BY <2>1, <3>2, <3>3
    <3> QED
      BY <2>1, <3>1, <3>4, QueuedIsFrugal
  <2>3. CASE RecommendationCycle
    <3>1. PICK more \in Plans(downloaded, size) : Queue(more)
      BY <2>3 DEF RecommendationCycle
    <3>2. \E stamps, gone : Evict(stamps, gone, {}, {})
      BY <2>3 DEF RecommendationCycle
    <3>3. /\ Library(downloaded', size') /\ downloaded' \subseteq downloaded
          /\ \A v \in downloaded' : size'[v] <= size[v]
      BY <2>1, <3>2, EvictedLibrary
    <3> QED
      BY <2>1, <3>1, <3>3, QueuedIsFrugal
  <2>4. CASE SyncMaintenance
    <3>1. \E gone : Evict(times, gone, {}, {})
      BY <2>4 DEF SyncMaintenance
    <3>2. Library(downloaded', size')
      BY <2>1, <3>1, EvictedLibrary
    <3>3. PICK more \in Plans(downloaded', size') : Queue(more)
      BY <2>4 DEF SyncMaintenance
    <3>4. \A v \in downloaded' : size'[v] <= size'[v]
      BY <3>2 DEF Library
    <3> DEFINE D == downloaded'
               sz == size'
    <3>5. /\ Library(D, sz) /\ downloaded' \subseteq D /\ \A v \in downloaded' : size'[v] <= sz[v]
          /\ more \in Plans(D, sz)
      BY <3>2, <3>3, <3>4
    <3> HIDE DEF D, sz
    <3> QED
      BY <3>2, <3>3, <3>5, QueuedIsFrugal
  <2>5. ASSUME ~ PlanOffline, ~ RecommendationCycle, ~ SyncMaintenance
        PROVE  planned' \subseteq planned
    BY <2>5 DEF Next, vars, Discover, FetchArtwork, AddUrl, ScanLocal, Feedback, Reject, Fetch,
         FinishJob, LeaveJob, RefreshScores, EnforceStorage, Crash, CrashWhileEvicting, Die
  <2> QED
    BY <2>2, <2>3, <2>4, <2>5
<1>2. PlanInv /\ [Next]_vars =>
        [LET new == planned' \ planned
         IN new # {} =>
              /\ Cardinality(new) <= PlanBatch
              /\ \E last \in new :
                   Target - Total(Duration, Unwatched(downloaded')) >
                     Total([v \in Videos |-> PlannedDuration(v)], new \ {last})
              /\ Limit > 0 =>
                   Total(size', downloaded')
                     + Total([v \in Videos |-> PlannedDuration(v) * Rate], new)
                     <= Limit - Reserve]_vars
  BY <1>1, CacheAssumption DEF OwedByPlanner, Seconds, Bytes
<1> QED
  BY <1>2, PlanInvariance, PTL DEF Spec, PlannerIsFrugal

(* A run that took all but the last of what it takes would not do.          *)
LEMMA TakenIsLittle ==
  ASSUME CacheAssumption, DiskTypes, Library(downloaded, size), NEW stamps,
         NEW V, Taken(stamps, V), V # {}
  PROVE  \E last \in V : Total(size, downloaded \ (V \ {last})) > Limit
<1>1. PICK refused \in SUBSET Undeletable :
        \E order \in Sorted(stamps, Unspared(stamps, refused)) :
        \E k \in 0..Cardinality(Unspared(stamps, refused)) :
           k <= EvictBatch /\ NotEnough(order, k) /\ V = {order[i] : i \in 1..k}
  BY DEF Taken
<1> DEFINE U == Unspared(stamps, refused)
<1>2. PICK order \in Sorted(stamps, U) :
        \E k \in 0..Cardinality(U) :
           k <= EvictBatch /\ NotEnough(order, k) /\ V = {order[i] : i \in 1..k}
  BY <1>1
<1>3. PICK k \in 0..Cardinality(U) :
           k <= EvictBatch /\ NotEnough(order, k) /\ V = {order[i] : i \in 1..k}
  BY <1>2
<1>4. U \in SUBSET downloaded /\ downloaded \in SUBSET Videos
  BY DEF Unspared, Candidates, DiskTypes
<1>5. IsFiniteSet(downloaded) /\ IsFiniteSet(U) /\ Cardinality(U) \in Nat
  BY <1>4, FS_Subset, FS_CardinalityType DEF CacheAssumption
<1> HIDE DEF U
<1>6. /\ order \in [1..Cardinality(U) -> U]
      /\ \A i, j \in 1..Cardinality(U) : i # j => order[i] # order[j]
  BY DEF Sorted, SetToSeqs
<1>7. k \in Nat /\ k > 0 /\ \A i \in 1..k : i \in 1..Cardinality(U)
  BY <1>3, <1>5
<1> DEFINE last == order[k]
           A == {order[i] : i \in 1..(k - 1)}
<1>8. last \in V /\ V \ {last} = A /\ A \in SUBSET downloaded
  <2>1. k \in 1..k /\ \A i \in 1..k : i # k => i \in 1..(k - 1)
    BY <1>7
  <2>2. \A i \in 1..(k - 1) : i \in 1..k /\ i # k
    BY <1>7
  <2>3. last \in V
    BY <1>3, <2>1
  <2>4. \A x \in V \ {last} : x \in A
    BY <1>3, <2>1
  <2>5. \A x \in A : x \in V /\ x # last /\ x \in downloaded
    BY <1>3, <1>4, <1>6, <1>7, <2>1, <2>2
  <2> QED
    BY <2>3, <2>4, <2>5
<1> HIDE DEF last
<1>9. ~ (Total(size, downloaded) - Total(Freeing, A) <= Limit)
  <2>1. k - 1 \in 0..(k - 1)
    BY <1>7
  <2> QED
    BY <1>3, <2>1 DEF NotEnough
<1> HIDE DEF A
<1>10. \A v \in Videos : size[v] \in Nat /\ Freeing[v] \in Nat /\ size[v] <= Freeing[v]
  <2>1. ASSUME NEW v \in Videos
        PROVE  size[v] \in Nat /\ Freeing[v] \in Nat /\ size[v] <= Freeing[v]
    <3>1. size[v] \in Nat /\ Size[v] \in Nat
      BY DEF Library, CacheAssumption
    <3>2. Freeing[v] = Freed(v)
      BY DEF Freeing
    <3>3. Freed(v) \in Nat /\ size[v] <= Freed(v)
      BY <3>1 DEF Freed
    <3> QED
      BY <3>1, <3>2, <3>3
  <2> QED
    BY <2>1
<1>11. /\ IsFiniteSet(A) /\ Values(size, A) /\ Values(Freeing, A) /\ Values(size, downloaded)
       /\ \A v \in A : size[v] <= Freeing[v]
  BY <1>4, <1>5, <1>8, <1>10, FS_Subset DEF Values
<1>12. Total(size, A) <= Total(Freeing, A) /\ Total(Freeing, A) \in Nat
  BY <1>11, TotalOrder, TotalFirst
<1>13. /\ Total(size, downloaded) = Total(size, A) + Total(size, downloaded \ A)
       /\ Total(size, downloaded) \in Nat /\ Total(size, A) \in Nat
       /\ Total(size, downloaded \ A) \in Nat
  BY <1>5, <1>8, <1>11, TotalSplit
<1>14. Total(size, downloaded \ A) > Limit
  <2>1. Limit \in Nat
    BY DEF CacheAssumption
  <2> QED
    BY <1>9, <1>12, <1>13, <2>1
<1> QED
  BY <1>8, <1>14

(* A run of the policy takes no more than brings the library under its      *)
(* limit: with the last of what it takes back the library is over it        *)
(* (the loop of StoragePolicyManager.enforce_once).                         *)
THEOREM EvictsLittleHolds == Spec => EvictsLittle
<1>1. ASSUME CacheAssumption, DiskInv, PlanInv, [Next]_vars, downloaded \ downloaded' # {}
      PROVE  \E last \in downloaded \ downloaded' :
                Total(size, downloaded \ ((downloaded \ downloaded') \ {last})) > Limit
  <2>1. PICK stamps : Taken(stamps, downloaded \ downloaded')
    BY <1>1, LibraryShrinks
  <2>2. DiskTypes /\ Library(downloaded, size)
    BY <1>1 DEF DiskInv, PlanInv
  <2> QED
    BY <1>1, <2>1, <2>2, TakenIsLittle
<1>2. DiskInv /\ PlanInv /\ [Next]_vars =>
        [LET gone == downloaded \ downloaded'
         IN gone # {} =>
              \E last \in gone : Total(size, downloaded \ (gone \ {last})) > Limit]_vars
  BY <1>1, CacheAssumption
<1> QED
  BY <1>2, Invariance, PlanInvariance, PTL DEF Spec, EvictsLittle

(* No run of planner or policy does more than hours and limit call for      *)
(* (plan_once, enforce_once).                                               *)
THEOREM RunsAreFrugalHolds == Spec => RunsAreFrugal
BY PlannerIsFrugalHolds, EvictsLittleHolds DEF RunsAreFrugal

-----------------------------------------------------------------------------
(* Recursions, and sequences without duplicates.                           *)

(* What holds of 0 and goes from each number to the next holds up to n.     *)
LEMMA UpTo ==
  ASSUME NEW n \in Nat, NEW P, 0 \in P, \A i \in 1..n : i - 1 \in P => i \in P
  PROVE  \A i \in 0..n : i \in P
<1> DEFINE K == (0..n) \ P
<1>1. SUFFICES ASSUME K # {} PROVE FALSE
  OBVIOUS
<1>2. K \in SUBSET Nat
  OBVIOUS
<1> HIDE DEF K
<1>3. Min(K) \in K /\ \A k \in K : Min(K) <= k
  BY <1>1, <1>2, LeastOf
<1> DEFINE m == Min(K)
<1>4. m \in 0..n /\ m \notin P /\ \A k \in K : m <= k
  BY <1>3 DEF K
<1> HIDE DEF m
<1>5. m # 0
  BY <1>4
<1>6. m \in 1..n /\ m - 1 \in 0..n /\ ~ (m <= m - 1)
  BY <1>4, <1>5
<1>7. m - 1 \notin K
  BY <1>4, <1>6
<1>8. m - 1 \in P
  BY <1>6, <1>7 DEF K
<1> QED
  BY <1>4, <1>6, <1>8

(* g is computed from base, one number at a time.                           *)
RecursionOf(g, n, step, base) ==
  g = [i \in 0..n |-> IF i = 0 THEN base ELSE step[i][g[i - 1]]]

(* A recursion over 0..n has a value in W at each number.                   *)
LEMMA RecursionExists ==
  ASSUME NEW n \in Nat, NEW W, NEW base \in W, NEW step,
         \A i \in 1..n, w \in W : step[i][w] \in W
  PROVE  \E g \in [0..n -> W] : RecursionOf(g, n, step, base)
<1> DEFINE P == {m \in 0..n : \E g \in [0..m -> W] : RecursionOf(g, m, step, base)}
<1>1. 0 \in P
  <2> DEFINE g == [i \in 0..0 |-> base]
  <2>1. g \in [0..0 -> W] /\ RecursionOf(g, 0, step, base)
    BY DEF RecursionOf
  <2> QED
    BY <2>1
<1>2. ASSUME NEW m \in 1..n, m - 1 \in P
      PROVE  m \in P
  <2>1. PICK g \in [0..(m - 1) -> W] : RecursionOf(g, m - 1, step, base)
    BY <1>2
  <2> DEFINE h == [i \in 0..m |-> IF i = m THEN step[m][g[m - 1]] ELSE g[i]]
  <2>2. g[m - 1] \in W /\ step[m][g[m - 1]] \in W
    BY <2>1
  <2>3. \A i \in 0..m : i # m => i \in 0..(m - 1)
    OBVIOUS
  <2>4. h \in [0..m -> W]
    BY <2>1, <2>2, <2>3
  <2>5. ASSUME NEW i \in 0..m
        PROVE  h[i] = IF i = 0 THEN base ELSE step[i][h[i - 1]]
    <3>1. CASE i = m
      <4>1. m - 1 \in 0..m /\ m - 1 # m /\ m # 0
        OBVIOUS
      <4>2. h[m] = step[m][g[m - 1]] /\ h[m - 1] = g[m - 1]
        BY <4>1
      <4> QED
        BY <3>1, <4>1, <4>2
    <3>2. CASE i # m
      <4>1. i \in 0..(m - 1)
        BY <2>3, <3>2
      <4>2. h[i] = g[i]
        BY <3>2
      <4>3. g[i] = IF i = 0 THEN base ELSE step[i][g[i - 1]]
        BY <2>1, <4>1 DEF RecursionOf
      <4>4. i # 0 => h[i - 1] = g[i - 1]
        <5>1. i # 0 => i - 1 \in 0..m /\ i - 1 # m
          BY <4>1
        <5> QED
          BY <5>1
      <4> HIDE DEF h
      <4> QED
        BY <4>2, <4>3, <4>4
    <3> QED
      BY <3>1, <3>2
  <2>6. RecursionOf(h, m, step, base)
    BY <2>4, <2>5 DEF RecursionOf
  <2>7. m \in 0..n
    OBVIOUS
  <2> QED
    BY <2>4, <2>6, <2>7
<1>3. \A i \in 0..n : i \in P
  <2> HIDE DEF P
  <2> QED
    BY <1>1, <1>2, UpTo
<1>4. n \in P
  BY <1>3
<1> QED
  BY <1>4

-----------------------------------------------------------------------------
(* Sequences without duplicates.                                           *)

Distinct(s) == \A i, j \in DOMAIN s : i # j => s[i] # s[j]

(* An appended element.                                                     *)
LEMMA AppendHolds ==
  ASSUME NEW X, NEW s \in Seq(X), NEW x \in X
  PROVE  /\ Append(s, x) \in Seq(X)
         /\ ToSet(Append(s, x)) = ToSet(s) \union {x}
         /\ Distinct(s) /\ x \notin ToSet(s) => Distinct(Append(s, x))
<1> DEFINE n == Len(s)
           t == Append(s, x)
<1>1. /\ n \in Nat /\ DOMAIN s = 1..n /\ t \in Seq(X) /\ DOMAIN t = 1..(n + 1)
      /\ \A i \in 1..n : t[i] = s[i]
      /\ t[n + 1] = x
  OBVIOUS
<1> HIDE DEF n, t
<1>2. \A i \in 1..(n + 1) : i \in 1..n \/ i = n + 1
  BY <1>1
<1>3. \A i \in 1..n : i \in 1..(n + 1)
  BY <1>1
<1>4. n + 1 \in 1..(n + 1)
  BY <1>1
<1>5. ToSet(t) = ToSet(s) \union {x}
  BY <1>1, <1>2, <1>3, <1>4 DEF ToSet
<1>6. ASSUME Distinct(s), x \notin ToSet(s) PROVE Distinct(t)
  <2>1. SUFFICES ASSUME NEW i \in 1..(n + 1), NEW j \in 1..(n + 1), i # j
                 PROVE  t[i] # t[j]
    BY <1>1 DEF Distinct
  <2>2. \A k \in 1..n : t[k] \in ToSet(s) /\ t[k] # x
    BY <1>1, <1>6 DEF ToSet
  <2>3. CASE i \in 1..n /\ j \in 1..n
    BY <1>1, <1>6, <2>1, <2>3 DEF Distinct
  <2>4. CASE i = n + 1 \/ j = n + 1
    BY <1>1, <1>2, <2>1, <2>2, <2>4
  <2> QED
    BY <1>2, <2>3, <2>4
<1> QED
  BY <1>1, <1>5, <1>6 DEF t

(* A concatenation.                                                         *)
LEMMA ConcatHolds ==
  ASSUME NEW X, NEW s \in Seq(X), NEW t \in Seq(X)
  PROVE  /\ s \o t \in Seq(X)
         /\ ToSet(s \o t) = ToSet(s) \union ToSet(t)
         /\ Distinct(s) /\ Distinct(t) /\ ToSet(s) \intersect ToSet(t) = {} => Distinct(s \o t)
<1> DEFINE n == Len(s)
           m == Len(t)
           c == s \o t
<1>1. /\ n \in Nat /\ m \in Nat /\ DOMAIN s = 1..n /\ DOMAIN t = 1..m
      /\ c \in Seq(X) /\ DOMAIN c = 1..(n + m)
      /\ \A i \in 1..(n + m) : c[i] = IF i <= n THEN s[i] ELSE t[i - n]
  OBVIOUS
<1> HIDE DEF n, m, c
<1>2. \A i \in 1..(n + m) : \/ i \in 1..n /\ c[i] = s[i]
                            \/ i - n \in 1..m /\ c[i] = t[i - n] /\ i > n
  BY <1>1
<1>3. \A i \in 1..n : i \in 1..(n + m) /\ c[i] = s[i]
  BY <1>1
<1>4. \A i \in 1..m : i + n \in 1..(n + m) /\ c[i + n] = t[i]
  BY <1>1
<1>5. ToSet(c) = ToSet(s) \union ToSet(t)
  <2>1. \A x \in ToSet(c) : x \in ToSet(s) \union ToSet(t)
    BY <1>1, <1>2 DEF ToSet
  <2>2. \A x \in ToSet(s) : x \in ToSet(c)
    BY <1>1, <1>3 DEF ToSet
  <2>3. \A x \in ToSet(t) : x \in ToSet(c)
    <3>1. SUFFICES ASSUME NEW i \in 1..m PROVE t[i] \in ToSet(c)
      BY <1>1 DEF ToSet
    <3>2. i + n \in DOMAIN c /\ c[i + n] = t[i]
      BY <1>1, <1>4
    <3> QED
      BY <3>2 DEF ToSet
  <2> QED
    BY <2>1, <2>2, <2>3
<1>6. ASSUME Distinct(s), Distinct(t), ToSet(s) \intersect ToSet(t) = {}
      PROVE  Distinct(c)
  <2>1. SUFFICES ASSUME NEW i \in 1..(n + m), NEW j \in 1..(n + m), i # j
                 PROVE  c[i] # c[j]
    BY <1>1 DEF Distinct
  <2>2. /\ \A k \in 1..n : s[k] \in ToSet(s)
        /\ \A k \in 1..m : t[k] \in ToSet(t)
    BY <1>1 DEF ToSet
  <2>3. CASE i \in 1..n /\ c[i] = s[i] /\ j \in 1..n /\ c[j] = s[j]
    BY <1>1, <1>6, <2>1, <2>3 DEF Distinct
  <2>4. CASE i - n \in 1..m /\ c[i] = t[i - n] /\ j - n \in 1..m /\ c[j] = t[j - n]
    <3>1. i - n # j - n
      BY <1>1, <2>1
    <3> QED
      BY <1>1, <1>6, <2>4, <3>1 DEF Distinct
  <2>5. CASE \/ i \in 1..n /\ c[i] = s[i] /\ j - n \in 1..m /\ c[j] = t[j - n]
             \/ j \in 1..n /\ c[j] = s[j] /\ i - n \in 1..m /\ c[i] = t[i - n]
    BY <1>6, <2>2, <2>5
  <2> QED
    BY <1>2, <2>3, <2>4, <2>5
<1> QED
  BY <1>1, <1>5, <1>6 DEF c

(* A sequence without duplicates is as long as its set is large.            *)
LEMMA LengthOfDistinct ==
  ASSUME NEW X, NEW s \in Seq(X), Distinct(s)
  PROVE  Len(s) = Cardinality(ToSet(s))
<1> DEFINE n == Len(s)
           V == ToSet(s)
<1>1. n \in Nat /\ DOMAIN s = 1..n /\ s \in [1..n -> X]
  OBVIOUS
<1>2. V = {s[i] : i \in 1..n}
  BY <1>1 DEF ToSet
<1>3. s \in [1..n -> V]
  BY <1>1, <1>2
<1>4. s \in Injection(1..n, V)
  BY <1>1, <1>3 DEF Injection, IsInjective, Distinct
<1>5. s \in Surjection(1..n, V)
  BY <1>2, <1>3 DEF Surjection
<1>6. s \in Bijection(1..n, V)
  BY <1>4, <1>5 DEF Bijection
<1>7. IsFiniteSet(1..n) /\ Cardinality(1..n) = n
  <2>1. n \in Nat /\ n \in Int /\ 1 \in Int
    BY <1>1
  <2> HIDE DEF n
  <2>2. IsFiniteSet(1..n) /\ Cardinality(1..n) = IF 1 > n THEN 0 ELSE (n - 1) + 1
    BY <2>1, FS_Interval
  <2> QED
    BY <2>1, <2>2
<1>8. Cardinality(1..n) = Cardinality(V)
  BY <1>6, <1>7, FS_Bijection DEF ExistsBijection
<1> QED
  BY <1>7, <1>8

(* What is kept of stamps without duplicates.                               *)
LEMMA KeptHolds ==
  ASSUME NEW X, NEW stamps \in Seq(X), Distinct(stamps), NEW S
  PROVE  /\ Kept(stamps, S) \in Seq(X)
         /\ ToSet(Kept(stamps, S)) = ToSet(stamps) \intersect S
         /\ Distinct(Kept(stamps, S))
<1> DEFINE n == Len(stamps)
           step == [i \in 1..n |-> [w \in Seq(X) |->
                      IF stamps[i] \in S THEN Append(w, stamps[i]) ELSE w]]
           IsKept(g) == g = [i \in 0..n |-> IF i = 0 THEN << >>
                              ELSE IF stamps[i] \in S THEN Append(g[i - 1], stamps[i])
                                                      ELSE g[i - 1]]
           chosen == CHOOSE g : IsKept(g)
<1>1. n \in Nat /\ DOMAIN stamps = 1..n /\ \A i \in 1..n : stamps[i] \in X
  OBVIOUS
<1>2. \A i \in 1..n, w \in Seq(X) : step[i][w] \in Seq(X)
  BY <1>1, AppendHolds
<1>3. PICK g \in [0..n -> Seq(X)] : RecursionOf(g, n, step, << >>)
  <2> DEFINE W == Seq(X)
             base == << >>
  <2>1. base \in W /\ \A i \in 1..n, w \in W : step[i][w] \in W
    BY <1>2
  <2> HIDE DEF n, step, W, base
  <2>2. \E g \in [0..n -> W] : RecursionOf(g, n, step, base)
    BY <1>1, <2>1, RecursionExists
  <2> QED
    BY <2>2 DEF W, base
<1>4. \A i \in 1..n : g[i] = IF stamps[i] \in S THEN Append(g[i - 1], stamps[i]) ELSE g[i - 1]
  <2>1. SUFFICES ASSUME NEW i \in 1..n
                 PROVE  g[i] = IF stamps[i] \in S THEN Append(g[i - 1], stamps[i]) ELSE g[i - 1]
    OBVIOUS
  <2>2. i \in 0..n /\ i - 1 \in 0..n /\ i # 0
    BY <1>1
  <2>3. g[i] = step[i][g[i - 1]] /\ g[i - 1] \in Seq(X)
    BY <1>3, <2>2 DEF RecursionOf
  <2> QED
    BY <2>3
<1>5. g[0] = << >>
  BY <1>1, <1>3 DEF RecursionOf
<1>6. IsKept(g)
  <2>1. \A i \in 0..n : i # 0 => i \in 1..n
    BY <1>1
  <2>2. \A i \in 0..n : g[i] = IF i = 0 THEN << >>
                              ELSE IF stamps[i] \in S THEN Append(g[i - 1], stamps[i])
                                                      ELSE g[i - 1]
    BY <1>4, <1>5, <2>1
  <2>3. g = [i \in 0..n |-> g[i]]
    BY <1>3
  <2> QED
    BY <2>2, <2>3
<1>7. IsKept(chosen)
  BY <1>6
<1>8. Kept(stamps, S) = chosen[n]
  BY DEF Kept
<1> HIDE DEF chosen, step
<1>9. chosen[0] = << >>
  BY <1>1, <1>7
<1>10. \A i \in 1..n : chosen[i] = IF stamps[i] \in S THEN Append(chosen[i - 1], stamps[i])
                                   ELSE chosen[i - 1]
  <2>1. SUFFICES ASSUME NEW i \in 1..n
                 PROVE  chosen[i] = IF stamps[i] \in S THEN Append(chosen[i - 1], stamps[i])
                                    ELSE chosen[i - 1]
    OBVIOUS
  <2>2. i \in 0..n /\ i # 0
    BY <1>1
  <2> QED
    BY <1>7, <2>2
<1> DEFINE P == {i \in 0..n : /\ chosen[i] \in Seq(X)
                              /\ ToSet(chosen[i]) = {stamps[j] : j \in 1..i} \intersect S
                              /\ Distinct(chosen[i])}
<1> HIDE DEF n
<1>11. 0 \in P
  <2>1. << >> \in Seq(X) /\ ToSet(<< >>) = {} /\ Distinct(<< >>)
    BY DEF ToSet, Distinct
  <2>2. {stamps[j] : j \in 1..0} = {} /\ 0 \in 0..n
    BY <1>1
  <2> QED
    BY <1>9, <2>1, <2>2
<1>12. ASSUME NEW i \in 1..n, i - 1 \in P
       PROVE  i \in P
  <2> DEFINE c == chosen[i - 1]
             x == stamps[i]
  <2>1. /\ c \in Seq(X) /\ Distinct(c)
        /\ ToSet(c) = {stamps[j] : j \in 1..(i - 1)} \intersect S
    BY <1>12
  <2>2. x \in X /\ chosen[i] = IF x \in S THEN Append(c, x) ELSE c
    BY <1>1, <1>10
  <2>3. \A j \in 1..i : j \in 1..(i - 1) \/ j = i
    BY <1>1
  <2>4. \A j \in 1..(i - 1) : j \in 1..i /\ j \in 1..n /\ j # i
    BY <1>1
  <2>5. {stamps[j] : j \in 1..i} = {stamps[j] : j \in 1..(i - 1)} \union {x}
    <3>1. i \in 1..i
      BY <1>1
    <3> QED
      BY <2>3, <2>4, <3>1
  <2>6. x \notin {stamps[j] : j \in 1..(i - 1)}
    BY <1>1, <2>4 DEF Distinct
  <2>7. i \in 0..n
    BY <1>1
  <2> HIDE DEF c, x
  <2>8. CASE x \in S
    <3>1. chosen[i] = Append(c, x)
      BY <2>2, <2>8
    <3>2. x \notin ToSet(c)
      BY <2>1, <2>6
    <3>3. /\ Append(c, x) \in Seq(X) /\ Distinct(Append(c, x))
          /\ ToSet(Append(c, x)) = ToSet(c) \union {x}
      BY <2>1, <2>2, <3>2, AppendHolds
    <3> QED
      BY <2>1, <2>5, <2>7, <2>8, <3>1, <3>3
  <2>9. CASE x \notin S
    BY <2>1, <2>2, <2>5, <2>7, <2>9
  <2> QED
    BY <2>8, <2>9
<1>13. \A i \in 0..n : i \in P
  <2> HIDE DEF P
  <2> QED
    BY <1>1, <1>11, <1>12, UpTo
<1>14. n \in 0..n
  BY <1>1
<1>15. n \in P
  BY <1>13, <1>14
<1> QED
  BY <1>1, <1>8, <1>15 DEF ToSet

-----------------------------------------------------------------------------
(* The stamps of rows and opinions.                                        *)

Stamps == {Row(v) : v \in Videos} \union {Opinion(v) : v \in Videos}

(* Stamps without duplicates, in which every opinion is of a known row.     *)
TimesOK(stamps) ==
  /\ stamps \in Seq(Stamps)
  /\ Distinct(stamps)
  /\ \A v \in Videos : Opinion(v) \in ToSet(stamps) => Row(v) \in ToSet(stamps)

(* Stamps of rows and of opinions differ, and name their videos.            *)
LEMMA StampFacts ==
  ASSUME NEW u, NEW v
  PROVE  /\ Row(u) # Opinion(v)
         /\ Row(u) = Row(v) => u = v
         /\ Opinion(u) = Opinion(v) => u = v
         /\ Row(v)[2] = v /\ Opinion(v)[2] = v
BY DEF Row, Opinion

(* A write leaves one stamp of each row and opinion, the written ones last. *)
LEMMA WrittenHolds ==
  ASSUME NEW stamps, TimesOK(stamps), NEW written \in Seq(Stamps), Distinct(written),
         \A v \in Videos : Opinion(v) \in ToSet(written) =>
                              Row(v) \in ToSet(stamps) \union ToSet(written)
  PROVE  /\ TimesOK(Written(stamps, written))
         /\ ToSet(Written(stamps, written)) = ToSet(stamps) \union ToSet(written)
<1> DEFINE S == ToSet(stamps) \ ToSet(written)
           k == Kept(stamps, S)
<1>1. stamps \in Seq(Stamps) /\ Distinct(stamps)
  BY DEF TimesOK
<1>2. k \in Seq(Stamps) /\ ToSet(k) = ToSet(stamps) \intersect S /\ Distinct(k)
  <2> HIDE DEF S
  <2> QED
    BY <1>1, KeptHolds
<1>3. Written(stamps, written) = k \o written
  BY DEF Written
<1> HIDE DEF k
<1>4. ToSet(k) \intersect ToSet(written) = {}
      /\ ToSet(k) \union ToSet(written) = ToSet(stamps) \union ToSet(written)
  BY <1>2
<1>5. /\ k \o written \in Seq(Stamps) /\ Distinct(k \o written)
      /\ ToSet(k \o written) = ToSet(k) \union ToSet(written)
  BY <1>2, <1>4, ConcatHolds
<1> QED
  BY <1>3, <1>4, <1>5 DEF TimesOK

(* Sequences of one and of two.                                             *)
LEMMA FewStamps ==
  ASSUME NEW X, NEW x \in X, NEW y \in X
  PROVE  /\ <<x>> \in Seq(X) /\ Distinct(<<x>>) /\ ToSet(<<x>>) = {x}
         /\ <<x, y>> \in Seq(X) /\ (x # y => Distinct(<<x, y>>)) /\ ToSet(<<x, y>>) = {x, y}
<1>1. /\ DOMAIN <<x>> = {1} /\ <<x>>[1] = x
      /\ DOMAIN <<x, y>> = {1, 2} /\ <<x, y>>[1] = x /\ <<x, y>>[2] = y
  OBVIOUS
<1>2. <<x>> \in Seq(X) /\ <<x, y>> \in Seq(X)
  OBVIOUS
<1>3. Distinct(<<x>>) /\ ToSet(<<x>>) = {x}
  BY <1>1 DEF Distinct, ToSet
<1>4. (x # y => Distinct(<<x, y>>)) /\ ToSet(<<x, y>>) = {x, y}
  BY <1>1 DEF Distinct, ToSet
<1> QED
  BY <1>2, <1>3, <1>4

(* The rows of distinct videos are distinct stamps.                         *)
LEMMA RowsHold ==
  ASSUME NEW vs \in Seq(Videos), Distinct(vs)
  PROVE  /\ Rows(vs) \in Seq(Stamps) /\ Distinct(Rows(vs))
         /\ ToSet(Rows(vs)) = {Row(v) : v \in ToSet(vs)}
<1> DEFINE n == Len(vs)
           r == Rows(vs)
<1>1. n \in Nat /\ DOMAIN vs = 1..n /\ \A i \in 1..n : vs[i] \in Videos
  OBVIOUS
<1>2. r = [i \in 1..n |-> Row(vs[i])]
  BY <1>1 DEF Rows
<1> HIDE DEF r, n
<1>3. DOMAIN r = 1..n /\ \A i \in 1..n : r[i] = Row(vs[i]) /\ r[i] \in Stamps
  BY <1>1, <1>2 DEF Stamps
<1>4. r \in Seq(Stamps)
  <2>1. r \in [1..n -> Stamps]
    BY <1>2, <1>3
  <2> QED
    BY <1>1, <2>1
<1>5. Distinct(r)
  <2>1. \A i, j \in 1..n : Row(vs[i]) = Row(vs[j]) => vs[i] = vs[j]
    BY StampFacts
  <2> QED
    BY <1>1, <1>3, <2>1 DEF Distinct
<1>6. ToSet(r) = {Row(v) : v \in ToSet(vs)}
  BY <1>1, <1>3 DEF ToSet
<1> QED
  BY <1>4, <1>5, <1>6 DEF r

(* A reversed sequence holds the same.                                      *)
LEMMA ReverseHolds ==
  ASSUME NEW X, NEW s \in Seq(X), Distinct(s)
  PROVE  Reverse(s) \in Seq(X) /\ Distinct(Reverse(s)) /\ ToSet(Reverse(s)) = ToSet(s)
<1> DEFINE n == Len(s)
           r == Reverse(s)
<1>1. n \in Nat /\ DOMAIN s = 1..n /\ \A i \in 1..n : s[i] \in X
  OBVIOUS
<1>2. r = [i \in 1..n |-> s[(n - i) + 1]]
  BY DEF Reverse
<1> HIDE DEF r, n
<1>3. \A i \in 1..n : (n - i) + 1 \in 1..n /\ (n - ((n - i) + 1)) + 1 = i
  BY <1>1
<1>4. DOMAIN r = 1..n /\ \A i \in 1..n : r[i] = s[(n - i) + 1] /\ r[i] \in X
  BY <1>1, <1>2, <1>3
<1>5. r \in Seq(X)
  <2>1. r \in [1..n -> X]
    BY <1>2, <1>4
  <2> QED
    BY <1>1, <2>1
<1>6. Distinct(r)
  <2>1. \A i, j \in 1..n : i # j => (n - i) + 1 # (n - j) + 1
    BY <1>1
  <2> QED
    BY <1>1, <1>3, <1>4, <2>1 DEF Distinct
<1>7. ToSet(r) = ToSet(s)
  <2>1. \A x \in ToSet(r) : x \in ToSet(s)
    BY <1>1, <1>3, <1>4 DEF ToSet
  <2>2. ASSUME NEW i \in 1..n PROVE s[i] \in ToSet(r)
    <3>1. s[i] = r[(n - i) + 1] /\ (n - i) + 1 \in 1..n
      BY <1>3, <1>4
    <3> QED
      BY <1>4, <3>1 DEF ToSet
  <2>3. \A x \in ToSet(s) : x \in ToSet(r)
    BY <1>1, <2>2 DEF ToSet
  <2> QED
    BY <2>1, <2>3
<1> QED
  BY <1>5, <1>6, <1>7 DEF r

(* A refresh writes every row once.                                         *)
LEMMA RefreshedHolds ==
  ASSUME TimesOK(times)
  PROVE  /\ TimesOK(Refreshed(Kept(times, ReadBy)))
         /\ ToSet(Refreshed(Kept(times, ReadBy))) = ToSet(times)
<1> DEFINE read == Kept(times, ReadBy)
           n == Len(read)
           vs == [i \in DOMAIN read |-> read[i][2]]
<1>1. times \in Seq(Stamps) /\ Distinct(times)
  BY DEF TimesOK
<1>2. read \in Seq(Stamps) /\ Distinct(read) /\ ToSet(read) = ToSet(times) \intersect ReadBy
  BY <1>1, KeptHolds
<1>3. n \in Nat /\ DOMAIN read = 1..n /\ \A i \in 1..n : read[i] \in Stamps
  BY <1>2
<1>4. Refreshed(read) = Written(times, Rows(Reverse(vs)))
  BY DEF Refreshed
<1>5. \A i \in 1..n : read[i] \in ToSet(times) /\ read[i] \in ReadBy
  BY <1>2, <1>3 DEF ToSet
<1> HIDE DEF read, n
<1>6. ASSUME NEW i \in 1..n
      PROVE  /\ vs[i] \in Videos /\ vs[i] \in Known
             /\ read[i] = (IF vs[i] \in Opined THEN Opinion(vs[i]) ELSE Row(vs[i]))
  <2>1. vs[i] = read[i][2]
    BY <1>3
  <2>2. PICK v \in Videos : \/ v \in Opined /\ read[i] = Opinion(v)
                            \/ v \in Known \ Opined /\ read[i] = Row(v)
    BY <1>5 DEF ReadBy, Opined, Known
  <2>3. vs[i] = v
    BY <2>1, <2>2, StampFacts
  <2>4. v \in Opined => v \in Known
    BY DEF TimesOK, Opined, Known
  <2> HIDE DEF vs
  <2> QED
    BY <2>2, <2>3, <2>4
<1>7. vs \in Seq(Videos) /\ DOMAIN vs = 1..n
  <2>1. vs \in [1..n -> Videos]
    BY <1>3, <1>6
  <2> QED
    BY <1>3, <2>1
<1>8. Distinct(vs)
  <2>1. SUFFICES ASSUME NEW i \in 1..n, NEW j \in 1..n, vs[i] = vs[j] PROVE i = j
    BY <1>7 DEF Distinct
  <2> HIDE DEF vs
  <2>2. read[i] = read[j]
    BY <1>6, <2>1
  <2> QED
    BY <1>2, <1>3, <2>2 DEF Distinct
<1> HIDE DEF vs
<1>9. Reverse(vs) \in Seq(Videos) /\ Distinct(Reverse(vs)) /\ ToSet(Reverse(vs)) = ToSet(vs)
  BY <1>7, <1>8, ReverseHolds
<1> DEFINE w == Rows(Reverse(vs))
<1>10. w \in Seq(Stamps) /\ Distinct(w) /\ ToSet(w) = {Row(v) : v \in ToSet(vs)}
  BY <1>9, RowsHold
<1>11. \A v \in ToSet(vs) : Row(v) \in ToSet(times)
  BY <1>6, <1>7 DEF ToSet, Known
<1>12. \A v \in Videos : Opinion(v) \notin ToSet(w)
  BY <1>10, StampFacts
<1> HIDE DEF w
<1>13. TimesOK(Written(times, w)) /\ ToSet(Written(times, w)) = ToSet(times) \union ToSet(w)
  BY <1>10, <1>12, WrittenHolds
<1>14. ToSet(w) \subseteq ToSet(times)
  BY <1>10, <1>11
<1>15. TimesOK(Refreshed(read)) /\ ToSet(Refreshed(read)) = ToSet(times)
  BY <1>4, <1>13, <1>14 DEF w
<1> QED
  BY <1>15 DEF read

(* What goes before an element of a sequence without duplicates.             *)
LEMMA PrefixIsDistinct ==
  ASSUME NEW X, NEW s \in Seq(X), Distinct(s), NEW k \in DOMAIN s
  PROVE  /\ s[k] \in X
         /\ SubSeq(s, 1, k - 1) \in Seq(X)
         /\ Distinct(SubSeq(s, 1, k - 1))
<1> DEFINE n == Len(s)
           j == k - 1
           p == SubSeq(s, 1, j)
<1>1. n \in Nat /\ DOMAIN s = 1..n /\ \A i \in 1..n : s[i] \in X
  OBVIOUS
<1> HIDE DEF n
<1>2. k \in 1..n
  BY <1>1
<1>3. j \in 0..n
  BY <1>1, <1>2
<1>4. \A i \in 1..j : i \in 1..n
  BY <1>1, <1>3
<1> HIDE DEF j
<1>5. p \in Seq(X) /\ DOMAIN p = 1..j /\ \A i \in 1..j : p[i] = s[i]
  BY <1>3, PrefixHolds DEF n
<1> HIDE DEF p
<1>6. Distinct(p)
  BY <1>1, <1>4, <1>5 DEF Distinct
<1> QED
  BY <1>1, <1>2, <1>5, <1>6 DEF p, j

(* What a run evicts, it evicts once.                                       *)
LEMMA EvictionIsDistinct ==
  ASSUME CacheAssumption, DiskTypes, NEW stamps, NEW gone \in Evictions(stamps)
  PROVE  /\ gone \in Seq(Videos) /\ Distinct(gone)
         /\ \A k \in DOMAIN gone : /\ gone[k] \in Videos
                                   /\ SubSeq(gone, 1, k - 1) \in Seq(Videos)
                                   /\ Distinct(SubSeq(gone, 1, k - 1))
<1>1. gone \in Seq(Videos) /\ Distinct(gone)
  <2>1. CASE gone = << >>
    BY <2>1 DEF Distinct
  <2>2. CASE gone # << >>
    <3>1. FirstOfOrder(stamps, gone)
      BY <2>2, EvictionIsPrefix
    <3>2. PICK refused \in SUBSET Undeletable :
            \E order \in Sorted(stamps, Unspared(stamps, refused)) :
            \E k \in 0..Cardinality(Unspared(stamps, refused)) :
              gone = SubSeq(order, 1, k)
      BY <3>1 DEF FirstOfOrder
    <3> DEFINE U == Unspared(stamps, refused)
    <3>3. PICK order \in Sorted(stamps, U) : \E k \in 0..Cardinality(U) : gone = SubSeq(order, 1, k)
      BY <3>2
    <3>4. PICK k \in 0..Cardinality(U) : gone = SubSeq(order, 1, k)
      BY <3>3
    <3>5. Enumerates(order, U)
      BY OrderOfUnspared
    <3>6. U \in SUBSET Videos
      BY DEF Unspared, Candidates, DiskTypes
    <3> HIDE DEF U
    <3>12. /\ Cardinality(U) \in Nat /\ order \in Seq(U) /\ k \in 0..Len(order)
           /\ Len(order) = Cardinality(U)
      BY <3>4, <3>5 DEF Enumerates
    <3>7. \A i, j \in 1..Cardinality(U) : i # j => order[i] # order[j]
      BY DEF Sorted, SetToSeqs
    <3>8. /\ gone \in Seq(U) /\ DOMAIN gone = 1..k
          /\ \A i \in 1..k : gone[i] = order[i]
      BY <3>4, <3>12, PrefixHolds
    <3>9. \A i \in 1..k : i \in 1..Cardinality(U)
      <4> DEFINE c == Cardinality(U)
      <4>1. c \in Nat /\ k \in 0..c
        BY <3>4, <3>12
      <4> HIDE DEF c
      <4>2. \A i \in 1..k : i \in 1..c
        BY <4>1
      <4> QED
        BY <4>2 DEF c
    <3>10. Distinct(gone)
      BY <3>7, <3>8, <3>9 DEF Distinct
    <3>11. gone \in Seq(Videos)
      BY <3>6, <3>8
    <3> QED
      BY <3>10, <3>11
  <2> QED
    BY <2>1, <2>2
<1>2. \A k \in DOMAIN gone : /\ gone[k] \in Videos
                             /\ SubSeq(gone, 1, k - 1) \in Seq(Videos)
                             /\ Distinct(SubSeq(gone, 1, k - 1))
  BY <1>1, PrefixIsDistinct
<1> QED
  BY <1>1, <1>2

-----------------------------------------------------------------------------
(* The types.                                                              *)

(* The opinions of the profiles are about videos of K.                      *)
OpinionsOf(K) == [Profiles -> [watched : SUBSET K, liked : SUBSET K]]

(* What users and downloads say is about rows that are there.               *)
RowTypes ==
  /\ downloaded \in SUBSET Known /\ watched \in SUBSET Known /\ liked \in SUBSET Known
  /\ disliked \in SUBSET Known /\ rejected \in SUBSET Known
  /\ opinion \in OpinionsOf(Known)

JobTypes ==
  /\ archive \in SUBSET Videos /\ torn \in SUBSET Videos /\ queued \in SUBSET Videos
  /\ feedbacks \in Nat /\ crashes \in Nat /\ flaky \in Nat

TypeInv == TimesOK(times) /\ RowTypes /\ JobTypes

(* Opinions about some videos are opinions about more.                      *)
LEMMA OpinionsGrow ==
  ASSUME NEW K, NEW L, K \subseteq L, NEW o \in OpinionsOf(K)
  PROVE  o \in OpinionsOf(L)
<1>1. o \in [Profiles -> [watched : SUBSET K, liked : SUBSET K]]
  BY DEF OpinionsOf
<1>2. \A p \in Profiles : o[p] \in [watched : SUBSET L, liked : SUBSET L]
  BY <1>1
<1> QED
  BY <1>1, <1>2 DEF OpinionsOf

(* A write to rows: they are known afterwards, and so is what was.          *)
LEMMA WrittenRows ==
  ASSUME NEW stamps, TimesOK(stamps), ToSet(stamps) = ToSet(times),
         NEW vs \in Seq(Videos), Distinct(vs), times' = Written(stamps, Rows(vs))
  PROVE  TimesOK(times') /\ Known' = Known \union ToSet(vs)
<1>1. /\ Rows(vs) \in Seq(Stamps) /\ Distinct(Rows(vs))
      /\ ToSet(Rows(vs)) = {Row(v) : v \in ToSet(vs)}
  BY RowsHold
<1>2. \A v \in Videos : Opinion(v) \notin ToSet(Rows(vs))
  BY <1>1, StampFacts
<1>3. /\ TimesOK(Written(stamps, Rows(vs)))
      /\ ToSet(Written(stamps, Rows(vs))) = ToSet(stamps) \union ToSet(Rows(vs))
  BY <1>1, <1>2, WrittenHolds
<1>4. ToSet(times') = ToSet(times) \union {Row(v) : v \in ToSet(vs)}
  BY <1>1, <1>3
<1>5. \A v \in ToSet(vs) : v \in Videos
  BY DEF ToSet
<1>6. \A v \in Videos : Row(v) \in ToSet(times') <=> v \in Known \/ v \in ToSet(vs)
  BY <1>4, StampFacts DEF Known
<1> QED
  BY <1>3, <1>5, <1>6 DEF Known

(* A write to one row.                                                      *)
LEMMA TouchedRow ==
  ASSUME TimesOK(times), NEW v \in Videos, times' = Touched(times, v)
  PROVE  TimesOK(times') /\ Known' = Known \union {v}
<1>1. <<v>> \in Seq(Videos) /\ Distinct(<<v>>) /\ ToSet(<<v>>) = {v}
  BY FewStamps
<1>2. Rows(<<v>>) = <<Row(v)>>
  BY DEF Rows
<1>3. times' = Written(times, Rows(<<v>>))
  BY <1>2 DEF Touched
<1> QED
  BY <1>1, <1>3, WrittenRows

(* Feedback of the default profile writes its opinion and the row.           *)
LEMMA OpinionWritten ==
  ASSUME TimesOK(times), NEW v \in Known, times' = Written(times, <<Opinion(v), Row(v)>>)
  PROVE  TimesOK(times') /\ Known' = Known
<1> DEFINE w == <<Opinion(v), Row(v)>>
<1>1. v \in Videos /\ Row(v) \in ToSet(times)
  BY DEF Known
<1>2. Opinion(v) \in Stamps /\ Row(v) \in Stamps /\ Opinion(v) # Row(v)
  BY <1>1, StampFacts DEF Stamps
<1>3. w \in Seq(Stamps) /\ Distinct(w) /\ ToSet(w) = {Opinion(v), Row(v)}
  BY <1>2, FewStamps
<1>4. \A u \in Videos : Opinion(u) \in ToSet(w) => Row(u) \in ToSet(times) \union ToSet(w)
  BY <1>3, StampFacts
<1> HIDE DEF w
<1>5. TimesOK(Written(times, w)) /\ ToSet(Written(times, w)) = ToSet(times) \union ToSet(w)
  BY <1>3, <1>4, WrittenHolds
<1>6. TimesOK(times') /\ ToSet(times') = ToSet(times) \union {Opinion(v), Row(v)}
  BY <1>3, <1>5 DEF w
<1>7. \A u \in Videos : Row(u) \in ToSet(times') <=> u \in Known
  BY <1>1, <1>6, StampFacts DEF Known
<1> QED
  BY <1>6, <1>7 DEF Known

(* A refresh, as RefreshScores and RecommendationCycle run it.              *)
LEMMA RefreshedTimes ==
  ASSUME TimesOK(times), NEW read \in {Kept(times, ReadBy)}
  PROVE  TimesOK(Refreshed(read)) /\ ToSet(Refreshed(read)) = ToSet(times)
BY RefreshedHolds

(* Rows become known and the users say nothing new.                         *)
LEMMA RowsGrow ==
  ASSUME RowTypes, Known \subseteq Known', downloaded' \in SUBSET Known',
         UNCHANGED <<watched, liked, disliked, rejected, opinion>>
  PROVE  RowTypes'
<1>1. opinion \in OpinionsOf(Known)
  BY DEF RowTypes
<1>2. opinion' \in OpinionsOf(Known')
  <2> DEFINE K == Known
             L == Known'
  <2>1. K \subseteq L /\ opinion \in OpinionsOf(K)
    BY <1>1
  <2> HIDE DEF K, L
  <2>2. opinion \in OpinionsOf(L)
    BY <2>1, OpinionsGrow
  <2> QED
    BY <2>2 DEF L
<1>3. OpinionsOf(Known)' = OpinionsOf(Known')
  BY DEF OpinionsOf
<1> QED
  BY <1>2, <1>3 DEF RowTypes

(* The rows stay while the stamps do.                                       *)
LEMMA KnownUnchanged ==
  ASSUME times' = times
  PROVE  Known' = Known
BY DEF Known

(* An eviction, complete or cut short.                                      *)
LEMMA EvictKeepsTypes ==
  ASSUME TypeInv, NEW stamps, TimesOK(stamps), ToSet(stamps) = ToSet(times),
         NEW gone \in Seq(Videos), Distinct(gone), ToSet(gone) \subseteq downloaded,
         NEW halfway, NEW lost \in SUBSET Videos, Evict(stamps, gone, halfway, lost),
         UNCHANGED <<watched, liked, disliked, rejected, opinion>>
  PROVE  TimesOK(times') /\ RowTypes' /\ torn' \in SUBSET Videos
<1>1. TimesOK(times) /\ RowTypes /\ JobTypes
  BY DEF TypeInv
<1>2. /\ times' = Written(stamps, Rows(gone))
      /\ downloaded' = downloaded \ ToSet(gone)
      /\ torn' = (torn \ ToSet(gone)) \union lost \union
                   {v \in ToSet(gone) : path[v] = "part" \/ arriving[v] # "none"}
  BY DEF Evict
<1>3. TimesOK(times') /\ Known' = Known \union ToSet(gone)
  BY <1>2, WrittenRows
<1>4. downloaded \in SUBSET Known /\ Known \in SUBSET Videos
  BY <1>1 DEF RowTypes, Known
<1>5. downloaded' \in SUBSET Known' /\ Known \subseteq Known'
  BY <1>2, <1>3, <1>4
<1>6. RowTypes'
  BY <1>1, <1>5, RowsGrow
<1>7. torn' \in SUBSET Videos
  BY <1>1, <1>2, <1>4 DEF JobTypes
<1> QED
  BY <1>3, <1>6, <1>7

(* What the planner queues is in the catalogue.                             *)
LEMMA PlansAreKnown ==
  ASSUME CacheAssumption, NEW D, NEW sz, Library(D, sz), NEW more \in Plans(D, sz)
  PROVE  more \in SUBSET Videos
<1>1. PICK recs \in Recommendations : more = Plan(recs, D, sz)
  BY DEF Plans
<1>2. CASE more = {}
  BY <1>2
<1>3. CASE more # {}
  <2>1. PICK plan : Frugal(plan, D, sz) /\ more = plan.queue
    BY <1>1, <1>3, PlanIsFrugal
  <2> QED
    BY <2>1 DEF Frugal, PlanType
<1> QED
  BY <1>2, <1>3

(* The parts of TypeInv after a step.                                       *)
LEMMA TypesHold ==
  ASSUME TimesOK(times'), RowTypes', JobTypes'
  PROVE  TypeInv'
BY DEF TypeInv, TimesOK

(* A row is entered or written again, maybe by a download.                  *)
LEMMA TouchKeepsTypes ==
  ASSUME TypeInv, NEW v \in Videos, times' = Touched(times, v),
         downloaded' \in SUBSET (downloaded \union {v}),
         UNCHANGED <<watched, liked, disliked, rejected, opinion>>
  PROVE  TimesOK(times') /\ RowTypes'
<1>1. TimesOK(times) /\ RowTypes
  BY DEF TypeInv
<1>2. TimesOK(times') /\ Known' = Known \union {v}
  BY <1>1, TouchedRow
<1>3. downloaded \in SUBSET Known
  BY <1>1 DEF RowTypes
<1>4. downloaded' \in SUBSET Known' /\ Known \subseteq Known'
  BY <1>2, <1>3
<1> QED
  BY <1>1, <1>2, <1>4, RowsGrow

(* The rows and the opinions stay.                                          *)
LEMMA RowsStay ==
  ASSUME TypeInv, times' = times, downloaded' = downloaded,
         UNCHANGED <<watched, liked, disliked, rejected, opinion>>
  PROVE  TimesOK(times') /\ RowTypes'
<1>1. TimesOK(times) /\ RowTypes
  BY DEF TypeInv
<1>2. Known' = Known
  BY KnownUnchanged
<1>3. downloaded' \in SUBSET Known' /\ Known \subseteq Known'
  BY <1>1, <1>2 DEF RowTypes
<1> QED
  BY <1>1, <1>3, RowsGrow

(* A run of the policy, complete or cut short.                              *)
LEMMA EvictionKeepsTypes ==
  ASSUME CacheAssumption, DiskInv, TypeInv,
         NEW stamps, TimesOK(stamps), ToSet(stamps) = ToSet(times),
         NEW gone \in Evictions(stamps),
         UNCHANGED <<watched, liked, disliked, rejected, opinion>>
  PROVE  /\ Evict(stamps, gone, {}, {}) =>
              TimesOK(times') /\ RowTypes' /\ torn' \in SUBSET Videos
         /\ \A k \in DOMAIN gone :
              Evict(stamps, SubSeq(gone, 1, k - 1), {gone[k]}, Arrivals \union {gone[k]}) =>
                TimesOK(times') /\ RowTypes' /\ torn' \in SUBSET Videos
<1>1. DiskTypes
  BY DEF DiskInv
<1>2. /\ gone \in Seq(Videos) /\ Distinct(gone)
      /\ \A k \in DOMAIN gone : /\ gone[k] \in Videos
                                /\ SubSeq(gone, 1, k - 1) \in Seq(Videos)
                                /\ Distinct(SubSeq(gone, 1, k - 1))
  BY <1>1, EvictionIsDistinct
<1>3. /\ Taken(stamps, ToSet(gone))
      /\ \A k \in DOMAIN gone : Taken(stamps, ToSet(SubSeq(gone, 1, k - 1)))
  BY <1>1, EvictionTakes
<1>4. /\ ToSet(gone) \subseteq downloaded
      /\ \A k \in DOMAIN gone : ToSet(SubSeq(gone, 1, k - 1)) \subseteq downloaded
  BY <1>1, <1>3, TakenIsEvictable
<1>5. ASSUME Evict(stamps, gone, {}, {})
      PROVE  TimesOK(times') /\ RowTypes' /\ torn' \in SUBSET Videos
  <2>1. {} \in SUBSET Videos
    OBVIOUS
  <2> QED
    BY <1>2, <1>4, <1>5, <2>1, EvictKeepsTypes
<1>6. ASSUME NEW k \in DOMAIN gone,
             Evict(stamps, SubSeq(gone, 1, k - 1), {gone[k]}, Arrivals \union {gone[k]})
      PROVE  TimesOK(times') /\ RowTypes' /\ torn' \in SUBSET Videos
  <2> DEFINE s == SubSeq(gone, 1, k - 1)
             lost == Arrivals \union {gone[k]}
             half == {gone[k]}
  <2>1. lost \in SUBSET Videos
    BY <1>2 DEF Arrivals
  <2>2. s \in Seq(Videos) /\ Distinct(s) /\ ToSet(s) \subseteq downloaded
    BY <1>2, <1>4
  <2>3. Evict(stamps, s, half, lost)
    BY <1>6
  <2> HIDE DEF s, lost, half
  <2> QED
    BY <2>1, <2>2, <2>3, EvictKeepsTypes
<1> QED
  BY <1>5, <1>6

(* What the planner queues, before or after an eviction, are videos.         *)
LEMMA QueueKeepsTypes ==
  ASSUME CacheAssumption, TypeInv, NEW D, NEW sz, Library(D, sz),
         NEW more \in Plans(D, sz), Queue(more)
  PROVE  queued' \in SUBSET Videos
<1>1. more \in SUBSET Videos
  BY PlansAreKnown
<1> QED
  BY <1>1 DEF Queue, TypeInv, JobTypes

(* What a user says of a known video.                                       *)
LEMMA FeedbackKeepsTypes ==
  ASSUME TypeInv, NEW p \in Profiles, NEW v \in Videos, NEW like, NEW dislike, NEW c,
         Feedback(p, v, like, dislike, c)
  PROVE  TimesOK(times') /\ RowTypes'
<1>1. TimesOK(times) /\ RowTypes /\ v \in Known
  BY DEF TypeInv, Feedback
<1>2. TimesOK(times') /\ Known' = Known
  <2>1. CASE p = DefaultProfile
    <3>1. times' = Written(times, <<Opinion(v), Row(v)>>)
      BY <2>1 DEF Feedback
    <3> QED
      BY <1>1, <3>1, OpinionWritten
  <2>2. CASE p # DefaultProfile
    <3>1. times' = Touched(times, v)
      BY <2>2 DEF Feedback
    <3>2. TimesOK(times') /\ Known' = Known \union {v}
      BY <1>1, <3>1, TouchedRow
    <3> QED
      BY <1>1, <3>2
  <2> QED
    BY <2>1, <2>2
<1>3. \A S \in SUBSET Known : /\ Coalesce(S, v, like) \in SUBSET Known
                              /\ Coalesce(S, v, dislike) \in SUBSET Known
                              /\ S \union {v} \in SUBSET Known
  BY <1>1 DEF Coalesce
<1>4. /\ watched' \in SUBSET Known /\ liked' \in SUBSET Known /\ disliked' \in SUBSET Known
      /\ downloaded' \in SUBSET Known /\ rejected' \in SUBSET Known
  BY <1>1, <1>3 DEF Feedback, RowTypes
<1>5. opinion' \in OpinionsOf(Known)
  <2> DEFINE K == Known
             o == opinion[p]
             new == [watched |-> IF c THEN o.watched \union {v} ELSE o.watched,
                     liked |-> Coalesce(o.liked, v, like)]
  <2>1. opinion \in [Profiles -> [watched : SUBSET K, liked : SUBSET K]]
    BY <1>1 DEF RowTypes, OpinionsOf
  <2>2. opinion' = [opinion EXCEPT ![p] = new]
    BY DEF Feedback
  <2>3. o \in [watched : SUBSET K, liked : SUBSET K]
    BY <2>1
  <2>4. o.watched \in SUBSET K /\ o.liked \in SUBSET K
    <3> HIDE DEF o, K
    <3> QED
      BY <2>3
  <2>5. /\ Coalesce(o.liked, v, like) \in SUBSET K
        /\ (IF c THEN o.watched \union {v} ELSE o.watched) \in SUBSET K
    BY <1>3, <2>4
  <2>6. new \in [watched : SUBSET K, liked : SUBSET K]
    <3> HIDE DEF o, K
    <3> QED
      BY <2>5
  <2> HIDE DEF new, K
  <2>7. opinion' \in [Profiles -> [watched : SUBSET K, liked : SUBSET K]]
    BY <2>1, <2>2, <2>6
  <2> QED
    BY <2>7 DEF K, OpinionsOf
<1>6. RowTypes'
  BY <1>2, <1>4, <1>5 DEF RowTypes, OpinionsOf
<1> QED
  BY <1>2, <1>6

(* A rejection, or its withdrawal.                                          *)
LEMMA RejectKeepsTypes ==
  ASSUME TypeInv, NEW v \in Videos, NEW flag, Reject(v, flag)
  PROVE  TimesOK(times') /\ RowTypes'
<1>1. TimesOK(times) /\ RowTypes /\ v \in Known
  BY DEF TypeInv, Reject
<1>2. times' = Written(times, <<Opinion(v), Row(v)>>)
  BY DEF Reject
<1>3. TimesOK(times') /\ Known' = Known
  BY <1>1, <1>2, OpinionWritten
<1>4. Coalesce(rejected, v, flag) \in SUBSET Known
  BY <1>1 DEF Coalesce, RowTypes
<1>5. UNCHANGED <<downloaded, watched, liked, disliked, opinion>> /\ rejected' \in SUBSET Known
  BY <1>4 DEF Reject
<1> QED
  BY <1>1, <1>3, <1>5 DEF RowTypes, OpinionsOf

(* Every operation keeps TypeInv.                                           *)
LEMMA TypeInductive ==
  ASSUME CacheAssumption, DiskInv, PlanInv, PlanInv', TypeInv, [Next]_vars
  PROVE  TypeInv'
<1> USE DEF catalogue, disk, counts
<1>0. TimesOK(times) /\ JobTypes /\ MaxFlaky \in Nat
  BY DEF TypeInv, CacheAssumption
<1>1. ASSUME NEW v \in Videos, NEW queue \in BOOLEAN, Discover(v, queue) PROVE TypeInv'
  <2>1. TimesOK(times') /\ RowTypes'
    BY <1>1, TouchKeepsTypes DEF Discover
  <2>2. JobTypes'
    BY <1>0, <1>1 DEF Discover, JobTypes
  <2> QED
    BY <2>1, <2>2, TypesHold
<1>2. ASSUME NEW v \in Videos, FetchArtwork(v) PROVE TypeInv'
  <2>1. TimesOK(times') /\ RowTypes'
    BY <1>2, TouchKeepsTypes DEF FetchArtwork
  <2>2. JobTypes'
    BY <1>0, <1>2 DEF FetchArtwork, JobTypes
  <2> QED
    BY <2>1, <2>2, TypesHold
<1>3. ASSUME NEW v \in Videos, AddUrl(v) \/ LeaveJob(v) PROVE TypeInv'
  <2>1. TimesOK(times') /\ RowTypes'
    BY <1>3, RowsStay DEF AddUrl, LeaveJob
  <2>2. JobTypes'
    BY <1>0, <1>3 DEF AddUrl, LeaveJob, JobTypes
  <2> QED
    BY <2>1, <2>2, TypesHold
<1>4. ASSUME NEW v \in Local, ScanLocal(v) PROVE TypeInv'
  <2>1. v \in Videos
    BY DEF CacheAssumption
  <2>2. TimesOK(times') /\ RowTypes'
    BY <1>4, <2>1, TouchKeepsTypes DEF ScanLocal
  <2>3. JobTypes'
    BY <1>0, <1>4 DEF ScanLocal, JobTypes
  <2> QED
    BY <2>2, <2>3, TypesHold
<1>5. ASSUME NEW p \in Profiles, NEW v \in Videos, NEW like, NEW dislike, NEW c,
             Feedback(p, v, like, dislike, c)
      PROVE  TypeInv'
  <2>1. TimesOK(times') /\ RowTypes'
    BY <1>5, FeedbackKeepsTypes
  <2>2. JobTypes'
    BY <1>0, <1>5 DEF Feedback, JobTypes
  <2> QED
    BY <2>1, <2>2, TypesHold
<1>6. ASSUME NEW v \in Videos, NEW flag, Reject(v, flag) PROVE TypeInv'
  <2>1. TimesOK(times') /\ RowTypes'
    BY <1>6, RejectKeepsTypes
  <2>2. JobTypes'
    BY <1>0, <1>6 DEF Reject, JobTypes
  <2> QED
    BY <2>1, <2>2, TypesHold
<1>7. ASSUME NEW v \in Videos, NEW name, NEW b, Fetch(v, name, b) PROVE TypeInv'
  <2>1. TimesOK(times') /\ RowTypes'
    BY <1>7, RowsStay DEF Fetch
  <2>2. JobTypes'
    BY <1>0, <1>7 DEF Fetch, JobTypes
  <2> QED
    BY <2>1, <2>2, TypesHold
<1>8. ASSUME NEW v \in Videos, NEW bytes, FinishJob(v, bytes) PROVE TypeInv'
  <2>1. TimesOK(times') /\ RowTypes'
    BY <1>8, TouchKeepsTypes DEF FinishJob
  <2>2. JobTypes'
    BY <1>0, <1>8 DEF FinishJob, JobTypes
  <2> QED
    BY <2>1, <2>2, TypesHold
<1>9. CASE RefreshScores
  <2>1. PICK read \in {Kept(times, ReadBy)} : times' = Refreshed(read)
    BY <1>9 DEF RefreshScores
  <2>2. TimesOK(times') /\ ToSet(times') = ToSet(times)
    BY <1>0, <2>1, RefreshedTimes
  <2>3. Known' = Known
    BY <2>2 DEF Known
  <2>4. RowTypes /\ UNCHANGED <<downloaded, watched, liked, disliked, rejected, opinion>>
    BY <1>9 DEF TypeInv, RefreshScores
  <2>5. downloaded' \in SUBSET Known' /\ Known \subseteq Known'
    BY <2>3, <2>4 DEF RowTypes
  <2>6. RowTypes'
    BY <2>4, <2>5, RowsGrow
  <2>7. JobTypes'
    BY <1>0, <1>9 DEF RefreshScores, JobTypes
  <2> QED
    BY <2>2, <2>6, <2>7, TypesHold
<1>10. CASE PlanOffline
  <2>1. TimesOK(times') /\ RowTypes'
    BY <1>10, RowsStay DEF PlanOffline
  <2>2. queued' \in SUBSET Videos
    BY <1>10, QueueKeepsTypes DEF PlanOffline, PlanInv
  <2>3. JobTypes'
    BY <1>0, <1>10, <2>2 DEF PlanOffline, JobTypes
  <2> QED
    BY <2>1, <2>3, TypesHold
<1>11. CASE EnforceStorage
  <2>1. PICK gone \in Evictions(times) : Evict(times, gone, {}, {})
    BY <1>11 DEF EnforceStorage
  <2>2. TimesOK(times') /\ RowTypes' /\ torn' \in SUBSET Videos
    BY <1>0, <1>11, <2>1, EvictionKeepsTypes DEF EnforceStorage
  <2>3. JobTypes'
    BY <1>0, <1>11, <2>2 DEF EnforceStorage, JobTypes
  <2> QED
    BY <2>2, <2>3, TypesHold
<1>12. CASE SyncMaintenance
  <2>1. PICK gone \in Evictions(times) : Evict(times, gone, {}, {})
    BY <1>12 DEF SyncMaintenance
  <2>2. TimesOK(times') /\ RowTypes' /\ torn' \in SUBSET Videos
    BY <1>0, <1>12, <2>1, EvictionKeepsTypes DEF SyncMaintenance
  <2>3. queued' \in SUBSET Videos
    <3> DEFINE E == downloaded'
               ez == size'
    <3>1. Library(E, ez)
      BY DEF PlanInv, Library
    <3>2. \E more \in Plans(E, ez) : Queue(more)
      BY <1>12 DEF SyncMaintenance
    <3> HIDE DEF E, ez
    <3> QED
      BY <3>1, <3>2, QueueKeepsTypes
  <2>4. JobTypes'
    BY <1>0, <1>12, <2>2, <2>3 DEF SyncMaintenance, JobTypes
  <2> QED
    BY <2>2, <2>4, TypesHold
<1>13. CASE RecommendationCycle
  <2>1. PICK read \in {Kept(times, ReadBy)} : \E stamps \in {Refreshed(read)} :
          \E gone \in Evictions(stamps) : Evict(stamps, gone, {}, {})
    BY <1>13 DEF RecommendationCycle
  <2>2. PICK stamps \in {Refreshed(read)} :
          \E gone \in Evictions(stamps) : Evict(stamps, gone, {}, {})
    BY <2>1
  <2>3. PICK gone \in Evictions(stamps) : Evict(stamps, gone, {}, {})
    BY <2>2
  <2>4. TimesOK(Refreshed(read)) /\ ToSet(Refreshed(read)) = ToSet(times)
    BY <1>0, RefreshedTimes
  <2>5. TimesOK(stamps) /\ ToSet(stamps) = ToSet(times)
    BY <2>4
  <2>6. TimesOK(times') /\ RowTypes' /\ torn' \in SUBSET Videos
    BY <1>13, <2>3, <2>5, EvictionKeepsTypes DEF RecommendationCycle
  <2>7. queued' \in SUBSET Videos
    BY <1>13, QueueKeepsTypes DEF RecommendationCycle, PlanInv
  <2>8. JobTypes'
    BY <1>0, <1>13, <2>6, <2>7 DEF RecommendationCycle, JobTypes
  <2> QED
    BY <2>6, <2>8, TypesHold
<1>14. CASE Crash
  <2>1. TimesOK(times') /\ RowTypes'
    BY <1>14, RowsStay DEF Crash, Die
  <2>2. JobTypes'
    BY <1>0, <1>14 DEF Crash, Die, JobTypes, Arrivals
  <2> QED
    BY <2>1, <2>2, TypesHold
<1>15. CASE CrashWhileEvicting
  <2>1. PICK gone \in Evictions(times) : \E k \in DOMAIN gone :
          Evict(times, SubSeq(gone, 1, k - 1), {gone[k]}, Arrivals \union {gone[k]})
    BY <1>15 DEF CrashWhileEvicting
  <2>2. TimesOK(times') /\ RowTypes' /\ torn' \in SUBSET Videos
    BY <1>0, <1>15, <2>1, EvictionKeepsTypes DEF CrashWhileEvicting, Die
  <2>3. JobTypes'
    BY <1>0, <1>15, <2>2 DEF CrashWhileEvicting, Die, JobTypes
  <2> QED
    BY <2>2, <2>3, TypesHold
<1>16. CASE UNCHANGED vars
  <2>1. TimesOK(times') /\ RowTypes'
    BY <1>16, RowsStay DEF vars
  <2>2. JobTypes'
    BY <1>0, <1>16 DEF vars, JobTypes
  <2> QED
    BY <2>1, <2>2, TypesHold
<1> QED
  BY <1>1, <1>2, <1>3, <1>4, <1>5, <1>6, <1>7, <1>8, <1>9, <1>10, <1>11, <1>12, <1>13,
     <1>14, <1>15, <1>16 DEF Next

(* An empty table is well-formed.                                           *)
LEMMA TypesInitially ==
  ASSUME CacheAssumption, Init
  PROVE  TypeInv
<1>1. times \in Seq(Stamps) /\ Distinct(times) /\ ToSet(times) = {}
  BY DEF Init, Distinct, ToSet
<1>2. TimesOK(times)
  BY <1>1 DEF TimesOK
<1>3. opinion \in OpinionsOf(Known)
  <2> DEFINE K == Known
             o == [watched |-> {}, liked |-> {}]
  <2>1. opinion = [p \in Profiles |-> o] /\ {} \in SUBSET K
    BY DEF Init
  <2> HIDE DEF K
  <2>2. o \in [watched : SUBSET K, liked : SUBSET K]
    BY <2>1
  <2> HIDE DEF o
  <2>3. opinion \in [Profiles -> [watched : SUBSET K, liked : SUBSET K]]
    BY <2>1, <2>2
  <2> QED
    BY <2>3 DEF K, OpinionsOf
<1>4. RowTypes
  BY <1>3 DEF Init, RowTypes
<1>5. JobTypes
  BY DEF Init, JobTypes
<1> QED
  BY <1>2, <1>4, <1>5 DEF TypeInv

(* Every step keeps TypeInv, from the start.                                *)
THEOREM TypeInvariance == Spec => []TypeInv
<1>1. Init => TypeInv
  BY CacheAssumption, TypesInitially
<1>2. DiskInv /\ PlanInv /\ PlanInv' /\ TypeInv /\ [Next]_vars => TypeInv'
  BY CacheAssumption, TypeInductive
<1> QED
  BY <1>1, <1>2, Invariance, PlanInvariance, PTL DEF Spec

(* The catalogue, the profiles, the disk and the jobs are well-formed in     *)
(* every state: a row and an opinion have one stamp each however often they  *)
(* are written again (upsert_video, refresh_scores, clear_downloaded_state), *)
(* an opinion is of a row, and flags are set of rows only.                  *)
THEOREM TypeOKHolds == Spec => []TypeOK
<1>1. DiskInv /\ PlanInv /\ TypeInv => TypeOK
  <2> SUFFICES ASSUME DiskInv, PlanInv, TypeInv PROVE TypeOK
    OBVIOUS
  <2>1. TimesOK(times) /\ RowTypes /\ JobTypes /\ DiskTypes
    BY DEF TypeInv, DiskInv
  <2>2. times \in Seq(Stamps) /\ Distinct(times)
    BY <2>1 DEF TimesOK
  <2>3. Len(times) = Cardinality(ToSet(times))
    BY <2>2, LengthOfDistinct
  <2>4. ToSet(times) \subseteq {Row(v) : v \in Videos} \union {Opinion(v) : v \in Known}
    <3>1. \A t \in ToSet(times) : t \in Stamps
      BY <2>2 DEF ToSet
    <3>2. \A v \in Videos : Opinion(v) \in ToSet(times) => v \in Known
      BY <2>1 DEF TimesOK, Known
    <3> QED
      BY <3>1, <3>2 DEF Stamps
  <2>5. UNION {downloaded, watched, liked, disliked, rejected} \subseteq Known
    BY <2>1 DEF RowTypes
  <2>6. opinion \in [Profiles -> [watched : SUBSET Known, liked : SUBSET Known]]
    BY <2>1 DEF RowTypes, OpinionsOf
  <2>7. /\ path \in [Videos -> Paths] /\ arriving \in [Videos -> Paths]
        /\ size \in [Videos -> Nat] /\ planned \subseteq queued
    BY <2>1 DEF DiskTypes, PlanInv, Library
  <2>8. UNION {files, archive, torn, queued} \subseteq Videos
    BY <2>1 DEF JobTypes, DiskTypes
  <2>9. {feedbacks, crashes, flaky} \subseteq Nat
    BY <2>1 DEF JobTypes
  <2> QED
    BY <2>3, <2>4, <2>5, <2>6, <2>7, <2>8, <2>9 DEF TypeOK
<1> QED
  BY <1>1, Invariance, PlanInvariance, TypeInvariance, PTL

=============================================================================
