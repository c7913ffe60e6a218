---------------------------- MODULE PolicyProofs ----------------------------
(***************************************************************************)
(* Proofs about PortfolioPolicy for any instruments, families, sessions,    *)
(* scores, liquidity caps and limits.                                       *)
(*                                                                          *)
(* The theorems are about sums of weights: that what is sized, routed,      *)
(* demoted, capped and scaled is never more than the whole.  The first part *)
(* is therefore about sums over finite sets, the next ones follow a call of *)
(* allocate from the ranking to the trade, and the last one is about the    *)
(* trackers.                                                                *)
(***************************************************************************)
EXTENDS PortfolioPolicy, FiniteSetTheorems, WellFoundedInduction, TLAPS

(***************************************************************************)
(* Sums over finite sets                                                    *)
(***************************************************************************)

\* The summand that FoldFunctionOnSet takes first.
Picked(s) == CHOOSE x \in s : TRUE

\* The sums over all subsets of S, from the empty one up.
Sums(w, S) == CHOOSE g : g = [s \in SUBSET S |-> IF s = {} THEN 0 ELSE w[Picked(s)] + g[s \ {Picked(s)}]]

LEMMA SumIsIterated ==
  ASSUME NEW w, NEW S
  PROVE  SumFunctionOnSet(w, S) = Sums(w, S)[S]
BY DEF SumFunctionOnSet, FoldFunctionOnSet, MapThenFoldSet, Sums, Picked

LEMMA LeastExists ==
  ASSUME NEW T \in SUBSET Nat, T # {}
  PROVE  \E x \in T : \A y \in T : x <= y
<1>1. \E x \in T : \A y \in T : ~ (<<y, x>> \in OpToRel(<, Nat))
  BY NatLessThanWellFounded, WFMin
<1>2. PICK x \in T : \A y \in T : ~ (<<y, x>> \in OpToRel(<, Nat)) BY <1>1
<1>3. \A y \in T : ~ (y < x) BY <1>2 DEF OpToRel
<1>4. QED BY <1>3

LEMMA PickedIs == ASSUME NEW s, s # {} PROVE Picked(s) \in s
BY DEF Picked

Upto(S, n) == {s \in SUBSET S : Cardinality(s) <= n}

LEMMA SubsetSizes ==
  ASSUME NEW S, IsFiniteSet(S), NEW s \in SUBSET S
  PROVE  /\ Cardinality(s) \in Nat /\ Cardinality(s) <= Cardinality(S) /\ Cardinality(S) \in Nat
         /\ (Cardinality(s) = 0 <=> s = {})
         /\ \A x \in s : Cardinality(s \ {x}) = Cardinality(s) - 1
<1>1. IsFiniteSet(s) BY FS_Subset
<1>2. QED BY <1>1, FS_Subset, FS_CardinalityType, FS_EmptySet, FS_RemoveElement

IsSum(g, w, S) ==
  g[{}] = 0 /\ \A s \in SUBSET S : s # {} => g[s] = w[Picked(s)] + g[s \ {Picked(s)}]

LEMMA SumsAre ==
  ASSUME NEW w, NEW S, IsFiniteSet(S)
  PROVE  IsSum(Sums(w, S), w, S)
<1> DEFINE Good(n) == \E g : g = [s \in Upto(S, n) |-> IF s = {} THEN 0 ELSE w[Picked(s)] + g[s \ {Picked(s)}]]
           bad == {n \in Nat : ~ Good(n)}
<1>1. bad = {}
  <2> SUFFICES ASSUME bad # {} PROVE FALSE OBVIOUS
  <2>1. PICK n \in bad : \A k \in bad : n <= k
    <3>1. bad \in SUBSET Nat OBVIOUS
    <3> HIDE DEF bad
    <3>2. QED BY <3>1, LeastExists
  <2>2. CASE n = 0
    <3> DEFINE g == [s \in Upto(S, 0) |-> 0]
    <3>1. \A s \in Upto(S, 0) : s = {} BY SubsetSizes DEF Upto
    <3>2. g = [s \in Upto(S, 0) |-> IF s = {} THEN 0 ELSE w[Picked(s)] + g[s \ {Picked(s)}]]
      BY <3>1
    <3>3. QED BY <2>2, <3>2
  <2>3. CASE n # 0
    <3>1. n - 1 \in Nat /\ n \in Nat /\ Good(n - 1)
      <4> HIDE DEF Good
      <4>1. n \in Nat /\ n - 1 \in Nat /\ n - 1 \notin bad BY <2>1, <2>3
      <4>2. QED BY <4>1
    <3>2. PICK h : h = [s \in Upto(S, n - 1) |-> IF s = {} THEN 0 ELSE w[Picked(s)] + h[s \ {Picked(s)}]]
      BY <3>1
    <3> DEFINE g == [s \in Upto(S, n) |->
                       IF s = {} THEN 0 ELSE w[Picked(s)] + h[s \ {Picked(s)}]]
    <3>3. Upto(S, n - 1) \subseteq Upto(S, n) BY <3>1, SubsetSizes DEF Upto
    <3>4. \A s \in Upto(S, n) : s # {} => s \ {Picked(s)} \in Upto(S, n - 1)
      BY <3>1, SubsetSizes, PickedIs DEF Upto
    <3>5. \A s \in Upto(S, n - 1) : g[s] = h[s] BY <3>2, <3>3
    <3>6. \A s \in Upto(S, n) : s # {} => g[s \ {Picked(s)}] = h[s \ {Picked(s)}]
      BY <3>4, <3>5
    <3>7. g = [s \in Upto(S, n) |-> IF s = {} THEN 0 ELSE w[Picked(s)] + g[s \ {Picked(s)}]]
      BY <3>6
    <3>8. QED BY <2>1, <3>7
  <2>4. QED BY <2>2, <2>3
<1>2. Good(Cardinality(S)) BY <1>1, FS_CardinalityType
<1>3. Upto(S, Cardinality(S)) = SUBSET S BY SubsetSizes DEF Upto
<1>4. \E g : g = [s \in SUBSET S |-> IF s = {} THEN 0 ELSE w[Picked(s)] + g[s \ {Picked(s)}]]
  BY <1>2, <1>3
<1>5. PICK g : /\ g = Sums(w, S)
               /\ g = [s \in SUBSET S |-> IF s = {} THEN 0 ELSE w[Picked(s)] + g[s \ {Picked(s)}]]
  BY <1>4 DEF Sums
<1>6. /\ g[{}] = 0 /\ \A s \in SUBSET S : s # {} => g[s] = w[Picked(s)] + g[s \ {Picked(s)}]
  BY <1>5
<1>7. QED BY <1>5, <1>6 DEF IsSum


\* Induction over the subsets of a finite set, with the claim as the set G of the
\* subsets it holds for.
LEMMA SubsetInduction ==
  ASSUME NEW S, IsFiniteSet(S), NEW G, {} \in G,
         \A s \in SUBSET S : \A x \in S \ s : s \in G => s \cup {x} \in G
  PROVE  S \in G
<1> DEFINE bad == {Cardinality(s) : s \in {s \in SUBSET S : s \notin G}}
<1>1. bad \in SUBSET Nat BY SubsetSizes
<1>2. bad = {}
  <2> SUFFICES ASSUME bad # {} PROVE FALSE OBVIOUS
  <2>1. PICK n \in bad : \A k \in bad : n <= k
    <3> HIDE DEF bad
    <3>1. QED BY <1>1, LeastExists
  <2>2. PICK s \in SUBSET S : s \notin G /\ n = Cardinality(s) BY <2>1
  <2>3. PICK x \in s : TRUE BY <2>2
  <2>4. Cardinality(s \ {x}) = n - 1 /\ n \in Nat BY <2>2, <2>3, SubsetSizes
  <2>5. s \ {x} \in G BY <2>1, <2>4
  <2>6. (s \ {x}) \cup {x} = s /\ x \in S \ (s \ {x}) BY <2>3
  <2>7. s \ {x} \in SUBSET S OBVIOUS
  <2>8. (s \ {x}) \cup {x} \in G BY <2>5, <2>6, <2>7
  <2>9. QED BY <2>2, <2>6, <2>8
<1>3. QED BY <1>2

LEMMA SumsAgree ==
  ASSUME NEW w, NEW S, NEW T \in SUBSET S, IsFiniteSet(S), NEW g, NEW h,
         IsSum(g, w, S), IsSum(h, w, T)
  PROVE  \A s \in SUBSET T : g[s] = h[s]
<1> DEFINE bad == {Cardinality(s) : s \in {s \in SUBSET T : g[s] # h[s]}}
<1>0. IsFiniteSet(T) BY FS_Subset
<1>1. bad \in SUBSET Nat BY <1>0, SubsetSizes
<1>2. bad = {}
  <2> SUFFICES ASSUME bad # {} PROVE FALSE OBVIOUS
  <2>1. PICK n \in bad : \A k \in bad : n <= k
    <3> HIDE DEF bad
    <3>1. QED BY <1>1, LeastExists
  <2>2. PICK s \in SUBSET T : g[s] # h[s] /\ n = Cardinality(s) BY <2>1
  <2>3. s # {} BY <2>2 DEF IsSum
  <2>4. Picked(s) \in s BY <2>3, PickedIs
  <2>5. Cardinality(s \ {Picked(s)}) = n - 1 /\ n \in Nat BY <1>0, <2>2, <2>4, SubsetSizes
  <2>6. g[s \ {Picked(s)}] = h[s \ {Picked(s)}] BY <2>1, <2>5
  <2>7. g[s] = w[Picked(s)] + g[s \ {Picked(s)}] BY <2>3 DEF IsSum
  <2>8. h[s] = w[Picked(s)] + h[s \ {Picked(s)}] BY <2>3 DEF IsSum
  <2>9. QED BY <2>2, <2>6, <2>7, <2>8
<1>3. QED BY <1>2

LEMMA SumStep ==
  ASSUME NEW w, NEW S, IsFiniteSet(S)
  PROVE  /\ SumFunctionOnSet(w, {}) = 0
         /\ S # {} => SumFunctionOnSet(w, S) =
                        w[Picked(S)] + SumFunctionOnSet(w, S \ {Picked(S)})
<1>1. IsSum(Sums(w, S), w, S) BY SumsAre
<1>2. ASSUME NEW T \in SUBSET S PROVE SumFunctionOnSet(w, T) = Sums(w, S)[T]
  <2>1. IsFiniteSet(T) BY FS_Subset
  <2>2. IsSum(Sums(w, T), w, T) BY <2>1, SumsAre
  <2>3. Sums(w, S)[T] = Sums(w, T)[T] BY <1>1, <2>2, SumsAgree
  <2>4. QED BY <2>3, SumIsIterated
<1>3. SumFunctionOnSet(w, {}) = Sums(w, S)[{}] BY <1>2
<1>4. S \ {Picked(S)} \in SUBSET S /\ S \in SUBSET S OBVIOUS
<1>5. SumFunctionOnSet(w, S \ {Picked(S)}) = Sums(w, S)[S \ {Picked(S)}]
      /\ SumFunctionOnSet(w, S) = Sums(w, S)[S]
  BY <1>2, <1>4
<1>6. QED BY <1>1, <1>3, <1>4, <1>5 DEF IsSum

\* A sum of natural numbers is one, and it does not matter which summand comes first.
LEMMA SumInNat ==
  ASSUME NEW w, NEW S, IsFiniteSet(S), \A x \in S : w[x] \in Nat
  PROVE  SumFunctionOnSet(w, S) \in Nat
<1> DEFINE bad == {Cardinality(s) : s \in {s \in SUBSET S : SumFunctionOnSet(w, s) \notin Nat}}
<1>1. bad \in SUBSET Nat BY SubsetSizes
<1>2. bad = {}
  <2> SUFFICES ASSUME bad # {} PROVE FALSE OBVIOUS
  <2>1. PICK n \in bad : \A k \in bad : n <= k
    <3> HIDE DEF bad
    <3>1. QED BY <1>1, LeastExists
  <2>2. PICK s \in SUBSET S : SumFunctionOnSet(w, s) \notin Nat /\ n = Cardinality(s) BY <2>1
  <2>3. IsFiniteSet(s) BY FS_Subset
  <2>4. s # {}
    <3>1. SumFunctionOnSet(w, {}) = 0 BY <2>3, SumStep
    <3>2. QED BY <2>2, <3>1
  <2>5. Picked(s) \in s BY <2>4, PickedIs
  <2>6. Cardinality(s \ {Picked(s)}) = n - 1 /\ n \in Nat BY <2>2, <2>5, SubsetSizes
  <2>7. SumFunctionOnSet(w, s \ {Picked(s)}) \in Nat BY <2>1, <2>6
  <2>8. w[Picked(s)] \in Nat BY <2>5
  <2>9. QED BY <2>2, <2>3, <2>4, <2>7, <2>8, SumStep
<1>3. QED BY <1>2

LEMMA SumRemove ==
  ASSUME NEW w, NEW S, IsFiniteSet(S), \A x \in S : w[x] \in Nat, NEW x \in S
  PROVE  SumFunctionOnSet(w, S) = w[x] + SumFunctionOnSet(w, S \ {x})
<1> DEFINE Good(s) == \A y \in s : SumFunctionOnSet(w, s) = w[y] + SumFunctionOnSet(w, s \ {y})
           bad == {Cardinality(s) : s \in {s \in SUBSET S : ~ Good(s)}}
<1>1. bad \in SUBSET Nat BY SubsetSizes
<1>2. bad = {}
  <2> SUFFICES ASSUME bad # {} PROVE FALSE OBVIOUS
  <2>1. PICK n \in bad : \A k \in bad : n <= k
    <3> HIDE DEF bad
    <3>1. QED BY <1>1, LeastExists
  <2>2. PICK s \in SUBSET S : ~ Good(s) /\ n = Cardinality(s) BY <2>1
  <2>3. PICK y \in s : SumFunctionOnSet(w, s) # w[y] + SumFunctionOnSet(w, s \ {y}) BY <2>2
  <2> DEFINE p == Picked(s)
  <2>4. p \in s /\ IsFiniteSet(s) /\ IsFiniteSet(s \ {y}) BY <2>3, PickedIs, FS_Subset
  <2>5. SumFunctionOnSet(w, s) = w[p] + SumFunctionOnSet(w, s \ {p}) BY <2>3, <2>4, SumStep
  <2>6. p # y BY <2>3, <2>5
  <2> HIDE DEF p
  <2>7. Cardinality(s \ {p}) = n - 1 /\ Cardinality(s \ {y}) = n - 1 /\ n \in Nat
    BY <2>2, <2>4, SubsetSizes
  <2>8. Good(s \ {p}) /\ Good(s \ {y})
    <3>1. s \ {p} \in SUBSET S /\ s \ {y} \in SUBSET S OBVIOUS
    <3> HIDE DEF Good
    <3>2. QED BY <2>1, <2>7, <3>1
  <2>9. SumFunctionOnSet(w, s \ {p}) = w[y] + SumFunctionOnSet(w, (s \ {p}) \ {y})
        /\ SumFunctionOnSet(w, s \ {y}) = w[p] + SumFunctionOnSet(w, (s \ {y}) \ {p})
    BY <2>4, <2>6, <2>8
  <2>10. PICK k : k = SumFunctionOnSet(w, (s \ {y}) \ {p}) OBVIOUS
  <2>11. (s \ {p}) \ {y} = (s \ {y}) \ {p} OBVIOUS
  <2>12. k \in Nat /\ w[p] \in Nat /\ w[y] \in Nat
    <3>1. IsFiniteSet((s \ {y}) \ {p}) BY <2>4, FS_Subset
    <3>2. QED BY <2>4, <2>10, <3>1, SumInNat
  <2>13. SumFunctionOnSet(w, s) = w[p] + (w[y] + k) BY <2>5, <2>9, <2>10, <2>11
  <2>14. SumFunctionOnSet(w, s \ {y}) = w[p] + k BY <2>9, <2>10
  <2>15. QED BY <2>3, <2>12, <2>13, <2>14
<1>3. Good(S) BY <1>2
<1>4. QED BY <1>3

\* One more summand.
LEMMA SumAdd ==
  ASSUME NEW w, NEW S, IsFiniteSet(S), NEW x, x \notin S, \A y \in S \cup {x} : w[y] \in Nat
  PROVE  SumFunctionOnSet(w, S \cup {x}) = w[x] + SumFunctionOnSet(w, S)
<1>1. IsFiniteSet(S \cup {x}) /\ (S \cup {x}) \ {x} = S BY FS_AddElement
<1>2. QED BY <1>1, SumRemove

\* Sums keep order and proportion, and leave zeros out.
LEMMA SumBelow ==
  ASSUME NEW a, NEW b, NEW c, NEW S, IsFiniteSet(S),
         \A x \in S : a[x] \in Nat /\ b[x] \in Nat /\ c[x] \in Nat /\ a[x] <= b[x] + c[x]
  PROVE  SumFunctionOnSet(a, S) <= SumFunctionOnSet(b, S) + SumFunctionOnSet(c, S)
<1> DEFINE G == {s \in SUBSET S :
                  SumFunctionOnSet(a, s) <= SumFunctionOnSet(b, s) + SumFunctionOnSet(c, s)}
<1>1. {} \in G
  <2>1. SumFunctionOnSet(a, {}) = 0 /\ SumFunctionOnSet(b, {}) = 0 /\ SumFunctionOnSet(c, {}) = 0
    BY FS_EmptySet, SumStep
  <2>2. QED BY <2>1
<1>2. ASSUME NEW s \in SUBSET S, NEW x \in S \ s, s \in G PROVE s \cup {x} \in G
  <2>1. IsFiniteSet(s) BY FS_Subset
  <2>2. SumFunctionOnSet(a, s) \in Nat /\ SumFunctionOnSet(b, s) \in Nat /\ SumFunctionOnSet(c, s) \in Nat
    BY <2>1, SumInNat
  <2>3. /\ SumFunctionOnSet(a, s \cup {x}) = a[x] + SumFunctionOnSet(a, s)
        /\ SumFunctionOnSet(b, s \cup {x}) = b[x] + SumFunctionOnSet(b, s)
        /\ SumFunctionOnSet(c, s \cup {x}) = c[x] + SumFunctionOnSet(c, s)
    BY <2>1, SumAdd
  <2>4. QED BY <1>2, <2>2, <2>3
<1>3. S \in G
  <2> HIDE DEF G
  <2>1. QED BY <1>1, <1>2, SubsetInduction
<1>4. QED BY <1>3

LEMMA Distributes ==
  ASSUME NEW k \in Nat, NEW x \in Nat, NEW y \in Nat
  PROVE  k * (x + y) = k * x + k * y /\ k * x \in Nat
OBVIOUS

LEMMA SumScaled ==
  ASSUME NEW a, NEW b, NEW k \in Nat, NEW S, IsFiniteSet(S),
         \A x \in S : a[x] \in Nat /\ b[x] \in Nat /\ b[x] = k * a[x]
  PROVE  SumFunctionOnSet(b, S) = k * SumFunctionOnSet(a, S)
<1> DEFINE G == {s \in SUBSET S : SumFunctionOnSet(b, s) = k * SumFunctionOnSet(a, s)}
<1>1. {} \in G
  <2>1. SumFunctionOnSet(a, {}) = 0 /\ SumFunctionOnSet(b, {}) = 0 BY FS_EmptySet, SumStep
  <2>2. QED BY <2>1
<1>2. ASSUME NEW s \in SUBSET S, NEW x \in S \ s, s \in G PROVE s \cup {x} \in G
  <2>1. IsFiniteSet(s) BY FS_Subset
  <2>2. SumFunctionOnSet(a, s) \in Nat BY <2>1, SumInNat
  <2>3. /\ SumFunctionOnSet(a, s \cup {x}) = a[x] + SumFunctionOnSet(a, s)
        /\ SumFunctionOnSet(b, s \cup {x}) = b[x] + SumFunctionOnSet(b, s)
    BY <2>1, SumAdd
  <2>4. SumFunctionOnSet(b, s \cup {x}) = k * a[x] + k * SumFunctionOnSet(a, s) BY <1>2, <2>3
  <2>5. k * (a[x] + SumFunctionOnSet(a, s)) = k * a[x] + k * SumFunctionOnSet(a, s)
    BY <2>2, Distributes
  <2>6. QED BY <2>3, <2>4, <2>5
<1>3. S \in G
  <2> HIDE DEF G
  <2>1. QED BY <1>1, <1>2, SubsetInduction
<1>4. QED BY <1>3

LEMMA SumSupport ==
  ASSUME NEW a, NEW S, NEW K \in SUBSET S, IsFiniteSet(S), \A x \in S : a[x] \in Nat,
         \A x \in S \ K : a[x] = 0
  PROVE  SumFunctionOnSet(a, S) = SumFunctionOnSet(a, K)
<1> DEFINE G == {s \in SUBSET S : SumFunctionOnSet(a, s) = SumFunctionOnSet(a, s \cap K)}
<1>1. {} \in G
  <2>1. {} \cap K = {} OBVIOUS
  <2>2. QED BY <2>1
<1>2. ASSUME NEW s \in SUBSET S, NEW x \in S \ s, s \in G PROVE s \cup {x} \in G
  <2>1. IsFiniteSet(s) /\ IsFiniteSet(s \cap K) BY FS_Subset
  <2>2. SumFunctionOnSet(a, s) \in Nat BY <2>1, SumInNat
  <2>3. SumFunctionOnSet(a, s \cup {x}) = a[x] + SumFunctionOnSet(a, s) BY <2>1, SumAdd
  <2>4. CASE x \in K
    <3>1. (s \cup {x}) \cap K = (s \cap K) \cup {x} /\ x \notin s \cap K BY <2>4
    <3>2. SumFunctionOnSet(a, (s \cap K) \cup {x}) = a[x] + SumFunctionOnSet(a, s \cap K)
      BY <2>1, <3>1, SumAdd
    <3>3. SumFunctionOnSet(a, s) = SumFunctionOnSet(a, s \cap K) BY <1>2
    <3>4. SumFunctionOnSet(a, s \cup {x}) = SumFunctionOnSet(a, (s \cup {x}) \cap K)
      BY <2>3, <3>1, <3>2, <3>3
    <3>5. QED BY <3>4
  <2>5. CASE x \notin K
    <3>1. (s \cup {x}) \cap K = s \cap K BY <2>5
    <3>2. a[x] = 0 BY <2>5
    <3>3. SumFunctionOnSet(a, s) = SumFunctionOnSet(a, s \cap K) BY <1>2
    <3>4. SumFunctionOnSet(a, s \cup {x}) = SumFunctionOnSet(a, s) BY <2>2, <2>3, <3>2
    <3>5. SumFunctionOnSet(a, s \cup {x}) = SumFunctionOnSet(a, (s \cup {x}) \cap K)
      BY <3>1, <3>3, <3>4
    <3>6. QED BY <3>5
  <2>6. QED BY <2>4, <2>5
<1>3. S \in G
  <2> HIDE DEF G
  <2>1. QED BY <1>1, <1>2, SubsetInduction
<1>4. S \cap K = K OBVIOUS
<1>5. QED BY <1>3, <1>4

\* Two functions of equal summands have equal sums.
LEMMA SumSame ==
  ASSUME NEW a, NEW b, NEW S, IsFiniteSet(S), \A x \in S : a[x] \in Nat /\ b[x] = a[x]
  PROVE  SumFunctionOnSet(b, S) = SumFunctionOnSet(a, S)
<1>1. \A x \in S : b[x] = 1 * a[x] OBVIOUS
<1>2. SumFunctionOnSet(b, S) = 1 * SumFunctionOnSet(a, S) BY <1>1, SumScaled
<1>3. QED BY <1>2, SumInNat

LEMMA SumMonotone ==
  ASSUME NEW a, NEW b, NEW S, IsFiniteSet(S),
         \A x \in S : a[x] \in Nat /\ b[x] \in Nat /\ a[x] <= b[x]
  PROVE  SumFunctionOnSet(a, S) <= SumFunctionOnSet(b, S)
<1> DEFINE c == [x \in S |-> 0]
<1>1. SumFunctionOnSet(c, S) = 0 * SumFunctionOnSet(b, S)
  <2>1. \A x \in S : b[x] \in Nat /\ c[x] \in Nat /\ c[x] = 0 * b[x] OBVIOUS
  <2> HIDE DEF c
  <2>2. QED BY <2>1, SumScaled
<1>2. SumFunctionOnSet(c, S) = 0 BY <1>1, SumInNat
<1>3. \A x \in S : a[x] <= b[x] + c[x] /\ c[x] \in Nat OBVIOUS
<1> HIDE DEF c
<1>4. SumFunctionOnSet(a, S) <= SumFunctionOnSet(b, S) + SumFunctionOnSet(c, S)
  BY <1>3, SumBelow
<1>5. QED BY <1>2, <1>4, SumInNat

\* A summand is no more than the sum.
LEMMA SummandBelow ==
  ASSUME NEW a, NEW S, IsFiniteSet(S), \A x \in S : a[x] \in Nat, NEW x \in S
  PROVE  a[x] <= SumFunctionOnSet(a, S)
<1>1. IsFiniteSet(S \ {x}) BY FS_Subset
<1>2. SumFunctionOnSet(a, S \ {x}) \in Nat BY <1>1, SumInNat
<1>3. QED BY <1>2, SumRemove

-----------------------------------------------------------------------------
(* Scaling to a limit *)

LEMMA QuotientIs ==
  ASSUME NEW a \in Nat, NEW d \in Nat, d > 0
  PROVE  /\ a \div d \in Nat /\ d * (a \div d) <= a
         /\ a = 0 => a \div d = 0
OBVIOUS

LEMMA Cancel ==
  ASSUME NEW x \in Nat, NEW y \in Nat, NEW d \in Nat, d > 0, d * x <= d * y
  PROVE  x <= y
<1> SUFFICES ASSUME y + 1 <= x PROVE FALSE OBVIOUS
<1>1. PICK e \in Nat : x = y + 1 + e
  <2>1. x - (y + 1) \in Nat OBVIOUS
  <2>2. QED BY <2>1
<1>2. d * (y + (1 + e)) = d * y + d * (1 + e) BY Distributes
<1>3. d * (1 + e) = d * 1 + d * e /\ d * e \in Nat BY Distributes
<1>4. d * y \in Nat BY Distributes
<1>5. QED BY <1>1, <1>2, <1>3, <1>4

LEMMA Grows ==
  ASSUME NEW a \in Nat, NEW x \in Nat, NEW y \in Nat, x <= y
  PROVE  a * x <= a * y
<1>1. PICK e \in Nat : y = x + e
  <2>1. y - x \in Nat OBVIOUS
  <2>2. QED BY <2>1
<1>2. a * (x + e) = a * x + a * e /\ a * e \in Nat /\ a * x \in Nat BY Distributes
<1>3. QED BY <1>1, <1>2

\* A part of a weight.
LEMMA ShareIs ==
  ASSUME NEW a \in Nat, NEW limit \in Nat, NEW size \in Nat, limit < size
  PROVE  /\ (a * limit) \div size \in Nat
         /\ size * ((a * limit) \div size) <= limit * a
         /\ (a * limit) \div size <= a
         /\ a = 0 => (a * limit) \div size = 0
<1> DEFINE q == (a * limit) \div size
<1>1. a * limit \in Nat /\ a * limit = limit * a /\ size > 0 BY Distributes
<1>2. q \in Nat /\ size * q <= a * limit BY <1>1, QuotientIs
<1>3. a = 0 => q = 0 BY <1>1, QuotientIs
<1> HIDE DEF q
<1>4. a * limit <= a * size BY Grows
<1>5. a * size = size * a /\ size * q \in Nat /\ a * size \in Nat BY <1>2, Distributes
<1>6. size * q <= size * a BY <1>1, <1>2, <1>4, <1>5
<1>7. q <= a BY <1>1, <1>2, <1>6, Cancel
<1>8. QED BY <1>1, <1>2, <1>3, <1>7 DEF q

\* Weights in natural numbers of finitely many instruments.
Book(w) == IsFiniteSet(DOMAIN w) /\ w \in [DOMAIN w -> Nat]

LEMMA ScaledIs ==
  ASSUME NEW w, Book(w), NEW limit \in Nat, NEW size \in Nat
  PROVE  /\ Book(ScaledTo(w, limit, size)) /\ DOMAIN ScaledTo(w, limit, size) = DOMAIN w
         /\ \A t \in DOMAIN w : /\ ScaledTo(w, limit, size)[t] <= w[t]
                                /\ w[t] = 0 => ScaledTo(w, limit, size)[t] = 0
         /\ size > limit => \A t \in DOMAIN w : size * ScaledTo(w, limit, size)[t] <= limit * w[t]
<1>1. CASE size <= limit BY <1>1 DEF ScaledTo, Book
<1>2. CASE size > limit
  <2>1. ScaledTo(w, limit, size) = [t \in DOMAIN w |-> (w[t] * limit) \div size]
    BY <1>2 DEF ScaledTo
  <2>2. \A t \in DOMAIN w : w[t] \in Nat BY DEF Book
  <2>3. \A t \in DOMAIN w : /\ ScaledTo(w, limit, size)[t] \in Nat
                            /\ ScaledTo(w, limit, size)[t] <= w[t]
                            /\ w[t] = 0 => ScaledTo(w, limit, size)[t] = 0
                            /\ size * ScaledTo(w, limit, size)[t] <= limit * w[t]
    <3> SUFFICES ASSUME NEW t \in DOMAIN w
                 PROVE  /\ ScaledTo(w, limit, size)[t] \in Nat
                        /\ ScaledTo(w, limit, size)[t] <= w[t]
                        /\ w[t] = 0 => ScaledTo(w, limit, size)[t] = 0
                        /\ size * ScaledTo(w, limit, size)[t] <= limit * w[t]
      OBVIOUS
    <3>1. ScaledTo(w, limit, size)[t] = (w[t] * limit) \div size /\ w[t] \in Nat BY <2>1, <2>2
    <3>2. QED BY <1>2, <3>1, ShareIs
  <2>4. DOMAIN ScaledTo(w, limit, size) = DOMAIN w
        /\ ScaledTo(w, limit, size) \in [DOMAIN w -> Nat]
    BY <2>1, <2>3
  <2>5. QED BY <2>3, <2>4 DEF Book
<1>3. QED BY <1>1, <1>2

\* Shares of a sum, each rounded down, stay within the limit.
LEMMA SharesWithin ==
  ASSUME NEW a, NEW b, NEW S, IsFiniteSet(S), NEW limit \in Nat,
         \A x \in S : a[x] \in Nat /\ b[x] \in Nat,
         NEW size, size = SumFunctionOnSet(a, S), size > 0,
         \A x \in S : size * b[x] <= limit * a[x]
  PROVE  SumFunctionOnSet(b, S) <= limit
<1> DEFINE c == [x \in S |-> size * b[x]]
           d == [x \in S |-> limit * a[x]]
<1>0. size \in Nat /\ SumFunctionOnSet(b, S) \in Nat BY SumInNat
<1>1. \A x \in S : /\ c[x] \in Nat /\ c[x] = size * b[x]
                   /\ d[x] \in Nat /\ d[x] = limit * a[x] /\ c[x] <= d[x]
  BY <1>0, Distributes
<1> HIDE DEF c, d
<1>2. SumFunctionOnSet(c, S) = size * SumFunctionOnSet(b, S) BY <1>0, <1>1, SumScaled
<1>3. SumFunctionOnSet(d, S) = limit * size BY <1>1, SumScaled
<1>4. SumFunctionOnSet(c, S) <= SumFunctionOnSet(d, S) BY <1>1, SumMonotone
<1>5. limit * size = size * limit BY <1>0
<1>6. size * SumFunctionOnSet(b, S) <= size * limit BY <1>2, <1>3, <1>4, <1>5
<1>7. QED BY <1>0, <1>6, Cancel

\* The book is never more than whole.
LEMMA BookIsWhole ==
  ASSUME NEW w, Book(w)
  PROVE  /\ Book(WithinBook(w)) /\ DOMAIN WithinBook(w) = DOMAIN w
         /\ \A t \in DOMAIN w : /\ WithinBook(w)[t] <= w[t]
                                /\ w[t] = 0 => WithinBook(w)[t] = 0
         /\ Total(WithinBook(w)) <= Unit
<1> DEFINE v == WithinBook(w)
           size == Total(w)
<1>0. Unit \in Nat BY SizingAssumption
<1>1. size = SumFunctionOnSet(w, DOMAIN w) BY DEF Total, SumFunction
<1>2. size \in Nat BY <1>1, SumInNat DEF Book
<1>3. v = ScaledTo(w, Unit, size) BY DEF WithinBook
<1> HIDE DEF v, size
<1>4. /\ Book(v) /\ DOMAIN v = DOMAIN w
      /\ \A t \in DOMAIN w : v[t] <= w[t] /\ (w[t] = 0 => v[t] = 0)
      /\ size > Unit => \A t \in DOMAIN w : size * v[t] <= Unit * w[t]
  BY <1>0, <1>2, <1>3, ScaledIs
<1>5. Total(v) <= Unit
  <2>1. CASE size <= Unit
    <3>1. v = w BY <1>3, <2>1 DEF ScaledTo
    <3>2. QED BY <2>1, <3>1 DEF size
  <2>2. CASE size > Unit
    <3>1. \A t \in DOMAIN w : w[t] \in Nat /\ v[t] \in Nat BY <1>4 DEF Book
    <3>2. SumFunctionOnSet(v, DOMAIN w) <= Unit
      BY <1>0, <1>1, <1>2, <1>4, <2>2, <3>1, SharesWithin DEF Book
    <3>3. QED BY <1>4, <3>2 DEF Total, SumFunction
  <2>3. QED BY <1>0, <1>2, <2>1, <2>2
<1>6. QED BY <1>4, <1>5 DEF v

-----------------------------------------------------------------------------
(* The instrument master and the ranking *)

LEMMA FirstIs ==
  ASSUME NEW S \in SUBSET Tickers, S # {}
  PROVE  First(S) \in S
<1> DEFINE ranks == {Order[t] : t \in S}
<1>1. ranks \in SUBSET Nat /\ ranks # {} BY SizingAssumption
<1>2. PICK n \in ranks : \A k \in ranks : n <= k
  <2> HIDE DEF ranks
  <2>1. QED BY <1>1, LeastExists
<1>3. \E t \in S : \A u \in S : Order[t] <= Order[u] BY <1>2
<1>4. QED BY <1>3 DEF First

\* Scores as a session brings them.
Scores(s) == s \in [DOMAIN s -> Int] /\ DOMAIN s \subseteq Tickers /\ DOMAIN s # {}

LEMMA TickersFinite ==
  ASSUME NEW S \in SUBSET Tickers
  PROVE  IsFiniteSet(S) /\ Cardinality(S) \in Nat
BY SizingAssumption, FS_Subset, FS_CardinalityType

Ahead(s, t) == {u \in DOMAIN s : Before(s, u, t)}

LEMMA BeforeIsTransitive ==
  ASSUME NEW s, Scores(s), NEW t \in DOMAIN s, NEW u \in DOMAIN s, NEW v \in DOMAIN s,
         Before(s, v, u), Before(s, u, t)
  PROVE  Before(s, v, t) /\ ~ Before(s, u, u)
<1>1. s[t] \in Int /\ s[u] \in Int /\ s[v] \in Int BY DEF Scores
<1>2. Order[t] \in Nat /\ Order[u] \in Nat /\ Order[v] \in Nat BY SizingAssumption DEF Scores
<1>3. QED BY <1>1, <1>2 DEF Before

\* Some instrument has nothing ahead of it.
LEMMA LeaderIs ==
  ASSUME NEW s, Scores(s)
  PROVE  /\ Leader(s) \in DOMAIN s /\ RankIn(s, Leader(s)) = 1
         /\ Ahead(s, Leader(s)) = {}
<1>0. \A t \in DOMAIN s : Ahead(s, t) \in SUBSET Tickers BY DEF Ahead, Scores
<1> DEFINE sizes == {Cardinality(Ahead(s, t)) : t \in DOMAIN s}
<1>1. sizes \in SUBSET Nat /\ sizes # {} BY <1>0, TickersFinite DEF Scores
<1>2. PICK n \in sizes : \A k \in sizes : n <= k
  <2> HIDE DEF sizes
  <2>1. QED BY <1>1, LeastExists
<1>3. PICK t \in DOMAIN s : n = Cardinality(Ahead(s, t)) BY <1>2
<1>4. Ahead(s, t) = {}
  <2> SUFFICES ASSUME NEW u \in Ahead(s, t) PROVE FALSE OBVIOUS
  <2>1. u \in DOMAIN s /\ Before(s, u, t) BY DEF Ahead
  <2>2. Ahead(s, u) \subseteq Ahead(s, t)
    BY <2>1, BeforeIsTransitive DEF Ahead
  <2>3. u \notin Ahead(s, u) BY <2>1, BeforeIsTransitive DEF Ahead
  <2>4. Ahead(s, u) \subseteq Ahead(s, t) \ {u} /\ IsFiniteSet(Ahead(s, t))
        /\ IsFiniteSet(Ahead(s, t) \ {u})
    BY <1>0, <2>2, <2>3, TickersFinite, FS_Subset
  <2>5. Cardinality(Ahead(s, t) \ {u}) = n - 1 BY <1>3, <2>4, FS_RemoveElement
  <2>6. Cardinality(Ahead(s, u)) <= n - 1 BY <2>4, <2>5, FS_Subset
  <2>7. Cardinality(Ahead(s, u)) \in sizes BY <2>1
  <2>8. QED BY <1>1, <1>2, <2>6, <2>7
<1>5. \A u \in DOMAIN s : RankIn(s, u) = 1 + Cardinality(Ahead(s, u)) BY DEF RankIn, Ahead
<1>6. RankIn(s, t) = 1 BY <1>4, <1>5, FS_EmptySet
<1>7. Leader(s) \in DOMAIN s /\ RankIn(s, Leader(s)) = 1 BY <1>6 DEF Leader
<1>8. Cardinality(Ahead(s, Leader(s))) = 0 BY <1>0, <1>5, <1>7, TickersFinite
<1>9. QED BY <1>0, <1>7, <1>8, TickersFinite, FS_EmptySet

\* The selection keeps the leader, so it is never empty.
LEMMA SelectionIs ==
  ASSUME NEW s, Scores(s)
  PROVE  Scores(SelectPositions(s)) /\ DOMAIN SelectPositions(s) \subseteq DOMAIN s
<1> DEFINE better(S, key, t) == {u \in S : key[u] = key[t] /\ Before(s, u, t)}
           ofFamily == {t \in DOMAIN s : Cardinality(better(DOMAIN s, Family, t)) < MaxPerFamily}
           chosen == {t \in ofFamily : Cardinality(better(ofFamily, Theme, t)) < MaxPerTheme}
           x == Leader(s)
<1>1. SelectPositions(s) = [t \in chosen |-> s[t]] BY DEF SelectPositions, Restrict
<1>2. x \in DOMAIN s /\ Ahead(s, x) = {} BY LeaderIs
<1>3. better(DOMAIN s, Family, x) = {} /\ better(ofFamily, Theme, x) = {} BY <1>2 DEF Ahead
<1>4. x \in chosen
  <2>1. Cardinality({}) < MaxPerFamily /\ Cardinality({}) < MaxPerTheme
    BY SizingAssumption, FS_EmptySet
  <2>2. x \in ofFamily BY <1>2, <1>3, <2>1
  <2>3. QED BY <1>3, <2>1, <2>2
<1>5. chosen \subseteq DOMAIN s OBVIOUS
<1> HIDE DEF chosen
<1>6. QED BY <1>1, <1>4, <1>5 DEF Scores

-----------------------------------------------------------------------------
(* Sizing *)

LEMMA UnitIs ==
  ASSUME NEW gap
  PROVE  WTop(gap) \in Nat /\ Unit - WTop(gap) \in Nat /\ Unit \in Nat
BY SizingAssumption DEF WTop

LEMMA ConfidenceIs ==
  ASSUME NEW s, Scores(s)
  PROVE  Book(ConfidenceWeights(s)) /\ DOMAIN ConfidenceWeights(s) \subseteq DOMAIN s
<1> DEFINE names == {t \in DOMAIN s : RankIn(s, t) <= SizedNames}
           top == WTop(Gap(s))
<1>1. names \in SUBSET Tickers /\ IsFiniteSet(names) BY TickersFinite DEF Scores
<1>2. Leader(s) \in names BY LeaderIs, SizingAssumption
<1>3. ConfidenceWeights(s) =
        [t \in names |-> IF t = Leader(s) THEN top ELSE (Unit - top) \div (Cardinality(names) - 1)]
  BY DEF ConfidenceWeights
<1>4. top \in Nat /\ Unit - top \in Nat BY UnitIs
<1>5. ASSUME NEW t \in names, t # Leader(s)
      PROVE  (Unit - top) \div (Cardinality(names) - 1) \in Nat
  <2> HIDE DEF names, top
  <2>1. Cardinality(names \ {t}) = Cardinality(names) - 1 /\ IsFiniteSet(names \ {t})
    BY <1>1, FS_RemoveElement, FS_Subset
  <2>2. names \ {t} # {} BY <1>2, <1>5
  <2>3. Cardinality(names \ {t}) \in Nat /\ Cardinality(names \ {t}) # 0
    BY <2>1, <2>2, FS_CardinalityType, FS_EmptySet
  <2>4. Cardinality(names) - 1 \in Nat /\ Cardinality(names) - 1 > 0
    BY <1>1, <2>1, <2>3, FS_CardinalityType
  <2>5. QED BY <1>4, <2>4, QuotientIs
<1>6. names \subseteq DOMAIN s OBVIOUS
<1> HIDE DEF names, top
<1>7. QED BY <1>1, <1>3, <1>4, <1>5, <1>6 DEF Book

LEMMA LeaderTakesAll ==
  ASSUME NEW s, Scores(s)
  PROVE  Book([t \in {Leader(s)} |-> Unit])
BY LeaderIs, SizingAssumption, FS_Singleton DEF Book

LEMMA SizedIs ==
  ASSUME NEW s, Scores(s), NEW m, NEW overlay
  PROVE  Book(Sized(s, m, overlay)) /\ DOMAIN Sized(s, m, overlay) \subseteq DOMAIN s
<1>1. DOMAIN [t \in {Leader(s)} |-> Unit] \subseteq DOMAIN s BY LeaderIs
<1>2. QED BY <1>1, ConfidenceIs, LeaderTakesAll DEF Sized, OverlayWeights, SizedWeights

-----------------------------------------------------------------------------
(* Vehicles *)

LEMMA OnVehiclesIs ==
  ASSUME NEW w, Book(w), NEW route
  PROVE  /\ Book(OnVehicles(w, route))
         /\ DOMAIN OnVehicles(w, route) = {route[t] : t \in DOMAIN w}
<1> DEFINE vs == {route[t] : t \in DOMAIN w}
           of(v) == {t \in DOMAIN w : route[t] = v}
<1>1. OnVehicles(w, route) = [v \in vs |-> SumFunctionOnSet(w, of(v))] BY DEF OnVehicles
<1>2. IsFiniteSet(vs)
  <2> DEFINE f == [t \in DOMAIN w |-> route[t]]
  <2>1. f \in Surjection(DOMAIN w, vs) BY DEF Surjection
  <2> HIDE DEF f, vs
  <2>2. QED BY <2>1, FS_Surjection DEF Book
<1>3. \A v \in vs : SumFunctionOnSet(w, of(v)) \in Nat
  <2> TAKE v \in vs
  <2>1. IsFiniteSet(of(v)) BY FS_Subset DEF Book
  <2>2. \A t \in of(v) : w[t] \in Nat BY DEF Book
  <2> HIDE DEF of
  <2>3. QED BY <2>1, <2>2, SumInNat
<1> HIDE DEF vs, of
<1>4. QED BY <1>1, <1>2, <1>3 DEF Book, vs

\* A vehicle with a weight has it from an instrument other than itself, or keeps it.
LEMMA WeightComesFrom ==
  ASSUME NEW w, Book(w), NEW route, NEW v \in DOMAIN OnVehicles(w, route),
         OnVehicles(w, route)[v] > 0
  PROVE  \/ v \in DOMAIN w /\ w[v] > 0 /\ {t \in DOMAIN w : route[t] = v} = {v}
         \/ \E t \in DOMAIN w : route[t] = v /\ t # v
<1> DEFINE of == {t \in DOMAIN w : route[t] = v}
<1>1. OnVehicles(w, route)[v] = SumFunctionOnSet(w, of) /\ of # {} BY DEF OnVehicles
<1>2. CASE of = {v}
  <2>1. v \in DOMAIN w /\ w[v] \in Nat BY <1>2 DEF Book
  <2>2. IsFiniteSet({v}) /\ {v} \ {v} = {} BY FS_Singleton
  <2>3. SumFunctionOnSet(w, {v}) = w[v] + SumFunctionOnSet(w, {}) BY <2>1, <2>2, SumRemove
  <2>4. SumFunctionOnSet(w, {}) = 0 BY <2>2, SumStep
  <2>5. QED BY <1>1, <1>2, <2>1, <2>3, <2>4
<1>3. CASE of # {v} BY <1>1, <1>3
<1>4. QED BY <1>2, <1>3

LEMMA OnePerFamilyIs ==
  ASSUME NEW w, Book(w)
  PROVE  Book(OnePerFamily(w)) /\ DOMAIN OnePerFamily(w) \subseteq DOMAIN w
<1>1. PICK D \in SUBSET DOMAIN w : OnePerFamily(w) = [t \in D |-> w[t]]
  BY DEF OnePerFamily, Restrict
<1>2. IsFiniteSet(D) BY FS_Subset DEF Book
<1>3. QED BY <1>1, <1>2 DEF Book

LEMMA MultipliedIs ==
  ASSUME NEW w, Book(w), NEW tr, NEW overlay \in BOOLEAN
  PROVE  /\ Book(Multiplied(w, tr, overlay)) /\ DOMAIN Multiplied(w, tr, overlay) = DOMAIN w
         /\ \A t \in DOMAIN w : tr[t].state \in Out => Multiplied(w, tr, overlay)[t] = 0
<1> DEFINE v == Multiplied(w, tr, overlay)
<1>1. \A t \in DOMAIN w : w[t] \in Nat /\ w[t] \div 2 \in Nat
  <2>1. \A t \in DOMAIN w : w[t] \in Nat BY DEF Book
  <2>2. QED BY <2>1, QuotientIs
<1>2. DOMAIN v = DOMAIN w BY DEF Multiplied
<1>3. \A t \in DOMAIN w :
        /\ v[t] \in {0, w[t] \div 2, w[t]}
        /\ tr[t].state \in Out => v[t] = 0
  BY DEF Multiplied, Out
<1>4. v \in [DOMAIN w -> Nat]
  <2>1. v = [t \in DOMAIN w |-> v[t]] BY DEF Multiplied
  <2> HIDE DEF v
  <2>2. QED BY <1>1, <1>3, <2>1
<1>5. QED BY <1>2, <1>3, <1>4 DEF Book

LEMMA LiquidityIs ==
  ASSUME NEW w, Book(w), NEW caps, \A t \in DOMAIN caps : caps[t] \in Nat
  PROVE  /\ Book(LiquidityCapped(w, caps)) /\ DOMAIN LiquidityCapped(w, caps) = DOMAIN w
         /\ \A t \in DOMAIN w : /\ LiquidityCapped(w, caps)[t] <= w[t]
                                /\ t \in DOMAIN caps => LiquidityCapped(w, caps)[t] <= caps[t]
<1> DEFINE v == LiquidityCapped(w, caps)
<1>1. v = [t \in DOMAIN w |-> IF t \in DOMAIN caps /\ w[t] > caps[t] THEN caps[t] ELSE w[t]]
  BY DEF LiquidityCapped
<1>2. \A t \in DOMAIN w : w[t] \in Nat BY DEF Book
<1>3. DOMAIN v = DOMAIN w BY <1>1
<1>4. \A t \in DOMAIN w : v[t] \in Nat /\ v[t] <= w[t] /\ (t \in DOMAIN caps => v[t] <= caps[t])
  BY <1>1, <1>2
<1>5. v = [t \in DOMAIN w |-> v[t]] BY <1>1, <1>3
<1> HIDE DEF v
<1>6. QED BY <1>3, <1>4, <1>5 DEF Book, v

-----------------------------------------------------------------------------
(* One call of allocate *)

Sel(m) == SelectPositions(m.scores)
Overlaid(m) == Lottery(m) \/ Convex(m)
SizedOf(m) == Sized(Sel(m), m, Overlaid(m))
RouteOf(m) == Routes(SizedOf(m), m, VehiclesDoubted(m, Lottery(m)), Convex(m))
VehiclesOf(m) == OnePerFamily(OnVehicles(SizedOf(m), RouteOf(m)))
MovedOf(m) == TrackersMoved(DOMAIN VehiclesOf(m), RouteOf(m), Sel(m), PeaksAfter(peaks, Sel(m)), m.themes)
StagedOf(m) == Staged(VehiclesOf(m), MovedOf(m), Overlaid(m))
DemotionOf(m) == Demotion(StagedOf(m), CapsOf(m))
DoubtedOf(m) == VehiclesDoubted(m, Lottery(m))
CountedOf(m) == Recounted(Counted(RouteOf(m), Sel(m), m, DoubtedOf(m), Convex(m)), DemotionOf(m))
CappedOf(m) == Capped(OnVehicles(StagedOf(m), DemotionOf(m)), CapsOf(m), CountedOf(m), LimitOf(m))

LEMMA OutcomeIs ==
  ASSUME NEW m
  PROVE  /\ Outcome(m).trackers = TrackersDemoted(MovedOf(m), DemotionOf(m))
         /\ Outcome(m).peaks = PeaksAfter(peaks, Sel(m))
         /\ Outcome(m).entry \in {NoEntry, entry,
                                 [key |-> Leader(Sel(m)), score |-> Sel(m)[Leader(Sel(m))]]}
         /\ Outcome(m).weights = Traded(CappedOf(m))
BY DEF Outcome, Sel, Overlaid, SizedOf, RouteOf, VehiclesOf, MovedOf, StagedOf, DemotionOf,
       DoubtedOf, CountedOf, CappedOf

\* What the market brings when a call of allocate has something to allocate.
Input(m) ==
  /\ m \in Sessions /\ Scores(m.scores) /\ DOMAIN held \subseteq Tickers

LEMMA CapsAre ==
  ASSUME NEW m, Input(m)
  PROVE  \A t \in DOMAIN CapsOf(m) : CapsOf(m)[t] \in Nat
BY PolicyAssumption DEF Input, CapsOf, Empty

\* An unleveraged product, or no other of its family is to be had.
Plain(v) == Multiple[v] = 2 => WithMultiple(Family[v], 1) = {}

LEMMA ProductsAre ==
  ASSUME NEW f, NEW k
  PROVE  /\ Members(f) \in SUBSET Tickers /\ WithMultiple(f, k) \in SUBSET Members(f)
         /\ WithMultiple(f, k) # {} =>
              First(WithMultiple(f, k)) \in Members(f) /\ Multiple[First(WithMultiple(f, k))] = k
         /\ \A v \in Members(f) : Family[v] = f
<1>1. Members(f) \in SUBSET Tickers /\ WithMultiple(f, k) \in SUBSET Members(f)
  BY DEF Members, WithMultiple
<1>2. WithMultiple(f, k) # {} => First(WithMultiple(f, k)) \in WithMultiple(f, k)
  BY <1>1, FirstIs
<1>3. QED BY <1>1, <1>2 DEF WithMultiple, Members

LEMMA PlusOneIs ==
  ASSUME NEW t \in Tickers
  PROVE  PlusOne(Family[t]) \in Members(Family[t]) /\ Plain(PlusOne(Family[t]))
<1> DEFINE f == Family[t]
           v == PlusOne(f)
<1>1. t \in Members(f) BY DEF Members
<1>2. CASE WithMultiple(f, 1) # {}
  <2>1. v = First(WithMultiple(f, 1)) BY <1>2 DEF PlusOne
  <2>2. v \in Members(f) /\ Multiple[v] = 1 BY <1>2, <2>1, ProductsAre
  <2>3. QED BY <2>2 DEF Plain
<1>3. CASE WithMultiple(f, 1) = {}
  <2>1. v = First(Members(f)) BY <1>3 DEF PlusOne
  <2>2. v \in Members(f) /\ Family[v] = f BY <1>1, <2>1, ProductsAre, FirstIs
  <2>3. QED BY <1>3, <2>2 DEF Plain
<1>4. QED BY <1>2, <1>3

\* The +1x product, or the instrument itself where its family has none.
LEMMA OwnProduct ==
  ASSUME NEW t \in Tickers
  PROVE  PlainOf(t) \in Tickers /\ Plain(PlainOf(t)) /\ Family[PlainOf(t)] = Family[t]
<1>1. CASE WithMultiple(Family[t], 1) # {} BY <1>1, ProductsAre DEF Plain, PlainOf
<1>2. CASE WithMultiple(Family[t], 1) = {} BY <1>2 DEF Plain, PlainOf
<1>3. QED BY <1>1, <1>2

\* A route ends at a product that may be bought, or at one there is no way out of.
Allowed(m, v) == v \in Tickers /\ (Plain(v) \/ MayEnter(v, m) \/ NoWayOut(v, m))

LEMMA ConvexRouteIs ==
  ASSUME NEW m, NEW t \in Tickers, Convex(m)
  PROVE  Allowed(m, ConvexityVehicle(t, m.gate))
<1>1. \A v : MayEnter(v, m) BY DEF Convex, ConvexityActive, MayEnter
<1>2. CASE m.gate.leverage = "allowed" /\ t \notin Doubtful /\ WithMultiple(Family[t], 2) # {}
  <2>1. ConvexityVehicle(t, m.gate) = First(WithMultiple(Family[t], 2))
    BY <1>2 DEF ConvexityVehicle
  <2>2. QED BY <1>1, <1>2, <2>1, ProductsAre DEF Allowed
<1>3. CASE ~ (m.gate.leverage = "allowed" /\ t \notin Doubtful /\ WithMultiple(Family[t], 2) # {})
  <2>1. ConvexityVehicle(t, m.gate) = PlainOf(t) BY <1>3 DEF ConvexityVehicle
  <2>2. QED BY <2>1, OwnProduct DEF Allowed
<1>4. QED BY <1>2, <1>3

LEMMA PickedRouteIs ==
  ASSUME NEW m, m.adv = NoAdv, NEW t \in Tickers, NEW low
  PROVE  Allowed(m, PickVehicle(t, m.gate, low))
<1> DEFINE twox == WithMultiple(Family[t], 2) \ Doubtful
           v == PickVehicle(t, m.gate, low)
<1>1. v = PlusOne(Family[t]) \/ (TargetMultiple(m.gate) = 2 /\ twox # {} /\ v = First(twox))
  BY DEF PickVehicle
<1>2. TargetMultiple(m.gate) = 2 => MayEnter(v, m) BY DEF TargetMultiple, MayEnter
<1>3. twox \in SUBSET Tickers BY ProductsAre
<1>4. twox # {} => First(twox) \in Tickers BY <1>3, FirstIs
<1>5. PlusOne(Family[t]) \in Tickers /\ Plain(PlusOne(Family[t])) BY PlusOneIs, ProductsAre
<1> HIDE DEF twox, v
<1>6. QED BY <1>1, <1>2, <1>4, <1>5 DEF Allowed, v

LEMMA CapacityRouteIs ==
  ASSUME NEW m, m.adv # NoAdv, DOMAIN held \subseteq Tickers, NEW t \in Tickers, NEW low
  PROVE  Allowed(m, CapacityRoute(t, m.gate, low, m.adv.caps, held))
<1> DEFINE adv == m.adv.caps
           mine == HeldInFamily(Family[t], held)
           stuck == Stuck(t, adv, held)
           lever == LeveragedRoutes(t, m.gate, low, adv, held)
           v == CapacityRoute(t, m.gate, low, adv, held)
<1>1. /\ mine \in SUBSET Tickers /\ mine \subseteq DOMAIN held
      /\ \A h \in mine : Family[h] = Family[t]
      /\ stuck \in SUBSET mine /\ \A h \in stuck : CannotUnwind(h, adv, held)
  BY DEF HeldInFamily, Stuck
<1>2. CASE stuck # {}
  <2>1. v = First(stuck) BY <1>2 DEF CapacityRoute
  <2>2. stuck \in SUBSET Tickers BY <1>1
  <2>3. First(stuck) \in stuck
    <3> HIDE DEF stuck
    <3>1. QED BY <1>2, <2>2, FirstIs
  <2>4. v \in DOMAIN held /\ v \in Tickers /\ CannotUnwind(v, adv, held)
    <3> HIDE DEF stuck, mine, v, adv
    <3>1. QED BY <1>1, <2>1, <2>3
  <2> HIDE DEF v
  <2>5. QED BY <2>4 DEF Allowed, NoWayOut, v
<1>3. CASE stuck = {} /\ lever # {}
  <2>1. v = First(lever) BY <1>3 DEF CapacityRoute
  <2>2. TargetMultiple(m.gate) = 2 /\ \A y \in lever : y \in Tickers /\ Fillable(y, adv, held)
    <3>1. PICK x \in lever : TRUE BY <1>3
    <3>2. TargetMultiple(m.gate) = 2 BY <3>1 DEF LeveragedRoutes
    <3>3. ASSUME NEW y \in lever PROVE y \in Tickers /\ Fillable(y, adv, held)
      <4>1. PICK S \in {WithMultiple(Family[t], 2)} \ {{}} : y = First(S) BY DEF LeveragedRoutes
      <4>2. WithMultiple(Family[t], 2) # {} /\ y = First(WithMultiple(Family[t], 2)) BY <4>1
      <4>3. y \in Tickers BY <4>2, ProductsAre
      <4>4. Fillable(y, adv, held) BY DEF LeveragedRoutes
      <4>5. QED BY <4>3, <4>4
    <3>4. QED BY <3>2, <3>3
  <2>3. v \in lever
    <3> HIDE DEF lever, v
    <3>1. lever \in SUBSET Tickers BY <2>2
    <3>2. QED BY <1>3, <2>1, <3>1, FirstIs
  <2>4. v \in Tickers /\ Fillable(v, adv, held) BY <2>2, <2>3
  <2> HIDE DEF v
  <2>5. QED BY <2>2, <2>4 DEF Allowed, MayEnter, TargetMultiple, v
<1>4. CASE stuck = {} /\ lever = {}
  <2>1. v = FallbackRoute(t, adv, held) BY <1>4 DEF CapacityRoute
  <2>2. CASE PlainTakes(t, adv, held)
    <3>1. v = PlainOf(t) BY <2>1, <2>2 DEF FallbackRoute
    <3>2. QED BY <3>1, OwnProduct DEF Allowed
  <2>3. CASE ~ PlainTakes(t, adv, held)
    <3>1. v = First(mine) /\ mine # {} /\ ~ Fillable(PlainOf(t), adv, held)
      BY <2>1, <2>3 DEF FallbackRoute, PlainTakes
    <3>2. First(mine) \in mine
      <4> HIDE DEF mine
      <4>1. QED BY <1>1, <3>1, FirstIs
    <3>3. v \in DOMAIN held /\ v \in Tickers /\ Family[v] = Family[t]
      <4> HIDE DEF stuck, mine, v
      <4>1. QED BY <1>1, <3>1, <3>2
    <3>4. CASE WithMultiple(Family[t], 1) = {}
      <4> HIDE DEF v
      <4>1. QED BY <3>3, <3>4 DEF Allowed, Plain, v
    <3>5. CASE WithMultiple(Family[t], 1) # {}
      <4>1. PlainOf(t) = First(WithMultiple(Family[v], 1)) BY <3>3, <3>5 DEF PlainOf
      <4> HIDE DEF v
      <4>2. NoWayOut(v, m) BY <3>1, <3>3, <4>1 DEF NoWayOut
      <4>3. QED BY <3>3, <4>2 DEF Allowed, v
    <3>6. QED BY <3>4, <3>5
  <2>4. QED BY <2>2, <2>3
<1>5. QED BY <1>2, <1>3, <1>4

LEMMA WeightsAre ==
  ASSUME NEW m, Input(m)
  PROVE  /\ Scores(Sel(m)) /\ Book(SizedOf(m)) /\ DOMAIN SizedOf(m) \subseteq Tickers
BY SelectionIs, SizedIs DEF Input, Sel, SizedOf, Scores

LEMMA RouteIs ==
  ASSUME NEW m, Input(m), NEW t \in DOMAIN SizedOf(m)
  PROVE  Allowed(m, RouteOf(m)[t])
<1>1. t \in Tickers BY WeightsAre
<1> DEFINE low == DoubtedOf(m)
<1>2. RouteOf(m)[t] = CASE Convex(m) -> ConvexityVehicle(t, m.gate)
       [] ~ Convex(m) /\ m.adv = NoAdv -> PickVehicle(t, m.gate, low)
       [] ~ Convex(m) /\ m.adv # NoAdv -> CapacityRoute(t, m.gate, low, m.adv.caps, held)
  BY DEF RouteOf, Routes, DoubtedOf
<1> HIDE DEF low
<1>3. CASE Convex(m) BY <1>1, <1>2, <1>3, ConvexRouteIs
<1>4. CASE ~ Convex(m) /\ m.adv = NoAdv BY <1>1, <1>2, <1>4, PickedRouteIs
<1>5. CASE ~ Convex(m) /\ m.adv # NoAdv BY <1>1, <1>2, <1>5, CapacityRouteIs DEF Input
<1>6. QED BY <1>3, <1>4, <1>5

LEMMA VehiclesAre ==
  ASSUME NEW m, Input(m)
  PROVE  /\ Book(VehiclesOf(m)) /\ Book(StagedOf(m)) /\ DOMAIN StagedOf(m) = DOMAIN VehiclesOf(m)
         /\ \A v \in DOMAIN VehiclesOf(m) : Allowed(m, v)
         /\ \A v \in DOMAIN StagedOf(m) : MovedOf(m)[v].state \in Out => StagedOf(m)[v] = 0
<1> DEFINE w == OnVehicles(SizedOf(m), RouteOf(m))
           x == Multiplied(VehiclesOf(m), MovedOf(m), Overlaid(m))
<1>1. Book(w) /\ DOMAIN w = {RouteOf(m)[t] : t \in DOMAIN SizedOf(m)} BY WeightsAre, OnVehiclesIs
<1>2. \A v \in DOMAIN w : Allowed(m, v) BY <1>1, RouteIs
<1>3. Book(VehiclesOf(m)) /\ DOMAIN VehiclesOf(m) \subseteq DOMAIN w
  BY <1>1, OnePerFamilyIs DEF VehiclesOf
<1>4. Overlaid(m) \in BOOLEAN BY DEF Overlaid
<1>5. /\ Book(x) /\ DOMAIN x = DOMAIN VehiclesOf(m)
      /\ \A v \in DOMAIN VehiclesOf(m) : MovedOf(m)[v].state \in Out => x[v] = 0
  BY <1>3, <1>4, MultipliedIs
<1>6. StagedOf(m) = WithinBook(x) BY DEF StagedOf, Staged
<1> HIDE DEF x, w
<1>7. QED BY <1>2, <1>3, <1>5, <1>6, BookIsWhole

LEMMA DemotionIs ==
  ASSUME NEW m, Input(m), NEW t \in DOMAIN StagedOf(m)
  PROVE  /\ t \in Tickers /\ DOMAIN DemotionOf(m) = DOMAIN StagedOf(m)
         /\ DemotionOf(m)[t] \in {t, PlusOne(Family[t])}
         /\ Allowed(m, DemotionOf(m)[t])
<1>1. Allowed(m, t) BY VehiclesAre
<1>2. DOMAIN DemotionOf(m) = DOMAIN StagedOf(m) /\ DemotionOf(m)[t] \in {t, PlusOne(Family[t])}
  BY DEF DemotionOf, Demotion
<1>3. PlusOne(Family[t]) \in Tickers /\ Plain(PlusOne(Family[t]))
  BY <1>1, PlusOneIs, ProductsAre DEF Allowed
<1>4. QED BY <1>1, <1>2, <1>3 DEF Allowed

\* Of some instruments one is ranked last.
LEMMA LastIs ==
  ASSUME NEW s, Scores(s), NEW S \in SUBSET Tickers, S # {}
  PROVE  \E t \in S : \A u \in S : RankIn(s, u) <= RankIn(s, t)
<1> DEFINE N == Cardinality(Tickers) + 1
           below == {N - RankIn(s, t) : t \in S}
<1>1. ASSUME NEW t PROVE RankIn(s, t) \in Nat /\ RankIn(s, t) <= N /\ N \in Nat
  <2>1. {u \in DOMAIN s : Before(s, u, t)} \in SUBSET Tickers BY DEF Scores
  <2>2. QED BY <2>1, TickersFinite, FS_Subset, FS_CardinalityType DEF RankIn
<1>2. below \in SUBSET Nat /\ below # {}
  <2> HIDE DEF N
  <2>1. \A t \in S : N - RankIn(s, t) \in Nat BY <1>1
  <2>2. QED BY <2>1
<1>3. PICK n \in below : \A k \in below : n <= k
  <2> HIDE DEF below
  <2>1. QED BY <1>2, LeastExists
<1>4. PICK t \in S : n = N - RankIn(s, t) BY <1>3
<1>5. ASSUME NEW u \in S PROVE RankIn(s, u) <= RankIn(s, t)
  <2>1. n <= N - RankIn(s, u) BY <1>3
  <2> HIDE DEF N
  <2>2. QED BY <1>1, <1>4, <2>1
<1>6. QED BY <1>5

\* No product is counted for less than the leverage of what it stands for.
CountsFor(v, k) == k \in Nat /\ Leverage[v] <= k

LEMMA LeverageIs ==
  ASSUME NEW v \in Tickers
  PROVE  /\ Leverage[v] \in Nat /\ CountsFor(v, Multiple[v])
         /\ (Multiple[v] = 1 \/ WithMultiple(Family[v], 1) = {}) => CountsFor(v, 1)
<1>1. Multiple[v] \in Nat /\ Multiple[v] >= 1 BY SizingAssumption
<1>2. Leverage[v] = IF WithMultiple(Family[v], 1) = {} THEN 1 ELSE Multiple[v] BY DEF Leverage
<1>3. QED BY <1>1, <1>2 DEF CountsFor

LEMMA RouteCountsIs ==
  ASSUME NEW x \in Tickers, NEW gate, NEW low, NEW adv,
         CapacityRoute(x, gate, low, adv, held) \in Tickers
  PROVE  CountsFor(CapacityRoute(x, gate, low, adv, held), RouteMultiple(x, gate, low, adv, held))
<1> DEFINE v == CapacityRoute(x, gate, low, adv, held)
           plain == /\ Stuck(x, adv, held) = {} /\ LeveragedRoutes(x, gate, low, adv, held) = {}
                    /\ PlainTakes(x, adv, held)
<1>1. CASE ~ plain
  <2>1. RouteMultiple(x, gate, low, adv, held) = Multiple[v] BY <1>1 DEF RouteMultiple
  <2>2. QED BY <2>1, LeverageIs
<1>2. CASE plain
  <2>1. v = PlainOf(x) /\ RouteMultiple(x, gate, low, adv, held) = 1
    BY <1>2 DEF RouteMultiple, CapacityRoute, FallbackRoute
  <2>2. Multiple[PlainOf(x)] = 1 \/ WithMultiple(Family[PlainOf(x)], 1) = {}
    BY ProductsAre DEF PlainOf
  <2>3. QED BY <2>1, <2>2, LeverageIs
<1>3. QED BY <1>1, <1>2

LEMMA CountedIs ==
  ASSUME NEW m, Input(m), NEW v \in DOMAIN OnVehicles(StagedOf(m), DemotionOf(m))
  PROVE  CountsFor(v, CountedOf(m)[v])
<1> DEFINE to == DemotionOf(m)
           counted == Counted(RouteOf(m), Sel(m), m, DoubtedOf(m), Convex(m))
           sources == {t \in DOMAIN RouteOf(m) : RouteOf(m)[t] = v}
           last == CHOOSE t \in sources : \A u \in sources : RankIn(Sel(m), u) <= RankIn(Sel(m), t)
<1>1. v \in {to[t] : t \in DOMAIN to} /\ v \in Tickers
  <2>1. DOMAIN OnVehicles(StagedOf(m), to) = {to[t] : t \in DOMAIN StagedOf(m)} BY DEF OnVehicles
  <2>2. DOMAIN to = DOMAIN StagedOf(m) BY DEF DemotionOf, Demotion
  <2>3. \A t \in DOMAIN StagedOf(m) : to[t] \in Tickers BY DemotionIs DEF Allowed
  <2>4. QED BY <2>1, <2>2, <2>3
<1>2. CountedOf(m)[v] = Multiple[v] \/ (v \in DOMAIN counted /\ CountedOf(m)[v] = counted[v])
  BY <1>1 DEF CountedOf, Recounted
<1>3. ASSUME v \in DOMAIN counted PROVE CountsFor(v, counted[v])
  <2>1. /\ v \in {RouteOf(m)[t] : t \in DOMAIN RouteOf(m)}
        /\ counted[v] = IF Convex(m) \/ m.adv = NoAdv THEN Multiple[v]
                        ELSE RouteMultiple(last, m.gate, DoubtedOf(m), m.adv.caps, held)
    BY <1>3 DEF Counted
  <2>2. CASE Convex(m) \/ m.adv = NoAdv BY <1>1, <2>1, <2>2, LeverageIs
  <2>3. CASE ~ Convex(m) /\ m.adv # NoAdv
    <3>1. DOMAIN RouteOf(m) = DOMAIN SizedOf(m) BY DEF RouteOf, Routes
    <3>2. sources \in SUBSET Tickers /\ sources # {} BY <2>1, <3>1, WeightsAre
    <3>3. last \in sources
      <4> HIDE DEF sources
      <4>1. \E t \in sources : \A u \in sources : RankIn(Sel(m), u) <= RankIn(Sel(m), t)
        BY <3>2, WeightsAre, LastIs
      <4>2. QED BY <4>1
    <3>4. last \in Tickers /\ last \in DOMAIN SizedOf(m) /\ RouteOf(m)[last] = v
      BY <3>1, <3>2, <3>3
    <3> HIDE DEF last, counted
    <3>5. v = CapacityRoute(last, m.gate, DoubtedOf(m), m.adv.caps, held)
      BY <2>3, <3>4 DEF RouteOf, Routes, DoubtedOf
    <3>6. CountsFor(v, RouteMultiple(last, m.gate, DoubtedOf(m), m.adv.caps, held))
      BY <1>1, <3>4, <3>5, RouteCountsIs
    <3>7. QED BY <2>1, <2>3, <3>6
  <2>4. QED BY <2>2, <2>3
<1>4. QED BY <1>1, <1>2, <1>3, LeverageIs

\* The exposure of each instrument of a book, counted by mult.
Exposure(w, mult) == [t \in DOMAIN w |-> w[t] * mult[t]]

LEMMA GrossIs ==
  ASSUME NEW w, Book(w), NEW mult, \A t \in DOMAIN w : mult[t] \in Nat
  PROVE  /\ GrossBy(w, mult) = SumFunctionOnSet(Exposure(w, mult), DOMAIN w) /\ GrossBy(w, mult) \in Nat
         /\ DOMAIN Exposure(w, mult) = DOMAIN w
         /\ \A t \in DOMAIN w : Exposure(w, mult)[t] = w[t] * mult[t] /\ Exposure(w, mult)[t] \in Nat
<1>1. /\ GrossBy(w, mult) = SumFunctionOnSet(Exposure(w, mult), DOMAIN w)
      /\ DOMAIN Exposure(w, mult) = DOMAIN w
      /\ \A t \in DOMAIN w : Exposure(w, mult)[t] = w[t] * mult[t]
  BY DEF GrossBy, SumFunction, Exposure
<1>2. \A t \in DOMAIN w : w[t] \in Nat /\ mult[t] \in Nat BY DEF Book
<1>3. \A t \in DOMAIN w : Exposure(w, mult)[t] \in Nat BY <1>1, <1>2, Distributes
<1>4. QED BY <1>1, <1>3, SumInNat DEF Book

\* A book counts for no more where each product does.
LEMMA GrossBelow ==
  ASSUME NEW w, Book(w), NEW a, NEW b,
         \A t \in DOMAIN w : a[t] \in Nat /\ b[t] \in Nat /\ a[t] <= b[t]
  PROVE  GrossBy(w, a) <= GrossBy(w, b)
<1>1. ASSUME NEW t \in DOMAIN w
      PROVE  /\ Exposure(w, a)[t] \in Nat /\ Exposure(w, b)[t] \in Nat
             /\ Exposure(w, a)[t] <= Exposure(w, b)[t]
  <2>1. w[t] \in Nat /\ a[t] \in Nat /\ b[t] \in Nat /\ a[t] <= b[t] BY DEF Book
  <2>2. w[t] * a[t] <= w[t] * b[t] BY <2>1, Grows
  <2>3. Exposure(w, a)[t] = w[t] * a[t] /\ Exposure(w, b)[t] = w[t] * b[t] BY DEF Exposure
  <2>4. w[t] * a[t] \in Nat /\ w[t] * b[t] \in Nat BY <2>1, Distributes
  <2>5. QED BY <2>2, <2>3, <2>4
<1>2. SumFunctionOnSet(Exposure(w, a), DOMAIN w) <= SumFunctionOnSet(Exposure(w, b), DOMAIN w)
  BY <1>1, SumMonotone DEF Book
<1>3. QED BY <1>2, GrossIs

\* What is about to be traded, before the band.
LEMMA CappedIs ==
  ASSUME NEW m, Input(m)
  PROVE  /\ Book(CappedOf(m)) /\ \A v \in DOMAIN CappedOf(m) : Allowed(m, v)
         /\ DOMAIN CappedOf(m) = DOMAIN OnVehicles(StagedOf(m), DemotionOf(m))
         /\ Book(OnVehicles(StagedOf(m), DemotionOf(m)))
         /\ \A v \in DOMAIN CappedOf(m) :
              /\ CappedOf(m)[v] <= OnVehicles(StagedOf(m), DemotionOf(m))[v]
              /\ v \in DOMAIN CapsOf(m) => CappedOf(m)[v] <= CapsOf(m)[v]
<1> DEFINE w == OnVehicles(StagedOf(m), DemotionOf(m))
           l == LiquidityCapped(w, CapsOf(m))
           size == GrossBy(l, CountedOf(m))
<1>1. Book(w) /\ DOMAIN w = {DemotionOf(m)[t] : t \in DOMAIN StagedOf(m)}
  BY VehiclesAre, OnVehiclesIs
<1>2. \A v \in DOMAIN w : Allowed(m, v) BY <1>1, DemotionIs
<1>0. \A v \in DOMAIN w : CountedOf(m)[v] \in Nat BY CountedIs DEF CountsFor
<1> HIDE DEF w
<1>3. /\ Book(l) /\ DOMAIN l = DOMAIN w
      /\ \A v \in DOMAIN w : l[v] <= w[v] /\ (v \in DOMAIN CapsOf(m) => l[v] <= CapsOf(m)[v])
  BY <1>1, CapsAre, LiquidityIs
<1>4. size \in Nat
  <2> HIDE DEF l
  <2>1. QED BY <1>0, <1>3, GrossIs
<1>5. CappedOf(m) = ScaledTo(l, LimitOf(m), size) /\ LimitOf(m) \in Nat
  BY SizingAssumption DEF CappedOf, Capped, GrossCapped, LimitOf, w
<1> HIDE DEF l, size
<1>6. /\ Book(CappedOf(m)) /\ DOMAIN CappedOf(m) = DOMAIN l
      /\ \A v \in DOMAIN l : CappedOf(m)[v] <= l[v]
  BY <1>3, <1>4, <1>5, ScaledIs
<1>7. \A v \in DOMAIN w :
        /\ CappedOf(m)[v] \in Nat /\ l[v] \in Nat /\ w[v] \in Nat
        /\ v \in DOMAIN CapsOf(m) => CapsOf(m)[v] \in Nat
  BY <1>1, <1>3, <1>6, CapsAre DEF Book
<1>8. \A v \in DOMAIN w : CappedOf(m)[v] <= l[v] /\ l[v] <= w[v] BY <1>3, <1>6
<1>9. ASSUME NEW v \in DOMAIN w
      PROVE  /\ CappedOf(m)[v] <= w[v]
             /\ v \in DOMAIN CapsOf(m) => CappedOf(m)[v] <= CapsOf(m)[v]
  <2>1. CappedOf(m)[v] \in Nat /\ l[v] \in Nat /\ w[v] \in Nat BY <1>7
  <2>2. CappedOf(m)[v] <= l[v] /\ l[v] <= w[v] BY <1>8
  <2>3. CappedOf(m)[v] <= w[v] BY <2>1, <2>2
  <2>4. ASSUME v \in DOMAIN CapsOf(m) PROVE CappedOf(m)[v] <= CapsOf(m)[v]
    <3>1. l[v] <= CapsOf(m)[v] /\ CapsOf(m)[v] \in Nat BY <1>3, <1>7, <2>4
    <3>2. QED BY <2>1, <2>2, <3>1
  <2>5. QED BY <2>3, <2>4
<1>10. DOMAIN CappedOf(m) = DOMAIN w BY <1>3, <1>6
<1>11. QED BY <1>1, <1>2, <1>6, <1>9, <1>10 DEF w

-----------------------------------------------------------------------------
(* The band *)

Banded(w, t) ==
  IF Weight(w, t) > 0 /\ Weight(held, t) > 0 /\ Distance(Weight(w, t), Weight(held, t)) < MinDelta
  THEN held[t] ELSE Weight(w, t)

LEMMA WeightIs ==
  ASSUME NEW w, Book(w), NEW t
  PROVE  Weight(w, t) \in Nat /\ (Weight(w, t) > 0 => t \in DOMAIN w /\ Weight(w, t) = w[t])
BY DEF Weight, Book

LEMMA BandIs ==
  ASSUME NEW w, Book(w), Book(held)
  PROVE  /\ Book(RebalanceBand(w, held, MinDelta))
         /\ DOMAIN RebalanceBand(w, held, MinDelta) \subseteq DOMAIN w \cup DOMAIN held
         /\ \A t \in DOMAIN RebalanceBand(w, held, MinDelta) :
              LET b == RebalanceBand(w, held, MinDelta)[t]
              IN  /\ b > 0 /\ t \in DOMAIN w /\ w[t] > 0
                  /\ b = w[t] \/ (t \in DOMAIN held /\ b = held[t] /\ b <= w[t] + MinDelta)
<1> DEFINE kept == {t \in DOMAIN w \cup DOMAIN held : Banded(w, t) > 0}
           v == RebalanceBand(w, held, MinDelta)
<1>1. v = [t \in kept |-> Banded(w, t)] BY DEF RebalanceBand, Banded
<1>2. IsFiniteSet(kept)
  <2>1. IsFiniteSet(DOMAIN w \cup DOMAIN held) BY FS_Union DEF Book
  <2>2. QED BY <2>1, FS_Subset
<1>3. MinDelta \in Nat BY PolicyAssumption
<1>4. ASSUME NEW t \in kept
      PROVE  /\ Banded(w, t) \in Nat /\ Banded(w, t) > 0 /\ t \in DOMAIN w /\ w[t] > 0
             /\ \/ Banded(w, t) = w[t]
                \/ t \in DOMAIN held /\ Banded(w, t) = held[t] /\ Banded(w, t) <= w[t] + MinDelta
  <2>1. /\ Weight(w, t) \in Nat /\ (Weight(w, t) > 0 => t \in DOMAIN w /\ Weight(w, t) = w[t])
        /\ Weight(held, t) \in Nat /\ (Weight(held, t) > 0 => t \in DOMAIN held /\ Weight(held, t) = held[t])
    BY WeightIs
  <2>2. QED BY <1>3, <2>1 DEF Banded, Distance
<1> HIDE DEF kept, v
<1>5. DOMAIN v = kept /\ \A t \in kept : v[t] = Banded(w, t) BY <1>1
<1>6. Book(v) BY <1>1, <1>2, <1>4 DEF Book
<1>7. QED BY <1>4, <1>5, <1>6 DEF v, kept

LEMMA TradedIs ==
  ASSUME NEW w, Book(w), Book(held)
  PROVE  /\ Book(Traded(w)) /\ DOMAIN Traded(w) \subseteq DOMAIN w \cup DOMAIN held
         /\ Total(Traded(w)) <= Unit
         /\ \A t \in DOMAIN Traded(w) :
              /\ t \in DOMAIN w /\ w[t] > 0
              /\ \/ Traded(w)[t] <= w[t]
                 \/ /\ t \in DOMAIN held /\ Traded(w)[t] <= held[t]
                    /\ Traded(w)[t] <= w[t] + MinDelta
<1> DEFINE b == RebalanceBand(w, held, MinDelta)
           v == Traded(w)
<1>1. /\ Book(b) /\ DOMAIN b \subseteq DOMAIN w \cup DOMAIN held
      /\ \A t \in DOMAIN b :
           /\ b[t] > 0 /\ t \in DOMAIN w /\ w[t] > 0
           /\ b[t] = w[t] \/ (t \in DOMAIN held /\ b[t] = held[t] /\ b[t] <= w[t] + MinDelta)
  BY BandIs
<1>2. v = WithinBook(b) BY DEF Traded
<1> HIDE DEF b, v
<1>3. /\ Book(v) /\ DOMAIN v = DOMAIN b /\ Total(v) <= Unit /\ \A t \in DOMAIN b : v[t] <= b[t]
  BY <1>1, <1>2, BookIsWhole
<1>4. MinDelta \in Nat BY PolicyAssumption
<1>5. ASSUME NEW t \in DOMAIN v
      PROVE  /\ t \in DOMAIN w /\ w[t] > 0
             /\ v[t] <= w[t] \/ (t \in DOMAIN held /\ v[t] <= held[t] /\ v[t] <= w[t] + MinDelta)
  <2>1. v[t] \in Nat /\ b[t] \in Nat /\ v[t] <= b[t] /\ t \in DOMAIN b BY <1>1, <1>3 DEF Book
  <2>2. t \in DOMAIN w /\ w[t] > 0 /\ w[t] \in Nat BY <1>1, <2>1 DEF Book
  <2>3. CASE b[t] = w[t] BY <2>1, <2>2, <2>3
  <2>4. CASE t \in DOMAIN held /\ b[t] = held[t] /\ b[t] <= w[t] + MinDelta
    BY <1>4, <2>1, <2>2, <2>4
  <2>5. QED BY <1>1, <2>1, <2>3, <2>4
<1>6. QED BY <1>1, <1>3, <1>5 DEF v

-----------------------------------------------------------------------------
(* The gross exposure *)

LEMMA SumSubset ==
  ASSUME NEW a, NEW S, NEW K \in SUBSET S, IsFiniteSet(S), \A x \in S : a[x] \in Nat
  PROVE  SumFunctionOnSet(a, K) <= SumFunctionOnSet(a, S)
<1> DEFINE b == [x \in S |-> IF x \in K THEN a[x] ELSE 0]
<1>1. \A x \in S : b[x] \in Nat /\ b[x] <= a[x] OBVIOUS
<1>2. \A x \in S \ K : b[x] = 0 OBVIOUS
<1>3. \A x \in K : b[x] = a[x] OBVIOUS
<1>4. IsFiniteSet(K) BY FS_Subset
<1> HIDE DEF b
<1>5. SumFunctionOnSet(b, S) = SumFunctionOnSet(b, K) BY <1>1, <1>2, SumSupport
<1>6. SumFunctionOnSet(b, K) = SumFunctionOnSet(a, K) BY <1>3, <1>4, SumSame
<1>7. SumFunctionOnSet(b, S) <= SumFunctionOnSet(a, S) BY <1>1, SumMonotone
<1>8. QED BY <1>5, <1>6, <1>7

LEMMA GrossWithin ==
  ASSUME NEW w, Book(w), NEW mult, \A t \in DOMAIN w : mult[t] \in Nat, NEW limit \in Nat
  PROVE  GrossBy(GrossCapped(w, mult, limit), mult) <= limit
<1> DEFINE v == GrossCapped(w, mult, limit)
           size == GrossBy(w, mult)
<1>1. size \in Nat /\ size = SumFunctionOnSet(Exposure(w, mult), DOMAIN w) BY GrossIs
<1>2. v = ScaledTo(w, limit, size) BY DEF GrossCapped
<1> HIDE DEF v, size
<1>3. /\ Book(v) /\ DOMAIN v = DOMAIN w
      /\ size > limit => \A t \in DOMAIN w : size * v[t] <= limit * w[t]
  BY <1>1, <1>2, ScaledIs
<1>4. CASE size <= limit
  <2>1. v = w BY <1>2, <1>4 DEF ScaledTo
  <2>2. QED BY <1>4, <2>1 DEF size, v
<1>5. CASE size > limit
  <2>1. ASSUME NEW t \in DOMAIN w
        PROVE  /\ Exposure(w, mult)[t] \in Nat /\ Exposure(v, mult)[t] \in Nat
               /\ size * Exposure(v, mult)[t] <= limit * Exposure(w, mult)[t]
    <3> DEFINE k == mult[t]
               x == v[t]
               y == w[t]
    <3>1. k \in Nat /\ x \in Nat /\ y \in Nat BY <1>3 DEF Book
    <3>2. size * x <= limit * y BY <1>3, <1>5
    <3>3. Exposure(w, mult)[t] = y * k /\ Exposure(v, mult)[t] = x * k /\ Exposure(w, mult)[t] \in Nat
          /\ Exposure(v, mult)[t] \in Nat
      BY <1>3, GrossIs
    <3> HIDE DEF k, x, y
    <3>4. size * x \in Nat /\ limit * y \in Nat BY <1>1, <3>1, Distributes
    <3>5. k * (size * x) <= k * (limit * y) BY <3>1, <3>2, <3>4, Grows
    <3>6. size * (x * k) = k * (size * x) /\ limit * (y * k) = k * (limit * y) BY <1>1, <3>1
    <3>7. QED BY <3>3, <3>5, <3>6
  <2>2. SumFunctionOnSet(Exposure(v, mult), DOMAIN w) <= limit
    BY <1>1, <1>5, <2>1, SharesWithin DEF Book
  <2>3. QED BY <1>3, <2>2, GrossIs DEF v
<1>6. QED BY <1>1, <1>4, <1>5

\* What is traded of a book within the limit exceeds it by the band at most.
LEMMA GrossOfTraded ==
  ASSUME NEW w, Book(w), Book(held), NEW mult, \A t \in DOMAIN w : mult[t] \in Nat,
         NEW kept, kept = {t \in DOMAIN Traded(w) : Traded(w)[t] <= Weight(held, t)}
  PROVE  GrossBy(Traded(w), mult) <= GrossBy(w, mult) + MinDelta * GrossBy([t \in kept |-> 1], mult)
<1> DEFINE v == Traded(w)
           S == DOMAIN v
           b == [t \in S |-> w[t] * mult[t]]
           c == [t \in S |-> IF t \in kept THEN MinDelta * mult[t] ELSE 0]
           one == [t \in kept |-> 1]
<1>0. /\ Book(v) /\ S \subseteq DOMAIN w /\ IsFiniteSet(S) /\ kept \in SUBSET S
      /\ MinDelta \in Nat
  BY TradedIs, PolicyAssumption DEF Book
<1>1. \A t \in S : v[t] <= w[t] \/ (t \in kept /\ v[t] <= w[t] + MinDelta)
  BY TradedIs DEF Weight
<1>2. \A t \in S : v[t] \in Nat /\ w[t] \in Nat /\ mult[t] \in Nat
  BY <1>0 DEF Book
<1> HIDE DEF v
<1>3. \A t \in S : /\ b[t] = w[t] * mult[t] /\ b[t] \in Nat
                   /\ c[t] = IF t \in kept THEN MinDelta * mult[t] ELSE 0
                   /\ c[t] \in Nat
  <2> TAKE t \in S
  <2>1. w[t] * mult[t] \in Nat /\ MinDelta * mult[t] \in Nat BY <1>0, <1>2, Distributes
  <2>2. QED BY <2>1
<1> HIDE DEF b, c
<1>4. \A t \in S : Exposure(v, mult)[t] = v[t] * mult[t] /\ Exposure(v, mult)[t] \in Nat
      /\ GrossBy(v, mult) = SumFunctionOnSet(Exposure(v, mult), S)
  BY <1>0, GrossIs
<1>5. ASSUME NEW t \in S PROVE Exposure(v, mult)[t] <= b[t] + c[t]
  <2> DEFINE k == mult[t]
             x == v[t]
             y == w[t]
  <2>1. x \in Nat /\ y \in Nat /\ k \in Nat BY <1>2
  <2>2. Exposure(v, mult)[t] = k * x /\ b[t] = k * y /\ c[t] = IF t \in kept THEN k * MinDelta ELSE 0
    BY <1>0, <1>3, <1>4, <2>1
  <2>3. x <= y \/ (t \in kept /\ x <= y + MinDelta) BY <1>1
  <2> HIDE DEF k, x, y
  <2>4. CASE x <= y
    <3>1. k * x <= k * y BY <2>1, <2>4, Grows
    <3>2. b[t] \in Nat /\ c[t] \in Nat /\ k * x \in Nat BY <1>3, <2>1, Distributes
    <3>3. QED BY <2>2, <3>1, <3>2
  <2>5. CASE t \in kept /\ x <= y + MinDelta
    <3>1. k * x <= k * (y + MinDelta) BY <1>0, <2>1, <2>5, Grows
    <3>2. k * (y + MinDelta) = k * y + k * MinDelta BY <1>0, <2>1, Distributes
    <3>3. QED BY <2>2, <2>5, <3>1, <3>2
  <2>6. QED BY <2>3, <2>4, <2>5
<1>6. GrossBy(v, mult) <= SumFunctionOnSet(b, S) + SumFunctionOnSet(c, S)
  <2>1. SumFunctionOnSet(Exposure(v, mult), S) <= SumFunctionOnSet(b, S) + SumFunctionOnSet(c, S)
    BY <1>0, <1>3, <1>4, <1>5, SumBelow
  <2>2. GrossBy(v, mult) = SumFunctionOnSet(Exposure(v, mult), S) BY <1>0, GrossIs
  <2>3. QED BY <2>1, <2>2
<1>7. SumFunctionOnSet(b, S) <= GrossBy(w, mult)
  <2>1. \A t \in S : b[t] = Exposure(w, mult)[t] BY <1>0, <1>3, GrossIs
  <2>2. \A t \in DOMAIN w : Exposure(w, mult)[t] \in Nat BY GrossIs
  <2>3. SumFunctionOnSet(b, S) = SumFunctionOnSet(Exposure(w, mult), S)
    BY <1>0, <2>1, <2>2, SumSame
  <2>4. SumFunctionOnSet(Exposure(w, mult), S) <= SumFunctionOnSet(Exposure(w, mult), DOMAIN w)
    BY <1>0, <2>2, SumSubset DEF Book
  <2>5. QED BY <2>3, <2>4, GrossIs
<1>8. SumFunctionOnSet(c, S) = MinDelta * GrossBy(one, mult)
  <2>1. IsFiniteSet(kept) BY <1>0, FS_Subset
  <2>2. Book(one) /\ DOMAIN one = kept BY <1>0, <2>1 DEF Book
  <2>3. \A t \in kept : one[t] = 1 OBVIOUS
  <2> HIDE DEF one
  <2>4. GrossBy(one, mult) = SumFunctionOnSet(Exposure(one, mult), kept)
        /\ \A t \in kept : Exposure(one, mult)[t] = mult[t] /\ Exposure(one, mult)[t] \in Nat
    <3>1. \A t \in kept : one[t] * mult[t] = mult[t] /\ mult[t] \in Nat BY <1>0, <1>2, <2>3
    <3>2. QED BY <2>2, <3>1, GrossIs
  <2>5. SumFunctionOnSet(c, S) = SumFunctionOnSet(c, kept) BY <1>0, <1>3, SumSupport
  <2>6. \A t \in kept : c[t] = MinDelta * Exposure(one, mult)[t] /\ c[t] \in Nat BY <1>0, <1>3, <2>4
  <2>7. SumFunctionOnSet(c, kept) = MinDelta * SumFunctionOnSet(Exposure(one, mult), kept)
    BY <1>0, <2>1, <2>4, <2>6, SumScaled
  <2>8. QED BY <2>4, <2>5, <2>7
<1>9. /\ GrossBy(v, mult) \in Nat /\ GrossBy(w, mult) \in Nat /\ SumFunctionOnSet(b, S) \in Nat
      /\ SumFunctionOnSet(c, S) \in Nat
  BY <1>0, <1>3, GrossIs, SumInNat
<1>10. QED BY <1>6, <1>7, <1>8, <1>9 DEF v

-----------------------------------------------------------------------------
(* The trackers *)

States == {"HOLD", "TRIM", "EXIT", "WATCH", "RE_ENTER"}
Tracked == {r \in [state : States, since : 0 .. Cooldown] : (r.since > 0) <=> (r.state \in Out)}
TrackersOK(tr) == DOMAIN tr \subseteq Tickers /\ tr \in [DOMAIN tr -> Tracked]

LEMMA MinOfTwo ==
  ASSUME NEW a \in Int, NEW b \in Int
  PROVE  Min({a, b}) = IF a <= b THEN a ELSE b
BY DEF Min

\* From outside the book a tracker comes back on a recovery after the cooldown only.
LEMMA TransitionIs ==
  ASSUME NEW tr \in Tracked, NEW theme
  PROVE  /\ Transition(tr, theme) \in Tracked
         /\ tr.state \in Out =>
              \/ Transition(tr, theme).state \in Out
              \/ tr.since >= Cooldown /\ Transition(tr, theme).state = "RE_ENTER"
<1>0. Cooldown \in Nat /\ Cooldown > 0 BY PolicyAssumption
<1>1. tr.state \in States /\ tr.since \in 0 .. Cooldown BY DEF Tracked
<1>2. CASE tr.state \in Out
  <2>1. CASE tr.since >= Cooldown /\ theme = "RECOVERY"
    <3>1. Transition(tr, theme) = [state |-> "RE_ENTER", since |-> 0] BY <1>2, <2>1 DEF Transition, Out
    <3>2. QED BY <1>0, <2>1, <3>1 DEF Tracked, States, Out
  <2>2. CASE ~ (tr.since >= Cooldown /\ theme = "RECOVERY")
    <3>1. Transition(tr, theme) = [state |-> "WATCH", since |-> Min({tr.since + 1, Cooldown})]
      BY <1>2, <2>2 DEF Transition, Out
    <3>2. PICK n \in 1 .. Cooldown : Transition(tr, theme) = [state |-> "WATCH", since |-> n]
      BY <1>0, <1>1, <3>1, MinOfTwo
    <3>3. n \in 0 .. Cooldown /\ n > 0 BY <1>0
    <3>4. Transition(tr, theme) \in Tracked BY <3>2, <3>3 DEF Tracked, States, Out
    <3>5. Transition(tr, theme).state \in Out BY <3>2 DEF Out
    <3>6. QED BY <3>4, <3>5
  <2>3. QED BY <2>1, <2>2
<1>3. CASE tr.state \notin Out
  <2>1. CASE tr.state \in {"HOLD", "TRIM"} /\ theme = "BREAKDOWN"
    <3>1. Transition(tr, theme) = [state |-> "EXIT", since |-> 1]
      BY <1>3, <2>1 DEF Transition, Out
    <3>2. QED BY <1>0, <1>3, <3>1 DEF Tracked, States, Out
  <2>2. CASE ~ (tr.state \in {"HOLD", "TRIM"} /\ theme = "BREAKDOWN")
    <3>1. Transition(tr, theme) \in {[state |-> "TRIM", since |-> 0], [state |-> "HOLD", since |-> 0],
                                    [state |-> tr.state, since |-> 0]}
      BY <1>3, <2>2 DEF Transition, Out
    <3>2. QED BY <1>0, <1>1, <1>3, <3>1 DEF Tracked, States, Out
  <2>3. QED BY <2>1, <2>2
<1>4. QED BY <1>2, <1>3

LEMMA MovedIs ==
  ASSUME NEW m, TrackersOK(trackers), \A v \in DOMAIN VehiclesOf(m) : v \in Tickers
  PROVE  /\ TrackersOK(MovedOf(m)) /\ DOMAIN MovedOf(m) = DOMAIN VehiclesOf(m) \cup DOMAIN trackers
         /\ \A t \in DOMAIN trackers : trackers[t].state \in Out =>
              \/ MovedOf(m)[t].state \in Out
              \/ trackers[t].since >= Cooldown /\ MovedOf(m)[t].state = "RE_ENTER"
<1> DEFINE listed == DOMAIN VehiclesOf(m)
           tracker(t) == IF t \in DOMAIN trackers THEN trackers[t] ELSE NewTracker
           theme(t) == IF t \in listed
                       THEN ThemeOf(t, RouteOf(m), Sel(m), PeaksAfter(peaks, Sel(m)), m.themes, tracker(t).state)
                       ELSE OrphanTheme(t, Sel(m), PeaksAfter(peaks, Sel(m)), m.themes, tracker(t).state)
<1>1. MovedOf(m) = [t \in listed \cup DOMAIN trackers |-> Transition(tracker(t), theme(t))]
  BY DEF MovedOf, TrackersMoved
<1>2. NewTracker \in Tracked BY PolicyAssumption DEF NewTracker, Tracked, States, Out
<1>3. \A t \in listed \cup DOMAIN trackers : tracker(t) \in Tracked BY <1>2 DEF TrackersOK
<1>4. \A t \in DOMAIN trackers : tracker(t) = trackers[t] OBVIOUS
<1> HIDE DEF theme, tracker, listed
<1>5. \A t \in listed \cup DOMAIN trackers :
        /\ MovedOf(m)[t] \in Tracked
        /\ tracker(t).state \in Out =>
             \/ MovedOf(m)[t].state \in Out
             \/ tracker(t).since >= Cooldown /\ MovedOf(m)[t].state = "RE_ENTER"
  BY <1>1, <1>3, TransitionIs
<1>6. DOMAIN MovedOf(m) = listed \cup DOMAIN trackers BY <1>1
<1>7. MovedOf(m) \in [DOMAIN MovedOf(m) -> Tracked] BY <1>1, <1>5, <1>6
<1>8. DOMAIN MovedOf(m) \subseteq Tickers BY <1>6 DEF TrackersOK, listed
<1>9. QED BY <1>4, <1>5, <1>6, <1>7, <1>8 DEF TrackersOK, listed

\* The demoted instruments; none is the product that its family is demoted to.
Demoted(m) == {t \in DOMAIN DemotionOf(m) : DemotionOf(m)[t] # t}

LEMMA DemotedIs ==
  ASSUME NEW m, Input(m), TrackersOK(MovedOf(m)),
         DOMAIN VehiclesOf(m) \subseteq DOMAIN MovedOf(m)
  PROVE  LET tr == TrackersDemoted(MovedOf(m), DemotionOf(m))
         IN  /\ TrackersOK(tr)
             /\ \A u \in Demoted(m) : u \notin DOMAIN tr
             /\ \A t \in DOMAIN MovedOf(m) :
                  (\A u \in DOMAIN DemotionOf(m) : DemotionOf(m)[u] = t => u = t)
                  /\ (t \in DOMAIN DemotionOf(m) => DemotionOf(m)[t] = t)
                    => t \in DOMAIN tr /\ tr[t] = MovedOf(m)[t]
<1> DEFINE to == DemotionOf(m)
           tr == MovedOf(m)
           moved == {t \in DOMAIN to : to[t] # t}
           from(t) == {u \in moved : to[u] = t}
           D == (DOMAIN tr \ moved) \cup {to[u] : u \in moved}
           res == TrackersDemoted(tr, to)
<1>1. res = [t \in D |-> IF from(t) # {} THEN tr[First(from(t))] ELSE tr[t]]
  BY DEF TrackersDemoted
<1>2. ASSUME NEW t \in moved
      PROVE  /\ t \in Tickers /\ t \in DOMAIN tr /\ to[t] = PlusOne(Family[t]) /\ to[t] \in Tickers
             /\ Family[to[t]] = Family[t]
  <2>0. t \in DOMAIN to OBVIOUS
  <2>1. DOMAIN to = DOMAIN StagedOf(m) /\ t \in DOMAIN StagedOf(m)
    BY <2>0 DEF DemotionOf, Demotion
  <2>2. t \in Tickers /\ to[t] = PlusOne(Family[t]) BY <1>2, <2>1, DemotionIs
  <2>3. to[t] \in Members(Family[t]) BY <2>2, PlusOneIs
  <2>4. t \in DOMAIN tr BY <2>1, VehiclesAre
  <2> HIDE DEF to
  <2>5. QED BY <2>2, <2>3, <2>4, ProductsAre
<1> HIDE DEF res
<1>3. ASSUME NEW t \in D PROVE t \in Tickers /\ res[t] \in Tracked
  <2>1. t \in Tickers BY <1>2 DEF TrackersOK
  <2>2. CASE from(t) # {}
    <3>1. from(t) \in SUBSET moved /\ from(t) \in SUBSET Tickers BY <1>2
    <3>2. First(from(t)) \in from(t) BY <2>2, <3>1, FirstIs
    <3>3. First(from(t)) \in DOMAIN tr BY <1>2, <3>1, <3>2
    <3>4. QED BY <1>1, <2>1, <2>2, <3>3 DEF TrackersOK
  <2>3. CASE from(t) = {}
    <3>1. t \in DOMAIN tr BY <2>3
    <3>2. QED BY <1>1, <2>1, <2>3, <3>1 DEF TrackersOK
  <2>4. QED BY <2>2, <2>3
<1>4. DOMAIN res = D BY <1>1
<1>5. TrackersOK(res)
  <2>1. res = [t \in D |-> res[t]] BY <1>1, <1>4
  <2> HIDE DEF D
  <2>2. QED BY <1>3, <1>4, <2>1 DEF TrackersOK
<1>6. ASSUME NEW u \in moved PROVE u \notin D
  <2> SUFFICES ASSUME NEW x \in moved, u = to[x] PROVE FALSE OBVIOUS
  <2>1. Family[u] = Family[x] /\ u = PlusOne(Family[x]) BY <1>2
  <2>2. to[u] = PlusOne(Family[u]) BY <1>2
  <2>3. to[u] # u OBVIOUS
  <2> HIDE DEF to
  <2>4. QED BY <2>1, <2>2, <2>3
<1>7. ASSUME NEW t \in DOMAIN tr,
             \A u \in DOMAIN to : to[u] = t => u = t,
             t \in DOMAIN to => to[t] = t
      PROVE  t \in D /\ res[t] = tr[t]
  <2>1. t \notin moved /\ from(t) = {} BY <1>7
  <2>2. t \in D BY <2>1
  <2>3. QED BY <1>1, <2>1, <2>2
<1>8. QED BY <1>4, <1>5, <1>6, <1>7 DEF res, Demoted

-----------------------------------------------------------------------------
(* The invariant *)

BookOK(w) ==
  /\ Book(w) /\ DOMAIN w \subseteq Tickers /\ Total(w) <= Unit

PolicyInv ==
  /\ overlays \in Overlays /\ market \in Sessions \cup {None}
  /\ TrackersOK(trackers) /\ DOMAIN peaks \subseteq Tickers
  /\ entry.key \in Tickers \cup {"none"}
  /\ BookOK(held) /\ \A t \in DOMAIN held : held[t] > 0
  /\ BookOK(intent.weights)
  /\ intent.kind \in {"hold", "target"} /\ (intent.kind = "target" <=> intent.weights # Empty)

LEMMA EmptyIs ==
  /\ BookOK(Empty) /\ DOMAIN Empty = {}
  /\ \A w : Book(w) /\ DOMAIN w = {} => w = Empty
<1>1. DOMAIN Empty = {} /\ Empty \in [{} -> Nat] BY DEF Empty
<1>2. IsFiniteSet({}) /\ SumFunctionOnSet(Empty, {}) = 0 BY FS_EmptySet, SumStep
<1>3. Total(Empty) = 0 BY <1>1, <1>2 DEF Total, SumFunction
<1>4. ASSUME NEW w, Book(w), DOMAIN w = {} PROVE w = Empty BY <1>4 DEF Book, Empty
<1>5. QED BY <1>1, <1>2, <1>3, <1>4, SizingAssumption DEF BookOK, Book

LEMMA Initially == Init => PolicyInv
<1> SUFFICES ASSUME Init PROVE PolicyInv OBVIOUS
<1>1. /\ overlays \in Overlays /\ market = None /\ trackers = Empty /\ peaks = Empty
      /\ entry.key = "none" /\ held = Empty /\ intent.kind = "hold" /\ intent.weights = Empty
  BY DEF Init, NoEntry, Hold
<1>2. TrackersOK(Empty) BY DEF TrackersOK, Empty
<1>3. QED BY <1>1, <1>2, EmptyIs DEF PolicyInv

\* What the open leaves of an intent is a book of positive weights.
LEMMA FillsAre ==
  ASSUME NEW w, BookOK(w), BookOK(held), \A t \in DOMAIN held : held[t] > 0, NEW h \in Fills(w)
  PROVE  BookOK(h) /\ \A t \in DOMAIN h : h[t] > 0
<1> DEFINE all == DOMAIN w \cup DOMAIN held
           book(B, t) == Weight(IF t \in B THEN held ELSE w, t)
           after(B) == [t \in {u \in all : book(B, u) > 0} |-> book(B, t)]
<1>1. CASE h = held BY <1>1
<1>2. ASSUME NEW B, h = after(B), Total(h) <= Unit PROVE BookOK(h) /\ \A t \in DOMAIN h : h[t] > 0
  <2>1. IsFiniteSet(all) BY FS_Union DEF BookOK, Book
  <2>2. \A t \in all : book(B, t) \in Nat BY WeightIs DEF BookOK
  <2>3. DOMAIN h = {u \in all : book(B, u) > 0} /\ \A t \in DOMAIN h : h[t] = book(B, t) BY <1>2
  <2>4. h = [t \in DOMAIN h |-> h[t]] BY <1>2
  <2>5. all \subseteq Tickers BY DEF BookOK
  <2> HIDE DEF after, book, all
  <2>6. DOMAIN h \subseteq all /\ \A t \in DOMAIN h : h[t] \in Nat /\ h[t] > 0 BY <2>2, <2>3
  <2>7. IsFiniteSet(DOMAIN h) BY <2>1, <2>6, FS_Subset
  <2>8. h \in [DOMAIN h -> Nat] BY <2>4, <2>6
  <2>9. QED BY <1>2, <2>5, <2>6, <2>7, <2>8 DEF BookOK, Book
<1>3. h = held \/ \E B : h = after(B) /\ Total(h) <= Unit
  BY Zenon DEF Fills
<1>4. QED BY <1>1, <1>2, <1>3

LEMMA ScoreKeeps ==
  ASSUME PolicyInv, Score
  PROVE  PolicyInv'
<1>1. /\ held' \in IF intent.kind = "hold" THEN {held} ELSE Fills(intent.weights)
      /\ market' \in Sessions /\ intent' = Hold /\ UNCHANGED <<overlays, trackers, peaks, entry>>
  BY DEF Score
<1>2. BookOK(held') /\ \A t \in DOMAIN held' : held'[t] > 0 BY <1>1, FillsAre DEF PolicyInv
<1>3. intent'.kind = "hold" /\ intent'.weights = Empty BY <1>1 DEF Hold
<1>4. BookOK(intent'.weights) BY <1>3, EmptyIs
<1>5. QED BY <1>1, <1>2, <1>3, <1>4 DEF PolicyInv, TrackersOK, BookOK, Book, Total

LEMMA NothingKeeps ==
  ASSUME PolicyInv, AllocateNothing
  PROVE  PolicyInv'
<1>1. market' = None /\ intent' = Hold /\ UNCHANGED <<overlays, trackers, peaks, entry, held>>
  BY DEF AllocateNothing
<1>2. intent'.kind = "hold" /\ intent'.weights = Empty BY <1>1 DEF Hold
<1>3. QED BY <1>1, <1>2, EmptyIs DEF PolicyInv, TrackersOK, BookOK, Book, Total

\* What a call of allocate does, in the terms of the lemmas.
LEMMA AllocateIs ==
  ASSUME PolicyInv, Allocate
  PROVE  /\ Input(market) /\ market' = None /\ held' = held /\ overlays' = overlays
         /\ trackers' = TrackersDemoted(MovedOf(market), DemotionOf(market))
         /\ peaks' = PeaksAfter(peaks, Sel(market))
         /\ entry' \in {NoEntry, entry, [key |-> Leader(Sel(market)), score |-> Sel(market)[Leader(Sel(market))]]}
         /\ intent' = IntentOf(Traded(CappedOf(market)))
         /\ BookOK(Traded(CappedOf(market)))
         /\ intent'.weights = Traded(CappedOf(market))
         /\ intent'.kind \in {"hold", "target"} /\ (intent'.kind = "target" <=> intent'.weights # Empty)
         /\ TrackersOK(MovedOf(market)) /\ DOMAIN VehiclesOf(market) \subseteq DOMAIN MovedOf(market)
<1>1. market # None /\ market.scores # Empty /\ market' = None /\ held' = held /\ overlays' = overlays
      /\ trackers' = Outcome(market).trackers /\ peaks' = Outcome(market).peaks
      /\ entry' = Outcome(market).entry /\ intent' = IntentOf(Outcome(market).weights)
  BY Zenon DEF Allocate
<1>2. Input(market)
  <2>1. market \in Sessions BY <1>1 DEF PolicyInv
  <2>2. DOMAIN market.scores \subseteq Tickers /\ market.scores \in [DOMAIN market.scores -> Int]
    BY <2>1, PolicyAssumption
  <2>3. DOMAIN market.scores # {} BY <1>1, <2>2 DEF Empty
  <2>4. QED BY <2>1, <2>2, <2>3 DEF Input, Scores, PolicyInv, BookOK
<1>3. Book(held) /\ DOMAIN held \subseteq Tickers /\ TrackersOK(trackers) BY DEF PolicyInv, BookOK
<1>4. BookOK(Traded(CappedOf(market)))
  BY <1>2, <1>3, CappedIs, TradedIs DEF BookOK, Allowed
<1>5. \A v \in DOMAIN VehiclesOf(market) : v \in Tickers BY <1>2, VehiclesAre DEF Allowed
<1>6. TrackersOK(MovedOf(market)) /\ DOMAIN VehiclesOf(market) \subseteq DOMAIN MovedOf(market)
  BY <1>3, <1>5, MovedIs
<1>7. intent' = IntentOf(Traded(CappedOf(market))) BY <1>1, OutcomeIs
<1>8. /\ intent'.weights = Traded(CappedOf(market))
      /\ intent'.kind \in {"hold", "target"} /\ (intent'.kind = "target" <=> intent'.weights # Empty)
  BY <1>7 DEF IntentOf, Hold
<1>9. QED BY <1>1, <1>2, <1>4, <1>6, <1>7, <1>8, OutcomeIs

LEMMA AllocateKeeps ==
  ASSUME PolicyInv, Allocate
  PROVE  PolicyInv'
<1>1. TrackersOK(trackers') BY AllocateIs, DemotedIs
<1>2. Scores(Sel(market)) BY AllocateIs, WeightsAre
<1>3. DOMAIN peaks' \subseteq Tickers
  BY <1>2, AllocateIs DEF PeaksAfter, PolicyInv, Scores
<1>4. entry'.key \in Tickers \cup {"none"}
  <2>1. Leader(Sel(market)) \in Tickers BY <1>2, LeaderIs DEF Scores
  <2>2. QED BY <2>1, AllocateIs DEF NoEntry, PolicyInv
<1>5. BookOK(intent'.weights) BY AllocateIs
<1>6. BookOK(held') /\ \A t \in DOMAIN held' : held'[t] > 0 BY AllocateIs DEF PolicyInv
<1>7. QED BY <1>1, <1>3, <1>4, <1>5, <1>6, AllocateIs DEF PolicyInv, TrackersOK, BookOK, Book, Total

LEMMA InvHolds == Spec => []PolicyInv
<1>1. PolicyInv /\ [Next]_vars => PolicyInv'
  <2> SUFFICES ASSUME PolicyInv, [Next]_vars PROVE PolicyInv' OBVIOUS
  <2>1. CASE UNCHANGED vars BY <2>1 DEF vars, PolicyInv, TrackersOK, BookOK, Book, Total
  <2>2. QED BY <2>1, ScoreKeeps, NothingKeeps, AllocateKeeps DEF Next
<1>2. QED BY <1>1, Initially, PTL DEF Spec

-----------------------------------------------------------------------------
(* The theorems *)

\* A call of allocate, or no change of the intent at all.
LEMMA WhenAllocating ==
  ASSUME PolicyInv, [Next]_vars
  PROVE  \/ Allocate \/ market = None \/ UNCHANGED vars
         \/ intent'.kind = "hold" /\ intent'.weights = Empty
BY DEF Next, Score, AllocateNothing, Hold

\* The book, the intent, the trackers and the peaks keep their types, and neither the
\* book nor the intent is ever more than whole.
THEOREM PolicyTyped == Spec => []TypeOK
<1>1. PolicyInv => TypeOK
  <2> SUFFICES ASSUME PolicyInv PROVE TypeOK OBVIOUS
  <2>1. trackers \in [DOMAIN trackers -> [state : States, since : 0 .. Cooldown]]
        /\ DOMAIN trackers \in SUBSET Tickers
        /\ \A t \in DOMAIN trackers : (trackers[t].since > 0) <=> (trackers[t].state \in Out)
    BY DEF PolicyInv, TrackersOK, Tracked
  <2>2. ASSUME NEW w, BookOK(w), NEW t \in DOMAIN w PROVE w[t] \in 0 .. Unit
    <3>1. w[t] \in Nat /\ w[t] <= Total(w) /\ Total(w) \in Nat
      BY <2>2, SummandBelow, SumInNat DEF BookOK, Book, Total, SumFunction
    <3>2. QED BY <2>2, <3>1, SizingAssumption DEF BookOK
  <2>3. \A t \in DOMAIN held : held[t] \in 1 .. Unit
    BY <2>2, SizingAssumption DEF PolicyInv
  <2>4. \A t \in DOMAIN intent.weights : intent.weights[t] \in 0 .. Unit BY <2>2 DEF PolicyInv
  <2>5. QED BY <2>1, <2>3, <2>4 DEF TypeOK, PolicyInv, BookOK, States
<1>2. QED BY <1>1, InvHolds, PTL

\* What is bought respects the liquidity caps, and the gross exposure exceeds its limit
\* by no more than the rebalance band leaves of holdings, for any market; what stands in
\* for a missing unleveraged product counts once.
THEOREM CapsBindTrades == Spec => CapsOnTrades
<1> DEFINE Trade ==
      market # None /\ intent'.kind = "target" =>
        LET w == intent'.weights
            caps == CapsOf(market)
            kept == {t \in DOMAIN w : w[t] <= Weight(held, t)}
        IN  /\ \A t \in DOMAIN w \cap DOMAIN caps : w[t] > caps[t] => t \in kept
            /\ GrossBy(w, Leverage)
                 <= LimitOf(market) + MinDelta * GrossBy([t \in kept |-> 1], Leverage)
<1>1. ASSUME PolicyInv, [Next]_vars PROVE [Trade]_vars
  <2>1. CASE Allocate
    <3> DEFINE m == market
               w == Traded(CappedOf(m))
               kept == {t \in DOMAIN w : w[t] <= Weight(held, t)}
    <3>1. Input(m) /\ intent'.weights = w /\ Book(held)
      BY <1>1, <2>1, AllocateIs DEF PolicyInv, BookOK
    <3>2. Book(CappedOf(m)) /\ DOMAIN CappedOf(m) \subseteq Tickers BY <3>1, CappedIs DEF Allowed
    <3>3. ASSUME NEW t \in DOMAIN w \cap DOMAIN CapsOf(m), w[t] > CapsOf(m)[t]
          PROVE  t \in kept
      <4>1. t \in DOMAIN CappedOf(m)
            /\ (w[t] <= CappedOf(m)[t] \/ (t \in DOMAIN held /\ w[t] <= held[t]))
        BY <3>1, <3>2, TradedIs
      <4>2. CappedOf(m)[t] <= CapsOf(m)[t] BY <3>1, <4>1, CappedIs
      <4>3. w[t] \in Nat /\ CappedOf(m)[t] \in Nat /\ CapsOf(m)[t] \in Nat
        <5>1. Book(w) BY <3>1, <3>2, TradedIs
        <5>2. QED BY <3>1, <3>2, <4>1, <5>1, CapsAre DEF Book
      <4>4. t \in DOMAIN held /\ w[t] <= held[t] BY <3>3, <4>1, <4>2, <4>3
      <4>5. QED BY <4>4 DEF Weight
    <3>4. \A t \in DOMAIN CappedOf(m) : Leverage[t] \in Nat BY <3>2, LeverageIs
    <3>5. GrossBy(w, Leverage)
            <= GrossBy(CappedOf(m), Leverage) + MinDelta * GrossBy([t \in kept |-> 1], Leverage)
      BY <3>1, <3>2, <3>4, GrossOfTraded
    <3>6. GrossBy(CappedOf(m), Leverage) <= GrossBy(CappedOf(m), CountedOf(m))
      <4>1. \A t \in DOMAIN CappedOf(m) : CountsFor(t, CountedOf(m)[t]) BY <3>1, CappedIs, CountedIs
      <4>2. QED BY <3>2, <3>4, <4>1, GrossBelow DEF CountsFor
    <3>7. GrossBy(CappedOf(m), CountedOf(m)) <= LimitOf(m)
      <4> DEFINE l == LiquidityCapped(OnVehicles(StagedOf(m), DemotionOf(m)), CapsOf(m))
      <4>1. Book(l) /\ \A t \in DOMAIN l : CountedOf(m)[t] \in Nat
        BY <3>1, CappedIs, CapsAre, LiquidityIs, CountedIs DEF CountsFor
      <4>2. CappedOf(m) = GrossCapped(l, CountedOf(m), LimitOf(m)) /\ LimitOf(m) \in Nat
        BY SizingAssumption DEF CappedOf, Capped, LimitOf
      <4> HIDE DEF l
      <4>3. QED BY <4>1, <4>2, GrossWithin
    <3>8. GrossBy(w, Leverage) <= LimitOf(m) + MinDelta * GrossBy([t \in kept |-> 1], Leverage)
      <4>1. /\ GrossBy(w, Leverage) \in Nat /\ GrossBy(CappedOf(m), Leverage) \in Nat
            /\ GrossBy(CappedOf(m), CountedOf(m)) \in Nat /\ LimitOf(m) \in Nat
        <5>1. Book(w) /\ DOMAIN w \subseteq Tickers BY <1>1, <2>1, AllocateIs DEF BookOK
        <5>2. \A t \in DOMAIN CappedOf(m) : CountedOf(m)[t] \in Nat
          BY <3>1, CappedIs, CountedIs DEF CountsFor
        <5> HIDE DEF w
        <5>3. QED BY <3>2, <3>4, <5>1, <5>2, GrossIs, LeverageIs, SizingAssumption DEF LimitOf
      <4>2. MinDelta * GrossBy([t \in kept |-> 1], Leverage) \in Nat
        <5>1. kept \subseteq DOMAIN w /\ DOMAIN w \subseteq Tickers
          BY <1>1, <2>1, AllocateIs DEF BookOK
        <5>2. kept \in SUBSET Tickers /\ IsFiniteSet(kept) BY <5>1, TickersFinite
        <5> HIDE DEF kept
        <5>3. Book([t \in kept |-> 1]) /\ \A t \in DOMAIN [t \in kept |-> 1] : Leverage[t] \in Nat
          BY <5>2, LeverageIs DEF Book
        <5>4. GrossBy([t \in kept |-> 1], Leverage) \in Nat BY <5>3, GrossIs
        <5>5. QED BY <5>4, PolicyAssumption, Distributes
      <4> HIDE DEF w, kept
      <4>3. QED BY <3>5, <3>6, <3>7, <4>1, <4>2
    <3> HIDE DEF m
    <3>9. QED BY <3>1, <3>3, <3>8 DEF m
  <2>2. CASE market = None BY <2>2
  <2>3. CASE UNCHANGED vars BY <2>3
  <2>4. CASE intent'.kind = "hold" BY <2>4
  <2>5. QED BY <1>1, <2>1, <2>2, <2>3, <2>4, WhenAllocating
<1>2. QED BY <1>1, InvHolds, PTL DEF Spec, CapsOnTrades, Trade

\* Without the leave of regime, rules and capacity no leveraged product is listed of a
\* family with a plain one, but for a holding that capacity gives no way out of.
THEOREM LeverageIsGated == Spec => NoUngatedEntry
<1> DEFINE Gated ==
      market # None =>
        \A t \in DOMAIN intent'.weights :
          Multiple[t] = 2 /\ WithMultiple(Family[t], 1) # {}
          => MayEnter(t, market) \/ NoWayOut(t, market)
<1>1. ASSUME PolicyInv, [Next]_vars PROVE [Gated]_vars
  <2>1. CASE Allocate
    <3>1. /\ Input(market) /\ intent'.weights = Traded(CappedOf(market)) /\ Book(held)
      BY <1>1, <2>1, AllocateIs DEF PolicyInv, BookOK
    <3>2. ASSUME NEW t \in DOMAIN intent'.weights PROVE Allowed(market, t)
      <4>1. t \in DOMAIN CappedOf(market) BY <3>1, <3>2, CappedIs, TradedIs
      <4>2. QED BY <3>1, <4>1, CappedIs
    <3>3. QED BY <3>2 DEF Allowed, Plain
  <2>2. CASE market = None BY <2>2
  <2>3. CASE UNCHANGED vars BY <2>3
  <2>4. CASE intent'.weights = Empty BY <2>4, EmptyIs
  <2>5. QED BY <1>1, <2>1, <2>2, <2>3, <2>4, WhenAllocating
<1>2. QED BY <1>1, InvHolds, PTL DEF Spec, NoUngatedEntry, Gated

\* What left the book comes back on a recovery after the whole cooldown, or as the
\* product that another one of its family is demoted to.
THEOREM ReEntryIsByRule == Spec => ReEntryIsEarned
<1> DEFINE Earned ==
      market # None =>
        \A t \in DOMAIN trackers \cap DOMAIN intent'.weights :
          trackers[t].state \in Out =>
             \/ trackers[t].since >= Cooldown /\ trackers'[t].state = "RE_ENTER"
             \/ \E u \in Members(Family[t]) \ {t} :
                  t = PlusOne(Family[t]) /\ u \notin DOMAIN trackers'
<1>1. ASSUME PolicyInv, [Next]_vars PROVE [Earned]_vars
  <2>1. ASSUME Allocate, NEW t \in DOMAIN trackers, t \in DOMAIN intent'.weights, trackers[t].state \in Out
        PROVE  \/ trackers[t].since >= Cooldown /\ trackers'[t].state = "RE_ENTER"
               \/ \E u \in Members(Family[t]) \ {t} :
                    t = PlusOne(Family[t]) /\ u \notin DOMAIN trackers'
    <3> DEFINE m == market
               to == DemotionOf(m)
               w == OnVehicles(StagedOf(m), to)
    <3>1. /\ Input(m) /\ intent'.weights = Traded(CappedOf(m)) /\ Book(held) /\ TrackersOK(trackers)
          /\ trackers' = TrackersDemoted(MovedOf(m), to) /\ TrackersOK(MovedOf(m))
          /\ DOMAIN VehiclesOf(m) \subseteq DOMAIN MovedOf(m)
      BY <1>1, <2>1, AllocateIs DEF PolicyInv, BookOK
    <3> HIDE DEF m
    <3>2. Book(StagedOf(m)) /\ Book(CappedOf(m)) /\ Book(w) BY <3>1, CappedIs, VehiclesAre
    <3>3. t \in DOMAIN w /\ w[t] > 0
      <4>1. t \in DOMAIN CappedOf(m) /\ CappedOf(m)[t] > 0 BY <2>1, <3>1, <3>2, TradedIs
      <4>2. DOMAIN CappedOf(m) = DOMAIN w /\ CappedOf(m)[t] <= w[t] BY <3>1, <4>1, CappedIs
      <4>3. CappedOf(m)[t] \in Nat /\ w[t] \in Nat BY <3>2, <4>1, <4>2 DEF Book
      <4> HIDE DEF w
      <4>4. QED BY <4>1, <4>2, <4>3
    <3>4. \A u \in DOMAIN StagedOf(m) : u \in DOMAIN MovedOf(m) /\ u \in Tickers
      BY <3>1, VehiclesAre, DemotionIs
    <3>5. DOMAIN to = DOMAIN StagedOf(m) BY DEF DemotionOf, Demotion
    <3>6. CASE t \in DOMAIN StagedOf(m) /\ StagedOf(m)[t] > 0 /\ {u \in DOMAIN StagedOf(m) : to[u] = t} = {t}
      <4>1. MovedOf(m)[t].state \notin Out BY <3>1, <3>6, VehiclesAre
      <4>2. trackers[t].since >= Cooldown /\ MovedOf(m)[t].state = "RE_ENTER"
        <5>1. \A v \in DOMAIN VehiclesOf(m) : v \in Tickers BY <3>1, VehiclesAre DEF Allowed
        <5>2. QED BY <2>1, <3>1, <4>1, <5>1, MovedIs
      <4>3. (\A u \in DOMAIN to : to[u] = t => u = t) /\ (t \in DOMAIN to => to[t] = t)
        <5> HIDE DEF to
        <5>1. QED BY <3>5, <3>6
      <4>4. t \in DOMAIN MovedOf(m) BY <3>4, <3>6
      <4>5. trackers'[t] = MovedOf(m)[t] BY <3>1, <4>3, <4>4, DemotedIs
      <4>6. QED BY <4>2, <4>5
    <3>7. ASSUME NEW u \in DOMAIN StagedOf(m), to[u] = t, u # t
          PROVE  u \in Members(Family[t]) \ {t} /\ t = PlusOne(Family[t]) /\ u \notin DOMAIN trackers'
      <4>1. u \in Tickers /\ t = PlusOne(Family[u]) BY <3>1, <3>7, DemotionIs
      <4>2. t \in Members(Family[u]) BY <4>1, PlusOneIs
      <4>3. Family[t] = Family[u] BY <4>2 DEF Members
      <4>4. u \in Members(Family[t]) BY <4>1, <4>3 DEF Members
      <4>5. u \in Demoted(m) BY <3>5, <3>7 DEF Demoted
      <4>6. u \notin DOMAIN trackers' BY <3>1, <4>5, DemotedIs
      <4> HIDE DEF to
      <4>7. QED BY <3>7, <4>1, <4>3, <4>4, <4>6
    <3>8. QED BY <3>2, <3>3, <3>6, <3>7, WeightComesFrom
  <2>2. CASE market = None BY <2>2
  <2>3. CASE UNCHANGED vars BY <2>3
  <2>4. CASE intent'.weights = Empty BY <2>4, EmptyIs
  <2>5. QED BY <1>1, <2>1, <2>2, <2>3, <2>4, WhenAllocating
<1>2. QED BY <1>1, InvHolds, PTL DEF Spec, ReEntryIsEarned, Earned

====
