------------------------------ MODULE WeightSums ------------------------------
(***************************************************************************)
(* Facts about SumFunctionOnSet, the sum the acceptor's finality test is  *)
(* built on (SignedWeight and TotalWeight): its unfolding equation, that  *)
(* it is a natural number, that adding an element adds its weight, and   *)
(* that it grows with the set and ignores elements of weight zero.  The   *)
(* sets are subsets of a finite universe U (the validators) and f a       *)
(* weight function on U.  Induction is done on the cardinality of the     *)
(* sets, through the least element of a non-empty set of naturals.        *)
(***************************************************************************)
EXTENDS Naturals, FiniteSets, Functions, FiniteSetTheorems, WellFoundedInduction, TLAPS

\* The element the fold of SumFunctionOnSet takes first out of s.
Ch(s) == CHOOSE x \in s : TRUE

\* g is the fold's iteration function over the subsets of S.
SumEq(f, g, S) ==
    g = [t \in SUBSET S |-> IF t = {} THEN 0 ELSE f[Ch(t)] + g[t \ {Ch(t)}]]

\* SumFunctionOnSet is the fold's iteration function taken at S.
LEMMA SumIsIter ==
  ASSUME NEW f, NEW S
  PROVE  SumFunctionOnSet(f, S) = (CHOOSE g : SumEq(f, g, S))[S]
  BY DEF SumFunctionOnSet, FoldFunctionOnSet, MapThenFoldSet, SumEq, Ch

\* Every non-empty set of naturals has a least element.
LEMMA LeastNat ==
  ASSUME NEW B \in SUBSET Nat, B # {}
  PROVE  \E m \in B : \A k \in B : m <= k
  <1>1. \E x \in B : \A y \in B : ~(<<y, x>> \in OpToRel(<, Nat))
    BY NatLessThanWellFounded, WFMin
  <1>2. PICK x \in B : \A y \in B : ~(<<y, x>> \in OpToRel(<, Nat))
    BY <1>1
  <1>3. \A y \in B : <<y, x>> \in Nat \X Nat
    OBVIOUS
  <1>4. \A y \in B : ~(y < x)
    BY <1>2, <1>3 DEF OpToRel
  <1>5. QED
    BY <1>4

\* Taking an element out of a finite non-empty set lowers its cardinality by one.
LEMMA CardRemove ==
  ASSUME NEW t, IsFiniteSet(t), t # {}
  PROVE  /\ Ch(t) \in t
         /\ IsFiniteSet(t \ {Ch(t)})
         /\ Cardinality(t) \in Nat \ {0}
         /\ Cardinality(t \ {Ch(t)}) = Cardinality(t) - 1
  <1>1. Ch(t) \in t
    BY DEF Ch
  <1>2. Cardinality(t) \in Nat /\ Cardinality(t) # 0
    BY FS_CardinalityType, FS_EmptySet
  <1>3. QED
    BY <1>1, <1>2, FS_RemoveElement

\* Two iteration functions agree wherever both are defined.
LEMMA SumEqUnique ==
  ASSUME NEW U, IsFiniteSet(U), NEW f,
         NEW S1 \in SUBSET U, NEW S2 \in SUBSET U, NEW g1, NEW g2,
         SumEq(f, g1, S1), SumEq(f, g2, S2)
  PROVE  \A t \in SUBSET (S1 \cap S2) : g1[t] = g2[t]
  <1> DEFINE Bad == {n \in Nat : \E t \in SUBSET (S1 \cap S2) : Cardinality(t) = n /\ g1[t] # g2[t]}
  <1>1. \A t \in SUBSET U : IsFiniteSet(t) /\ Cardinality(t) \in Nat
    BY FS_Subset, FS_CardinalityType
  <1> SUFFICES ASSUME Bad # {} PROVE FALSE
    BY <1>1
  <1>2. PICK m \in Bad : \A k \in Bad : m <= k
    BY LeastNat
  <1>3. PICK t \in SUBSET (S1 \cap S2) : Cardinality(t) = m /\ g1[t] # g2[t]
    BY <1>2
  <1>4. t # {}
    BY <1>3 DEF SumEq
  <1> DEFINE x == Ch(t)
             r == t \ {x}
  <1>5. /\ x \in t
        /\ Cardinality(r) = m - 1
        /\ m \in Nat \ {0}
    BY <1>1, <1>3, <1>4, CardRemove
  <1>6. r \in SUBSET (S1 \cap S2) /\ ~(m - 1 \in Bad)
    BY <1>2, <1>5
  <1>7. g1[r] = g2[r]
    BY <1>5, <1>6
  <1>8. g1[t] = f[x] + g1[r] /\ g2[t] = f[x] + g2[r]
    BY <1>4 DEF SumEq
  <1>9. QED
    BY <1>3, <1>7, <1>8

\* Every subset of U has an iteration function: the one of S is built
\* from those of its proper subsets, which exist by induction.
LEMMA SumEqExists ==
  ASSUME NEW U, IsFiniteSet(U), NEW f, NEW S \in SUBSET U
  PROVE  \E g : SumEq(f, g, S)
  <1> DEFINE Bad == {n \in Nat : \E T \in SUBSET U : Cardinality(T) = n /\ ~\E g : SumEq(f, g, T)}
  <1>1. \A t \in SUBSET U : IsFiniteSet(t) /\ Cardinality(t) \in Nat
    BY FS_Subset, FS_CardinalityType
  <1> SUFFICES ASSUME Bad # {} PROVE FALSE
    BY <1>1
  <1>2. PICK m \in Bad : \A k \in Bad : m <= k
    BY LeastNat
  <1>3. PICK T \in SUBSET U : Cardinality(T) = m /\ ~\E g : SumEq(f, g, T)
    BY <1>2
  \* Every proper subset of T has an iteration function.
  <1>4. ASSUME NEW t \in SUBSET T, t # T PROVE \E g : SumEq(f, g, t)
    <2>1. IsFiniteSet(T) /\ IsFiniteSet(t) /\ Cardinality(t) \in Nat
      BY <1>1
    <2>2. Cardinality(t) < m
      BY <1>3, <1>4, <2>1, FS_Subset, FS_CardinalityType
    <2>3. ~(Cardinality(t) \in Bad)
      BY <1>2, <2>1, <2>2
    <2>4. QED
      BY <2>1, <2>3
  <1> DEFINE G(t) == CHOOSE g : SumEq(f, g, t)
             y == Ch(T)
             h == [t \in SUBSET T |->
                     IF t = T THEN (IF T = {} THEN 0 ELSE f[y] + G(T \ {y})[T \ {y}])
                     ELSE G(t)[t]]
  <1>5. \A t \in SUBSET T : t # T => SumEq(f, G(t), t)
    BY <1>4
  <1>6. ASSUME NEW t \in SUBSET T
        PROVE  h[t] = IF t = {} THEN 0 ELSE f[Ch(t)] + h[t \ {Ch(t)}]
    <2>1. CASE t = T /\ T = {}
      BY <2>1
    <2>2. CASE t = T /\ T # {}
      <3>1. y \in T /\ T \ {y} # T
        BY <2>2 DEF Ch
      <3>2. h[T \ {y}] = G(T \ {y})[T \ {y}]
        BY <3>1
      <3>3. QED
        BY <2>2, <3>2
    <2>3. CASE t # T /\ t = {}
      <3>1. SumEq(f, G(t), t)
        BY <1>5, <2>3
      <3>2. QED
        BY <2>3, <3>1 DEF SumEq
    <2>4. CASE t # T /\ t # {}
      <3> DEFINE r == t \ {Ch(t)}
      <3>1. SumEq(f, G(t), t) /\ SumEq(f, G(r), r)
        BY <1>5, <2>4
      <3>2. G(t)[t] = f[Ch(t)] + G(t)[r]
        BY <2>4, <3>1 DEF SumEq
      <3>3. G(t)[r] = G(r)[r]
        BY <1>1, <3>1, SumEqUnique
      <3>4. h[r] = G(r)[r] /\ h[t] = G(t)[t]
        BY <2>4
      <3>5. QED
        BY <2>4, <3>2, <3>3, <3>4
    <2>5. QED
      BY <2>1, <2>2, <2>3, <2>4
  <1>7. SumEq(f, h, T)
    <2> DEFINE k == [t \in SUBSET T |-> IF t = {} THEN 0 ELSE f[Ch(t)] + h[t \ {Ch(t)}]]
    <2>1. \A t \in SUBSET T : h[t] = k[t]
      BY <1>6
    <2>2. h = k
      BY <2>1
    <2>3. QED
      BY <2>2 DEF SumEq
  <1>8. QED
    BY <1>3, <1>7

\* The unfolding equation of SumFunctionOnSet over a subset of U.
LEMMA SumDef ==
  ASSUME NEW U, IsFiniteSet(U), NEW f, NEW S \in SUBSET U
  PROVE  SumFunctionOnSet(f, S) =
           IF S = {} THEN 0 ELSE f[Ch(S)] + SumFunctionOnSet(f, S \ {Ch(S)})
  <1> DEFINE g == CHOOSE k : SumEq(f, k, S)
             r == S \ {Ch(S)}
             g2 == CHOOSE k : SumEq(f, k, r)
  <1>1. SumEq(f, g, S) /\ SumEq(f, g2, r)
    BY SumEqExists
  <1>2. SumFunctionOnSet(f, S) = g[S] /\ SumFunctionOnSet(f, r) = g2[r]
    BY SumIsIter
  <1>3. g[r] = g2[r]
    <2>1. r \in SUBSET U /\ r \in SUBSET (S \cap r)
      OBVIOUS
    <2>2. \A t \in SUBSET (S \cap r) : g[t] = g2[t]
      BY <1>1, <2>1, SumEqUnique
    <2>3. QED
      BY <2>1, <2>2
  <1>4. g[S] = IF S = {} THEN 0 ELSE f[Ch(S)] + g[r]
    BY <1>1 DEF SumEq
  <1>5. QED
    BY <1>2, <1>3, <1>4

\* The empty sum is zero.
LEMMA SumEmpty ==
  ASSUME NEW f
  PROVE  SumFunctionOnSet(f, {}) = 0
  <1>1. IsFiniteSet({}) /\ {} \in SUBSET {}
    BY FS_EmptySet
  <1>2. QED
    BY <1>1, SumDef

\* A single element weighs its own weight.
LEMMA SumSingleton ==
  ASSUME NEW U, IsFiniteSet(U), NEW f \in [U -> Nat], NEW x \in U
  PROVE  SumFunctionOnSet(f, {x}) = f[x]
  <1>1. {x} \in SUBSET U /\ {x} # {} /\ Ch({x}) = x /\ {x} \ {x} = {}
    BY DEF Ch
  <1>2. SumFunctionOnSet(f, {x}) = f[x] + SumFunctionOnSet(f, {x} \ {Ch({x})})
    <2>1. SumFunctionOnSet(f, {x}) =
            IF {x} = {} THEN 0 ELSE f[Ch({x})] + SumFunctionOnSet(f, {x} \ {Ch({x})})
      BY <1>1, SumDef
    <2>2. QED
      BY <1>1, <2>1
  <1>3. SumFunctionOnSet(f, {}) = 0
    BY SumEmpty
  <1>4. QED
    BY <1>1, <1>2, <1>3

\* The sum of natural weights is a natural number.
LEMMA SumType ==
  ASSUME NEW U, IsFiniteSet(U), NEW f \in [U -> Nat], NEW S \in SUBSET U
  PROVE  SumFunctionOnSet(f, S) \in Nat
  <1> DEFINE Bad == {n \in Nat : \E T \in SUBSET U : Cardinality(T) = n /\ SumFunctionOnSet(f, T) \notin Nat}
  <1>1. \A t \in SUBSET U : IsFiniteSet(t) /\ Cardinality(t) \in Nat
    BY FS_Subset, FS_CardinalityType
  <1> SUFFICES ASSUME Bad # {} PROVE FALSE
    BY <1>1
  <1>2. PICK m \in Bad : \A k \in Bad : m <= k
    BY LeastNat
  <1>3. PICK T \in SUBSET U : Cardinality(T) = m /\ SumFunctionOnSet(f, T) \notin Nat
    BY <1>2
  <1>4. T # {}
    BY <1>3, SumEmpty
  <1>5. Ch(T) \in T /\ Cardinality(T \ {Ch(T)}) = m - 1 /\ m \in Nat \ {0}
    BY <1>1, <1>3, <1>4, CardRemove
  <1>6. SumFunctionOnSet(f, T \ {Ch(T)}) \in Nat
    BY <1>2, <1>5
  <1>7. QED
    BY <1>3, <1>4, <1>5, <1>6, SumDef

\* Adding an element outside the set adds its weight, whichever element
\* the fold happens to take first.
LEMMA SumAddOne ==
  ASSUME NEW U, IsFiniteSet(U), NEW f \in [U -> Nat], NEW S \in SUBSET U, NEW x \in U \ S
  PROVE  SumFunctionOnSet(f, S \cup {x}) = f[x] + SumFunctionOnSet(f, S)
  <1> DEFINE Bad == {n \in Nat : \E T \in SUBSET U, z \in U :
                                   /\ z \notin T
                                   /\ Cardinality(T) = n
                                   /\ SumFunctionOnSet(f, T \cup {z}) # f[z] + SumFunctionOnSet(f, T)}
  <1>1. \A t \in SUBSET U : IsFiniteSet(t) /\ Cardinality(t) \in Nat
    BY FS_Subset, FS_CardinalityType
  <1> SUFFICES ASSUME Bad # {} PROVE FALSE
    BY <1>1
  <1>2. PICK m \in Bad : \A k \in Bad : m <= k
    BY LeastNat
  <1>3. PICK T \in SUBSET U, z \in U :
          /\ z \notin T
          /\ Cardinality(T) = m
          /\ SumFunctionOnSet(f, T \cup {z}) # f[z] + SumFunctionOnSet(f, T)
    BY <1>2
  <1> DEFINE y == Ch(T \cup {z})
  <1>4. /\ y \in T \cup {z}
        /\ SumFunctionOnSet(f, T \cup {z}) = f[y] + SumFunctionOnSet(f, (T \cup {z}) \ {y})
    BY SumDef DEF Ch
  <1>5. CASE y = z
    <2>1. (T \cup {z}) \ {y} = T
      BY <1>3, <1>5
    <2>2. QED
      BY <1>3, <1>4, <1>5, <2>1
  <1>6. CASE y # z
    <2> DEFINE R == T \ {y}
    <2>1. y \in T /\ R \in SUBSET U /\ y \in U \ R /\ z \in U \ R
      BY <1>3, <1>4, <1>6
    <2>2. Cardinality(R) = m - 1 /\ m \in Nat \ {0}
      BY <1>1, <1>3, <2>1, FS_RemoveElement, FS_EmptySet
    <2>3. ~(m - 1 \in Bad)
      <3>1. m - 1 \in Nat /\ ~(m <= m - 1)
        BY <2>2
      <3> HIDE DEF Bad
      <3>2. QED
        BY <1>2, <3>1
    <2>4. SumFunctionOnSet(f, R \cup {z}) = f[z] + SumFunctionOnSet(f, R)
      BY <1>1, <2>1, <2>2, <2>3
    <2>5. SumFunctionOnSet(f, R \cup {y}) = f[y] + SumFunctionOnSet(f, R)
      BY <1>1, <2>1, <2>2, <2>3
    <2>6. R \cup {y} = T /\ (T \cup {z}) \ {y} = R \cup {z}
      BY <1>6, <2>1
    <2>7. SumFunctionOnSet(f, R) \in Nat /\ f[y] \in Nat /\ f[z] \in Nat
      BY <2>1, SumType
    <2>8. /\ SumFunctionOnSet(f, (T \cup {z}) \ {y}) = SumFunctionOnSet(f, R \cup {z})
          /\ SumFunctionOnSet(f, T) = SumFunctionOnSet(f, R \cup {y})
      BY <2>6
    <2>9. QED
      BY <1>3, <1>4, <2>4, <2>5, <2>7, <2>8
  <1>7. QED
    BY <1>5, <1>6

\* A superset weighs at least as much, and exactly as much when the
\* elements it adds all weigh zero.
LEMMA SumMono ==
  ASSUME NEW U, IsFiniteSet(U), NEW f \in [U -> Nat],
         NEW S \in SUBSET U, NEW T \in SUBSET U, S \subseteq T
  PROVE  /\ SumFunctionOnSet(f, S) <= SumFunctionOnSet(f, T)
         /\ (\A x \in T \ S : f[x] = 0) => SumFunctionOnSet(f, S) = SumFunctionOnSet(f, T)
  <1> DEFINE P(A, B) == /\ SumFunctionOnSet(f, A) <= SumFunctionOnSet(f, B)
                        /\ (\A x \in B \ A : f[x] = 0) =>
                              SumFunctionOnSet(f, A) = SumFunctionOnSet(f, B)
             Bad == {n \in Nat : \E A \in SUBSET U, B \in SUBSET U :
                                   A \subseteq B /\ Cardinality(B) = n /\ ~P(A, B)}
  <1>1. \A t \in SUBSET U : IsFiniteSet(t) /\ Cardinality(t) \in Nat
    BY FS_Subset, FS_CardinalityType
  <1> SUFFICES ASSUME Bad # {} PROVE FALSE
    BY <1>1
  <1>2. PICK m \in Bad : \A k \in Bad : m <= k
    BY LeastNat
  <1>3. PICK A \in SUBSET U, B \in SUBSET U : A \subseteq B /\ Cardinality(B) = m /\ ~P(A, B)
    BY <1>2
  <1>4. A # B
    <2>1. SumFunctionOnSet(f, A) \in Nat
      BY SumType
    <2>2. QED
      BY <1>3, <2>1
  <1>5. PICK y \in B : y \notin A
    BY <1>3, <1>4
  <1> DEFINE R == B \ {y}
  <1>6. R \in SUBSET U /\ A \subseteq R /\ y \in U \ R /\ R \cup {y} = B
    BY <1>3, <1>5
  <1>7. Cardinality(R) = m - 1 /\ m \in Nat \ {0}
    BY <1>1, <1>3, <1>5, FS_RemoveElement, FS_EmptySet
  <1>8. P(A, R)
    BY <1>2, <1>6, <1>7
  <1>9. SumFunctionOnSet(f, B) = f[y] + SumFunctionOnSet(f, R)
    BY <1>6, SumAddOne
  <1>10. SumFunctionOnSet(f, A) \in Nat /\ SumFunctionOnSet(f, R) \in Nat /\ f[y] \in Nat
    BY <1>6, SumType
  <1>11. (\A x \in B \ A : f[x] = 0) => f[y] = 0 /\ \A x \in R \ A : f[x] = 0
    BY <1>5, <1>6
  <1>12. QED
    BY <1>3, <1>8, <1>9, <1>10, <1>11

=============================================================================
