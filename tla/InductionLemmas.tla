-------------------------- MODULE InductionLemmas --------------------------
(***************************************************************************)
(* Induction as the provers can use it: a set of natural numbers that is   *)
(* not empty has a least element.  With it, what the sums of the models    *)
(* compute for every finite set: zero for none, and what is left of the    *)
(* sum when one element is taken out.                                      *)
(***************************************************************************)
EXTENDS Integers, Functions, FiniteSetTheorems, WellFoundedInduction, TLAPS

LEMMA LeastElement ==
  ASSUME NEW T \in SUBSET Nat, T # {}
  PROVE  \E x \in T : \A y \in T : x <= y
  <1> DEFINE R == OpToRel(<, Nat)
  <1>1. IsWellFoundedOn(R, Nat)
    BY NatLessThanWellFounded
  <1> HIDE DEF R
  <1>2. PICK x \in T : \A y \in T : ~ (<<y, x>> \in R)
    BY <1>1, WFMin
  <1>3. \A y \in T : y \in Nat /\ (y < x => <<y, x>> \in R)
    BY DEF R, OpToRel
  <1>4. x \in Nat /\ \A y \in T : ~ (y < x)
    BY <1>2, <1>3
  <1>5. \A y \in T : x <= y
    BY <1>3, <1>4
  <1> QED
    BY <1>5

\* Of the sets with a property one has the fewest elements.
LEMMA SmallestSet ==
  ASSUME NEW F, F # {}, \A s \in F : IsFiniteSet(s)
  PROVE  \E s \in F : \A t \in F : Cardinality(s) <= Cardinality(t)
  <1>1. {Cardinality(s) : s \in F} \in SUBSET Nat
    BY FS_CardinalityType
  <1>2. PICK n \in {Cardinality(s) : s \in F} :
          \A m \in {Cardinality(s) : s \in F} : n <= m
    BY <1>1, LeastElement
  <1> QED
    BY <1>2

-----------------------------------------------------------------------------
(* Sums *)

Pick(s) == CHOOSE x \in s : TRUE

\* g is the sum of f over the subsets of S, as SumFunctionOnSet computes it.
Summing(f, S, g) ==
  g = [s \in SUBSET S |-> IF s = {} THEN 0
                          ELSE f[Pick(s)] + g[s \ {Pick(s)}]]

LEMMA SumIsChosen ==
  ASSUME NEW f, NEW S
  PROVE  SumFunctionOnSet(f, S) = (CHOOSE g : Summing(f, S, g))[S]
  BY DEF SumFunctionOnSet, FoldFunctionOnSet, MapThenFoldSet, Summing, Pick

LEMMA PickedIsIn ==
  ASSUME NEW s, s # {}
  PROVE  Pick(s) \in s
  BY DEF Pick

LEMMA PickedOut ==
  ASSUME NEW s, IsFiniteSet(s), s # {}, NEW x \in s
  PROVE  /\ IsFiniteSet(s \ {x})
         /\ Cardinality(s \ {x}) < Cardinality(s)
  <1>1. /\ IsFiniteSet(s \ {x})
        /\ Cardinality(s \ {x}) = Cardinality(s) - 1
    BY FS_RemoveElement
  <1>2. Cardinality(s) \in Nat
    BY FS_CardinalityType
  <1> QED
    BY <1>1, <1>2

\* There is one way to sum over the subsets of a finite set.
LEMMA SummingAgrees ==
  ASSUME NEW f, NEW S, IsFiniteSet(S), NEW U \in SUBSET S, NEW g, NEW h,
         Summing(f, U, g), Summing(f, S, h)
  PROVE  \A s \in SUBSET U : g[s] = h[s]
  <1> DEFINE F == {s \in SUBSET U : g[s] # h[s]}
  <1> SUFFICES ASSUME F # {} PROVE FALSE
    OBVIOUS
  <1>1. \A s \in SUBSET S : IsFiniteSet(s)
    BY FS_Subset
  <1>2. PICK s \in F : \A t \in F : Cardinality(s) <= Cardinality(t)
    BY <1>1, SmallestSet
  <1>3. /\ g[s] = IF s = {} THEN 0 ELSE f[Pick(s)] + g[s \ {Pick(s)}]
        /\ h[s] = IF s = {} THEN 0 ELSE f[Pick(s)] + h[s \ {Pick(s)}]
    BY DEF Summing
  <1>4. s # {}
    BY <1>3
  <1> DEFINE t == s \ {Pick(s)}
  <1>5. /\ IsFiniteSet(t) /\ Cardinality(t) < Cardinality(s)
        /\ Cardinality(s) \in Nat /\ Cardinality(t) \in Nat
    BY <1>1, <1>4, PickedIsIn, PickedOut, FS_CardinalityType
  <1>6. t \notin F
    BY <1>2, <1>5
  <1>7. g[t] = h[t]
    BY <1>6
  <1> QED
    BY <1>3, <1>4, <1>7

LEMMA SummingExists ==
  ASSUME NEW f, NEW S, IsFiniteSet(S)
  PROVE  \E g : Summing(f, S, g)
  <1> DEFINE F == {s \in SUBSET S : ~ \E g : Summing(f, s, g)}
             H(u) == CHOOSE g : Summing(f, u, g)
  <1> SUFFICES ASSUME F # {} PROVE FALSE
    OBVIOUS
  <1>1. \A s \in SUBSET S : IsFiniteSet(s)
    BY FS_Subset
  <1>2. PICK T \in F : \A t \in F : Cardinality(T) <= Cardinality(t)
    BY <1>1, SmallestSet
  <1>3. ASSUME NEW u \in SUBSET T, u # T
        PROVE  Summing(f, u, H(u))
    <2>1. PICK x \in T : x \notin u
      <3>1. ~ (T \subseteq u)
        BY <1>3
      <3> QED
        BY <3>1
    <2>2. /\ IsFiniteSet(T \ {x}) /\ Cardinality(T \ {x}) < Cardinality(T)
          /\ u \subseteq T \ {x}
      BY <1>1, <2>1, PickedOut
    <2>3. /\ Cardinality(u) <= Cardinality(T \ {x})
          /\ Cardinality(u) \in Nat /\ Cardinality(T) \in Nat
          /\ Cardinality(T \ {x}) \in Nat
      BY <1>1, <2>2, FS_Subset, FS_CardinalityType
    <2>4. u \notin F
      BY <1>2, <2>2, <2>3
    <2>5. \E g : Summing(f, u, g)
      BY <2>4
    <2> QED
      BY <2>5
  <1> DEFINE Sum(u) == H(u)[u]
             G == [s \in SUBSET T |->
                     IF s = {} THEN 0 ELSE f[Pick(s)] + Sum(s \ {Pick(s)})]
  <1>4. ASSUME NEW u \in SUBSET T, u # T
        PROVE  G[u] = Sum(u)
    <2>1. Summing(f, u, H(u))
      BY <1>3, <1>4
    <2>2. H(u)[u] = IF u = {} THEN 0 ELSE f[Pick(u)] + H(u)[u \ {Pick(u)}]
      BY <2>1 DEF Summing
    <2>3. CASE u = {}
      BY <2>2, <2>3
    <2>4. CASE u # {}
      <3> DEFINE v == u \ {Pick(u)}
      <3>1. v \in SUBSET u /\ v \in SUBSET T /\ v # T
        BY <1>4
      <3>2. Summing(f, v, H(v))
        BY <1>3, <3>1
      <3>3. IsFiniteSet(u)
        BY <1>1
      <3> HIDE DEF H
      <3>4. H(v)[v] = H(u)[v]
        BY <2>1, <3>1, <3>2, <3>3, SummingAgrees
      <3> QED
        BY <2>2, <2>4, <3>4
    <2> QED
      BY <2>3, <2>4
  <1>5. ASSUME NEW s \in SUBSET T, s # {}
        PROVE  G[s] = f[Pick(s)] + G[s \ {Pick(s)}]
    <2>1. Pick(s) \in s
      BY <1>5, PickedIsIn
    <2>2. s \ {Pick(s)} \in SUBSET T /\ s \ {Pick(s)} # T
      BY <2>1
    <2>3. G[s \ {Pick(s)}] = Sum(s \ {Pick(s)})
      BY <1>4, <2>2
    <2> QED
      BY <1>5, <2>3
  <1>6. Summing(f, T, G)
    <2>1. G[{}] = 0 /\ G = [s \in SUBSET T |-> G[s]]
      OBVIOUS
    <2> HIDE DEF G, Sum
    <2>2. \A s \in SUBSET T :
            G[s] = IF s = {} THEN 0 ELSE f[Pick(s)] + G[s \ {Pick(s)}]
      BY <1>5, <2>1
    <2>3. G = [s \in SUBSET T |-> G[s]]
      BY <2>1
    <2> QED
      BY <2>2, <2>3 DEF Summing
  <1> QED
    BY <1>2, <1>6

\* The empty sum, and the sum with the chosen element taken out.
LEMMA SumUnfolds ==
  ASSUME NEW f, NEW S, IsFiniteSet(S)
  PROVE  SumFunctionOnSet(f, S) =
           IF S = {} THEN 0
           ELSE f[Pick(S)] + SumFunctionOnSet(f, S \ {Pick(S)})
  <1> DEFINE H(u) == CHOOSE g : Summing(f, u, g)
             T == S \ {Pick(S)}
  <1>1. Summing(f, S, H(S)) /\ SumFunctionOnSet(f, S) = H(S)[S]
    BY SummingExists, SumIsChosen
  <1>2. IsFiniteSet(T) /\ T \in SUBSET S /\ T \in SUBSET T
    BY FS_Subset
  <1>3. Summing(f, T, H(T)) /\ SumFunctionOnSet(f, T) = H(T)[T]
    BY <1>2, SummingExists, SumIsChosen
  <1> HIDE DEF H
  <1>4. H(T)[T] = H(S)[T]
    <2> HIDE DEF T
    <2>1. ASSUME NEW g, NEW h, Summing(f, T, g), Summing(f, S, h)
          PROVE  g[T] = h[T]
      BY <1>2, <2>1, SummingAgrees
    <2> QED
      BY <1>1, <1>3, <2>1
  <1>5. H(S)[S] = IF S = {} THEN 0 ELSE f[Pick(S)] + H(S)[T]
    BY <1>1 DEF Summing
  <1> HIDE DEF T
  <1> QED
    BY <1>1, <1>3, <1>4, <1>5 DEF T

LEMMA SumOfNone ==
  ASSUME NEW f
  PROVE  SumFunctionOnSet(f, {}) = 0
  BY SumUnfolds, FS_EmptySet

\* A sum of numbers is a number.
LEMMA SumIsInt ==
  ASSUME NEW f, NEW S, IsFiniteSet(S), \A x \in S : f[x] \in Int
  PROVE  SumFunctionOnSet(f, S) \in Int
  <1> DEFINE F == {s \in SUBSET S : SumFunctionOnSet(f, s) \notin Int}
  <1> SUFFICES ASSUME F # {} PROVE FALSE
    OBVIOUS
  <1>1. \A s \in SUBSET S : IsFiniteSet(s)
    BY FS_Subset
  <1>2. PICK s \in F : \A t \in F : Cardinality(s) <= Cardinality(t)
    BY <1>1, SmallestSet
  <1>3. SumFunctionOnSet(f, s) =
          IF s = {} THEN 0
          ELSE f[Pick(s)] + SumFunctionOnSet(f, s \ {Pick(s)})
    BY <1>1, SumUnfolds
  <1>4. s # {}
    BY <1>3
  <1> DEFINE t == s \ {Pick(s)}
  <1>5. /\ Cardinality(t) < Cardinality(s)
        /\ Cardinality(s) \in Nat /\ Cardinality(t) \in Nat
        /\ f[Pick(s)] \in Int /\ t \in SUBSET S
    BY <1>1, <1>4, PickedIsIn, PickedOut, FS_CardinalityType
  <1>6. SumFunctionOnSet(f, t) \in Int
    BY <1>2, <1>5
  <1> QED
    BY <1>3, <1>4, <1>5, <1>6

\* Any element may be taken out of a sum first.
LEMMA SumTakesOut ==
  ASSUME NEW f, NEW S, IsFiniteSet(S), \A x \in S : f[x] \in Int,
         NEW x \in S
  PROVE  SumFunctionOnSet(f, S) = f[x] + SumFunctionOnSet(f, S \ {x})
  <1> DEFINE Sum(s) == SumFunctionOnSet(f, s)
             Holds(s) == \A y \in s : Sum(s) = f[y] + Sum(s \ {y})
             F == {s \in SUBSET S : ~ Holds(s)}
  <1> HIDE DEF Sum
  <1>1. \A s \in SUBSET S : IsFiniteSet(s)
    BY FS_Subset
  <1>2. \A s \in SUBSET S : Sum(s) \in Int
    BY <1>1, SumIsInt DEF Sum
  <1> SUFFICES ASSUME F # {} PROVE FALSE
    BY DEF Sum
  <1>3. PICK s \in F : \A t \in F : Cardinality(s) <= Cardinality(t)
    BY <1>1, SmallestSet
  <1>4. PICK y \in s : Sum(s) # f[y] + Sum(s \ {y})
    OBVIOUS
  <1> DEFINE p == Pick(s)
  <1>5. p \in s /\ p \in S /\ y \in S
    BY <1>4, PickedIsIn
  <1>6. Sum(s) = f[p] + Sum(s \ {p})
    BY <1>1, <1>4, SumUnfolds DEF Sum
  <1>7. y # p
    BY <1>4, <1>6
  <1> HIDE DEF p
  <1>8. ASSUME NEW z \in s
        PROVE  Holds(s \ {z})
    <2>1. /\ Cardinality(s \ {z}) < Cardinality(s)
          /\ Cardinality(s) \in Nat /\ Cardinality(s \ {z}) \in Nat
      BY <1>1, PickedOut, FS_CardinalityType
    <2>2. s \ {z} \notin F
      BY <1>3, <2>1
    <2> QED
      BY <2>2
  <1>9. Sum(s \ {p}) = f[y] + Sum((s \ {p}) \ {y})
    BY <1>5, <1>7, <1>8
  <1>10. Sum(s \ {y}) = f[p] + Sum((s \ {y}) \ {p})
    BY <1>4, <1>5, <1>7, <1>8
  <1>11. (s \ {p}) \ {y} = (s \ {y}) \ {p}
    OBVIOUS
  <1>12. /\ f[p] \in Int /\ f[y] \in Int
         /\ Sum((s \ {p}) \ {y}) \in Int
    BY <1>2, <1>5
  <1> DEFINE rest == Sum((s \ {p}) \ {y})
  <1>13. Sum(s \ {y}) = f[p] + rest
    BY <1>10, <1>11
  <1>14. Sum(s) = f[p] + (f[y] + rest)
    BY <1>6, <1>9
  <1> HIDE DEF rest
  <1>15. f[p] + (f[y] + rest) = f[y] + (f[p] + rest)
    BY <1>12 DEF rest
  <1> QED
    BY <1>4, <1>13, <1>14, <1>15

\* A sum only depends on the values that are summed.
LEMMA SumOfSame ==
  ASSUME NEW f, NEW g, NEW S, IsFiniteSet(S), \A x \in S : f[x] = g[x]
  PROVE  SumFunctionOnSet(f, S) = SumFunctionOnSet(g, S)
  <1> DEFINE F == {s \in SUBSET S :
                     SumFunctionOnSet(f, s) # SumFunctionOnSet(g, s)}
  <1> SUFFICES ASSUME F # {} PROVE FALSE
    OBVIOUS
  <1>1. \A s \in SUBSET S : IsFiniteSet(s)
    BY FS_Subset
  <1>2. PICK s \in F : \A t \in F : Cardinality(s) <= Cardinality(t)
    BY <1>1, SmallestSet
  <1>3. \A h : SumFunctionOnSet(h, s) =
                 IF s = {} THEN 0
                 ELSE h[Pick(s)] + SumFunctionOnSet(h, s \ {Pick(s)})
    BY <1>1, SumUnfolds
  <1>4. s # {}
    BY <1>3
  <1> DEFINE t == s \ {Pick(s)}
  <1>5. /\ Cardinality(t) < Cardinality(s)
        /\ Cardinality(s) \in Nat /\ Cardinality(t) \in Nat
        /\ f[Pick(s)] = g[Pick(s)] /\ t \in SUBSET S
    BY <1>1, <1>4, PickedIsIn, PickedOut, FS_CardinalityType
  <1>6. SumFunctionOnSet(f, t) = SumFunctionOnSet(g, t)
    BY <1>2, <1>5
  <1> QED
    BY <1>3, <1>4, <1>5, <1>6

\* Zeros sum to zero.
LEMMA SumOfZeros ==
  ASSUME NEW S, IsFiniteSet(S)
  PROVE  SumFunctionOnSet([x \in S |-> 0], S) = 0
  <1> DEFINE f == [x \in S |-> 0]
             F == {s \in SUBSET S : SumFunctionOnSet(f, s) # 0}
  <1> SUFFICES ASSUME F # {} PROVE FALSE
    OBVIOUS
  <1>1. \A s \in SUBSET S : IsFiniteSet(s)
    BY FS_Subset
  <1>2. PICK s \in F : \A t \in F : Cardinality(s) <= Cardinality(t)
    BY <1>1, SmallestSet
  <1>3. SumFunctionOnSet(f, s) =
          IF s = {} THEN 0
          ELSE f[Pick(s)] + SumFunctionOnSet(f, s \ {Pick(s)})
    BY <1>1, SumUnfolds
  <1>4. s # {}
    BY <1>3
  <1> DEFINE t == s \ {Pick(s)}
  <1>5. /\ Cardinality(t) < Cardinality(s)
        /\ Cardinality(s) \in Nat /\ Cardinality(t) \in Nat
        /\ f[Pick(s)] = 0 /\ t \in SUBSET S
    BY <1>1, <1>4, PickedIsIn, PickedOut, FS_CardinalityType
  <1>6. SumFunctionOnSet(f, t) = 0
    BY <1>2, <1>5
  <1> QED
    BY <1>3, <1>4, <1>5, <1>6

\* Numbers that are not negative sum to one.
LEMMA SumIsNat ==
  ASSUME NEW f, NEW S, IsFiniteSet(S), \A x \in S : f[x] \in Nat
  PROVE  SumFunctionOnSet(f, S) \in Nat
  <1> DEFINE F == {s \in SUBSET S : SumFunctionOnSet(f, s) \notin Nat}
  <1> SUFFICES ASSUME F # {} PROVE FALSE
    OBVIOUS
  <1>1. \A s \in SUBSET S : IsFiniteSet(s)
    BY FS_Subset
  <1>2. PICK s \in F : \A t \in F : Cardinality(s) <= Cardinality(t)
    BY <1>1, SmallestSet
  <1>3. SumFunctionOnSet(f, s) =
          IF s = {} THEN 0
          ELSE f[Pick(s)] + SumFunctionOnSet(f, s \ {Pick(s)})
    BY <1>1, SumUnfolds
  <1>4. s # {}
    BY <1>3
  <1> DEFINE t == s \ {Pick(s)}
  <1>5. /\ Cardinality(t) < Cardinality(s)
        /\ Cardinality(s) \in Nat /\ Cardinality(t) \in Nat
        /\ f[Pick(s)] \in Nat /\ t \in SUBSET S
    BY <1>1, <1>4, PickedIsIn, PickedOut, FS_CardinalityType
  <1>6. SumFunctionOnSet(f, t) \in Nat
    BY <1>2, <1>5
  <1> QED
    BY <1>3, <1>4, <1>5, <1>6

\* Summing the parts into which h divides a set sums the set.
LEMMA SumOfParts ==
  ASSUME NEW S, IsFiniteSet(S), NEW T, IsFiniteSet(T),
         NEW f, \A x \in S : f[x] \in Int,
         NEW h, \A x \in S : h[x] \in T
  PROVE  SumFunctionOnSet(f, S) =
           SumFunctionOnSet(
             [t \in T |-> SumFunctionOnSet(f, {x \in S : h[x] = t})], T)
  <1> DEFINE Sum(s) == SumFunctionOnSet(f, s)
             Part(s, t) == {x \in s : h[x] = t}
             Parts(s) == [t \in T |-> Sum(Part(s, t))]
             F == {s \in SUBSET S : Sum(s) # SumFunctionOnSet(Parts(s), T)}
  <1> SUFFICES ASSUME F # {} PROVE FALSE
    OBVIOUS
  <1>1. \A s \in SUBSET S : IsFiniteSet(s)
    BY FS_Subset
  <1>2. PICK s \in F : \A t \in F : Cardinality(s) <= Cardinality(t)
    BY <1>1, SmallestSet
  <1>3. Sum({}) = 0
    BY SumOfNone
  <1>4. \A u \in SUBSET S : Sum(u) \in Int
    <2>1. ASSUME NEW u \in SUBSET S
          PROVE  Sum(u) \in Int
      BY <1>1, <2>1, SumIsInt
    <2> QED
      BY <2>1
  <1>5. ASSUME NEW u \in SUBSET S, NEW x \in u
        PROVE  Sum(u) = f[x] + Sum(u \ {x})
    BY <1>1, <1>5, SumTakesOut
  <1> HIDE DEF Sum
  <1>6. ASSUME NEW u \in SUBSET S
        PROVE  /\ Parts(u) \in [T -> Int]
               /\ SumFunctionOnSet(Parts(u), T) \in Int
    <2>1. Parts(u) \in [T -> Int]
      BY <1>4
    <2> QED
      BY <2>1, SumIsInt
  <1>7. s # {}
    <2>1. ASSUME s = {} PROVE FALSE
      <3>1. Parts(s) = [t \in T |-> 0]
        BY <1>3, <2>1
      <3>2. SumFunctionOnSet([t \in T |-> 0], T) = 0
        BY SumOfZeros
      <3> QED
        BY <1>2, <1>3, <2>1, <3>1, <3>2
    <2> QED
      BY <2>1
  <1>8. PICK x \in s : TRUE
    BY <1>7
  <1> DEFINE r == s \ {x}
             k == h[x]
  <1>9. /\ Cardinality(r) < Cardinality(s)
        /\ Cardinality(s) \in Nat /\ Cardinality(r) \in Nat
        /\ r \in SUBSET S /\ s \in SUBSET S /\ x \in S /\ k \in T
        /\ f[x] \in Int
    BY <1>1, <1>8, PickedOut, FS_CardinalityType
  <1>10. Sum(r) = SumFunctionOnSet(Parts(r), T)
    BY <1>2, <1>9
  <1>11. Sum(s) = f[x] + Sum(r)
    BY <1>5, <1>8, <1>9
  <1>12. Parts(s)[k] = f[x] + Parts(r)[k]
    <2>1. Part(s, k) \in SUBSET S /\ x \in Part(s, k)
      BY <1>8, <1>9
    <2>2. Part(s, k) \ {x} = Part(r, k)
      OBVIOUS
    <2> QED
      BY <1>5, <1>9, <2>1, <2>2
  <1>13. \A t \in T \ {k} : Parts(s)[t] = Parts(r)[t]
    <2>1. \A t \in T \ {k} : Part(s, t) = Part(r, t)
      OBVIOUS
    <2> QED
      BY <2>1
  <1> DEFINE all == Parts(s)
             but == Parts(r)
  <1>14. /\ all \in [T -> Int] /\ but \in [T -> Int]
         /\ all[k] = f[x] + but[k]
         /\ \A t \in T \ {k} : all[t] = but[t]
         /\ SumFunctionOnSet(all, T) # f[x] + SumFunctionOnSet(but, T)
    <2>1. all \in [T -> Int] /\ but \in [T -> Int]
      BY <1>6, <1>9
    <2>2. SumFunctionOnSet(all, T) # f[x] + SumFunctionOnSet(but, T)
      BY <1>2, <1>10, <1>11
    <2> QED
      BY <1>12, <1>13, <2>1, <2>2
  <1> HIDE DEF all, but, k, r
  <1>15. IsFiniteSet(T \ {k})
    BY FS_Difference
  <1>16. SumFunctionOnSet(all, T) = all[k] + SumFunctionOnSet(all, T \ {k})
    BY <1>9, <1>14, SumTakesOut
  <1>17. SumFunctionOnSet(but, T) = but[k] + SumFunctionOnSet(but, T \ {k})
    BY <1>9, <1>14, SumTakesOut
  <1>18. SumFunctionOnSet(all, T \ {k}) = SumFunctionOnSet(but, T \ {k})
    BY <1>14, <1>15, SumOfSame
  <1>19. /\ SumFunctionOnSet(but, T \ {k}) \in Int
         /\ but[k] \in Int
    BY <1>9, <1>14, <1>15, SumIsInt
  <1> QED
    BY <1>9, <1>14, <1>16, <1>17, <1>18, <1>19
=============================================================================
