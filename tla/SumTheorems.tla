---------------------------- MODULE SumTheorems ----------------------------
(***************************************************************************)
(* Sums over finite sets, as the models write them: SumFunctionOnSet(f, S) *)
(* of the community modules.  Its recursion is over a chosen element, so   *)
(* that it adds up every element in any order is proved first, by taking a *)
(* smallest counterexample.                                                *)
(***************************************************************************)
EXTENDS FiniteSets, FiniteSetsExt, FiniteSetTheorems, WellFoundedInduction, TLAPS

(* ------------------------------ induction ------------------------------ *)

LEMMA LeastNatural ==
    ASSUME NEW T, T \subseteq Nat, T # {}
    PROVE  \E n \in T : \A m \in T : n <= m
  <1>1. \E R : IsWellFoundedOn(R, Nat) /\ \A m, n \in Nat : m < n => <<m, n>> \in R
    <2>1. \A m, n \in Nat : m < n => <<m, n>> \in OpToRel(<, Nat)
      BY DEF OpToRel
    <2> QED  BY <2>1, NatLessThanWellFounded, Zenon
  <1>2. PICK R : /\ IsWellFoundedOn(R, Nat)
                 /\ \A m, n \in Nat : m < n => <<m, n>> \in R
    BY <1>1
  <1>3. PICK n \in T : \A m \in T : <<m, n>> \notin R
    BY <1>2, WFMin
  <1>4. ASSUME NEW m \in T PROVE n <= m
    <2>1. m \in Nat /\ n \in Nat
      OBVIOUS
    <2>2. ~(m < n)
      BY <1>2, <1>3, <2>1
    <2> QED  BY <2>1, <2>2
  <1> QED  BY <1>4

(* The subsets of a finite set are finite and counted. *)
LEMMA SubsetCount ==
    ASSUME NEW S, IsFiniteSet(S), NEW T \in SUBSET S
    PROVE  /\ IsFiniteSet(T)
           /\ Cardinality(T) \in Nat
           /\ Cardinality(T) <= Cardinality(S)
           /\ (Cardinality(T) = 0) <=> (T = {})
           /\ \A x \in T : Cardinality(T \ {x}) = Cardinality(T) - 1
  <1>1. IsFiniteSet(T) /\ Cardinality(T) <= Cardinality(S)
    BY FS_Subset
  <1>2. Cardinality(T) \in Nat /\ ((Cardinality(T) = 0) <=> (T = {}))
    BY <1>1, FS_CardinalityType, FS_EmptySet
  <1>3. \A x \in T : Cardinality(T \ {x}) = Cardinality(T) - 1
    BY <1>1, FS_RemoveElement
  <1> QED  BY <1>1, <1>2, <1>3

(* A family of subsets of a finite set has a smallest member. *)
LEMMA SmallestSubset ==
    ASSUME NEW S, IsFiniteSet(S), NEW B \in SUBSET SUBSET S, B # {}
    PROVE  \E T \in B : \A U \in B : Cardinality(T) <= Cardinality(U)
  <1> DEFINE C == {Cardinality(T) : T \in B}
  <1>1. C \subseteq Nat /\ C # {}
    BY SubsetCount
  <1>2. PICK n \in C : \A m \in C : n <= m
    BY <1>1, LeastNatural
  <1> QED  BY <1>2

(* What holds of {} and is kept when an element is added holds of S; `good' *)
(* is the set of the subsets of which it holds.                            *)
LEMMA SubsetInduction ==
    ASSUME NEW S, IsFiniteSet(S), NEW good, {} \in good,
           \A T \in SUBSET S : \A x \in S \ T : T \in good => T \cup {x} \in good
    PROVE  S \in good
  <1> DEFINE bad == (SUBSET S) \ good
  <1> SUFFICES ASSUME bad # {} PROVE FALSE
    OBVIOUS
  <1>1. PICK T \in bad : \A U \in bad : Cardinality(T) <= Cardinality(U)
    BY SmallestSubset
  <1>2. PICK x : x \in T
    BY <1>1
  <1>3. T \ {x} \in bad
    <2>1. (T \ {x}) \cup {x} = T
      BY <1>2
    <2> QED  BY <1>1, <1>2, <2>1
  <1>4. Cardinality(T) <= Cardinality(T) - 1 /\ Cardinality(T) \in Nat
    BY <1>1, <1>2, <1>3, SubsetCount
  <1> QED  BY <1>4

(* ---------------------------- the recursion ---------------------------- *)

Pick(s) == CHOOSE x \in s : TRUE

LEMMA PickMember == \A s : s # {} => Pick(s) \in s
  BY DEF Pick

(* The equation by which SumFunctionOnSet(f, S) defines its iterator. *)
SumStep(f, g, s) == IF s = {} THEN 0 ELSE f[Pick(s)] + g[s \ {Pick(s)}]

Iterates(g, f, S) == g = [s \in SUBSET S |-> SumStep(f, g, s)]

(* The equation has a solution: one that is right up to a size can be       *)
(* continued by one more element.                                          *)
LEMMA IteratorExists ==
    ASSUME NEW S, IsFiniteSet(S), NEW f
    PROVE  \E g : Iterates(g, f, S)
  <1> DEFINE Upto(n) == \E g : \A s \in SUBSET S :
                           Cardinality(s) <= n => g[s] = SumStep(f, g, s)
             bad == {n \in Nat : ~Upto(n)}
  <1>1. \A s \in SUBSET S : s # {} => Pick(s) \in s /\ s \ {Pick(s)} \in SUBSET S
    BY PickMember
  <1>2. Upto(0)
    <2> DEFINE zero == [s \in SUBSET S |-> 0]
    <2>1. ASSUME NEW s \in SUBSET S, Cardinality(s) <= 0
          PROVE  zero[s] = SumStep(f, zero, s)
      <3>1. s = {}
        BY <2>1, SubsetCount
      <3> QED  BY <3>1 DEF SumStep
    <2> HIDE DEF zero
    <2> QED  BY <2>1
  <1>3. ASSUME NEW n \in Nat, Upto(n)
        PROVE  Upto(n + 1)
    <2>1. PICK g : \A s \in SUBSET S : Cardinality(s) <= n => g[s] = SumStep(f, g, s)
      BY <1>3
    <2> DEFINE h == [s \in SUBSET S |-> IF Cardinality(s) <= n THEN g[s] ELSE SumStep(f, g, s)]
    <2>2. ASSUME NEW s \in SUBSET S, Cardinality(s) <= n + 1
          PROVE  h[s] = SumStep(f, h, s)
      <3>1. h[s] = SumStep(f, g, s)
        BY <2>1
      <3>2. s # {} => h[s \ {Pick(s)}] = g[s \ {Pick(s)}]
        BY <1>1, <2>2, SubsetCount
      <3> QED  BY <3>1, <3>2 DEF SumStep
    <2> HIDE DEF h
    <2> QED  BY <2>2
  <1> HIDE DEF Upto
  <1>4. bad = {}
    <2> SUFFICES ASSUME bad # {} PROVE FALSE
      OBVIOUS
    <2>1. PICK n \in bad : \A m \in bad : n <= m
      BY LeastNatural
    <2>2. n - 1 \in Nat /\ n - 1 \notin bad
      BY <1>2, <2>1
    <2> QED  BY <1>3, <2>1, <2>2
  <1>5. Upto(Cardinality(S))
    BY <1>4, FS_CardinalityType
  <1>6. PICK g : \A s \in SUBSET S :
                    Cardinality(s) <= Cardinality(S) => g[s] = SumStep(f, g, s)
    BY <1>5 DEF Upto
  <1> DEFINE h == [s \in SUBSET S |-> g[s]]
  <1>7. ASSUME NEW s \in SUBSET S PROVE h[s] = SumStep(f, h, s)
    BY <1>1, <1>6, SubsetCount DEF SumStep
  <1>8. h = [s \in SUBSET S |-> h[s]]
    OBVIOUS
  <1> HIDE DEF h
  <1>9. Iterates(h, f, S)
    BY <1>7, <1>8 DEF Iterates
  <1> QED  BY <1>9

LEMMA SumIsIterated ==
    ASSUME NEW S, IsFiniteSet(S), NEW f
    PROVE  \E g : Iterates(g, f, S) /\ SumFunctionOnSet(f, S) = g[S]
  <1> DEFINE g == CHOOSE g : Iterates(g, f, S)
  <1>1. Iterates(g, f, S)
    BY IteratorExists, Zenon
  <1>2. SumFunctionOnSet(f, S) = g[S]
    BY DEF SumFunctionOnSet, FoldFunctionOnSet, MapThenFoldSet, Iterates, SumStep, Pick
  <1> QED  BY <1>1, <1>2

(* Integers on S. *)
IntOn(f, S) == \A x \in S : f[x] \in Int

NatOn(f, S) == \A x \in S : f[x] \in Nat

LEMMA IteratorInt ==
    ASSUME NEW S, IsFiniteSet(S), NEW f, IntOn(f, S), NEW g, Iterates(g, f, S),
           NEW T \in SUBSET S
    PROVE  g[T] \in Int
  <1> DEFINE bad == {U \in SUBSET S : g[U] \notin Int}
  <1>1. \A U \in SUBSET S : g[U] = SumStep(f, g, U)
    BY DEF Iterates
  <1> SUFFICES ASSUME bad # {} PROVE FALSE
    OBVIOUS
  <1>2. PICK U \in bad : \A V \in bad : Cardinality(U) <= Cardinality(V)
    BY SmallestSubset
  <1>3. U # {}
    <2>1. g[{}] = SumStep(f, g, {})
      BY <1>1
    <2>2. SumStep(f, g, {}) = 0
      BY DEF SumStep
    <2>3. g[{}] \in Int
      BY <2>1, <2>2
    <2> QED  BY <1>2, <2>3
  <1>4. Pick(U) \in U /\ g[U] = f[Pick(U)] + g[U \ {Pick(U)}]
    BY <1>1, <1>2, <1>3, PickMember DEF SumStep
  <1>5. U \ {Pick(U)} \notin bad
    BY <1>2, <1>4, SubsetCount
  <1>6. g[U \ {Pick(U)}] \in Int /\ f[Pick(U)] \in Int
    BY <1>2, <1>4, <1>5 DEF IntOn
  <1> QED  BY <1>2, <1>4, <1>6

(* Any element may be added last. *)
LEMMA IteratorAnyOrder ==
    ASSUME NEW S, IsFiniteSet(S), NEW f, IntOn(f, S), NEW g, Iterates(g, f, S),
           NEW T \in SUBSET S, NEW y \in T
    PROVE  g[T] = f[y] + g[T \ {y}]
  <1> DEFINE bad == {U \in SUBSET S : \E x \in U : g[U] # f[x] + g[U \ {x}]}
  <1>1. \A U \in SUBSET S : U # {} => /\ Pick(U) \in U
                                      /\ g[U] = f[Pick(U)] + g[U \ {Pick(U)}]
    BY PickMember DEF Iterates, SumStep
  <1>2. \A U \in SUBSET S : g[U] \in Int
    BY IteratorInt
  <1> SUFFICES ASSUME bad # {} PROVE FALSE
    OBVIOUS
  <1>3. PICK U \in bad : \A V \in bad : Cardinality(U) <= Cardinality(V)
    BY SmallestSubset
  <1>4. PICK x \in U : g[U] # f[x] + g[U \ {x}]
    BY <1>3
  <1> DEFINE c == Pick(U)
             W == U \ {c, x}
  <1>5. c \in U /\ g[U] = f[c] + g[U \ {c}]
    BY <1>1, <1>3, <1>4
  <1>6. c # x
    BY <1>4, <1>5
  <1> HIDE DEF c
  <1>7. U \ {c} \notin bad /\ U \ {x} \notin bad
    <2>1. ASSUME NEW z \in U PROVE U \ {z} \notin bad
      <3>1. U \in SUBSET S
        BY <1>3
      <3>2. Cardinality(U) \in Nat /\ Cardinality(U \ {z}) = Cardinality(U) - 1
        BY <3>1, SubsetCount
      <3>3. ~(Cardinality(U) <= Cardinality(U \ {z}))
        BY <3>2
      <3> QED  BY <1>3, <3>3
    <2> QED  BY <1>4, <1>5, <2>1
  <1>8. g[U \ {c}] = f[x] + g[W]
    <2>1. x \in U \ {c} /\ (U \ {c}) \ {x} = W
      BY <1>6
    <2> QED  BY <1>3, <1>7, <2>1
  <1>9. g[U \ {x}] = f[c] + g[W]
    <2>1. c \in U \ {x} /\ (U \ {x}) \ {c} = W
      BY <1>5, <1>6
    <2> QED  BY <1>3, <1>7, <2>1
  <1>10. f[c] \in Int /\ f[x] \in Int /\ g[W] \in Int
    BY <1>2, <1>3, <1>5 DEF IntOn
  <1> QED  BY <1>4, <1>5, <1>8, <1>9, <1>10

(* The iterator does not depend on the set it is defined over. *)
LEMMA IteratorsAgree ==
    ASSUME NEW S, IsFiniteSet(S), NEW f, NEW g, Iterates(g, f, S),
           NEW T \in SUBSET S, NEW h, Iterates(h, f, T)
    PROVE  g[T] = h[T]
  <1> DEFINE bad == {U \in SUBSET T : g[U] # h[U]}
  <1>1. \A U \in SUBSET T : g[U] = SumStep(f, g, U) /\ h[U] = SumStep(f, h, U)
    BY DEF Iterates
  <1>2. IsFiniteSet(T)
    BY SubsetCount
  <1> SUFFICES ASSUME bad # {} PROVE FALSE
    OBVIOUS
  <1>3. PICK U \in bad : \A V \in bad : Cardinality(U) <= Cardinality(V)
    BY <1>2, SmallestSubset
  <1>4. U # {} => Pick(U) \in U /\ U \ {Pick(U)} \notin bad
    BY <1>2, <1>3, PickMember, SubsetCount
  <1> QED  BY <1>1, <1>3, <1>4 DEF SumStep

(* -------------------------------- sums --------------------------------- *)

LEMMA SumEmpty == \A f : SumFunctionOnSet(f, {}) = 0
  <1> SUFFICES ASSUME NEW f PROVE SumFunctionOnSet(f, {}) = 0
    OBVIOUS
  <1>1. PICK g : Iterates(g, f, {}) /\ SumFunctionOnSet(f, {}) = g[{}]
    BY SumIsIterated, FS_EmptySet
  <1> QED  BY <1>1 DEF Iterates, SumStep

LEMMA SumInt ==
    ASSUME NEW S, IsFiniteSet(S), NEW f, IntOn(f, S)
    PROVE  SumFunctionOnSet(f, S) \in Int
  <1>1. PICK g : Iterates(g, f, S) /\ SumFunctionOnSet(f, S) = g[S]
    BY SumIsIterated
  <1> QED  BY <1>1, IteratorInt

(* One element taken out. *)
LEMMA SumRemove ==
    ASSUME NEW S, IsFiniteSet(S), NEW f, IntOn(f, S), NEW x \in S
    PROVE  SumFunctionOnSet(f, S) = f[x] + SumFunctionOnSet(f, S \ {x})
  <1>1. PICK g : Iterates(g, f, S) /\ SumFunctionOnSet(f, S) = g[S]
    BY SumIsIterated
  <1>2. IsFiniteSet(S \ {x})
    BY SubsetCount
  <1>3. PICK h : Iterates(h, f, S \ {x}) /\ SumFunctionOnSet(f, S \ {x}) = h[S \ {x}]
    BY <1>2, SumIsIterated
  <1>4. g[S \ {x}] = h[S \ {x}]
    BY <1>1, <1>3, IteratorsAgree
  <1>5. g[S] = f[x] + g[S \ {x}]
    BY <1>1, IteratorAnyOrder
  <1> QED  BY <1>1, <1>3, <1>4, <1>5

(* One element added. *)
LEMMA SumAdd ==
    ASSUME NEW T, IsFiniteSet(T), NEW x, x \notin T, NEW f, IntOn(f, T \cup {x})
    PROVE  SumFunctionOnSet(f, T \cup {x}) = f[x] + SumFunctionOnSet(f, T)
  <1>1. IsFiniteSet(T \cup {x})
    BY FS_AddElement
  <1>2. (T \cup {x}) \ {x} = T
    OBVIOUS
  <1> QED  BY <1>1, <1>2, SumRemove

(* The induction all the facts below use: over the subsets of S, an element *)
(* at a time.                                                              *)
LEMMA SumNat ==
    ASSUME NEW S, IsFiniteSet(S), NEW f, NatOn(f, S)
    PROVE  SumFunctionOnSet(f, S) \in Nat
  <1> DEFINE good == {T \in SUBSET S : SumFunctionOnSet(f, T) \in Nat}
  <1>1. {} \in good
    BY SumEmpty
  <1>2. ASSUME NEW T \in SUBSET S, NEW x \in S \ T, T \in good
        PROVE  T \cup {x} \in good
    <2>1. IsFiniteSet(T) /\ IntOn(f, T \cup {x}) /\ f[x] \in Nat
      BY SubsetCount DEF NatOn, IntOn
    <2>2. SumFunctionOnSet(f, T \cup {x}) = f[x] + SumFunctionOnSet(f, T)
      BY <2>1, SumAdd
    <2> QED  BY <1>2, <2>1, <2>2
  <1> HIDE DEF good
  <1>3. S \in good
    BY <1>1, <1>2, SubsetInduction
  <1> QED  BY <1>3 DEF good

(* Equal values have equal sums. *)
LEMMA SumCongruence ==
    ASSUME NEW S, IsFiniteSet(S), NEW f, NEW g, IntOn(f, S), \A x \in S : f[x] = g[x]
    PROVE  SumFunctionOnSet(f, S) = SumFunctionOnSet(g, S)
  <1> DEFINE good == {T \in SUBSET S : SumFunctionOnSet(f, T) = SumFunctionOnSet(g, T)}
  <1>1. {} \in good
    BY SumEmpty
  <1>2. ASSUME NEW T \in SUBSET S, NEW x \in S \ T, T \in good
        PROVE  T \cup {x} \in good
    <2>1. IsFiniteSet(T) /\ IntOn(f, T \cup {x}) /\ IntOn(g, T \cup {x}) /\ f[x] = g[x]
      BY SubsetCount DEF IntOn
    <2>2. /\ SumFunctionOnSet(f, T \cup {x}) = f[x] + SumFunctionOnSet(f, T)
          /\ SumFunctionOnSet(g, T \cup {x}) = g[x] + SumFunctionOnSet(g, T)
      BY <2>1, SumAdd
    <2> QED  BY <1>2, <2>1, <2>2
  <1> HIDE DEF good
  <1>3. S \in good
    BY <1>1, <1>2, SubsetInduction
  <1> QED  BY <1>3 DEF good

(* Larger values have a larger sum. *)
LEMMA SumMonotone ==
    ASSUME NEW S, IsFiniteSet(S), NEW f, NEW g, IntOn(f, S), IntOn(g, S),
           \A x \in S : f[x] <= g[x]
    PROVE  SumFunctionOnSet(f, S) <= SumFunctionOnSet(g, S)
  <1> DEFINE good == {T \in SUBSET S : SumFunctionOnSet(f, T) <= SumFunctionOnSet(g, T)}
  <1>1. {} \in good
    BY SumEmpty
  <1>2. ASSUME NEW T \in SUBSET S, NEW x \in S \ T, T \in good
        PROVE  T \cup {x} \in good
    <2>1. /\ IsFiniteSet(T) /\ IntOn(f, T \cup {x}) /\ IntOn(g, T \cup {x})
          /\ f[x] <= g[x] /\ f[x] \in Int /\ g[x] \in Int
      BY SubsetCount DEF IntOn
    <2>2. /\ SumFunctionOnSet(f, T \cup {x}) = f[x] + SumFunctionOnSet(f, T)
          /\ SumFunctionOnSet(g, T \cup {x}) = g[x] + SumFunctionOnSet(g, T)
      BY <2>1, SumAdd
    <2>3. SumFunctionOnSet(f, T) \in Int /\ SumFunctionOnSet(g, T) \in Int
      BY <2>1, SumInt DEF IntOn
    <2> QED  BY <1>2, <2>1, <2>2, <2>3
  <1> HIDE DEF good
  <1>3. S \in good
    BY <1>1, <1>2, SubsetInduction
  <1> QED  BY <1>3 DEF good

(* A part and the rest make the whole. *)
LEMMA SumSplit ==
    ASSUME NEW S, IsFiniteSet(S), NEW R \in SUBSET S, NEW f, IntOn(f, S)
    PROVE  SumFunctionOnSet(f, S) = SumFunctionOnSet(f, R) + SumFunctionOnSet(f, S \ R)
  <1> DEFINE Parts(T) == SumFunctionOnSet(f, T \cap R) + SumFunctionOnSet(f, T \ R)
             good == {T \in SUBSET S : SumFunctionOnSet(f, T) = Parts(T)}
  <1>1. {} \in good
    <2>1. {} \cap R = {} /\ {} \ R = {}
      OBVIOUS
    <2>2. SumFunctionOnSet(f, {}) = 0
      BY SumEmpty
    <2> QED  BY <2>1, <2>2
  <1>2. ASSUME NEW T \in SUBSET S, NEW x \in S \ T, T \in good
        PROVE  T \cup {x} \in good
    <2>1. /\ IsFiniteSet(T) /\ IsFiniteSet(T \cap R) /\ IsFiniteSet(T \ R)
          /\ IntOn(f, T \cup {x}) /\ f[x] \in Int
      BY SubsetCount DEF IntOn
    <2>2. SumFunctionOnSet(f, T \cup {x}) = f[x] + SumFunctionOnSet(f, T)
      BY <2>1, SumAdd
    <2>3. SumFunctionOnSet(f, T \cap R) \in Int /\ SumFunctionOnSet(f, T \ R) \in Int
      BY <2>1, SumInt DEF IntOn
    <2>4. CASE x \in R
      <3>1. (T \cup {x}) \cap R = (T \cap R) \cup {x} /\ (T \cup {x}) \ R = T \ R
        BY <2>4
      <3>2. SumFunctionOnSet(f, (T \cap R) \cup {x}) = f[x] + SumFunctionOnSet(f, T \cap R)
        BY <2>1, SumAdd DEF IntOn
      <3>3. /\ SumFunctionOnSet(f, (T \cup {x}) \cap R) = f[x] + SumFunctionOnSet(f, T \cap R)
            /\ SumFunctionOnSet(f, (T \cup {x}) \ R) = SumFunctionOnSet(f, T \ R)
        BY <3>1, <3>2, Zenon
      <3>4. Parts(T \cup {x}) = f[x] + Parts(T)
        BY <2>1, <2>3, <3>3
      <3> HIDE DEF Parts
      <3> QED  BY <1>2, <2>2, <3>4
    <2>5. CASE x \notin R
      <3>1. (T \cup {x}) \cap R = T \cap R /\ (T \cup {x}) \ R = (T \ R) \cup {x}
        BY <2>5
      <3>2. SumFunctionOnSet(f, (T \ R) \cup {x}) = f[x] + SumFunctionOnSet(f, T \ R)
        BY <2>1, SumAdd DEF IntOn
      <3>3. /\ SumFunctionOnSet(f, (T \cup {x}) \cap R) = SumFunctionOnSet(f, T \cap R)
            /\ SumFunctionOnSet(f, (T \cup {x}) \ R) = f[x] + SumFunctionOnSet(f, T \ R)
        BY <3>1, <3>2, Zenon
      <3>4. Parts(T \cup {x}) = f[x] + Parts(T)
        BY <2>1, <2>3, <3>3
      <3> HIDE DEF Parts
      <3> QED  BY <1>2, <2>2, <3>4
    <2> QED  BY <2>4, <2>5
  <1>3. S \cap R = R
    OBVIOUS
  <1> HIDE DEF good
  <1>4. S \in good
    BY <1>1, <1>2, SubsetInduction
  <1> QED  BY <1>3, <1>4 DEF good

(* A part of a sum of naturals is no more than the whole. *)
LEMMA SumOfPart ==
    ASSUME NEW S, IsFiniteSet(S), NEW R \in SUBSET S, NEW f, NatOn(f, S)
    PROVE  SumFunctionOnSet(f, R) <= SumFunctionOnSet(f, S)
  <1>1. IsFiniteSet(R) /\ IsFiniteSet(S \ R) /\ IntOn(f, S) /\ NatOn(f, R) /\ NatOn(f, S \ R)
    BY SubsetCount DEF IntOn, NatOn
  <1>2. SumFunctionOnSet(f, R) \in Nat /\ SumFunctionOnSet(f, S \ R) \in Nat
    BY <1>1, SumNat
  <1> QED  BY <1>1, <1>2, SumSplit

(* Nor is one of its members. *)
LEMMA SumAtLeastMember ==
    ASSUME NEW S, IsFiniteSet(S), NEW f, NatOn(f, S), NEW x \in S
    PROVE  f[x] <= SumFunctionOnSet(f, S)
  <1>1. IsFiniteSet(S \ {x}) /\ IntOn(f, S) /\ NatOn(f, S \ {x}) /\ f[x] \in Nat
    BY SubsetCount DEF IntOn, NatOn
  <1> QED  BY <1>1, SumRemove, SumNat

(* A sum of ones or more counts. *)
LEMMA SumCounts ==
    ASSUME NEW S, IsFiniteSet(S), NEW f, NatOn(f, S), \A x \in S : f[x] > 0
    PROVE  Cardinality(S) <= SumFunctionOnSet(f, S)
  <1> DEFINE good == {T \in SUBSET S : Cardinality(T) <= SumFunctionOnSet(f, T)}
  <1>1. {} \in good
    BY SumEmpty, FS_EmptySet
  <1>2. ASSUME NEW T \in SUBSET S, NEW x \in S \ T, T \in good
        PROVE  T \cup {x} \in good
    <2>1. /\ IsFiniteSet(T) /\ Cardinality(T) \in Nat /\ IntOn(f, T \cup {x}) /\ NatOn(f, T)
          /\ f[x] \in Nat /\ f[x] > 0
      BY SubsetCount DEF IntOn, NatOn
    <2>2. SumFunctionOnSet(f, T \cup {x}) = f[x] + SumFunctionOnSet(f, T)
      BY <2>1, SumAdd
    <2>3. Cardinality(T \cup {x}) = Cardinality(T) + 1
      BY <2>1, FS_AddElement
    <2>4. SumFunctionOnSet(f, T) \in Nat
      BY <2>1, SumNat
    <2> QED  BY <1>2, <2>1, <2>2, <2>3, <2>4
  <1> HIDE DEF good
  <1>3. S \in good
    BY <1>1, <1>2, SubsetInduction
  <1> QED  BY <1>3 DEF good

(* A common factor. *)
LEMMA SumScaled ==
    ASSUME NEW S, IsFiniteSet(S), NEW f, IntOn(f, S), NEW c \in Int
    PROVE  SumFunctionOnSet([x \in S |-> c * f[x]], S) = c * SumFunctionOnSet(f, S)
  <1> DEFINE cf == [x \in S |-> c * f[x]]
             good == {T \in SUBSET S : SumFunctionOnSet(cf, T) = c * SumFunctionOnSet(f, T)}
  <1>0. IntOn(cf, S) /\ \A x \in S : cf[x] = c * f[x]
    BY DEF IntOn
  <1> HIDE DEF cf
  <1>1. {} \in good
    BY SumEmpty
  <1>2. ASSUME NEW T \in SUBSET S, NEW x \in S \ T, T \in good
        PROVE  T \cup {x} \in good
    <2>1. IsFiniteSet(T) /\ IntOn(f, T \cup {x}) /\ IntOn(cf, T \cup {x}) /\ IntOn(f, T)
      BY <1>0, SubsetCount DEF IntOn
    <2>2. /\ SumFunctionOnSet(f, T \cup {x}) = f[x] + SumFunctionOnSet(f, T)
          /\ SumFunctionOnSet(cf, T \cup {x}) = cf[x] + SumFunctionOnSet(cf, T)
      BY <2>1, SumAdd
    <2>3. f[x] \in Int /\ SumFunctionOnSet(f, T) \in Int
      BY <2>1, SumInt DEF IntOn
    <2>4. \A a, b \in Int : c * (a + b) = c * a + c * b
      OBVIOUS
    <2>5. c * (f[x] + SumFunctionOnSet(f, T)) = c * f[x] + c * SumFunctionOnSet(f, T)
      BY <2>3, <2>4
    <2> QED  BY <1>0, <1>2, <2>2, <2>5
  <1> HIDE DEF good
  <1>3. S \in good
    BY <1>1, <1>2, SubsetInduction
  <1> QED  BY <1>3 DEF good, cf

(* A sum over the values of a one-to-one function, taken over its arguments. *)
LEMMA SumRenamed ==
    ASSUME NEW S, IsFiniteSet(S), NEW m, \A x, y \in S : m[x] = m[y] => x = y,
           NEW f, \A x \in S : f[m[x]] \in Int
    PROVE  /\ IsFiniteSet({m[x] : x \in S})
           /\ SumFunctionOnSet(f, {m[x] : x \in S}) =
                 SumFunctionOnSet([x \in S |-> f[m[x]]], S)
  <1> DEFINE fm == [x \in S |-> f[m[x]]]
             Image(T) == {m[x] : x \in T}
             good == {T \in SUBSET S : /\ IsFiniteSet(Image(T))
                                       /\ SumFunctionOnSet(f, Image(T)) = SumFunctionOnSet(fm, T)}
  <1>0. IntOn(fm, S) /\ \A x \in S : fm[x] = f[m[x]]
    BY DEF IntOn
  <1> HIDE DEF fm
  <1>1. {} \in good
    <2>1. Image({}) = {}
      OBVIOUS
    <2> QED  BY <2>1, SumEmpty, FS_EmptySet
  <1>2. ASSUME NEW T \in SUBSET S, NEW x \in S \ T, T \in good
        PROVE  T \cup {x} \in good
    <2>1. /\ Image(T \cup {x}) = Image(T) \cup {m[x]} /\ m[x] \notin Image(T)
      OBVIOUS
    <2>2. IntOn(f, Image(T) \cup {m[x]})
      BY DEF IntOn
    <2>3. IsFiniteSet(T) /\ IntOn(fm, T \cup {x})
      BY <1>0, SubsetCount DEF IntOn
    <2> HIDE DEF Image
    <2>4. IsFiniteSet(Image(T)) /\ SumFunctionOnSet(f, Image(T)) = SumFunctionOnSet(fm, T)
      BY <1>2
    <2>5. IsFiniteSet(Image(T) \cup {m[x]})
      BY <2>4, FS_AddElement
    <2>6. SumFunctionOnSet(f, Image(T) \cup {m[x]}) = f[m[x]] + SumFunctionOnSet(f, Image(T))
      BY <2>1, <2>2, <2>4, SumAdd
    <2>7. SumFunctionOnSet(fm, T \cup {x}) = fm[x] + SumFunctionOnSet(fm, T)
      BY <2>3, SumAdd
    <2> QED  BY <1>0, <2>1, <2>4, <2>5, <2>6, <2>7
  <1> HIDE DEF good
  <1>3. S \in good
    BY <1>1, <1>2, SubsetInduction
  <1> QED  BY <1>3 DEF good, fm
=============================================================================
