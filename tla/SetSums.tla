------------------------------ MODULE SetSums -------------------------------
(***************************************************************************)
(* Lemmas about the sum of a function over a finite set, the meaning of    *)
(* MapThenSumSet. That operator is a recursive function over the subsets,  *)
(* which takes one element of a set after the other; here the recursion is *)
(* shown to have exactly one solution, and the sum not to depend on which  *)
(* element comes first. The inductions are over strict inclusion: a set    *)
(* of counterexamples would have a smallest one.                           *)
(***************************************************************************)
EXTENDS Integers, FiniteSetsExt, FiniteSetTheorems, WellFoundedInduction, TLAPS

\* The element that is taken first, and the recursion that g solves for the subsets of S.
Chosen(s) == CHOOSE x \in s : TRUE
Sums(g, f, S) ==
    g = [s \in SUBSET S |-> IF s = {} THEN 0 ELSE f[Chosen(s)] + g[s \ {Chosen(s)}]]

Total(f, S) == (CHOOSE g : Sums(g, f, S))[S]

LEMMA ChosenIn == \A s : s # {} => Chosen(s) \in s
BY DEF Chosen

\* Of some subsets of a finite set, one has none of the others within it.
LEMMA SmallestSubset ==
    ASSUME NEW S, IsFiniteSet(S), NEW B \in SUBSET SUBSET S, B # {}
    PROVE  \E s \in B : \A t \in B : t \subseteq s => t = s
<1> DEFINE R == StrictSubsetOrdering(S)
<1>1. IsWellFoundedOn(R, SUBSET S)
  BY FS_StrictSubsetOrderingWellFounded, FS_FiniteSubsetsOfFinite
<1>2. \E s \in B : \A t \in B : <<t, s>> \notin R
  <2> HIDE DEF R
  <2> QED
    BY <1>1, WFMin
<1> QED
  BY <1>2 DEF StrictSubsetOrdering

\* Two solutions agree where both are defined.
LEMMA SumsUnique ==
    ASSUME NEW S, IsFiniteSet(S), NEW f, NEW g, NEW h, NEW T \in SUBSET S,
           Sums(g, f, S), Sums(h, f, T)
    PROVE  \A s \in SUBSET T : g[s] = h[s]
<1> DEFINE B == {s \in SUBSET T : g[s] # h[s]}
<1> SUFFICES ASSUME B # {} PROVE FALSE
  OBVIOUS
<1>0. B \in SUBSET SUBSET S
  OBVIOUS
<1> HIDE DEF B
<1>1. PICK s \in B : \A t \in B : t \subseteq s => t = s
  BY <1>0, SmallestSubset
<1> USE DEF B
<1>2. /\ s \in SUBSET S /\ s \in SUBSET T
      /\ g[s] = IF s = {} THEN 0 ELSE f[Chosen(s)] + g[s \ {Chosen(s)}]
      /\ h[s] = IF s = {} THEN 0 ELSE f[Chosen(s)] + h[s \ {Chosen(s)}]
  BY DEF Sums
<1>3. CASE s = {}
  BY <1>2, <1>3
<1>4. CASE s # {}
  <2>1. s \ {Chosen(s)} \notin B
    BY <1>1, <1>4, ChosenIn
  <2> QED
    BY <1>2, <1>4, <2>1
<1> QED
  BY <1>3, <1>4

\* There is a solution: on a smallest set without one, those of its proper subsets make one.
LEMMA SumsExist ==
    ASSUME NEW S, IsFiniteSet(S), NEW f
    PROVE  \E g : Sums(g, f, S)
<1> DEFINE B == {s \in SUBSET S : ~\E g : Sums(g, f, s)}
<1> SUFFICES ASSUME B # {} PROVE FALSE
  OBVIOUS
<1>0. B \in SUBSET SUBSET S
  OBVIOUS
<1> HIDE DEF B
<1>1. PICK s \in B : \A t \in B : t \subseteq s => t = s
  BY <1>0, SmallestSubset
<1> USE DEF B
<1> DEFINE H(t) == CHOOSE g : Sums(g, f, t)
           G == [t \in SUBSET s |->
                    IF t = {} THEN 0
                    ELSE f[Chosen(t)] + H(t \ {Chosen(t)})[t \ {Chosen(t)}]]
<1>2. \A t \in SUBSET s : t # s => Sums(H(t), f, t)
  BY <1>1
<1>3. \A t \in SUBSET S : IsFiniteSet(t)
  BY FS_Subset
<1>4. ASSUME NEW t \in SUBSET s, t # s PROVE G[t] = H(t)[t]
  <2>1. Sums(H(t), f, t)
    BY <1>2, <1>4
  <2>2. H(t)[t] = IF t = {} THEN 0 ELSE f[Chosen(t)] + H(t)[t \ {Chosen(t)}]
    BY <2>1 DEF Sums
  <2>3. CASE t # {}
    <3>1. PICK u : u = t \ {Chosen(t)}
      OBVIOUS
    <3>2. u \in SUBSET t /\ u \in SUBSET s /\ u # s
      BY <2>3, <3>1, ChosenIn
    <3>3. Sums(H(u), f, u)
      BY <1>2, <3>2
    <3>4. IsFiniteSet(t)
      BY <1>3
    <3>5. H(t)[u] = H(u)[u]
      BY <2>1, <3>2, <3>3, <3>4, SumsUnique
    <3> QED
      BY <2>2, <2>3, <3>1, <3>5
  <2> QED
    BY <2>2, <2>3
<1>5. Sums(G, f, s)
  <2>1. \A t \in SUBSET s : t # {} => G[t] = f[Chosen(t)] + G[t \ {Chosen(t)}]
    BY <1>4, ChosenIn
  <2>2. G[{}] = 0 /\ G = [t \in SUBSET s |-> G[t]]
    OBVIOUS
  <2> HIDE DEF G
  <2> QED
    BY <2>1, <2>2 DEF Sums
<1> QED
  BY <1>5

\* Whatever solves the recursion ends in the total.
LEMMA SolutionIsTotal ==
    ASSUME NEW S, IsFiniteSet(S), NEW f, NEW g, Sums(g, f, S)
    PROVE  g[S] = Total(f, S)
<1>1. PICK h : h = CHOOSE k : Sums(k, f, S)
  OBVIOUS
<1>2. Sums(h, f, S)
  BY <1>1, SumsExist
<1> QED
  BY <1>1, <1>2, SumsUnique DEF Total

\* The total takes the chosen element first.
LEMMA TotalStep ==
    ASSUME NEW S, IsFiniteSet(S), NEW f
    PROVE  Total(f, S) = IF S = {} THEN 0 ELSE f[Chosen(S)] + Total(f, S \ {Chosen(S)})
<1>1. PICK U : U = S \ {Chosen(S)}
  OBVIOUS
<1>2. PICK g : Sums(g, f, S)
  BY SumsExist
<1>3. U \in SUBSET S /\ IsFiniteSet(U)
  BY <1>1, FS_Subset
<1>4. PICK h : Sums(h, f, U)
  BY <1>3, SumsExist
<1>5. g[U] = h[U]
  BY <1>2, <1>3, <1>4, SumsUnique
<1>6. g[S] = IF S = {} THEN 0 ELSE f[Chosen(S)] + g[U]
  BY <1>1, <1>2 DEF Sums
<1>7. g[S] = Total(f, S)
  BY <1>2, SolutionIsTotal
<1>8. h[U] = Total(f, U)
  BY <1>3, <1>4, SolutionIsTotal
<1> QED
  BY <1>1, <1>5, <1>6, <1>7, <1>8

LEMMA TotalEmpty == \A f : Total(f, {}) = 0
BY TotalStep, FS_EmptySet

\* The total only looks at the function's values on the set.
LEMMA TotalSame ==
    ASSUME NEW S, IsFiniteSet(S), NEW f, NEW h, \A x \in S : f[x] = h[x]
    PROVE  Total(f, S) = Total(h, S)
<1>1. PICK g : Sums(g, f, S)
  BY SumsExist
<1>2. Sums(g, h, S)
  BY <1>1, ChosenIn DEF Sums
<1> QED
  BY <1>1, <1>2, SolutionIsTotal

\* It is an integer, and any element may come first.
LEMMA TotalAny ==
    ASSUME NEW S, IsFiniteSet(S), NEW f, \A x \in S : f[x] \in Int
    PROVE  /\ Total(f, S) \in Int
           /\ \A x \in S : Total(f, S) = f[x] + Total(f, S \ {x})
<1> DEFINE Good(T) == /\ Total(f, T) \in Int
                      /\ \A x \in T : Total(f, T) = f[x] + Total(f, T \ {x})
           B == {T \in SUBSET S : ~Good(T)}
<1> SUFFICES ASSUME B # {} PROVE FALSE
  OBVIOUS
<1>0. B \in SUBSET SUBSET S
  OBVIOUS
<1> HIDE DEF B
<1>1. PICK T \in B : \A t \in B : t \subseteq T => t = T
  BY <1>0, SmallestSubset
<1> USE DEF B
<1>2. IsFiniteSet(T) /\ \A x \in T : Good(T \ {x})
  <2>1. \A x \in T : T \ {x} \in SUBSET S /\ T \ {x} \notin B
    BY <1>1
  <2> HIDE DEF Good
  <2> QED
    BY <1>1, <2>1, FS_Subset
<1>3. CASE T = {}
  BY <1>1, <1>3, TotalEmpty
<1>4. CASE T # {}
  <2>1. PICK y : y = Chosen(T)
    OBVIOUS
  <2>2. y \in T /\ f[y] \in Int /\ Total(f, T) = f[y] + Total(f, T \ {y})
    BY <1>2, <1>4, <2>1, ChosenIn, TotalStep
  <2>3. Total(f, T) \in Int
    <3>1. Total(f, T \ {y}) \in Int
      BY <1>2, <2>2
    <3> HIDE DEF Good, B
    <3> QED
      BY <2>2, <3>1
  <2>4. ASSUME NEW x \in T, x # y PROVE Total(f, T) = f[x] + Total(f, T \ {x})
    <3>1. PICK U : U = (T \ {x}) \ {y}
      OBVIOUS
    <3>2. Total(f, T \ {y}) = f[x] + Total(f, U)
      <4>1. U = (T \ {y}) \ {x}
        BY <3>1
      <4> QED
        BY <1>2, <2>2, <2>4, <4>1
    <3>3. Total(f, T \ {x}) = f[y] + Total(f, U)
      BY <1>2, <2>2, <2>4, <3>1
    <3>4. Total(f, U) \in Int
      <4>1. U \in SUBSET S /\ U \notin B
        BY <1>1, <2>4, <3>1
      <4> QED
        BY <4>1
    <3>5. f[x] \in Int
      OBVIOUS
    <3> HIDE DEF Good, B
    <3> QED
      BY <2>2, <3>2, <3>3, <3>4, <3>5
  <2> QED
    BY <1>1, <2>2, <2>3, <2>4
<1> QED
  BY <1>3, <1>4

\* One element more.
LEMMA TotalAdd ==
    ASSUME NEW S, IsFiniteSet(S), NEW e, e \notin S, NEW f, \A x \in S \cup {e} : f[x] \in Int
    PROVE  Total(f, S \cup {e}) = Total(f, S) + f[e]
<1>1. IsFiniteSet(S \cup {e}) /\ (S \cup {e}) \ {e} = S
  BY FS_AddElement
<1>2. Total(f, S \cup {e}) = f[e] + Total(f, S)
  BY <1>1, TotalAny
<1>3. Total(f, S) \in Int /\ f[e] \in Int
  BY TotalAny
<1> QED
  BY <1>2, <1>3

\* Where nothing is negative, more elements do not make the total less.
LEMMA TotalIncludes ==
    ASSUME NEW S, IsFiniteSet(S), NEW f, \A x \in S : f[x] \in Nat
    PROVE  \A T \in SUBSET S : Total(f, T) <= Total(f, S)
<1> DEFINE B == {T \in SUBSET S : ~\A U \in SUBSET T : Total(f, U) <= Total(f, T)}
<1> SUFFICES ASSUME B # {} PROVE FALSE
  OBVIOUS
<1>0. B \in SUBSET SUBSET S
  OBVIOUS
<1> HIDE DEF B
<1>1. PICK T \in B : \A t \in B : t \subseteq T => t = T
  BY <1>0, SmallestSubset
<1> USE DEF B
<1>2. PICK U \in SUBSET T : ~(Total(f, U) <= Total(f, T))
  BY <1>1
<1>3. \A t \in SUBSET S : IsFiniteSet(t) /\ Total(f, t) \in Int
  BY FS_Subset, TotalAny
<1>4. PICK x \in T : x \notin U
  BY <1>2, <1>3
<1>5. PICK V : V = T \ {x}
  OBVIOUS
<1>6. Total(f, T) = f[x] + Total(f, V) /\ Total(f, U) <= Total(f, V)
  <2>1. IsFiniteSet(T) /\ \A y \in T : f[y] \in Int
    BY <1>3
  <2>2. V \in SUBSET S /\ V \notin B /\ U \in SUBSET V
    BY <1>1, <1>4, <1>5
  <2> QED
    BY <1>5, <2>1, <2>2, TotalAny
<1>7. Total(f, T) \in Int /\ Total(f, U) \in Int /\ Total(f, V) \in Int /\ f[x] \in Nat
  BY <1>3, <1>5
<1> HIDE DEF B
<1> QED
  BY <1>2, <1>6, <1>7

=============================================================================
