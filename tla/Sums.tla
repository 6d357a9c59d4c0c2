--------------------------------- MODULE Sums ---------------------------------
(***************************************************************************)
(* Facts about SumFunction, the sum of the values of a function with a     *)
(* finite domain.  The community modules define it by recursion over       *)
(* subsets, each time taking out an element that CHOOSE picks: here it is  *)
(* shown that the recursion defines something and that any element may be  *)
(* taken out first.  Instead of by induction, each fact is proved by       *)
(* looking at a minimal subset for which it fails.                         *)
(***************************************************************************)
EXTENDS Functions, Naturals, FiniteSetTheorems, WellFoundedInduction, TLAPS

Picked(s) == CHOOSE x \in s : TRUE

(* F maps each subset of S to the sum of g over it.                        *)
Solves(F, g, S) ==
    F = [s \in SUBSET S |-> IF s = {} THEN 0 ELSE g[Picked(s)] + F[s \ {Picked(s)}]]

LEMMA SumUnfolded ==
    ASSUME NEW g
    PROVE  SumFunction(g) = (CHOOSE F : Solves(F, g, DOMAIN g))[DOMAIN g]
BY DEF SumFunction, SumFunctionOnSet, FoldFunctionOnSet, MapThenFoldSet, Solves, Picked

(* A set of subsets of a finite set has a minimal element.                 *)
LEMMA MinimalSubset ==
    ASSUME NEW S, IsFiniteSet(S), NEW T \in SUBSET SUBSET S, T # {}
    PROVE  \E t \in T : \A s \in SUBSET t : s # t => s \notin T
<1> DEFINE R == StrictSubsetOrdering(S)
<1>1. IsWellFoundedOn(R, SUBSET S)
  BY FS_StrictSubsetOrderingWellFounded, FS_FiniteSubsetsOfFinite
<1> HIDE DEF R
<1>2. PICK t \in T : \A s \in T : ~(<<s, t>> \in R)
  BY <1>1, WFMin
<1> QED
  BY <1>2 DEF R, StrictSubsetOrdering

LEMMA PickedIsIn == ASSUME NEW s, s # {} PROVE Picked(s) \in s
BY DEF Picked

LEMMA SolutionAtNone ==
    ASSUME NEW S, NEW g, NEW F, Solves(F, g, S)
    PROVE  F[{}] = 0
BY DEF Solves

LEMMA SolutionAtSome ==
    ASSUME NEW S, NEW g, NEW F, Solves(F, g, S), NEW s \in SUBSET S, s # {}
    PROVE  F[s] = g[Picked(s)] + F[s \ {Picked(s)}]
BY DEF Solves

(* The values of a solution are numbers.                                   *)
LEMMA SolutionTyped ==
    ASSUME NEW S, IsFiniteSet(S), NEW g \in [S -> Nat], NEW F, Solves(F, g, S)
    PROVE  F \in [SUBSET S -> Nat]
<1> DEFINE T == {s \in SUBSET S : F[s] \notin Nat}
<1>1. T \in SUBSET SUBSET S
  OBVIOUS
<1>2. ASSUME T # {} PROVE FALSE
  <2>1. PICK t \in T : \A s \in SUBSET t : s # t => s \notin T
    <3> HIDE DEF T
    <3> QED  BY <1>1, <1>2, MinimalSubset
  <2>2. t # {}
    BY SolutionAtNone
  <2>3. /\ Picked(t) \in S /\ t \ {Picked(t)} \in SUBSET t /\ t \ {Picked(t)} # t
        /\ t \ {Picked(t)} \in SUBSET S
    BY <2>2, PickedIsIn
  <2>4. F[t \ {Picked(t)}] \in Nat
    BY <2>1, <2>3
  <2>5. g[Picked(t)] \in Nat
    BY <2>3
  <2>6. F[t] = g[Picked(t)] + F[t \ {Picked(t)}]
    <3>1. t \in SUBSET S
      OBVIOUS
    <3> HIDE DEF T
    <3> QED  BY <2>2, <3>1, SolutionAtSome
  <2>7. F[t] \in Nat
    BY <2>4, <2>5, <2>6
  <2> QED
    BY <2>7
<1> QED
  BY <1>2 DEF Solves

(* Solutions agree on the subsets that they have in common.                *)
LEMMA SolutionsAgree ==
    ASSUME NEW S, NEW V, IsFiniteSet(S), NEW g, NEW h, NEW F, NEW G,
           Solves(F, g, S), Solves(G, h, V), \A x \in S \cap V : g[x] = h[x],
           NEW u \in SUBSET (S \cap V)
    PROVE  F[u] = G[u]
<1> DEFINE T == {s \in SUBSET (S \cap V) : F[s] # G[s]}
<1>1. T \in SUBSET SUBSET S
  OBVIOUS
<1>2. ASSUME T # {} PROVE FALSE
  <2>1. PICK t \in T : \A s \in SUBSET t : s # t => s \notin T
    <3> HIDE DEF T
    <3> QED  BY <1>1, <1>2, MinimalSubset
  <2>2. t # {}
    BY SolutionAtNone
  <2>3. /\ Picked(t) \in S \cap V /\ t \ {Picked(t)} \in SUBSET t /\ t \ {Picked(t)} # t
        /\ t \ {Picked(t)} \in SUBSET (S \cap V)
    BY <2>2, PickedIsIn
  <2>4. F[t \ {Picked(t)}] = G[t \ {Picked(t)}]
    BY <2>1, <2>3
  <2>5. /\ F[t] = g[Picked(t)] + F[t \ {Picked(t)}]
        /\ G[t] = h[Picked(t)] + G[t \ {Picked(t)}]
    <3>1. t \in SUBSET S /\ t \in SUBSET V
      OBVIOUS
    <3> HIDE DEF T
    <3> QED
      BY <2>2, <3>1, SolutionAtSome
  <2> QED
    BY <2>3, <2>4, <2>5
<1> QED
  BY <1>2

LEMMA SolutionsOfOneAgree ==
    ASSUME NEW g, NEW S, NEW V, NEW F, NEW G, IsFiniteSet(S), Solves(F, g, S), Solves(G, g, V),
           NEW u, u \subseteq S, u \subseteq V
    PROVE  F[u] = G[u]
<1>1. u \in SUBSET (S \cap V) /\ \A x \in S \cap V : g[x] = g[x]
  OBVIOUS
<1> QED
  BY <1>1, SolutionsAgree

(* There is a solution: for a minimal t without one, put together those of *)
(* the sets that lack an element of t.                                     *)
LEMMA SolutionExists ==
    ASSUME NEW S, IsFiniteSet(S), NEW g
    PROVE  \E F : Solves(F, g, S)
<1> DEFINE T == {s \in SUBSET S : ~ \E F : Solves(F, g, s)}
<1>1. T \in SUBSET SUBSET S
  OBVIOUS
<1>2. ASSUME T # {} PROVE FALSE
  <2>1. PICK t \in T : \A s \in SUBSET t : s # t => s \notin T
    <3> HIDE DEF T
    <3> QED  BY <1>1, <1>2, MinimalSubset
  <2> DEFINE sol(x) == CHOOSE F : Solves(F, g, t \ {x})
             other(s) == CHOOSE x \in t : x \notin s
             below(s) == IF s = {} THEN 0 ELSE sol(other(s))[s]
             F == [s \in SUBSET t |->
                      IF s # t \/ t = {} THEN below(s)
                      ELSE g[Picked(t)] + below(t \ {Picked(t)})]
  <2>2. ASSUME NEW x \in t PROVE Solves(sol(x), g, t \ {x})
    <3>1. t \ {x} \in SUBSET t /\ t \ {x} # t /\ t \ {x} \in SUBSET S
      OBVIOUS
    <3>2. \E G : Solves(G, g, t \ {x})
      BY <2>1, <3>1
    <3> QED
      BY <3>2
  <2>3. ASSUME NEW s \in SUBSET t, s # t
        PROVE  /\ other(s) \in t /\ other(s) \notin s
               /\ s \in SUBSET (t \ {other(s)})
    BY <2>3
  <2> HIDE DEF sol, other
  <2>4. ASSUME NEW s \in SUBSET t, s # t, s # {}
        PROVE  below(s) = g[Picked(s)] + below(s \ {Picked(s)})
    <3> DEFINE r == s \ {Picked(s)}
    <3>1. r \in SUBSET t /\ r # t /\ Picked(s) \in s
      BY <2>4, PickedIsIn
    <3>0. /\ Solves(sol(other(s)), g, t \ {other(s)})
          /\ s \in SUBSET (t \ {other(s)}) /\ r \in SUBSET (t \ {other(s)})
      BY <2>2, <2>3, <2>4
    <3>2. sol(other(s))[s] = g[Picked(s)] + sol(other(s))[r]
      <4> DEFINE G == sol(other(s))
                 V == t \ {other(s)}
      <4>1. Solves(G, g, V) /\ s \in SUBSET V /\ s # {}
        BY <2>4, <3>0
      <4> HIDE DEF T, F, below, G, V
      <4>2. G[s] = g[Picked(s)] + G[s \ {Picked(s)}]
        BY <4>1, SolutionAtSome
      <4> QED  BY <4>2 DEF G
    <3>3. CASE r = {}
      <4>1. sol(other(s))[r] = 0
        BY <3>0, <3>3, SolutionAtNone
      <4> QED
        BY <2>4, <3>2, <3>3, <4>1
    <3>4. CASE r # {}
      <4>1. r \subseteq t \ {other(s)} /\ r \subseteq t \ {other(r)}
        BY <2>3, <2>4, <3>1
      <4>2. IsFiniteSet(t \ {other(s)})
        BY FS_Subset
      <4>3. /\ Solves(sol(other(s)), g, t \ {other(s)})
            /\ Solves(sol(other(r)), g, t \ {other(r)})
        BY <2>2, <2>3, <2>4, <3>1
      <4>4. sol(other(s))[r] = sol(other(r))[r]
        <5> HIDE DEF r
        <5> QED  BY <4>1, <4>2, <4>3, SolutionsOfOneAgree
      <4> QED
        BY <2>4, <3>2, <3>4, <4>4
    <3> QED
      BY <3>3, <3>4
  <2>5. ASSUME NEW s \in SUBSET t
        PROVE  F[s] = IF s = {} THEN 0 ELSE g[Picked(s)] + F[s \ {Picked(s)}]
    <3>1. CASE s = {}
      BY <3>1
    <3>2. CASE s # {}
      <4>1. /\ Picked(s) \in s /\ s \ {Picked(s)} \in SUBSET t /\ s \ {Picked(s)} # t
        BY <3>2, PickedIsIn
      <4>2. F[s \ {Picked(s)}] = below(s \ {Picked(s)})
        BY <4>1
      <4>3. CASE s # t
        BY <2>4, <3>2, <4>2, <4>3
      <4>4. CASE s = t
        BY <3>2, <4>2, <4>4
      <4> QED
        BY <4>3, <4>4
    <3> QED
      BY <3>1, <3>2
  <2>6. Solves(F, g, t)
    <3>1. F = [s \in SUBSET t |-> F[s]]
      OBVIOUS
    <3> HIDE DEF F
    <3> QED
      BY <2>5, <3>1 DEF Solves
  <2> QED
    BY <2>6
<1> QED
  BY <1>2

(* An element may be taken out of a sum, and not only the one picked.      *)
LEMMA TakeOut ==
    ASSUME NEW S, IsFiniteSet(S), NEW g \in [S -> Nat], NEW F, Solves(F, g, S),
           NEW u \in SUBSET S, NEW x \in u
    PROVE  F[u] = g[x] + F[u \ {x}]
<1>0. F \in [SUBSET S -> Nat]
  BY SolutionTyped
<1> DEFINE T == {s \in SUBSET S : \E y \in s : F[s] # g[y] + F[s \ {y}]}
<1>1. T \in SUBSET SUBSET S
  OBVIOUS
<1>2. ASSUME T # {} PROVE FALSE
  <2>1. PICK t \in T : \A s \in SUBSET t : s # t => s \notin T
    <3> HIDE DEF T
    <3> QED  BY <1>1, <1>2, MinimalSubset
  <2>2. PICK y \in t : F[t] # g[y] + F[t \ {y}]
    OBVIOUS
  <2> DEFINE p == Picked(t)
  <2>3. p \in t /\ F[t] = g[p] + F[t \ {p}]
    <3>1. t \in SUBSET S /\ t # {}
      BY <2>2
    <3> HIDE DEF T
    <3> QED  BY <3>1, PickedIsIn, SolutionAtSome
  <2> HIDE DEF p
  <2>4. p # y
    BY <2>2, <2>3
  <2>5. F[t \ {p}] = g[y] + F[(t \ {p}) \ {y}]
    <3>1. t \ {p} \notin T
      BY <2>1, <2>3
    <3> QED
      BY <2>4, <3>1
  <2>6. F[t \ {y}] = g[p] + F[(t \ {y}) \ {p}]
    <3>1. t \ {y} \notin T
      BY <2>1
    <3> QED
      BY <2>3, <2>4, <3>1
  <2>7. (t \ {p}) \ {y} = (t \ {y}) \ {p}
    OBVIOUS
  <2>8. g[p] \in Nat /\ g[y] \in Nat /\ F[(t \ {y}) \ {p}] \in Nat
    BY <1>0, <2>3
  <2> QED
    <3>1. \A a, b, c \in Nat : a + (b + c) = b + (a + c)
      OBVIOUS
    <3>2. F[t] = g[y] + F[t \ {y}]
      <4> HIDE DEF T
      <4> DEFINE rest == F[(t \ {y}) \ {p}]
      <4>1. F[t] = g[p] + (g[y] + rest)
        BY <2>3, <2>5, <2>7
      <4>2. F[t \ {y}] = g[p] + rest
        BY <2>6
      <4>3. g[p] + (g[y] + rest) = g[y] + (g[p] + rest)
        <5> HIDE DEF rest
        <5> QED  BY <2>8, <3>1 DEF rest
      <4> HIDE DEF rest
      <4> QED  BY <4>1, <4>2, <4>3
    <3> QED
      BY <2>2, <3>2
<1> QED
  BY <1>2

-----------------------------------------------------------------------------
(* The sum                                                                 *)

LEMMA SumSolution ==
    ASSUME NEW S, IsFiniteSet(S), NEW g, DOMAIN g = S
    PROVE  \E F : Solves(F, g, S) /\ SumFunction(g) = F[S]
BY SumUnfolded, SolutionExists

LEMMA SumIsNat ==
    ASSUME NEW S, IsFiniteSet(S), NEW g \in [S -> Nat]
    PROVE  SumFunction(g) \in Nat
<1>1. PICK F : Solves(F, g, S) /\ SumFunction(g) = F[S]
  BY SumSolution
<1>2. F \in [SUBSET S -> Nat]
  BY <1>1, SolutionTyped
<1> QED
  BY <1>1, <1>2

LEMMA SumOfNone == ASSUME NEW g, DOMAIN g = {} PROVE SumFunction(g) = 0
<1>1. PICK F : Solves(F, g, {}) /\ SumFunction(g) = F[{}]
  BY SumSolution, FS_EmptySet
<1> QED
  BY <1>1, SolutionAtNone

(* The sum over one more element                                           *)
LEMMA SumExtended ==
    ASSUME NEW S, IsFiniteSet(S), NEW x, x \notin S, NEW g \in [S \cup {x} -> Nat]
    PROVE  SumFunction(g) = g[x] + SumFunction([s \in S |-> g[s]])
<1> DEFINE h == [s \in S |-> g[s]]
<1>1. IsFiniteSet(S \cup {x})
  BY FS_AddElement
<1>2. PICK F : Solves(F, g, S \cup {x}) /\ SumFunction(g) = F[S \cup {x}]
  BY <1>1, SumSolution
<1>3. PICK G : Solves(G, h, S) /\ SumFunction(h) = G[S]
  BY SumSolution
<1>4. F[S] = G[S]
  <2>1. S \in SUBSET ((S \cup {x}) \cap S) /\ \A y \in (S \cup {x}) \cap S : g[y] = h[y]
    OBVIOUS
  <2> HIDE DEF h
  <2> QED  BY <1>1, <1>2, <1>3, <2>1, SolutionsAgree
<1>5. (S \cup {x}) \ {x} = S
  OBVIOUS
<1>6. F[S \cup {x}] = g[x] + F[(S \cup {x}) \ {x}]
  BY <1>1, <1>2, TakeOut
<1> QED
  BY <1>2, <1>3, <1>4, <1>5, <1>6

(* The sum when one value changes                                          *)
LEMMA SumUpdated ==
    ASSUME NEW S, IsFiniteSet(S), NEW g \in [S -> Nat], NEW x \in S, NEW v \in Nat
    PROVE  SumFunction([g EXCEPT ![x] = v]) + g[x] = SumFunction(g) + v
<1> DEFINE R == S \ {x}
           h == [g EXCEPT ![x] = v]
<1>1. IsFiniteSet(R) /\ x \notin R /\ R \cup {x} = S
  BY FS_Subset
<1>2. g \in [R \cup {x} -> Nat] /\ h \in [R \cup {x} -> Nat]
  OBVIOUS
<1>3. [s \in R |-> g[s]] = [s \in R |-> h[s]] /\ [s \in R |-> g[s]] \in [R -> Nat]
  OBVIOUS
<1>4. h[x] = v /\ g[x] \in Nat
  OBVIOUS
<1> HIDE DEF R, h
<1>5. SumFunction(g) = g[x] + SumFunction([s \in R |-> g[s]])
  BY <1>1, <1>2, SumExtended
<1>6. SumFunction(h) = h[x] + SumFunction([s \in R |-> h[s]])
  BY <1>1, <1>2, SumExtended
<1>7. SumFunction([s \in R |-> g[s]]) \in Nat
  BY <1>1, <1>3, SumIsNat
<1>8. SumFunction(h) + g[x] = SumFunction(g) + v
  BY <1>3, <1>4, <1>5, <1>6, <1>7
<1> QED
  BY <1>8 DEF h

(* The sum over a part of the domain                                       *)
PartialSum(g, s) == SumFunction([y \in s |-> g[y]])

LEMMA PartialSumIsNat ==
    ASSUME NEW S, IsFiniteSet(S), NEW g \in [S -> Nat], NEW s \in SUBSET S
    PROVE  PartialSum(g, s) \in Nat
<1>1. IsFiniteSet(s) /\ [y \in s |-> g[y]] \in [s -> Nat]
  BY FS_Subset
<1> QED
  BY <1>1, SumIsNat DEF PartialSum

LEMMA PartialSumOfAll ==
    ASSUME NEW S, NEW g \in [S -> Nat]
    PROVE  PartialSum(g, S) = SumFunction(g)
<1>1. [y \in S |-> g[y]] = g
  OBVIOUS
<1> QED
  BY <1>1 DEF PartialSum

LEMMA PartialSumOfNone == ASSUME NEW g PROVE PartialSum(g, {}) = 0
BY SumOfNone DEF PartialSum

LEMMA PartialSumExtended ==
    ASSUME NEW S, IsFiniteSet(S), NEW g \in [S -> Nat], NEW s \in SUBSET S, NEW x \in s
    PROVE  PartialSum(g, s) = g[x] + PartialSum(g, s \ {x})
<1> DEFINE r == s \ {x}
           h == [y \in s |-> g[y]]
<1>1. IsFiniteSet(r) /\ x \notin r /\ h \in [r \cup {x} -> Nat]
  BY FS_Subset
<1>2. [y \in r |-> h[y]] = [y \in r |-> g[y]] /\ h[x] = g[x]
  OBVIOUS
<1> HIDE DEF r, h
<1>3. SumFunction(h) = h[x] + SumFunction([y \in r |-> h[y]])
  BY <1>1, SumExtended
<1> QED
  BY <1>2, <1>3 DEF PartialSum, r, h

LEMMA SumOfSums ==
    ASSUME NEW S, IsFiniteSet(S), NEW f \in [S -> Nat], NEW g \in [S -> Nat]
    PROVE  SumFunction([x \in S |-> f[x] + g[x]]) = SumFunction(f) + SumFunction(g)
<1> DEFINE h == [x \in S |-> f[x] + g[x]]
           T == {s \in SUBSET S : PartialSum(h, s) # PartialSum(f, s) + PartialSum(g, s)}
<1>1. h \in [S -> Nat] /\ \A x \in S : h[x] = f[x] + g[x]
  OBVIOUS
<1>2. T \in SUBSET SUBSET S
  OBVIOUS
<1> HIDE DEF h
<1>3. ASSUME T # {} PROVE FALSE
  <2>1. PICK t \in T : \A s \in SUBSET t : s # t => s \notin T
    <3> HIDE DEF T
    <3> QED  BY <1>2, <1>3, MinimalSubset
  <2>2. t # {}
    <3>1. PartialSum(h, {}) = 0 /\ PartialSum(f, {}) = 0 /\ PartialSum(g, {}) = 0
      BY PartialSumOfNone
    <3> QED
      BY <3>1
  <2>3. PICK x \in t : TRUE
    BY <2>2
  <2> DEFINE r == t \ {x}
  <2>4. r \in SUBSET S /\ r \notin T /\ x \in S
    BY <2>1
  <2>5. PartialSum(h, r) = PartialSum(f, r) + PartialSum(g, r)
    BY <2>4
  <2>6. /\ PartialSum(f, t) = f[x] + PartialSum(f, r)
        /\ PartialSum(g, t) = g[x] + PartialSum(g, r)
        /\ PartialSum(h, t) = h[x] + PartialSum(h, r)
    BY <1>1, PartialSumExtended
  <2>7. PartialSum(f, r) \in Nat /\ PartialSum(g, r) \in Nat /\ f[x] \in Nat /\ g[x] \in Nat
    BY <2>4, PartialSumIsNat
  <2> HIDE DEF T, r
  <2>8. PartialSum(h, t) = PartialSum(f, t) + PartialSum(g, t)
    BY <1>1, <2>4, <2>5, <2>6, <2>7
  <2> QED
    BY <2>8 DEF T
<1>4. PartialSum(h, S) = PartialSum(f, S) + PartialSum(g, S)
  BY <1>3
<1>5. \A p \in [S -> Nat] : PartialSum(p, S) = SumFunction(p)
  BY PartialSumOfAll
<1>6. SumFunction(h) = SumFunction(f) + SumFunction(g)
  BY <1>1, <1>4, <1>5
<1> QED
  BY <1>6 DEF h

LEMMA SumScaled ==
    ASSUME NEW S, IsFiniteSet(S), NEW k \in Nat, NEW g \in [S -> Nat]
    PROVE  SumFunction([x \in S |-> k * g[x]]) = k * SumFunction(g)
<1> DEFINE h == [x \in S |-> k * g[x]]
           T == {s \in SUBSET S : PartialSum(h, s) # k * PartialSum(g, s)}
<1>1. h \in [S -> Nat] /\ \A x \in S : h[x] = k * g[x]
  OBVIOUS
<1>2. T \in SUBSET SUBSET S
  OBVIOUS
<1> HIDE DEF h
<1>3. ASSUME T # {} PROVE FALSE
  <2>1. PICK t \in T : \A s \in SUBSET t : s # t => s \notin T
    <3> HIDE DEF T
    <3> QED  BY <1>2, <1>3, MinimalSubset
  <2>2. t # {}
    <3>1. PartialSum(h, {}) = 0 /\ PartialSum(g, {}) = 0
      BY PartialSumOfNone
    <3> QED
      BY <3>1
  <2>3. PICK x \in t : TRUE
    BY <2>2
  <2> DEFINE r == t \ {x}
  <2>4. r \in SUBSET S /\ r \notin T /\ x \in S
    BY <2>1
  <2>5. PartialSum(h, r) = k * PartialSum(g, r)
    BY <2>4
  <2>6. /\ PartialSum(g, t) = g[x] + PartialSum(g, r)
        /\ PartialSum(h, t) = k * g[x] + PartialSum(h, r)
    BY <1>1, PartialSumExtended
  <2>7. PartialSum(g, r) \in Nat /\ g[x] \in Nat
    BY <2>4, PartialSumIsNat
  <2> HIDE DEF T, r
  <2>8. \A a, b \in Nat : k * (a + b) = k * a + k * b
    OBVIOUS
  <2>9. PartialSum(h, t) = k * PartialSum(g, t)
    BY <2>5, <2>6, <2>7, <2>8
  <2> QED
    BY <2>9 DEF T
<1>4. PartialSum(h, S) = k * PartialSum(g, S)
  BY <1>3
<1>5. \A p \in [S -> Nat] : PartialSum(p, S) = SumFunction(p)
  BY PartialSumOfAll
<1>6. SumFunction(h) = k * SumFunction(g)
  BY <1>1, <1>4, <1>5
<1> QED
  BY <1>6 DEF h

LEMMA SumAtMost ==
    ASSUME NEW S, IsFiniteSet(S), NEW f \in [S -> Nat], NEW g \in [S -> Nat],
           \A x \in S : f[x] <= g[x]
    PROVE  SumFunction(f) <= SumFunction(g)
<1> DEFINE d == [x \in S |-> g[x] - f[x]]
<1>1. d \in [S -> Nat] /\ [x \in S |-> f[x] + d[x]] = g
  OBVIOUS
<1> HIDE DEF d
<1>2. SumFunction(g) = SumFunction(f) + SumFunction(d)
  BY <1>1, SumOfSums
<1>3. SumFunction(f) \in Nat /\ SumFunction(d) \in Nat
  BY <1>1, SumIsNat
<1> QED
  BY <1>2, <1>3

LEMMA SumOfZeros ==
    ASSUME NEW S, IsFiniteSet(S), NEW g \in [S -> Nat], \A x \in S : g[x] = 0
    PROVE  SumFunction(g) = 0
<1>1. [x \in S |-> 0 * g[x]] = g
  OBVIOUS
<1>2. SumFunction(g) = 0 * SumFunction(g)
  BY <1>1, SumScaled
<1>3. SumFunction(g) \in Nat
  BY SumIsNat
<1> QED
  BY <1>2, <1>3

(* No value is more than the sum.                                          *)
LEMMA SumBounds ==
    ASSUME NEW S, IsFiniteSet(S), NEW g \in [S -> Nat], NEW x \in S
    PROVE  g[x] <= SumFunction(g)
<1>1. PartialSum(g, S) = g[x] + PartialSum(g, S \ {x})
  BY PartialSumExtended
<1>2. PartialSum(g, S \ {x}) \in Nat
  BY PartialSumIsNat
<1> QED
  BY <1>1, <1>2, PartialSumOfAll
===============================================================================
