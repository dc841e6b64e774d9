---------------------------- MODULE SumTheorems ----------------------------
(***************************************************************************)
(* Facts about SumFunctionOnSet (community module Functions), the sum of   *)
(* f[x] for x in a finite set S, that the proofs rest on.                  *)
(* Induction over the finite sets is done by minimal counterexample        *)
(* (MinimalSubset): a set of counterexamples that is not empty has an      *)
(* element no proper subset of which is a counterexample.                  *)
(***************************************************************************)
EXTENDS Integers, FiniteSets, Functions, FiniteSetTheorems, WellFoundedInduction, TLAPS

\* The element the fold removes first.
Pick(s) == CHOOSE x \in s : TRUE

\* g maps every subset of S to the sum over it, by the fold's own recursion.
IsSumGraph(g, f, S) ==
  g = [s \in SUBSET S |-> IF s = {} THEN 0 ELSE f[Pick(s)] + g[s \ {Pick(s)}]]

\* A non-empty set of subsets of a finite set has a minimal element.
LEMMA MinimalSubset ==
  ASSUME NEW S, IsFiniteSet(S), NEW T, T \subseteq SUBSET S, T # {}
  PROVE  \E m \in T : \A s \in T : s \subseteq m => s = m
<1>1. IsWellFoundedOn(StrictSubsetOrdering(S), SUBSET S)
  BY FS_StrictSubsetOrderingWellFounded, FS_FiniteSubsetsOfFinite
<1>2. \E m \in T : \A s \in T : ~(<<s, m>> \in StrictSubsetOrdering(S))
  BY <1>1, WFMin
<1>3. PICK m \in T : \A s \in T : ~(<<s, m>> \in StrictSubsetOrdering(S))
  BY <1>2
<1>4. ASSUME NEW s \in T, s \subseteq m PROVE s = m
  <2>1. <<s, m>> \in (SUBSET S) \X (SUBSET S)
    OBVIOUS
  <2> QED BY <1>3, <1>4, <2>1 DEF StrictSubsetOrdering
<1> QED BY <1>3, <1>4

\* The element a fold removes first is one of the set's.
LEMMA PickIn == ASSUME NEW s, s # {} PROVE Pick(s) \in s
  BY DEF Pick

\* The sum is the value that some graph of the recursion, chosen once, has at S.
LEMMA SumIsGraphValue ==
  ASSUME NEW f, NEW S
  PROVE  SumFunctionOnSet(f, S) = (CHOOSE g : IsSumGraph(g, f, S))[S]
  BY DEF SumFunctionOnSet, FoldFunctionOnSet, MapThenFoldSet, IsSumGraph, Pick

\* Two graphs agree wherever both are defined.
LEMMA GraphsAgree ==
  ASSUME NEW f, NEW S, NEW R, IsFiniteSet(S),
         NEW g, IsSumGraph(g, f, S), NEW h, IsSumGraph(h, f, R),
         NEW u, u \subseteq S, u \subseteq R
  PROVE  g[u] = h[u]
<1> DEFINE Bad == {s \in SUBSET S : s \subseteq R /\ g[s] # h[s]}
<1>1. SUFFICES ASSUME Bad # {} PROVE FALSE
  OBVIOUS
<1>2. PICK m \in Bad : \A s \in Bad : s \subseteq m => s = m
  <2> HIDE DEF Bad
  <2>1. Bad \subseteq SUBSET S BY DEF Bad
  <2> QED BY <1>1, <2>1, MinimalSubset
<1>3. m # {}
  BY <1>2 DEF IsSumGraph
<1> DEFINE n == m \ {Pick(m)}
<1>4. n \subseteq S /\ n \subseteq R /\ n \subseteq m /\ n # m
  BY <1>2, <1>3, PickIn
<1>5. g[n] = h[n]
  BY <1>2, <1>4
<1>6. g[m] = f[Pick(m)] + g[n]
  BY <1>2, <1>3 DEF IsSumGraph
<1>7. h[m] = f[Pick(m)] + h[n]
  BY <1>2, <1>3 DEF IsSumGraph
<1> QED BY <1>2, <1>5, <1>6, <1>7

\* A finite set has a graph.
LEMMA GraphExists ==
  ASSUME NEW f, NEW S, IsFiniteSet(S)
  PROVE  \E g : IsSumGraph(g, f, S)
<1> DEFINE Bad == {s \in SUBSET S : ~\E g : IsSumGraph(g, f, s)}
<1>1. SUFFICES ASSUME Bad # {} PROVE FALSE
  OBVIOUS
<1>2. PICK m \in Bad : \A s \in Bad : s \subseteq m => s = m
  <2> HIDE DEF Bad
  <2>1. Bad \subseteq SUBSET S BY DEF Bad
  <2> QED BY <1>1, <2>1, MinimalSubset
<1> DEFINE G(s) == CHOOSE g : IsSumGraph(g, f, s)
           p == Pick(m)
           g0 == [s \in SUBSET m |->
                    IF s = {} THEN 0
                    ELSE IF s = m THEN f[p] + G(m \ {p})[m \ {p}]
                    ELSE G(s)[s]]
<1>3. ASSUME NEW s, s \subseteq m, s # m PROVE IsSumGraph(G(s), f, s)
  BY <1>2, <1>3
<1>4. ASSUME NEW s \in SUBSET m, s # {}
      PROVE  g0[s] = f[Pick(s)] + g0[s \ {Pick(s)}]
  <2> DEFINE t == s \ {Pick(s)}
  <2>1. t \subseteq s /\ t # s /\ t \subseteq m /\ t # m
    BY <1>4, PickIn
  <2>2. g0[t] = G(t)[t]
    <3>1. CASE t = {}
      <4>1. IsSumGraph(G(t), f, t) BY <1>3, <2>1
      <4>2. G(t)[t] = 0 BY <3>1, <4>1 DEF IsSumGraph
      <4> HIDE DEF G, t, p
      <4> QED BY <4>2, <3>1, <2>1
    <3>2. CASE t # {} BY <3>2, <2>1
    <3> QED BY <3>1, <3>2
  <2>3. CASE s = m
    BY <2>2, <2>3, <1>4
  <2>4. CASE s # m
    <3>1. IsSumGraph(G(s), f, s) /\ IsSumGraph(G(t), f, t)
      BY <1>3, <2>1, <2>4
    <3>2. IsFiniteSet(s) /\ IsFiniteSet(t)
      BY <1>2, <2>1, FS_Subset
    <3>3. G(s)[t] = G(t)[t]
      <4> HIDE DEF G, t
      <4> QED BY <3>1, <3>2, <2>1, GraphsAgree
    <3>4. G(s)[s] = f[Pick(s)] + G(s)[t]
      BY <1>4, <3>1 DEF IsSumGraph
    <3> QED BY <2>2, <2>4, <3>3, <3>4, <1>4
  <2> QED BY <2>3, <2>4
<1>5. IsSumGraph(g0, f, m)
  <2>1. g0 = [s \in SUBSET m |-> g0[s]]
    OBVIOUS
  <2>2. ASSUME NEW s \in SUBSET m
        PROVE  g0[s] = IF s = {} THEN 0 ELSE f[Pick(s)] + g0[s \ {Pick(s)}]
    <3>1. CASE s = {} BY <3>1
    <3>2. CASE s # {}
      <4> HIDE DEF g0
      <4> QED BY <3>2, <1>4
    <3> QED BY <3>1, <3>2
  <2> HIDE DEF g0
  <2> QED BY <2>1, <2>2 DEF IsSumGraph
<1> QED BY <1>2, <1>5

-----------------------------------------------------------------------------

\* The sum over the empty set is 0.
LEMMA SumEmpty == ASSUME NEW f PROVE SumFunctionOnSet(f, {}) = 0
<1> DEFINE g == CHOOSE g : IsSumGraph(g, f, {})
<1>1. IsSumGraph(g, f, {})
  BY GraphExists, FS_EmptySet
<1>2. g[{}] = 0
  <2> HIDE DEF g
  <2> QED BY <1>1 DEF IsSumGraph
<1> QED BY <1>2, SumIsGraphValue

\* The sum over S is one term plus the sum over the rest, for the element the
\* fold picks.
LEMMA SumPick ==
  ASSUME NEW f, NEW S, IsFiniteSet(S), S # {}
  PROVE  SumFunctionOnSet(f, S) = f[Pick(S)] + SumFunctionOnSet(f, S \ {Pick(S)})
<1> DEFINE R == S \ {Pick(S)}
           g == CHOOSE g : IsSumGraph(g, f, S)
           h == CHOOSE h : IsSumGraph(h, f, R)
<1>1. IsFiniteSet(R)
  BY FS_Subset
<1>2. IsSumGraph(g, f, S) /\ IsSumGraph(h, f, R)
  <2> HIDE DEF R
  <2> QED BY <1>1, GraphExists
<1>3. g[R] = h[R]
  <2> HIDE DEF g, h
  <2> QED BY <1>2, GraphsAgree
<1>4. g[S] = f[Pick(S)] + g[R]
  <2> HIDE DEF g
  <2> QED BY <1>2 DEF IsSumGraph
<1>5. SumFunctionOnSet(f, S) = g[S] /\ SumFunctionOnSet(f, R) = h[R]
  BY SumIsGraphValue
<1> QED BY <1>3, <1>4, <1>5

\* Sums of integers are integers.
LEMMA SumInt ==
  ASSUME NEW S, IsFiniteSet(S), NEW f, \A x \in S : f[x] \in Int
  PROVE  SumFunctionOnSet(f, S) \in Int
<1> DEFINE Bad == {s \in SUBSET S : SumFunctionOnSet(f, s) \notin Int}
<1>1. SUFFICES ASSUME Bad # {} PROVE FALSE
  OBVIOUS
<1>2. PICK m \in Bad : \A s \in Bad : s \subseteq m => s = m
  <2> HIDE DEF Bad
  <2>1. Bad \subseteq SUBSET S BY DEF Bad
  <2> QED BY <1>1, <2>1, MinimalSubset
<1>3. m # {}
  BY <1>2, SumEmpty
<1> DEFINE n == m \ {Pick(m)}
<1>4. Pick(m) \in m /\ n \subseteq m /\ n # m /\ IsFiniteSet(m)
  BY <1>2, <1>3, PickIn, FS_Subset
<1>5. SumFunctionOnSet(f, n) \in Int
  BY <1>2, <1>4
<1>6. SumFunctionOnSet(f, m) = f[Pick(m)] + SumFunctionOnSet(f, n)
  BY <1>3, <1>4, SumPick
<1>7. f[Pick(m)] \in Int
  BY <1>2, <1>4
<1> QED BY <1>2, <1>5, <1>6, <1>7

\* The element that is split off may be any element of S.
LEMMA SumSplit ==
  ASSUME NEW S, IsFiniteSet(S), NEW f, \A x \in S : f[x] \in Int, NEW e \in S
  PROVE  SumFunctionOnSet(f, S) = f[e] + SumFunctionOnSet(f, S \ {e})
<1> DEFINE Bad == {s \in SUBSET S : \E x \in s :
                     SumFunctionOnSet(f, s) # f[x] + SumFunctionOnSet(f, s \ {x})}
<1>1. SUFFICES ASSUME Bad # {} PROVE FALSE
  OBVIOUS
<1>2. PICK m \in Bad : \A s \in Bad : s \subseteq m => s = m
  <2> HIDE DEF Bad
  <2>1. Bad \subseteq SUBSET S BY DEF Bad
  <2> QED BY <1>1, <2>1, MinimalSubset
<1>3. PICK x \in m : SumFunctionOnSet(f, m) # f[x] + SumFunctionOnSet(f, m \ {x})
  BY <1>2
<1> DEFINE p == Pick(m)
           both == m \ {p, x}
<1>4. p \in m /\ IsFiniteSet(m) /\ m \subseteq S
  BY <1>2, <1>3, PickIn, FS_Subset
<1>5. SumFunctionOnSet(f, m) = f[p] + SumFunctionOnSet(f, m \ {p})
  BY <1>3, <1>4, SumPick
<1>6. p # x
  BY <1>3, <1>5
<1>7. m \ {p} \notin Bad /\ m \ {x} \notin Bad
  BY <1>2, <1>3, <1>4
<1>8. SumFunctionOnSet(f, m \ {p}) = f[x] + SumFunctionOnSet(f, both)
  <2>1. x \in m \ {p} /\ both = (m \ {p}) \ {x}
    BY <1>6
  <2> QED BY <1>4, <1>7, <2>1
<1>9. SumFunctionOnSet(f, m \ {x}) = f[p] + SumFunctionOnSet(f, both)
  <2>1. p \in m \ {x} /\ both = (m \ {x}) \ {p}
    BY <1>4, <1>6
  <2> QED BY <1>4, <1>7, <2>1
<1>10. SumFunctionOnSet(f, both) \in Int /\ f[p] \in Int /\ f[x] \in Int
  <2>1. IsFiniteSet(both) BY <1>4, FS_Subset
  <2> QED BY <1>4, <2>1, SumInt
<1> HIDE DEF p, both
<1> QED BY <1>3, <1>5, <1>8, <1>9, <1>10

\* Functions that agree on S have the same sum over S.
LEMMA SumAgree ==
  ASSUME NEW S, IsFiniteSet(S), NEW f, NEW g, \A x \in S : f[x] = g[x]
  PROVE  SumFunctionOnSet(f, S) = SumFunctionOnSet(g, S)
<1> DEFINE Bad == {s \in SUBSET S : SumFunctionOnSet(f, s) # SumFunctionOnSet(g, s)}
<1>1. SUFFICES ASSUME Bad # {} PROVE FALSE
  OBVIOUS
<1>2. PICK m \in Bad : \A s \in Bad : s \subseteq m => s = m
  <2> HIDE DEF Bad
  <2>1. Bad \subseteq SUBSET S BY DEF Bad
  <2> QED BY <1>1, <2>1, MinimalSubset
<1>3. m # {}
  BY <1>2, SumEmpty
<1> DEFINE n == m \ {Pick(m)}
<1>4. Pick(m) \in m /\ n \subseteq m /\ n # m /\ IsFiniteSet(m)
  BY <1>2, <1>3, PickIn, FS_Subset
<1>5. SumFunctionOnSet(f, n) = SumFunctionOnSet(g, n)
  BY <1>2, <1>4
<1>6. SumFunctionOnSet(f, m) = f[Pick(m)] + SumFunctionOnSet(f, n)
  BY <1>3, <1>4, SumPick
<1>7. SumFunctionOnSet(g, m) = g[Pick(m)] + SumFunctionOnSet(g, n)
  BY <1>3, <1>4, SumPick
<1>8. f[Pick(m)] = g[Pick(m)]
  BY <1>2, <1>4
<1> QED BY <1>2, <1>5, <1>6, <1>7, <1>8

\* Two functions that differ at e alone have sums that differ by as much.
LEMMA SumUpdate ==
  ASSUME NEW S, IsFiniteSet(S), NEW f, NEW g, NEW e \in S,
         \A x \in S : f[x] \in Int /\ g[x] \in Int,
         \A x \in S \ {e} : f[x] = g[x]
  PROVE  SumFunctionOnSet(g, S) = SumFunctionOnSet(f, S) + (g[e] - f[e])
<1>1. IsFiniteSet(S \ {e})
  BY FS_Subset
<1>2. SumFunctionOnSet(f, S \ {e}) = SumFunctionOnSet(g, S \ {e})
  BY <1>1, SumAgree
<1>3. SumFunctionOnSet(f, S) = f[e] + SumFunctionOnSet(f, S \ {e})
  BY SumSplit
<1>4. SumFunctionOnSet(g, S) = g[e] + SumFunctionOnSet(g, S \ {e})
  BY SumSplit
<1>5. SumFunctionOnSet(f, S \ {e}) \in Int
  BY <1>1, SumInt
<1>6. f[e] \in Int /\ g[e] \in Int
  OBVIOUS
<1> QED BY <1>2, <1>3, <1>4, <1>5, <1>6

\* A sum of zeros is zero.
LEMMA SumZero ==
  ASSUME NEW S, IsFiniteSet(S), NEW f, \A x \in S : f[x] = 0
  PROVE  SumFunctionOnSet(f, S) = 0
<1> DEFINE Bad == {s \in SUBSET S : SumFunctionOnSet(f, s) # 0}
<1>1. SUFFICES ASSUME Bad # {} PROVE FALSE
  OBVIOUS
<1>2. PICK m \in Bad : \A s \in Bad : s \subseteq m => s = m
  <2> HIDE DEF Bad
  <2>1. Bad \subseteq SUBSET S BY DEF Bad
  <2> QED BY <1>1, <2>1, MinimalSubset
<1>3. m # {}
  BY <1>2, SumEmpty
<1> DEFINE n == m \ {Pick(m)}
<1>4. Pick(m) \in m /\ n \subseteq m /\ n # m /\ IsFiniteSet(m)
  BY <1>2, <1>3, PickIn, FS_Subset
<1>5. SumFunctionOnSet(f, n) = 0
  BY <1>2, <1>4
<1>6. SumFunctionOnSet(f, m) = f[Pick(m)] + SumFunctionOnSet(f, n)
  BY <1>3, <1>4, SumPick
<1>7. f[Pick(m)] = 0
  BY <1>2, <1>4
<1> QED BY <1>2, <1>5, <1>6, <1>7

\* No term of a sum of naturals exceeds the sum.
LEMMA SumBound ==
  ASSUME NEW S, IsFiniteSet(S), NEW f, \A x \in S : f[x] \in Nat
  PROVE  /\ SumFunctionOnSet(f, S) \in Nat
         /\ \A x \in S : f[x] <= SumFunctionOnSet(f, S)
<1>1. ASSUME NEW R \in SUBSET S PROVE SumFunctionOnSet(f, R) \in Nat
  <2> DEFINE Bad == {s \in SUBSET S : SumFunctionOnSet(f, s) \notin Nat}
  <2>1. SUFFICES ASSUME Bad # {} PROVE FALSE
    OBVIOUS
  <2>2. PICK m \in Bad : \A s \in Bad : s \subseteq m => s = m
    <3> HIDE DEF Bad
    <3>1. Bad \subseteq SUBSET S BY DEF Bad
    <3> QED BY <2>1, <3>1, MinimalSubset
  <2>3. m # {}
    <3>1. SumFunctionOnSet(f, {}) \in Nat BY SumEmpty
    <3> QED BY <2>2, <3>1
  <2> DEFINE n == m \ {Pick(m)}
  <2>4. Pick(m) \in m /\ n \subseteq m /\ n # m /\ IsFiniteSet(m)
    BY <2>2, <2>3, PickIn, FS_Subset
  <2>5. SumFunctionOnSet(f, n) \in Nat
    BY <2>2, <2>4
  <2>6. SumFunctionOnSet(f, m) = f[Pick(m)] + SumFunctionOnSet(f, n)
    BY <2>3, <2>4, SumPick
  <2>7. f[Pick(m)] \in Nat
    BY <2>2, <2>4
  <2> QED BY <2>2, <2>5, <2>6, <2>7
<1>2. ASSUME NEW x \in S PROVE f[x] <= SumFunctionOnSet(f, S)
  <2>1. SumFunctionOnSet(f, S) = f[x] + SumFunctionOnSet(f, S \ {x})
    BY SumSplit
  <2>2. SumFunctionOnSet(f, S \ {x}) \in Nat /\ f[x] \in Nat
    BY <1>1
  <2> QED BY <2>1, <2>2
<1> QED BY <1>1, <1>2

\* Terms that are matched, one to one, by larger ones have a smaller sum.
LEMMA SumInject ==
  ASSUME NEW S, IsFiniteSet(S), NEW T, IsFiniteSet(T), NEW f, NEW g, NEW h,
         \A x \in S : f[x] \in Nat, \A y \in T : g[y] \in Nat,
         \A x \in S : h[x] \in T /\ f[x] <= g[h[x]],
         \A x, y \in S : h[x] = h[y] => x = y
  PROVE  SumFunctionOnSet(f, S) <= SumFunctionOnSet(g, T)
<1> DEFINE Bad == {s \in SUBSET S : \E t \in SUBSET T :
                     (\A x \in s : h[x] \in t) /\ ~(SumFunctionOnSet(f, s) <= SumFunctionOnSet(g, t))}
<1>1. SUFFICES ASSUME Bad # {} PROVE FALSE
  <2>1. S \in Bad \/ SumFunctionOnSet(f, S) <= SumFunctionOnSet(g, T)
    OBVIOUS
  <2> QED BY <2>1
<1>2. PICK m \in Bad : \A s \in Bad : s \subseteq m => s = m
  <2> HIDE DEF Bad
  <2>1. Bad \subseteq SUBSET S BY DEF Bad
  <2> QED BY <1>1, <2>1, MinimalSubset
<1>3. PICK t \in SUBSET T : (\A x \in m : h[x] \in t) /\ ~(SumFunctionOnSet(f, m) <= SumFunctionOnSet(g, t))
  BY <1>2
<1>4. m \subseteq S /\ IsFiniteSet(m) /\ IsFiniteSet(t)
  BY <1>2, <1>3, FS_Subset
<1>5. SumFunctionOnSet(g, t) \in Nat
  <2>1. \A y \in t : g[y] \in Nat
    BY <1>3
  <2> QED BY <1>4, <2>1, SumBound
<1>6. m # {}
  BY <1>3, <1>5, SumEmpty
<1> DEFINE x == Pick(m)
           n == m \ {x}
           r == t \ {h[x]}
<1>7. x \in m /\ n \subseteq m /\ n # m /\ h[x] \in t /\ r \in SUBSET T
  BY <1>3, <1>6, PickIn
<1>8. \A y \in n : h[y] \in r
  BY <1>3, <1>4, <1>7
<1>9. SumFunctionOnSet(f, n) <= SumFunctionOnSet(g, r)
  <2>1. n \in SUBSET S /\ n \notin Bad
    BY <1>2, <1>4, <1>7
  <2> HIDE DEF n, r, x
  <2> QED BY <1>7, <1>8, <2>1
<1>10. SumFunctionOnSet(f, m) = f[x] + SumFunctionOnSet(f, n)
  BY <1>4, <1>6, SumPick
<1>11. SumFunctionOnSet(g, t) = g[h[x]] + SumFunctionOnSet(g, r)
  <2>1. \A y \in t : g[y] \in Int
    BY <1>3
  <2>2. h[x] \in t
    BY <1>7
  <2> HIDE DEF x
  <2> QED BY <1>4, <2>1, <2>2, SumSplit
<1>12. f[x] \in Nat /\ g[h[x]] \in Nat /\ f[x] <= g[h[x]]
  BY <1>3, <1>4, <1>7
<1>13. SumFunctionOnSet(f, n) \in Nat /\ SumFunctionOnSet(g, r) \in Nat
  <2>1. IsFiniteSet(n) /\ IsFiniteSet(r)
    BY <1>4, FS_Subset
  <2>2. (\A y \in n : f[y] \in Nat) /\ (\A y \in r : g[y] \in Nat)
    BY <1>3, <1>4
  <2> HIDE DEF n, r
  <2> QED BY <2>1, <2>2, SumBound
<1> HIDE DEF x, n, r
<1> QED BY <1>3, <1>9, <1>10, <1>11, <1>12, <1>13

\* The sum over a set is the sum over a part of it and over the rest.
LEMMA SumPart ==
  ASSUME NEW S, IsFiniteSet(S), NEW f, \A x \in S : f[x] \in Int, NEW R, R \subseteq S
  PROVE  SumFunctionOnSet(f, S) = SumFunctionOnSet(f, R) + SumFunctionOnSet(f, S \ R)
<1> DEFINE Bad == {s \in SUBSET S : SumFunctionOnSet(f, S)
                                     # SumFunctionOnSet(f, s) + SumFunctionOnSet(f, S \ s)}
<1>1. SUFFICES ASSUME Bad # {} PROVE FALSE
  OBVIOUS
<1>2. PICK m \in Bad : \A s \in Bad : s \subseteq m => s = m
  <2> HIDE DEF Bad
  <2>1. Bad \subseteq SUBSET S BY DEF Bad
  <2> QED BY <1>1, <2>1, MinimalSubset
<1>3. m # {}
  <2>1. S \ {} = S /\ SumFunctionOnSet(f, S) \in Int
    BY SumInt
  <2>2. SumFunctionOnSet(f, {}) + SumFunctionOnSet(f, S \ {}) = SumFunctionOnSet(f, S)
    BY <2>1, SumEmpty
  <2> QED BY <1>2, <2>2
<1> PICK x : x = Pick(m)
  OBVIOUS
<1> DEFINE n == m \ {x}
<1>4. x \in m /\ m \subseteq S /\ n \subseteq m /\ n # m /\ IsFiniteSet(m) /\ IsFiniteSet(n)
  BY <1>2, <1>3, PickIn, FS_Subset
<1>5. SumFunctionOnSet(f, S) = SumFunctionOnSet(f, n) + SumFunctionOnSet(f, S \ n)
  BY <1>2, <1>4
<1>6. SumFunctionOnSet(f, m) = f[x] + SumFunctionOnSet(f, n)
  BY <1>3, <1>4, SumPick
<1>7. SumFunctionOnSet(f, S \ n) = f[x] + SumFunctionOnSet(f, S \ m)
  <2>1. x \in S \ n /\ (S \ n) \ {x} = S \ m /\ IsFiniteSet(S \ n)
    BY <1>4, FS_Subset
  <2>2. \A y \in S \ n : f[y] \in Int
    OBVIOUS
  <2> QED BY <2>1, <2>2, SumSplit
<1>8. f[x] \in Int /\ SumFunctionOnSet(f, n) \in Int /\ SumFunctionOnSet(f, S \ m) \in Int
  <2>1. IsFiniteSet(S \ m) /\ (\A y \in S \ m : f[y] \in Int) /\ \A y \in n : f[y] \in Int
    BY <1>4, FS_Subset
  <2> QED BY <1>4, <2>1, SumInt
<1>9. SumFunctionOnSet(f, S) # SumFunctionOnSet(f, m) + SumFunctionOnSet(f, S \ m)
  BY <1>2
<1> QED BY <1>5, <1>6, <1>7, <1>8, <1>9

-----------------------------------------------------------------------------
(* Linear facts.                                                           *)

\* Induction over the subsets of S in the order in which the fold takes them apart.
LEMMA SumInduction ==
  ASSUME NEW S, IsFiniteSet(S), NEW T, {} \in T,
         \A s \in SUBSET S : s # {} /\ s \ {Pick(s)} \in T => s \in T
  PROVE  S \in T
<1> DEFINE Bad == {s \in SUBSET S : s \notin T}
<1>1. SUFFICES ASSUME Bad # {} PROVE FALSE
  OBVIOUS
<1>2. PICK m \in Bad : \A s \in Bad : s \subseteq m => s = m
  <2> HIDE DEF Bad
  <2>1. Bad \subseteq SUBSET S BY DEF Bad
  <2> QED BY <1>1, <2>1, MinimalSubset
<1>3. m # {}
  BY <1>2
<1>4. Pick(m) \in m
  BY <1>3, PickIn
<1>5. m \ {Pick(m)} \in SUBSET S /\ m \ {Pick(m)} \notin Bad
  <2> HIDE DEF Bad
  <2>1. m \in SUBSET S BY DEF Bad
  <2> QED BY <1>2, <1>4, <2>1
<1>6. m \in SUBSET S /\ m \notin T /\ m \ {Pick(m)} \in T
  BY <1>5
<1> QED BY <1>3, <1>6

\* The sum of sums of terms.
LEMMA SumAdd ==
  ASSUME NEW S, IsFiniteSet(S), NEW f, NEW g, NEW h,
         \A x \in S : f[x] \in Int /\ g[x] \in Int /\ h[x] = f[x] + g[x]
  PROVE  SumFunctionOnSet(h, S) = SumFunctionOnSet(f, S) + SumFunctionOnSet(g, S)
<1> DEFINE T == {s \in SUBSET S : SumFunctionOnSet(h, s) = SumFunctionOnSet(f, s) + SumFunctionOnSet(g, s)}
<1>1. {} \in T
  BY SumEmpty
<1>2. ASSUME NEW s \in SUBSET S, s # {}, s \ {Pick(s)} \in T PROVE s \in T
  <2>0. PICK p : p = Pick(s)
    OBVIOUS
  <2>1. p \in s /\ IsFiniteSet(s) /\ IsFiniteSet(s \ {p})
    BY <1>2, <2>0, PickIn, FS_Subset
  <2>2. /\ SumFunctionOnSet(f, s) = f[p] + SumFunctionOnSet(f, s \ {p})
        /\ SumFunctionOnSet(g, s) = g[p] + SumFunctionOnSet(g, s \ {p})
        /\ SumFunctionOnSet(h, s) = h[p] + SumFunctionOnSet(h, s \ {p})
    BY <1>2, <2>0, <2>1, SumPick
  <2>3. SumFunctionOnSet(f, s \ {p}) \in Int /\ SumFunctionOnSet(g, s \ {p}) \in Int
    <3>1. \A x \in s \ {p} : f[x] \in Int /\ g[x] \in Int
      OBVIOUS
    <3> QED BY <2>1, <3>1, SumInt
  <2>4. f[p] \in Int /\ g[p] \in Int /\ h[p] = f[p] + g[p]
    BY <2>1
  <2>5. SumFunctionOnSet(h, s \ {p}) = SumFunctionOnSet(f, s \ {p}) + SumFunctionOnSet(g, s \ {p})
    BY <1>2, <2>0
  <2> QED BY <2>2, <2>3, <2>4, <2>5
<1> HIDE DEF T
<1>3. S \in T
  BY <1>1, <1>2, SumInduction
<1> QED BY <1>3 DEF T

\* A common factor.
LEMMA SumScale ==
  ASSUME NEW S, IsFiniteSet(S), NEW k \in Int, NEW f, NEW h,
         \A x \in S : f[x] \in Int /\ h[x] = k * f[x]
  PROVE  SumFunctionOnSet(h, S) = k * SumFunctionOnSet(f, S)
<1> DEFINE T == {s \in SUBSET S : SumFunctionOnSet(h, s) = k * SumFunctionOnSet(f, s)}
<1>1. {} \in T
  <2>1. 0 = k * 0
    OBVIOUS
  <2> QED BY <2>1, SumEmpty
<1>2. ASSUME NEW s \in SUBSET S, s # {}, s \ {Pick(s)} \in T PROVE s \in T
  <2>0. PICK p : p = Pick(s)
    OBVIOUS
  <2>1. p \in s /\ IsFiniteSet(s) /\ IsFiniteSet(s \ {p})
    BY <1>2, <2>0, PickIn, FS_Subset
  <2>2. /\ SumFunctionOnSet(f, s) = f[p] + SumFunctionOnSet(f, s \ {p})
        /\ SumFunctionOnSet(h, s) = h[p] + SumFunctionOnSet(h, s \ {p})
    BY <1>2, <2>0, <2>1, SumPick
  <2>3. SumFunctionOnSet(f, s \ {p}) \in Int
    <3>1. \A x \in s \ {p} : f[x] \in Int
      OBVIOUS
    <3> QED BY <2>1, <3>1, SumInt
  <2>4. f[p] \in Int /\ h[p] = k * f[p]
    BY <2>1
  <2>5. SumFunctionOnSet(h, s \ {p}) = k * SumFunctionOnSet(f, s \ {p})
    BY <1>2, <2>0
  <2>6. ASSUME NEW a \in Int, NEW b \in Int PROVE k * a + k * b = k * (a + b)
    OBVIOUS
  <2> QED BY <2>2, <2>3, <2>4, <2>5, <2>6
<1> HIDE DEF T
<1>3. S \in T
  BY <1>1, <1>2, SumInduction
<1> QED BY <1>3 DEF T

\* Larger terms, larger sum.
LEMMA SumMono ==
  ASSUME NEW S, IsFiniteSet(S), NEW f, NEW g,
         \A x \in S : f[x] \in Int /\ g[x] \in Int /\ f[x] <= g[x]
  PROVE  SumFunctionOnSet(f, S) <= SumFunctionOnSet(g, S)
<1>0. PICK h : h = [x \in S |-> g[x] - f[x]]
  OBVIOUS
<1>1. \A x \in S : h[x] \in Nat /\ g[x] = f[x] + h[x]
  BY <1>0
<1>2. SumFunctionOnSet(h, S) \in Nat
  BY <1>1, SumBound
<1>3. SumFunctionOnSet(g, S) = SumFunctionOnSet(f, S) + SumFunctionOnSet(h, S)
  BY <1>1, SumAdd
<1>4. SumFunctionOnSet(f, S) \in Int
  BY SumInt
<1> QED BY <1>2, <1>3, <1>4

\* A constant term.
LEMMA SumConst ==
  ASSUME NEW S, IsFiniteSet(S), NEW k \in Int, NEW f, \A x \in S : f[x] = k
  PROVE  SumFunctionOnSet(f, S) = k * Cardinality(S)
<1> DEFINE T == {s \in SUBSET S : SumFunctionOnSet(f, s) = k * Cardinality(s)}
<1>1. {} \in T
  <2>1. 0 = k * 0
    OBVIOUS
  <2> QED BY <2>1, SumEmpty, FS_EmptySet
<1>2. ASSUME NEW s \in SUBSET S, s # {}, s \ {Pick(s)} \in T PROVE s \in T
  <2>0. PICK p : p = Pick(s)
    OBVIOUS
  <2>1. p \in s /\ IsFiniteSet(s) /\ IsFiniteSet(s \ {p})
    BY <1>2, <2>0, PickIn, FS_Subset
  <2>2. SumFunctionOnSet(f, s) = f[p] + SumFunctionOnSet(f, s \ {p})
    BY <1>2, <2>0, <2>1, SumPick
  <2>3. Cardinality(s) \in Nat /\ Cardinality(s \ {p}) \in Nat /\ Cardinality(s \ {p}) = Cardinality(s) - 1
    BY <2>1, FS_RemoveElement, FS_CardinalityType
  <2>4. f[p] = k
    BY <2>1
  <2>5. SumFunctionOnSet(f, s \ {p}) = k * Cardinality(s \ {p})
    BY <1>2, <2>0
  <2>6. ASSUME NEW a \in Int PROVE k + k * (a - 1) = k * a
    OBVIOUS
  <2> QED BY <2>2, <2>3, <2>4, <2>5, <2>6
<1> HIDE DEF T
<1>3. S \in T
  BY <1>1, <1>2, SumInduction
<1> QED BY <1>3 DEF T

\* r has the sums of the rows F[a] of a table and c those of its columns G[b].
RowsAndColumns(A, B, F, G, r, c) ==
  /\ \A a \in A : \A b \in B : F[a][b] \in Int /\ G[b][a] = F[a][b]
  /\ \A a \in A : r[a] = SumFunctionOnSet(F[a], B)
  /\ \A b \in B : c[b] = SumFunctionOnSet(G[b], A)

\* The sum of the rows of a table is the sum of its columns.
LEMMA SumSwap ==
  ASSUME NEW A, IsFiniteSet(A), NEW B, IsFiniteSet(B), NEW F, NEW G, NEW r, NEW c,
         RowsAndColumns(A, B, F, G, r, c)
  PROVE  SumFunctionOnSet(r, A) = SumFunctionOnSet(c, B)
<1> DEFINE Cols(s) == [b \in B |-> SumFunctionOnSet(G[b], s)]
           T == {s \in SUBSET A : SumFunctionOnSet(r, s) = SumFunctionOnSet(Cols(s), B)}
<1>0. \A s : \A b \in B : Cols(s)[b] = SumFunctionOnSet(G[b], s)
  OBVIOUS
<1>1. {} \in T
  <2>1. \A b \in B : Cols({})[b] = 0
    BY SumEmpty
  <2> HIDE DEF Cols
  <2>2. SumFunctionOnSet(Cols({}), B) = 0
    BY <2>1, SumZero
  <2> QED BY <2>2, SumEmpty
<1>2. ASSUME NEW s \in SUBSET A, s # {}, s \ {Pick(s)} \in T PROVE s \in T
  <2> HIDE DEF Cols
  <2>0. PICK p : p = Pick(s)
    OBVIOUS
  <2>1. p \in s /\ p \in A /\ IsFiniteSet(s) /\ IsFiniteSet(s \ {p})
    BY <1>2, <2>0, PickIn, FS_Subset
  <2>2. SumFunctionOnSet(r, s) = r[p] + SumFunctionOnSet(r, s \ {p})
    BY <1>2, <2>0, <2>1, SumPick
  <2>3. ASSUME NEW b \in B
        PROVE  F[p][b] \in Int /\ Cols(s \ {p})[b] \in Int /\ Cols(s)[b] = F[p][b] + Cols(s \ {p})[b]
    <3>0. PICK f : f = G[b]
      OBVIOUS
    <3>1. (\A x \in s : f[x] \in Int) /\ f[p] = F[p][b] /\ F[p][b] \in Int
      BY <2>1, <3>0 DEF RowsAndColumns
    <3>2. SumFunctionOnSet(f, s) = f[p] + SumFunctionOnSet(f, s \ {p})
      BY <1>2, <2>0, <2>1, SumPick
    <3>3. SumFunctionOnSet(f, s \ {p}) \in Int
      BY <2>1, <3>1, SumInt
    <3> QED BY <1>0, <3>0, <3>1, <3>2, <3>3
  <2>4. SumFunctionOnSet(Cols(s), B) = SumFunctionOnSet(F[p], B) + SumFunctionOnSet(Cols(s \ {p}), B)
    BY <2>3, SumAdd
  <2>5. SumFunctionOnSet(r, s \ {p}) = SumFunctionOnSet(Cols(s \ {p}), B) /\ r[p] = SumFunctionOnSet(F[p], B)
    BY <1>2, <2>0, <2>1 DEF RowsAndColumns
  <2> QED BY <2>2, <2>4, <2>5
<1> HIDE DEF T, Cols
<1>3. A \in T
  BY <1>1, <1>2, SumInduction
<1>4. \A b \in B : c[b] = Cols(A)[b]
  BY <1>0 DEF RowsAndColumns
<1>5. SumFunctionOnSet(c, B) = SumFunctionOnSet(Cols(A), B)
  BY <1>4, SumAgree
<1> QED BY <1>3, <1>5 DEF T

=============================================================================
