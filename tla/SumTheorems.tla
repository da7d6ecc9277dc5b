---------------------------- MODULE SumTheorems ----------------------------
(***************************************************************************)
(* Sums over finite sets.  SumFunctionOnSet of the community modules takes *)
(* the elements of a set in an order that CHOOSE fixes; the theorems here  *)
(* say that the order does not matter.  Each is proved by looking at a     *)
(* smallest subset for which it would fail: the subsets of a finite set    *)
(* are well-founded.                                                       *)
(***************************************************************************)
EXTENDS Naturals, Functions, FiniteSetTheorems, TLAPS

First(s) == CHOOSE x \in s : TRUE

\* g[s] adds up f over s, for every subset s of S.
Adds(f, S, g) ==
    g = [s \in SUBSET S |-> IF s = {} THEN 0 ELSE f[First(s)] + g[s \ {First(s)}]]

LEMMA SumByAdds ==
    ASSUME NEW f, NEW S
    PROVE  SumFunctionOnSet(f, S) = (CHOOSE g : Adds(f, S, g))[S]
BY DEF SumFunctionOnSet, FoldFunctionOnSet, MapThenFoldSet, Adds, First

LEMMA AddsValue ==
    ASSUME NEW f, NEW S, NEW g, Adds(f, S, g), NEW s \in SUBSET S
    PROVE  g[s] = IF s = {} THEN 0 ELSE f[First(s)] + g[s \ {First(s)}]
BY DEF Adds

LEMMA FirstIn == ASSUME NEW s, s # {} PROVE First(s) \in s
BY DEF First

\* Among sets of a finite set there is one that has none of the others inside it.
LEMMA Smallest ==
    ASSUME NEW S, IsFiniteSet(S), NEW B, B \subseteq SUBSET S, B # {}
    PROVE  \E s \in B : \A t \in B : t \subseteq s => t = s
<1> DEFINE R == StrictSubsetOrdering(S)
<1>1. IsWellFoundedOn(R, SUBSET S)
  BY FS_StrictSubsetOrderingWellFounded, FS_FiniteSubsetsOfFinite
<1>2. PICK s \in B : \A t \in B : ~ (<<t, s>> \in R)
  <2> HIDE DEF R
  <2> QED BY <1>1, WFMin
<1> QED BY <1>2 DEF StrictSubsetOrdering

\* Two functions that add up the same values agree.
LEMMA AddsAgree ==
    ASSUME NEW S, IsFiniteSet(S), NEW f, NEW h, NEW a, NEW b, NEW g, NEW k,
           S \subseteq a, S \subseteq b, Adds(f, a, g), Adds(h, b, k),
           \A x \in S : f[x] = h[x]
    PROVE  \A s \in SUBSET S : g[s] = k[s]
<1> DEFINE B == {s \in SUBSET S : g[s] # k[s]}
<1> SUFFICES ASSUME B # {} PROVE FALSE
  OBVIOUS
<1>1. PICK s \in B : \A t \in B : t \subseteq s => t = s
  <2>1. B \subseteq SUBSET S
    OBVIOUS
  <2> HIDE DEF B
  <2> QED BY <2>1, Smallest
<1>2. /\ g[s] = IF s = {} THEN 0 ELSE f[First(s)] + g[s \ {First(s)}]
      /\ k[s] = IF s = {} THEN 0 ELSE h[First(s)] + k[s \ {First(s)}]
  <2>1. s \in SUBSET a /\ s \in SUBSET b
    BY <1>1
  <2> QED BY <2>1 DEF Adds
<1>3. s # {}
  BY <1>1, <1>2
<1>4. First(s) \in s /\ f[First(s)] = h[First(s)]
  BY <1>1, <1>3, FirstIn
<1>5. s \ {First(s)} \in SUBSET S /\ s \ {First(s)} \notin B
  BY <1>1, <1>4
<1>6. g[s \ {First(s)}] = k[s \ {First(s)}]
  BY <1>5
<1> QED BY <1>1, <1>2, <1>3, <1>4, <1>6

\* The function that adds up f exists.
LEMMA AddsExists ==
    ASSUME NEW S, IsFiniteSet(S), NEW f
    PROVE  \E g : Adds(f, S, g)
<1> DEFINE B == {s \in SUBSET S : ~ \E g : Adds(f, s, g)}
<1> SUFFICES ASSUME B # {} PROVE FALSE
  OBVIOUS
<1>1. PICK s \in B : \A t \in B : t \subseteq s => t = s
  <2>1. B \subseteq SUBSET S
    OBVIOUS
  <2> HIDE DEF B
  <2> QED BY <2>1, Smallest
<1> DEFINE G(t) == CHOOSE g : Adds(f, t, g)
           v(t) == IF t = {} THEN 0 ELSE f[First(t)] + G(t \ {First(t)})[t \ {First(t)}]
           new == [t \in SUBSET s |-> v(t)]
<1>2. ASSUME NEW t \in SUBSET s, t # s PROVE Adds(f, t, G(t))
  BY <1>1, <1>2
<1>3. ASSUME NEW t \in SUBSET s, t # s PROVE v(t) = G(t)[t]
  <2>1. G(t)[t] = IF t = {} THEN 0 ELSE f[First(t)] + G(t)[t \ {First(t)}]
    <3>1. Adds(f, t, G(t)) /\ t \in SUBSET t
      BY <1>2, <1>3
    <3> HIDE DEF G
    <3> QED BY <3>1, AddsValue
  <2>2. CASE t # {}
    <3> DEFINE u == t \ {First(t)}
    <3>1. u \in SUBSET s /\ u # s /\ u \subseteq t /\ IsFiniteSet(u)
      BY <1>3, <2>2, FirstIn, <1>1, FS_Subset
    <3>2. Adds(f, t, G(t)) /\ Adds(f, u, G(u))
      BY <1>2, <1>3, <3>1
    <3>3. G(t)[u] = G(u)[u]
      <4> HIDE DEF G, u
      <4> QED BY <3>1, <3>2, AddsAgree
    <3> QED BY <2>1, <2>2, <3>3
  <2> QED BY <2>1, <2>2
<1>4. Adds(f, s, new)
  <2> SUFFICES ASSUME NEW t \in SUBSET s, t # {}
               PROVE  v(t) = f[First(t)] + new[t \ {First(t)}]
    <3> HIDE DEF G
    <3> QED BY DEF Adds
  <2> DEFINE u == t \ {First(t)}
  <2>1. u \in SUBSET s /\ u # s
    BY FirstIn
  <2>2. new[u] = G(u)[u]
    <3>1. new[u] = v(u)
      BY <2>1
    <3> HIDE DEF new, v, u
    <3> QED BY <2>1, <3>1, <1>3
  <2> QED BY <2>2
<1> QED BY <1>1, <1>4

\* A sum depends only on the values that are added.
THEOREM SumSame ==
    ASSUME NEW S, IsFiniteSet(S), NEW f, NEW h, \A x \in S : f[x] = h[x]
    PROVE  SumFunctionOnSet(f, S) = SumFunctionOnSet(h, S)
<1> DEFINE g == CHOOSE r : Adds(f, S, r)
           k == CHOOSE r : Adds(h, S, r)
<1>1. Adds(f, S, g) /\ Adds(h, S, k)
  BY AddsExists
<1>2. SumFunctionOnSet(f, S) = g[S] /\ SumFunctionOnSet(h, S) = k[S]
  BY SumByAdds
<1> HIDE DEF g, k
<1> QED BY <1>1, <1>2, AddsAgree

\* The definition, unfolded once.
LEMMA SumUnfolds ==
    ASSUME NEW S, IsFiniteSet(S), NEW f
    PROVE  SumFunctionOnSet(f, S) =
              IF S = {} THEN 0 ELSE f[First(S)] + SumFunctionOnSet(f, S \ {First(S)})
<1> DEFINE u == S \ {First(S)}
           g == CHOOSE r : Adds(f, S, r)
           k == CHOOSE r : Adds(f, u, r)
<1>1. IsFiniteSet(u) /\ u \subseteq S
  BY FS_Subset
<1>2. Adds(f, S, g) /\ Adds(f, u, k)
  BY <1>1, AddsExists
<1>3. SumFunctionOnSet(f, S) = g[S] /\ SumFunctionOnSet(f, u) = k[u]
  BY SumByAdds
<1>4. g[S] = IF S = {} THEN 0 ELSE f[First(S)] + g[u]
  BY <1>2 DEF Adds
<1>5. g[u] = k[u]
  <2> HIDE DEF g, k, u
  <2> QED BY <1>1, <1>2, AddsAgree
<1> QED BY <1>3, <1>4, <1>5

\* Nothing adds up to nothing.
THEOREM SumEmpty == ASSUME NEW f PROVE SumFunctionOnSet(f, {}) = 0
BY SumUnfolds, FS_EmptySet

\* Sums of natural numbers are natural numbers.
THEOREM SumNat ==
    ASSUME NEW S, IsFiniteSet(S), NEW f, \A x \in S : f[x] \in Nat
    PROVE  SumFunctionOnSet(f, S) \in Nat
<1> DEFINE B == {s \in SUBSET S : SumFunctionOnSet(f, s) \notin Nat}
<1> SUFFICES ASSUME B # {} PROVE FALSE
  OBVIOUS
<1>1. PICK s \in B : \A t \in B : t \subseteq s => t = s
  <2>1. B \subseteq SUBSET S
    OBVIOUS
  <2> HIDE DEF B
  <2> QED BY <2>1, Smallest
<1>2. IsFiniteSet(s)
  BY <1>1, FS_Subset
<1>3. s # {}
  <2>1. SumFunctionOnSet(f, {}) \in Nat
    BY SumEmpty
  <2> QED BY <1>1, <2>1
<1>4. First(s) \in s /\ s \ {First(s)} \in SUBSET S /\ s \ {First(s)} \notin B
  BY <1>1, <1>3, FirstIn
<1>5. SumFunctionOnSet(f, s) = f[First(s)] + SumFunctionOnSet(f, s \ {First(s)})
  BY <1>2, <1>3, SumUnfolds
<1> QED BY <1>1, <1>4, <1>5

\* Any element may be taken out first.
THEOREM SumRemove ==
    ASSUME NEW S, IsFiniteSet(S), NEW f, \A x \in S : f[x] \in Nat, NEW e \in S
    PROVE  SumFunctionOnSet(f, S) = f[e] + SumFunctionOnSet(f, S \ {e})
<1> DEFINE sum(s) == SumFunctionOnSet(f, s)
           B == {s \in SUBSET S : \E x \in s : sum(s) # f[x] + sum(s \ {x})}
<1>0. SUFFICES ASSUME B # {} PROVE FALSE
  BY DEF B
<1>1. PICK s \in B : \A t \in B : t \subseteq s => t = s
  <2>1. B \subseteq SUBSET S
    OBVIOUS
  <2> HIDE DEF B
  <2> QED BY <1>0, <2>1, Smallest
<1>2. PICK x \in s : sum(s) # f[x] + sum(s \ {x})
  BY <1>1
<1> DEFINE c == First(s)
           rest == s \ {c, x}
<1>3. IsFiniteSet(s) /\ c \in s /\ s \in SUBSET S
  BY <1>1, <1>2, FS_Subset, FirstIn
<1>4. sum(s) = f[c] + sum(s \ {c})
  BY <1>3, SumUnfolds
<1>5. c # x
  BY <1>2, <1>4
<1>6. ASSUME NEW t \in SUBSET s, t # s, NEW y \in t
      PROVE  sum(t) = f[y] + sum(t \ {y})
  BY <1>1, <1>3, <1>6
<1>7. sum(s \ {c}) = f[x] + sum(rest) /\ sum(s \ {x}) = f[c] + sum(rest)
  <2>1. (s \ {c}) \ {x} = rest /\ (s \ {x}) \ {c} = rest
    OBVIOUS
  <2>2. s \ {c} \in SUBSET s /\ s \ {c} # s /\ x \in s \ {c}
    BY <1>2, <1>3, <1>5
  <2>3. s \ {x} \in SUBSET s /\ s \ {x} # s /\ c \in s \ {x}
    BY <1>2, <1>3, <1>5
  <2> HIDE DEF sum, c, rest
  <2> QED BY <2>1, <2>2, <2>3, <1>6
<1>8. f[c] \in Nat /\ f[x] \in Nat /\ sum(rest) \in Nat
  <2>1. IsFiniteSet(rest) /\ \A y \in rest : f[y] \in Nat
    BY <1>3, FS_Subset
  <2> QED BY <1>2, <1>3, <2>1, SumNat
<1> HIDE DEF sum, c, rest
<1> QED BY <1>2, <1>4, <1>7, <1>8

\* A value that grows makes the sum grow as much.
THEOREM SumGrows ==
    ASSUME NEW S, IsFiniteSet(S), NEW f, NEW h, NEW e \in S, NEW d \in Nat,
           \A x \in S : f[x] \in Nat, h[e] = f[e] + d, \A x \in S \ {e} : h[x] = f[x]
    PROVE  SumFunctionOnSet(h, S) = SumFunctionOnSet(f, S) + d
<1>1. IsFiniteSet(S \ {e}) /\ \A x \in S : h[x] \in Nat
  BY FS_Subset
<1>2. SumFunctionOnSet(h, S \ {e}) = SumFunctionOnSet(f, S \ {e})
  BY <1>1, SumSame
<1>3. SumFunctionOnSet(h, S) = h[e] + SumFunctionOnSet(h, S \ {e})
  BY <1>1, SumRemove
<1>4. SumFunctionOnSet(f, S) = f[e] + SumFunctionOnSet(f, S \ {e})
  BY SumRemove
<1>5. SumFunctionOnSet(f, S \ {e}) \in Nat
  BY <1>1, SumNat
<1> QED BY <1>2, <1>3, <1>4, <1>5

\* An element that counts nothing may be added.
THEOREM SumOfMore ==
    ASSUME NEW S, IsFiniteSet(S), NEW f, NEW h, NEW e, e \notin S,
           \A x \in S : f[x] \in Nat, h[e] = 0, \A x \in S : h[x] = f[x]
    PROVE  SumFunctionOnSet(h, S \cup {e}) = SumFunctionOnSet(f, S)
<1>1. IsFiniteSet(S \cup {e}) /\ (S \cup {e}) \ {e} = S /\ e \in S \cup {e}
  BY FS_AddElement
<1>2. \A x \in S \cup {e} : h[x] \in Nat
  OBVIOUS
<1>3. SumFunctionOnSet(h, S \cup {e}) = h[e] + SumFunctionOnSet(h, S)
  BY <1>1, <1>2, SumRemove
<1>4. SumFunctionOnSet(h, S) = SumFunctionOnSet(f, S) /\ SumFunctionOnSet(f, S) \in Nat
  BY SumSame, SumNat
<1> QED BY <1>3, <1>4
=============================================================================
