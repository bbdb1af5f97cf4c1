----------------------------- MODULE SumTheorems -----------------------------
(***************************************************************************)
(* Facts about SumFunctionOnSet(f, S), the sum of f over a finite set, in  *)
(* which the models state what the wallets of a human have paid together.  *)
(*                                                                         *)
(* They are proved by minimal counterexample: a set of counterexamples     *)
(* among the subsets of a finite set has a smallest one, and taking an     *)
(* element out of that one leaves a set the claim holds for.               *)
(***************************************************************************)
EXTENDS Integers, Functions, FiniteSets, FiniteSetTheorems, WellFoundedInduction, TLAPS

\* A nonempty set of subsets of a finite set has a smallest member.
LEMMA MinimalSubset ==
  ASSUME NEW S, IsFiniteSet(S), NEW T, T \subseteq SUBSET S, T # {}
  PROVE  \E s \in T : \A t \in T : t \subseteq s => t = s
<1>1. FiniteSubsetsOf(S) = SUBSET S
  BY FS_FiniteSubsetsOfFinite
<1>2. IsWellFoundedOn(StrictSubsetOrdering(S), SUBSET S)
  BY <1>1, FS_StrictSubsetOrderingWellFounded
<1>3. PICK s \in T : \A t \in T : ~ (<<t, s>> \in StrictSubsetOrdering(S))
  BY <1>2, WFMin
<1> QED BY <1>3 DEF StrictSubsetOrdering

-----------------------------------------------------------------------------
(* The definition of a sum *)

\* The element the fold takes first.
Chosen(s) == CHOOSE x \in s : TRUE

\* What the library's fold iterates: the sums over all the subsets of S.
Solves(f, S, it) ==
  it = [s \in SUBSET S |-> IF s = {} THEN 0 ELSE f[Chosen(s)] + it[s \ {Chosen(s)}]]

\* A sum is the fold's table, looked up at the whole set.
LEMMA SumDef ==
  ASSUME NEW f, NEW S
  PROVE  SumFunctionOnSet(f, S) = (CHOOSE it : Solves(f, S, it))[S]
BY DEF SumFunctionOnSet, FoldFunctionOnSet, MapThenFoldSet, Solves, Chosen

\* The element taken is one of the set.
LEMMA ChosenIn ==
  ASSUME NEW s, s # {}
  PROVE  Chosen(s) \in s
BY DEF Chosen

\* There is one table of sums at most,
LEMMA SolutionUnique ==
  ASSUME NEW f, NEW S, IsFiniteSet(S), NEW i, NEW j, Solves(f, S, i), Solves(f, S, j)
  PROVE  i = j
<1> DEFINE T == {s \in SUBSET S : i[s] # j[s]}
<1>1. T = {}
  <2> SUFFICES ASSUME T # {} PROVE FALSE
    OBVIOUS
  <2>0. T \subseteq SUBSET S
    OBVIOUS
  <2>1. PICK s \in T : \A t \in T : t \subseteq s => t = s
    <3> HIDE DEF T
    <3> QED BY <2>0, MinimalSubset
  <2>2. /\ i[s] = IF s = {} THEN 0 ELSE f[Chosen(s)] + i[s \ {Chosen(s)}]
        /\ j[s] = IF s = {} THEN 0 ELSE f[Chosen(s)] + j[s \ {Chosen(s)}]
    BY DEF Solves
  <2>3. s # {} /\ Chosen(s) \in s
    BY <2>2, ChosenIn
  <2>4. s \ {Chosen(s)} \notin T
    BY <2>1, <2>3
  <2>5. i[s \ {Chosen(s)}] = j[s \ {Chosen(s)}]
    BY <2>4
  <2> QED BY <2>2, <2>5
<1> QED BY <1>1 DEF Solves

\* a table for S holds one for each of its subsets,
LEMMA SolutionRestricted ==
  ASSUME NEW f, NEW S, NEW it, Solves(f, S, it), NEW U \in SUBSET S
  PROVE  Solves(f, U, [s \in SUBSET U |-> it[s]])
<1> DEFINE r == [s \in SUBSET U |-> it[s]]
<1>1. ASSUME NEW s \in SUBSET U
      PROVE  r[s] = IF s = {} THEN 0 ELSE f[Chosen(s)] + r[s \ {Chosen(s)}]
  <2>1. s \in SUBSET S /\ s \ {Chosen(s)} \in SUBSET U
    OBVIOUS
  <2>2. it[s] = IF s = {} THEN 0 ELSE f[Chosen(s)] + it[s \ {Chosen(s)}]
    BY <2>1 DEF Solves
  <2> QED BY <2>1, <2>2
<1> QED BY <1>1 DEF Solves

\* The table of the sums over the subsets of S.
Solution(f, S) == CHOOSE it : Solves(f, S, it)

\* and there is one: the smallest set without a table could be given one.
LEMMA SolutionExists ==
  ASSUME NEW f, NEW S, IsFiniteSet(S)
  PROVE  Solves(f, S, Solution(f, S))
<1> DEFINE T == {s \in SUBSET S : ~ Solves(f, s, Solution(f, s))}
<1> SUFFICES T = {}
  OBVIOUS
<1> SUFFICES ASSUME T # {} PROVE FALSE
  OBVIOUS
<1>0. T \subseteq SUBSET S
  OBVIOUS
<1>1. PICK s \in T : \A t \in T : t \subseteq s => t = s
  <2> HIDE DEF T
  <2> QED BY <1>0, MinimalSubset
<1>2. \A t \in SUBSET s : t # s => Solves(f, t, Solution(f, t))
  BY <1>1
<1>3. ASSUME NEW t \in SUBSET s, t # s, NEW u \in SUBSET t
      PROVE  Solution(f, t)[u] = Solution(f, u)[u]
  <2>1. Solves(f, u, [v \in SUBSET u |-> Solution(f, t)[v]])
    BY <1>2, <1>3, SolutionRestricted
  <2>2. u # s /\ u \in SUBSET s
    BY <1>3
  <2>3. IsFiniteSet(u)
    BY <2>2, FS_Subset
  <2>4. [v \in SUBSET u |-> Solution(f, t)[v]] = Solution(f, u)
    BY <1>2, <2>1, <2>2, <2>3, SolutionUnique
  <2> QED BY <2>4
<1> DEFINE g == [t \in SUBSET s |->
                   IF t = {} THEN 0
                   ELSE f[Chosen(t)] + Solution(f, t \ {Chosen(t)})[t \ {Chosen(t)}]]
<1>4. ASSUME NEW t \in SUBSET s, t # s
      PROVE  g[t] = Solution(f, t)[t]
  <2>1. Solution(f, t)[t] = IF t = {} THEN 0
                            ELSE f[Chosen(t)] + Solution(f, t)[t \ {Chosen(t)}]
    BY <1>2, <1>4 DEF Solves
  <2>2. Solution(f, t)[t \ {Chosen(t)}] = Solution(f, t \ {Chosen(t)})[t \ {Chosen(t)}]
    BY <1>3, <1>4
  <2> QED BY <2>1, <2>2
<1>5. Solves(f, s, g)
  <2>1. ASSUME NEW t \in SUBSET s, t # {}
        PROVE  g[t \ {Chosen(t)}] = Solution(f, t \ {Chosen(t)})[t \ {Chosen(t)}]
    <3>1. Chosen(t) \in t
      BY <2>1, ChosenIn
    <3>2. t \ {Chosen(t)} # s /\ t \ {Chosen(t)} \in SUBSET s
      BY <3>1
    <3> HIDE DEF g
    <3> QED BY <1>4, <3>2
  <2>2. ASSUME NEW t \in SUBSET s
        PROVE  g[t] = IF t = {} THEN 0 ELSE f[Chosen(t)] + g[t \ {Chosen(t)}]
    BY <2>1
  <2>3. g = [t \in SUBSET s |-> g[t]]
    OBVIOUS
  <2> HIDE DEF g
  <2> QED BY <2>2, <2>3 DEF Solves
<1>6. Solves(f, s, Solution(f, s))
  <2> HIDE DEF g
  <2> QED BY <1>5 DEF Solution
<1> QED BY <1>1, <1>6

\* The sum over the empty set is 0, another takes one element and adds the rest.
LEMMA SumUnfold ==
  ASSUME NEW f, NEW S, IsFiniteSet(S)
  PROVE  /\ S = {} => SumFunctionOnSet(f, S) = 0
         /\ S # {} => SumFunctionOnSet(f, S)
                        = f[Chosen(S)] + SumFunctionOnSet(f, S \ {Chosen(S)})
<1> DEFINE U == S \ {Chosen(S)}
<1>1. /\ SumFunctionOnSet(f, S) = Solution(f, S)[S]
      /\ SumFunctionOnSet(f, U) = Solution(f, U)[U]
  BY SumDef DEF Solution
<1>2. Solves(f, S, Solution(f, S)) /\ Solves(f, U, Solution(f, U))
  <2>1. IsFiniteSet(U)
    BY FS_Subset
  <2> QED BY <2>1, SolutionExists
<1>3. Solution(f, S)[S] = IF S = {} THEN 0 ELSE f[Chosen(S)] + Solution(f, S)[U]
  BY <1>2 DEF Solves
<1>4. Solution(f, S)[U] = Solution(f, U)[U]
  <2>1. Solves(f, U, [s \in SUBSET U |-> Solution(f, S)[s]])
    BY <1>2, SolutionRestricted
  <2>2. IsFiniteSet(U)
    BY FS_Subset
  <2>3. [s \in SUBSET U |-> Solution(f, S)[s]] = Solution(f, U)
    BY <1>2, <2>1, <2>2, SolutionUnique
  <2> QED BY <2>3
<1> QED BY <1>1, <1>3, <1>4

-----------------------------------------------------------------------------
(* Laws of sums *)

\* The sum over the empty set is 0.
LEMMA SumEmpty ==
  \A f : SumFunctionOnSet(f, {}) = 0
BY FS_EmptySet, SumUnfold

\* A sum of natural numbers is one.
LEMMA SumNat ==
  ASSUME NEW f, NEW S, IsFiniteSet(S), \A x \in S : f[x] \in Nat
  PROVE  SumFunctionOnSet(f, S) \in Nat
<1> DEFINE T == {s \in SUBSET S : SumFunctionOnSet(f, s) \notin Nat}
<1> SUFFICES ASSUME T # {} PROVE FALSE
  OBVIOUS
<1>0. T \subseteq SUBSET S
  OBVIOUS
<1>1. PICK s \in T : \A t \in T : t \subseteq s => t = s
  <2> HIDE DEF T
  <2> QED BY <1>0, MinimalSubset
<1>2. IsFiniteSet(s)
  BY FS_Subset
<1>3. s # {} /\ Chosen(s) \in s
  <2>1. s # {}
    BY SumEmpty
  <2> QED BY <2>1, ChosenIn
<1>4. SumFunctionOnSet(f, s \ {Chosen(s)}) \in Nat
  BY <1>1, <1>3
<1> QED BY <1>2, <1>3, <1>4, SumUnfold

\* Any element may be taken out, not only the one the fold takes.
LEMMA SumRemove ==
  ASSUME NEW f, NEW S, IsFiniteSet(S), \A x \in S : f[x] \in Nat, NEW y \in S
  PROVE  SumFunctionOnSet(f, S) = f[y] + SumFunctionOnSet(f, S \ {y})
<1> DEFINE Sum(s) == SumFunctionOnSet(f, s)
           T == {s \in SUBSET S : \E z \in s : Sum(s) # f[z] + Sum(s \ {z})}
<1> SUFFICES ASSUME T # {} PROVE FALSE
  OBVIOUS
<1>0. T \subseteq SUBSET S
  OBVIOUS
<1>1. PICK s \in T : \A t \in T : t \subseteq s => t = s
  <2> HIDE DEF T
  <2> QED BY <1>0, MinimalSubset
<1>2. PICK z \in s : Sum(s) # f[z] + Sum(s \ {z})
  BY <1>1
<1>3. IsFiniteSet(s) /\ s # {}
  BY <1>2, FS_Subset
<1> DEFINE c == Chosen(s)
           u == (s \ {c}) \ {z}
<1>4. c \in s
  BY <1>3, ChosenIn
<1>5. Sum(s) = f[c] + Sum(s \ {c})
  BY <1>3, SumUnfold
<1> HIDE DEF c
<1>6. c # z
  BY <1>2, <1>5
<1>7. s \ {c} \notin T /\ s \ {z} \notin T
  BY <1>1, <1>4
<1>8. Sum(s \ {c}) = f[z] + Sum(u)
  BY <1>6, <1>7
<1>9. Sum(s \ {z}) = f[c] + Sum(u)
  <2>1. u = (s \ {z}) \ {c}
    OBVIOUS
  <2> QED BY <1>4, <1>6, <1>7, <2>1
<1>10. Sum(u) \in Nat /\ f[c] \in Nat /\ f[z] \in Nat
  <2>1. IsFiniteSet(u)
    BY <1>3, FS_Subset
  <2> QED BY <2>1, <1>4, SumNat
<1> HIDE DEF Sum
<1> QED BY <1>2, <1>5, <1>8, <1>9, <1>10

\* Functions that agree on a set have the same sum over it.
LEMMA SumEqual ==
  ASSUME NEW f, NEW g, NEW S, IsFiniteSet(S), \A x \in S : f[x] = g[x]
  PROVE  SumFunctionOnSet(f, S) = SumFunctionOnSet(g, S)
<1> DEFINE T == {s \in SUBSET S : SumFunctionOnSet(f, s) # SumFunctionOnSet(g, s)}
<1> SUFFICES ASSUME T # {} PROVE FALSE
  OBVIOUS
<1>0. T \subseteq SUBSET S
  OBVIOUS
<1>1. PICK s \in T : \A t \in T : t \subseteq s => t = s
  <2> HIDE DEF T
  <2> QED BY <1>0, MinimalSubset
<1>2. IsFiniteSet(s)
  BY FS_Subset
<1>3. s # {} /\ Chosen(s) \in s
  <2>1. s # {}
    BY SumEmpty
  <2> QED BY <2>1, ChosenIn
<1>4. SumFunctionOnSet(f, s \ {Chosen(s)}) = SumFunctionOnSet(g, s \ {Chosen(s)})
  BY <1>1, <1>3
<1> QED BY <1>2, <1>3, <1>4, SumUnfold

\* A function that changes at one point changes its sum by as much.
LEMMA SumPoint ==
  ASSUME NEW f, NEW g, NEW S, IsFiniteSet(S), NEW y \in S,
         \A x \in S : f[x] \in Nat /\ g[x] \in Nat,
         \A x \in S \ {y} : f[x] = g[x]
  PROVE  SumFunctionOnSet(g, S) = SumFunctionOnSet(f, S) + (g[y] - f[y])
<1>1. IsFiniteSet(S \ {y})
  BY FS_Subset
<1>2. SumFunctionOnSet(f, S \ {y}) = SumFunctionOnSet(g, S \ {y})
  BY <1>1, SumEqual
<1>3. /\ SumFunctionOnSet(f, S) = f[y] + SumFunctionOnSet(f, S \ {y})
      /\ SumFunctionOnSet(g, S) = g[y] + SumFunctionOnSet(g, S \ {y})
  BY SumRemove
<1>4. SumFunctionOnSet(f, S \ {y}) \in Nat
  BY <1>1, SumNat
<1> QED BY <1>2, <1>3, <1>4

\* Larger values have a larger sum.
LEMMA SumMonotone ==
  ASSUME NEW f, NEW g, NEW S, IsFiniteSet(S),
         \A x \in S : f[x] \in Nat /\ g[x] \in Nat /\ f[x] <= g[x]
  PROVE  SumFunctionOnSet(f, S) <= SumFunctionOnSet(g, S)
<1> DEFINE T == {s \in SUBSET S : ~ (SumFunctionOnSet(f, s) <= SumFunctionOnSet(g, s))}
<1> SUFFICES ASSUME T # {} PROVE FALSE
  OBVIOUS
<1>0. T \subseteq SUBSET S
  OBVIOUS
<1>1. PICK s \in T : \A t \in T : t \subseteq s => t = s
  <2> HIDE DEF T
  <2> QED BY <1>0, MinimalSubset
<1>2. IsFiniteSet(s) /\ IsFiniteSet(s \ {Chosen(s)})
  BY FS_Subset
<1>3. s # {} /\ Chosen(s) \in s
  <2>1. s # {}
    BY SumEmpty
  <2> QED BY <2>1, ChosenIn
<1>4. SumFunctionOnSet(f, s \ {Chosen(s)}) <= SumFunctionOnSet(g, s \ {Chosen(s)})
  BY <1>1, <1>3
<1>5. /\ SumFunctionOnSet(f, s \ {Chosen(s)}) \in Nat
      /\ SumFunctionOnSet(g, s \ {Chosen(s)}) \in Nat
  BY <1>2, SumNat
<1>6. /\ SumFunctionOnSet(f, s) = f[Chosen(s)] + SumFunctionOnSet(f, s \ {Chosen(s)})
      /\ SumFunctionOnSet(g, s) = g[Chosen(s)] + SumFunctionOnSet(g, s \ {Chosen(s)})
  BY <1>2, <1>3, SumUnfold
<1>7. f[Chosen(s)] <= g[Chosen(s)] /\ f[Chosen(s)] \in Nat /\ g[Chosen(s)] \in Nat
  BY <1>3
<1> QED BY <1>1, <1>4, <1>5, <1>6, <1>7

\* A sum of zeros is 0.
LEMMA SumZero ==
  ASSUME NEW f, NEW S, IsFiniteSet(S), \A x \in S : f[x] = 0
  PROVE  SumFunctionOnSet(f, S) = 0
<1> DEFINE T == {s \in SUBSET S : SumFunctionOnSet(f, s) # 0}
<1> SUFFICES ASSUME T # {} PROVE FALSE
  OBVIOUS
<1>0. T \subseteq SUBSET S
  OBVIOUS
<1>1. PICK s \in T : \A t \in T : t \subseteq s => t = s
  <2> HIDE DEF T
  <2> QED BY <1>0, MinimalSubset
<1>2. IsFiniteSet(s)
  BY FS_Subset
<1>3. s # {} /\ Chosen(s) \in s
  <2>1. s # {}
    BY SumEmpty
  <2> QED BY <2>1, ChosenIn
<1>4. SumFunctionOnSet(f, s \ {Chosen(s)}) = 0
  BY <1>1, <1>3
<1> QED BY <1>2, <1>3, <1>4, SumUnfold

\* A new element adds its value.
LEMMA SumAdd ==
  ASSUME NEW f, NEW S, IsFiniteSet(S), NEW y, y \notin S,
         \A x \in S \cup {y} : f[x] \in Nat
  PROVE  SumFunctionOnSet(f, S \cup {y}) = f[y] + SumFunctionOnSet(f, S)
<1>1. IsFiniteSet(S \cup {y})
  BY FS_AddElement
<1>2. (S \cup {y}) \ {y} = S
  OBVIOUS
<1> QED BY <1>1, <1>2, SumRemove

\* No value exceeds the sum it is part of.
LEMMA SumMember ==
  ASSUME NEW f, NEW S, IsFiniteSet(S), NEW y \in S, \A x \in S : f[x] \in Nat
  PROVE  f[y] <= SumFunctionOnSet(f, S)
<1>1. IsFiniteSet(S \ {y})
  BY FS_Subset
<1>2. SumFunctionOnSet(f, S \ {y}) \in Nat
  BY <1>1, SumNat
<1> QED BY <1>2, SumRemove

\* Elements of value 0 may be left out.
LEMMA SumSupport ==
  ASSUME NEW f, NEW S, IsFiniteSet(S), \A x \in S : f[x] \in Nat,
         NEW U \in SUBSET S, \A x \in S \ U : f[x] = 0
  PROVE  SumFunctionOnSet(f, S) = SumFunctionOnSet(f, U)
<1> DEFINE Sum(s) == SumFunctionOnSet(f, s)
           T == {s \in SUBSET S : U \subseteq s /\ Sum(s) # Sum(U)}
<1> SUFFICES ASSUME T # {} PROVE FALSE
  OBVIOUS
<1>0. T \subseteq SUBSET S
  OBVIOUS
<1>1. PICK s \in T : \A t \in T : t \subseteq s => t = s
  <2> HIDE DEF T
  <2> QED BY <1>0, MinimalSubset
<1>2. PICK y \in s : y \notin U
  OBVIOUS
<1>3. s \ {y} \notin T
  BY <1>1, <1>2
<1>4. Sum(s \ {y}) = Sum(U)
  BY <1>2, <1>3
<1>5. Sum(s) = f[y] + Sum(s \ {y}) /\ Sum(s \ {y}) \in Nat /\ f[y] = 0
  <2>1. IsFiniteSet(s) /\ IsFiniteSet(s \ {y})
    BY FS_Subset
  <2> QED BY <1>2, <2>1, SumRemove, SumNat
<1> HIDE DEF Sum
<1> QED BY <1>1, <1>4, <1>5

-----------------------------------------------------------------------------
(* The extremes of a finite set of numbers *)

\* A nonempty finite set of natural numbers has a least and a greatest element.
LEMMA Extremes ==
  ASSUME NEW S, IsFiniteSet(S), S # {}, \A x \in S : x \in Nat
  PROVE  /\ \E x \in S : \A y \in S : x <= y
         /\ \E x \in S : \A y \in S : y <= x
<1>1. \E x \in S : \A y \in S : x <= y
  <2> DEFINE Below(x) == {y \in S : y <= x}
             T == {Below(x) : x \in S}
  <2>1. T \subseteq SUBSET S
    OBVIOUS
  <2>2. T # {}
    OBVIOUS
  <2>3. PICK s \in T : \A t \in T : t \subseteq s => t = s
    <3> HIDE DEF T
    <3> QED BY <2>1, <2>2, MinimalSubset
  <2>4. PICK x \in S : s = Below(x)
    OBVIOUS
  <2>5. ASSUME NEW y \in S, ~ (x <= y)
        PROVE  FALSE
    <3>1. x \in Nat /\ y \in Nat /\ y <= x /\ y # x
      BY <2>5
    <3>2. ASSUME NEW z \in S, z <= y
          PROVE  z <= x
      BY <3>1, <3>2
    <3>3. Below(y) \in T
      OBVIOUS
    <3> HIDE DEF T
    <3>4. Below(y) \subseteq Below(x)
      BY <3>2
    <3>5. x \in Below(x) /\ x \notin Below(y)
      BY <2>5, <3>1
    <3> HIDE DEF Below
    <3> QED BY <2>3, <2>4, <3>3, <3>4, <3>5
  <2> QED BY <2>5
<1>2. \E x \in S : \A y \in S : y <= x
  <2> DEFINE Above(x) == {y \in S : x <= y}
             T == {Above(x) : x \in S}
  <2>1. T \subseteq SUBSET S
    OBVIOUS
  <2>2. T # {}
    OBVIOUS
  <2>3. PICK s \in T : \A t \in T : t \subseteq s => t = s
    <3> HIDE DEF T
    <3> QED BY <2>1, <2>2, MinimalSubset
  <2>4. PICK x \in S : s = Above(x)
    OBVIOUS
  <2>5. ASSUME NEW y \in S, ~ (y <= x)
        PROVE  FALSE
    <3>1. x \in Nat /\ y \in Nat /\ x <= y /\ y # x
      BY <2>5
    <3>2. ASSUME NEW z \in S, y <= z
          PROVE  x <= z
      BY <3>1, <3>2
    <3>3. Above(y) \in T
      OBVIOUS
    <3> HIDE DEF T
    <3>4. Above(y) \subseteq Above(x)
      BY <3>2
    <3>5. x \in Above(x) /\ x \notin Above(y)
      BY <2>5, <3>1
    <3> HIDE DEF Above
    <3> QED BY <2>3, <2>4, <3>3, <3>4, <3>5
  <2> QED BY <2>5
<1> QED BY <1>1, <1>2
=============================================================================
