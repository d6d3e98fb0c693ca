----------------------------- MODULE SumProofs -----------------------------
(***************************************************************************)
(* What the ledgers' totals rest on: facts about SumFunctionOnSet(f, S),   *)
(* the sum of f[x] over the members x of a finite set S.                   *)
(*                                                                         *)
(* The library defines the sum by recursion over the subsets of S.  The    *)
(* proofs are by a minimal counterexample: a nonempty set of subsets of a  *)
(* finite set has a member none of whose proper subsets belongs to it.     *)
(***************************************************************************)
EXTENDS Integers, FiniteSets, Functions, FiniteSetTheorems, WellFoundedInduction, TLAPS

\* A set of subsets of a finite set has a minimal member.
LEMMA MinimalSubset ==
  ASSUME NEW S, IsFiniteSet(S), NEW T, T \subseteq SUBSET S, T # {}
  PROVE  \E m \in T : \A s \in SUBSET m : s # m => s \notin T
<1>1. T \subseteq FiniteSubsetsOf(S)
  BY FS_FiniteSubsetsOfFinite
<1>2. PICK m \in T : \A y \in T : ~ (<<y, m>> \in StrictSubsetOrdering(S))
  BY <1>1, WFMin, FS_StrictSubsetOrderingWellFounded
<1>3. ASSUME NEW s \in SUBSET m, s # m, s \in T PROVE FALSE
  BY <1>2, <1>3 DEF StrictSubsetOrdering
<1> QED BY <1>3

-----------------------------------------------------------------------------
(* The recursion behind the sum has a solution, and only one.              *)

Some(s) == CHOOSE x \in s : TRUE

SumsUp(f, g, U) ==
  g = [s \in SUBSET U |-> IF s = {} THEN 0 ELSE f[Some(s)] + g[s \ {Some(s)}]]

\* A nonempty set loses the element that is taken out of it.
LEMMA SomeOut ==
  ASSUME NEW s, s # {}
  PROVE  /\ Some(s) \in s
         /\ s \ {Some(s)} \in SUBSET s
         /\ s \ {Some(s)} # s
<1>1. Some(s) \in s
  BY DEF Some
<1> QED BY <1>1

\* One step of the recursion.
LEMMA SumsUpStep ==
  ASSUME NEW f, NEW g, NEW U, SumsUp(f, g, U), NEW s \in SUBSET U
  PROVE  g[s] = IF s = {} THEN 0 ELSE f[Some(s)] + g[s \ {Some(s)}]
  BY DEF SumsUp

\* Two solutions agree where both are defined.
LEMMA SumsUpAgree ==
  ASSUME NEW f, NEW g, NEW h, NEW U, NEW V, SumsUp(f, g, U), SumsUp(f, h, V),
         NEW S, IsFiniteSet(S), S \subseteq U, S \subseteq V
  PROVE  g[S] = h[S]
<1> DEFINE T == {s \in SUBSET S : g[s] # h[s]}
<1> SUFFICES ASSUME T # {} PROVE FALSE
  OBVIOUS
<1>1. PICK m \in T : \A s \in SUBSET m : s # m => s \notin T
  <2>1. T \subseteq SUBSET S
    OBVIOUS
  <2> HIDE DEF T
  <2> QED BY <2>1, MinimalSubset
<1>2. m \in SUBSET S /\ g[m] # h[m] /\ m \in SUBSET U /\ m \in SUBSET V
  OBVIOUS
<1>3. CASE m = {}
  BY <1>2, <1>3, SumsUpStep
<1>4. CASE m # {}
  <2> DEFINE r == m \ {Some(m)}
  <2>1. r \in SUBSET m /\ r # m
    BY <1>4, SomeOut
  <2>2. g[r] = h[r]
    BY <1>1, <1>2, <2>1
  <2>3. g[m] = f[Some(m)] + g[r]
    BY <1>2, <1>4, SumsUpStep
  <2>4. h[m] = f[Some(m)] + h[r]
    <3> HIDE DEF T
    <3> QED BY <1>2, <1>4, SumsUpStep
  <2> QED BY <1>2, <2>2, <2>3, <2>4
<1> QED BY <1>3, <1>4

\* There is a solution on every finite set.
LEMMA SumsUpExists ==
  ASSUME NEW f, NEW U, IsFiniteSet(U)
  PROVE  \E g : SumsUp(f, g, U)
<1> DEFINE T == {s \in SUBSET U : ~ \E g : SumsUp(f, g, s)}
<1> SUFFICES ASSUME T # {} PROVE FALSE
  OBVIOUS
<1>1. PICK m \in T : \A s \in SUBSET m : s # m => s \notin T
  <2>1. T \subseteq SUBSET U
    OBVIOUS
  <2> HIDE DEF T
  <2> QED BY <2>1, MinimalSubset
<1>2. m \in SUBSET U /\ ~ \E g : SumsUp(f, g, m)
  OBVIOUS
<1> DEFINE G(s) == CHOOSE g : SumsUp(f, g, s)
           rest(s) == s \ {Some(s)}
           h == [s \in SUBSET m |->
                   IF s = {} THEN 0 ELSE f[Some(s)] + G(rest(s))[rest(s)]]
<1>3. ASSUME NEW s \in SUBSET m, s # m PROVE SumsUp(f, G(s), s)
  BY <1>1, <1>2, <1>3
<1>4. ASSUME NEW s \in SUBSET m, s # m PROVE G(s)[s] = h[s]
  <2>1. SumsUp(f, G(s), s)
    BY <1>3, <1>4
  <2>2. CASE s = {}
    BY <2>1, <2>2, SumsUpStep
  <2>3. CASE s # {}
    <3> HIDE DEF G
    <3>1. rest(s) \in SUBSET s /\ rest(s) # s
      BY <2>3, SomeOut
    <3>2. rest(s) \in SUBSET m /\ rest(s) # m
      BY <1>4, <3>1
    <3>3. SumsUp(f, G(rest(s)), rest(s))
      BY <1>3, <3>2
    <3>4. IsFiniteSet(rest(s))
      BY <1>2, <3>2, FS_Subset
    <3>5. G(s)[rest(s)] = G(rest(s))[rest(s)]
      BY <2>1, <3>1, <3>3, <3>4, SumsUpAgree
    <3>6. G(s)[s] = f[Some(s)] + G(s)[rest(s)]
      BY <2>1, <2>3, SumsUpStep
    <3> QED BY <2>3, <3>5, <3>6
  <2> QED BY <2>2, <2>3
<1>5. ASSUME NEW s \in SUBSET m
      PROVE  h[s] = IF s = {} THEN 0 ELSE f[Some(s)] + h[rest(s)]
  <2> HIDE DEF G
  <2>1. CASE s = {}
    BY <2>1
  <2>2. CASE s # {}
    <3>1. rest(s) \in SUBSET m /\ rest(s) # m
      BY <2>2, SomeOut
    <3> QED BY <1>4, <2>2, <3>1
  <2> QED BY <2>1, <2>2
<1>6. SumsUp(f, h, m)
  <2>1. h = [s \in SUBSET m |-> h[s]]
    OBVIOUS
  <2> HIDE DEF h
  <2> QED BY <1>5, <2>1 DEF SumsUp
<1> QED BY <1>2, <1>6

\* The library's sum is the value of the solution on the whole set.
LEMMA SumIsSumsUp ==
  ASSUME NEW f, NEW S
  PROVE  SumFunctionOnSet(f, S) = (CHOOSE g : SumsUp(f, g, S))[S]
  BY DEF SumFunctionOnSet, FoldFunctionOnSet, MapThenFoldSet, SumsUp, Some

-----------------------------------------------------------------------------
(* The sum.                                                                *)

\* The sum of a nonempty set, one of its members taken out.
LEMMA SumSome ==
  ASSUME NEW f, NEW S, IsFiniteSet(S)
  PROVE  SumFunctionOnSet(f, S) =
           IF S = {} THEN 0
           ELSE f[Some(S)] + SumFunctionOnSet(f, S \ {Some(S)})
<1> DEFINE g == CHOOSE g : SumsUp(f, g, S)
           r == S \ {Some(S)}
           h == CHOOSE h : SumsUp(f, h, r)
<1>1. SumsUp(f, g, S)
  BY SumsUpExists
<1>2. IsFiniteSet(r)
  BY FS_Subset, r \in SUBSET S
<1>3. SumsUp(f, h, r)
  <2> HIDE DEF r
  <2> QED BY <1>2, SumsUpExists
<1>4. SumFunctionOnSet(f, S) = g[S] /\ SumFunctionOnSet(f, r) = h[r]
  BY SumIsSumsUp
<1> HIDE DEF g, h
<1>5. g[S] = IF S = {} THEN 0 ELSE f[Some(S)] + g[r]
  BY <1>1, SumsUpStep
<1>6. g[r] = h[r]
  <2>1. r \subseteq S /\ r \subseteq r
    OBVIOUS
  <2> HIDE DEF r
  <2> QED BY <1>1, <1>2, <1>3, <2>1, SumsUpAgree
<1> QED BY <1>4, <1>5, <1>6

\* The sum over nothing.
LEMMA SumEmpty ==
  ASSUME NEW f
  PROVE  SumFunctionOnSet(f, {}) = 0
  BY SumSome, FS_EmptySet

\* The sum of integers is an integer.
LEMMA SumInt ==
  ASSUME NEW f, NEW S, IsFiniteSet(S), \A x \in S : f[x] \in Int
  PROVE  SumFunctionOnSet(f, S) \in Int
<1> DEFINE T == {s \in SUBSET S : SumFunctionOnSet(f, s) \notin Int}
<1> SUFFICES ASSUME T # {} PROVE FALSE
  OBVIOUS
<1>1. PICK m \in T : \A s \in SUBSET m : s # m => s \notin T
  <2>1. T \subseteq SUBSET S
    OBVIOUS
  <2> HIDE DEF T
  <2> QED BY <2>1, MinimalSubset
<1>2. m \in SUBSET S /\ SumFunctionOnSet(f, m) \notin Int
  OBVIOUS
<1>3. IsFiniteSet(m)
  BY <1>2, FS_Subset
<1>4. m # {}
  BY <1>2, SumEmpty
<1>5. SumFunctionOnSet(f, m \ {Some(m)}) \in Int
  BY <1>1, <1>2, <1>4, SomeOut
<1>6. f[Some(m)] \in Int
  BY <1>2, <1>4, SomeOut
<1> HIDE DEF T
<1>7. SumFunctionOnSet(f, m) = f[Some(m)] + SumFunctionOnSet(f, m \ {Some(m)})
  BY <1>3, <1>4, SumSome
<1> QED BY <1>2, <1>5, <1>6, <1>7

\* The order does not matter: any member can be taken out.
LEMMA SumRemove ==
  ASSUME NEW f, NEW S, IsFiniteSet(S), \A x \in S : f[x] \in Int, NEW y \in S
  PROVE  SumFunctionOnSet(f, S) = f[y] + SumFunctionOnSet(f, S \ {y})
<1> DEFINE Sum(s) == SumFunctionOnSet(f, s)
           T == {s \in SUBSET S : \E z \in s : Sum(s) # f[z] + Sum(s \ {z})}
<1> SUFFICES ASSUME T # {} PROVE FALSE
  OBVIOUS
<1>1. PICK m \in T : \A s \in SUBSET m : s # m => s \notin T
  <2>1. T \subseteq SUBSET S
    OBVIOUS
  <2> HIDE DEF T
  <2> QED BY <2>1, MinimalSubset
<1>2. PICK z \in m : Sum(m) # f[z] + Sum(m \ {z})
  OBVIOUS
<1>3. m \in SUBSET S
  OBVIOUS
<1>4. ASSUME NEW s \in SUBSET m, s # m, NEW u \in s
      PROVE  Sum(s) = f[u] + Sum(s \ {u})
  BY <1>1, <1>3, <1>4
<1> HIDE DEF T
<1> DEFINE x == Some(m)
<1>5. x \in m
  BY SomeOut
<1>6. ASSUME NEW s \in SUBSET m PROVE IsFiniteSet(s) /\ Sum(s) \in Int
  <2>1. IsFiniteSet(s)
    BY <1>3, FS_Subset
  <2> QED BY <1>3, <2>1, SumInt
<1>7. Sum(m) = f[x] + Sum(m \ {x})
  BY <1>5, <1>6, SumSome
<1> HIDE DEF x, Sum
<1>8. x # z
  BY <1>2, <1>7
<1>9. Sum(m \ {x}) = f[z] + Sum((m \ {x}) \ {z})
  BY <1>4, <1>5, <1>8
<1>10. Sum(m \ {z}) = f[x] + Sum((m \ {z}) \ {x})
  BY <1>4, <1>5, <1>8
<1>11. Sum((m \ {x}) \ {z}) = Sum((m \ {z}) \ {x})
  <2>1. (m \ {x}) \ {z} = (m \ {z}) \ {x}
    OBVIOUS
  <2> QED BY <2>1
<1>12. Sum((m \ {x}) \ {z}) \in Int
  BY <1>6
<1>13. f[x] \in Int /\ f[z] \in Int
  BY <1>3, <1>5
<1> DEFINE both == Sum((m \ {x}) \ {z})
<1>14. Sum(m) = f[x] + (f[z] + both) /\ Sum(m \ {z}) = f[x] + both
  BY <1>7, <1>9, <1>10, <1>11
<1>15. both \in Int
  BY <1>12
<1> HIDE DEF both
<1>16. f[x] + (f[z] + both) = f[z] + (f[x] + both)
  BY <1>13, <1>15
<1> QED BY <1>2, <1>14, <1>16

\* A new member adds its own.
LEMMA SumAdd ==
  ASSUME NEW f, NEW S, IsFiniteSet(S), \A x \in S : f[x] \in Int,
         NEW y, y \notin S, f[y] \in Int
  PROVE  SumFunctionOnSet(f, S \cup {y}) = SumFunctionOnSet(f, S) + f[y]
<1>1. IsFiniteSet(S \cup {y}) /\ (S \cup {y}) \ {y} = S
  BY FS_AddElement
<1>2. SumFunctionOnSet(f, S) \in Int
  BY SumInt
<1>3. SumFunctionOnSet(f, S \cup {y}) = f[y] + SumFunctionOnSet(f, S)
  BY <1>1, SumRemove
<1> QED BY <1>2, <1>3

\* The sum depends only on the values it adds.
LEMMA SumSame ==
  ASSUME NEW f, NEW g, NEW S, IsFiniteSet(S), \A x \in S : f[x] = g[x]
  PROVE  SumFunctionOnSet(f, S) = SumFunctionOnSet(g, S)
<1> DEFINE T == {s \in SUBSET S : SumFunctionOnSet(f, s) # SumFunctionOnSet(g, s)}
<1> SUFFICES ASSUME T # {} PROVE FALSE
  OBVIOUS
<1>1. PICK m \in T : \A s \in SUBSET m : s # m => s \notin T
  <2>1. T \subseteq SUBSET S
    OBVIOUS
  <2> HIDE DEF T
  <2> QED BY <2>1, MinimalSubset
<1>2. m \in SUBSET S /\ SumFunctionOnSet(f, m) # SumFunctionOnSet(g, m)
  OBVIOUS
<1>3. IsFiniteSet(m)
  BY <1>2, FS_Subset
<1>4. m # {}
  BY <1>2, SumEmpty
<1> DEFINE r == m \ {Some(m)}
<1>5. SumFunctionOnSet(f, r) = SumFunctionOnSet(g, r)
  BY <1>1, <1>2, <1>4, SomeOut
<1>6. f[Some(m)] = g[Some(m)]
  BY <1>2, <1>4, SomeOut
<1> HIDE DEF T
<1>7. SumFunctionOnSet(f, m) = f[Some(m)] + SumFunctionOnSet(f, r)
  BY <1>3, <1>4, SumSome
<1>8. SumFunctionOnSet(g, m) = g[Some(m)] + SumFunctionOnSet(g, r)
  BY <1>3, <1>4, SumSome
<1> QED BY <1>2, <1>5, <1>6, <1>7, <1>8

\* Zeros add up to zero.
LEMMA SumZero ==
  ASSUME NEW f, NEW S, IsFiniteSet(S), \A x \in S : f[x] = 0
  PROVE  SumFunctionOnSet(f, S) = 0
<1> DEFINE T == {s \in SUBSET S : SumFunctionOnSet(f, s) # 0}
<1> SUFFICES ASSUME T # {} PROVE FALSE
  OBVIOUS
<1>1. PICK m \in T : \A s \in SUBSET m : s # m => s \notin T
  <2>1. T \subseteq SUBSET S
    OBVIOUS
  <2> HIDE DEF T
  <2> QED BY <2>1, MinimalSubset
<1>2. m \in SUBSET S /\ SumFunctionOnSet(f, m) # 0
  OBVIOUS
<1>3. IsFiniteSet(m)
  BY <1>2, FS_Subset
<1>4. m # {}
  BY <1>2, SumEmpty
<1> DEFINE r == m \ {Some(m)}
<1>5. SumFunctionOnSet(f, r) = 0
  BY <1>1, <1>2, <1>4, SomeOut
<1>6. f[Some(m)] = 0
  BY <1>2, <1>4, SomeOut
<1> HIDE DEF T
<1>7. SumFunctionOnSet(f, m) = f[Some(m)] + SumFunctionOnSet(f, r)
  BY <1>3, <1>4, SumSome
<1> QED BY <1>2, <1>5, <1>6, <1>7

\* The value of one member changes.
LEMMA SumUpdate ==
  ASSUME NEW f, NEW g, NEW S, IsFiniteSet(S), NEW y \in S,
         \A x \in S : f[x] \in Int /\ g[x] \in Int,
         \A x \in S \ {y} : f[x] = g[x]
  PROVE  SumFunctionOnSet(g, S) = SumFunctionOnSet(f, S) - f[y] + g[y]
<1> DEFINE r == S \ {y}
<1>1. IsFiniteSet(r)
  BY FS_RemoveElement
<1>2. SumFunctionOnSet(f, r) = SumFunctionOnSet(g, r)
  BY <1>1, SumSame
<1>3. SumFunctionOnSet(f, S) = f[y] + SumFunctionOnSet(f, r)
  BY SumRemove
<1>4. SumFunctionOnSet(g, S) = g[y] + SumFunctionOnSet(g, r)
  BY SumRemove
<1>5. SumFunctionOnSet(f, r) \in Int
  BY <1>1, SumInt
<1> QED BY <1>2, <1>3, <1>4, <1>5

\* The sum of natural numbers is one.
LEMMA SumNat ==
  ASSUME NEW f, NEW S, IsFiniteSet(S), \A x \in S : f[x] \in Nat
  PROVE  SumFunctionOnSet(f, S) \in Nat
<1> DEFINE T == {s \in SUBSET S : SumFunctionOnSet(f, s) \notin Nat}
<1> SUFFICES ASSUME T # {} PROVE FALSE
  OBVIOUS
<1>1. PICK m \in T : \A s \in SUBSET m : s # m => s \notin T
  <2>1. T \subseteq SUBSET S
    OBVIOUS
  <2> HIDE DEF T
  <2> QED BY <2>1, MinimalSubset
<1>2. m \in SUBSET S /\ SumFunctionOnSet(f, m) \notin Nat
  OBVIOUS
<1>3. IsFiniteSet(m)
  BY <1>2, FS_Subset
<1>4. m # {}
  BY <1>2, SumEmpty
<1>5. SumFunctionOnSet(f, m \ {Some(m)}) \in Nat
  BY <1>1, <1>2, <1>4, SomeOut
<1>6. f[Some(m)] \in Nat
  BY <1>2, <1>4, SomeOut
<1> HIDE DEF T
<1>7. SumFunctionOnSet(f, m) = f[Some(m)] + SumFunctionOnSet(f, m \ {Some(m)})
  BY <1>3, <1>4, SumSome
<1> QED BY <1>2, <1>5, <1>6, <1>7

\* No member has more than the sum.
LEMMA SumMember ==
  ASSUME NEW f, NEW S, IsFiniteSet(S), \A x \in S : f[x] \in Nat, NEW y \in S
  PROVE  f[y] <= SumFunctionOnSet(f, S)
<1>1. SumFunctionOnSet(f, S) = f[y] + SumFunctionOnSet(f, S \ {y})
  BY SumRemove
<1>2. SumFunctionOnSet(f, S \ {y}) \in Nat
  BY SumNat, FS_RemoveElement
<1> QED BY <1>1, <1>2
\* The sum over two sets that have nothing in common.
LEMMA SumUnion ==
  ASSUME NEW f, NEW S, IsFiniteSet(S), NEW U, IsFiniteSet(U), S \cap U = {},
         \A x \in S \cup U : f[x] \in Int
  PROVE  SumFunctionOnSet(f, S \cup U) = SumFunctionOnSet(f, S) + SumFunctionOnSet(f, U)
<1> DEFINE Sum(s) == SumFunctionOnSet(f, s)
           T == {s \in SUBSET U : Sum(S \cup s) # Sum(S) + Sum(s)}
<1> SUFFICES ASSUME T # {} PROVE FALSE
  OBVIOUS
<1>1. PICK m \in T : \A s \in SUBSET m : s # m => s \notin T
  <2>1. T \subseteq SUBSET U
    OBVIOUS
  <2> HIDE DEF T
  <2> QED BY <2>1, MinimalSubset
<1>2. m \in SUBSET U /\ Sum(S \cup m) # Sum(S) + Sum(m)
  OBVIOUS
<1>3. ASSUME NEW s \in SUBSET m, s # m PROVE Sum(S \cup s) = Sum(S) + Sum(s)
  BY <1>1, <1>2, <1>3
<1> HIDE DEF T
<1>4. ASSUME NEW s \in SUBSET U
      PROVE  /\ IsFiniteSet(s) /\ Sum(s) \in Int
             /\ IsFiniteSet(S \cup s) /\ Sum(S \cup s) \in Int
  <2>1. IsFiniteSet(s)
    BY FS_Subset
  <2>2. IsFiniteSet(S \cup s)
    BY <2>1, FS_Union
  <2> QED BY <2>1, <2>2, SumInt
<1>5. Sum(S) \in Int
  BY SumInt
<1>6. CASE m = {}
  <2>1. S \cup m = S
    BY <1>6
  <2>2. Sum(m) = 0
    BY <1>6, SumEmpty
  <2>3. Sum(S \cup m) = Sum(S)
    BY <2>1
  <2> HIDE DEF Sum
  <2>4. Sum(S) + Sum(m) = Sum(S)
    BY <1>5, <2>2
  <2> QED BY <1>2, <2>3, <2>4
<1>7. CASE m # {}
  <2> DEFINE y == Some(m)
             r == m \ {y}
  <2>1. y \in m /\ r \in SUBSET m /\ r # m
    BY <1>7, SomeOut
  <2> HIDE DEF y
  <2>2. Sum(m) = f[y] + Sum(r)
    BY <1>2, <1>4, <2>1, SumRemove
  <2>3. Sum(S \cup m) = f[y] + Sum((S \cup m) \ {y})
    <3>1. y \in S \cup m /\ \A x \in S \cup m : f[x] \in Int
      BY <1>2, <2>1
    <3>2. IsFiniteSet(S \cup m)
      BY <1>2, <1>4
    <3> QED BY <3>1, <3>2, SumRemove
  <2>4. (S \cup m) \ {y} = S \cup r
    BY <1>2, <2>1
  <2>5. Sum(S \cup r) = Sum(S) + Sum(r)
    BY <1>3, <2>1
  <2>6. Sum(r) \in Int /\ f[y] \in Int
    BY <1>2, <1>4, <2>1
  <2> HIDE DEF Sum, r
  <2>7. Sum(S \cup m) = f[y] + (Sum(S) + Sum(r))
    BY <2>3, <2>4, <2>5
  <2> QED BY <1>2, <1>5, <2>2, <2>6, <2>7
<1> QED BY <1>6, <1>7
=============================================================================
