---------------------------- MODULE SumTheorems -----------------------------
(***************************************************************************)
(* What the sums of Functions amount to, for any function with natural     *)
(* values and any finite set of its arguments.                             *)
(*                                                                         *)
(* The library defines a sum by recursion over subsets, taking out one     *)
(* chosen element at a time.  The key lemma says that it is a cardinality: *)
(* that of the pairs <<x, i>> with i \in 1..f[x].  Everything else follows *)
(* from facts about finite sets, and no induction is needed any more.      *)
(***************************************************************************)
EXTENDS Functions, Naturals, FiniteSets, FiniteSetTheorems, WellFoundedInduction, TLAPS

Units(f, S) == {u \in S \X Nat : 1 <= u[2] /\ u[2] <= f[u[1]]}

(***************************************************************************)
(* Every set of subsets of a finite set that is not empty has a member     *)
(* none of whose strict subsets belongs to it.                             *)
(***************************************************************************)
LEMMA MinimalSubset ==
  ASSUME NEW S, IsFiniteSet(S), NEW T \in SUBSET (SUBSET S), T # {}
  PROVE  \E s \in T : \A t \in T : t \subseteq s => t = s
<1>1. IsWellFoundedOn(StrictSubsetOrdering(S), SUBSET S)
      BY FS_StrictSubsetOrderingWellFounded, FS_FiniteSubsetsOfFinite
<1>2. \E s \in T : \A t \in T : ~ (<<t, s>> \in StrictSubsetOrdering(S))
      BY <1>1, WFMin
<1> QED BY <1>2 DEF StrictSubsetOrdering

(***************************************************************************)
(* The units of one argument x are as many as f[x].                        *)
(***************************************************************************)
LEMMA UnitsOfOne ==
  ASSUME NEW f, NEW x, f[x] \in Nat
  PROVE  IsFiniteSet(Units(f, {x})) /\ Cardinality(Units(f, {x})) = f[x]
<1>1. Units(f, {x}) = {x} \X (1..f[x])
      BY DEF Units
<1>2. IsFiniteSet(1..f[x]) /\ Cardinality(1..f[x]) = f[x]
      BY FS_Interval
<1>3. IsFiniteSet({x}) /\ Cardinality({x}) = 1
      BY FS_Singleton
<1>4. /\ IsFiniteSet({x} \X (1..f[x]))
      /\ Cardinality({x} \X (1..f[x])) = Cardinality({x}) * Cardinality(1..f[x])
      BY <1>2, <1>3, FS_Product
<1>5. 1 * f[x] = f[x]
      OBVIOUS
<1> QED BY <1>1, <1>2, <1>3, <1>4, <1>5, Zenon

(***************************************************************************)
(* An argument that is added brings its own units and no others.           *)
(***************************************************************************)
LEMMA UnitsAdd ==
  ASSUME NEW f, NEW S, NEW x, x \notin S, f[x] \in Nat, IsFiniteSet(Units(f, S))
  PROVE  /\ IsFiniteSet(Units(f, S \cup {x}))
         /\ Cardinality(Units(f, S \cup {x})) = Cardinality(Units(f, S)) + f[x]
<1>1. Units(f, S \cup {x}) = Units(f, S) \cup Units(f, {x})
      BY DEF Units
<1>2. Units(f, S) \cap Units(f, {x}) = {}
      BY DEF Units
<1>3. IsFiniteSet(Units(f, {x})) /\ Cardinality(Units(f, {x})) = f[x]
      BY UnitsOfOne
<1>4. /\ IsFiniteSet(Units(f, S) \cup Units(f, {x}))
      /\ Cardinality(Units(f, S) \cup Units(f, {x})) =
           Cardinality(Units(f, S)) + Cardinality(Units(f, {x}))
             - Cardinality(Units(f, S) \cap Units(f, {x}))
      BY <1>3, FS_Union, Zenon
<1>5. Cardinality(Units(f, S)) \in Nat
      BY FS_CardinalityType, Zenon
<1>6. Cardinality(Units(f, S) \cap Units(f, {x})) = 0
      BY <1>2, FS_EmptySet, Zenon
<1>7. Cardinality(Units(f, S) \cup Units(f, {x})) = Cardinality(Units(f, S)) + f[x]
  <2> HIDE DEF Units
  <2> QED BY <1>3, <1>4, <1>5, <1>6
<1> QED BY <1>1, <1>4, <1>7, Zenon

(***************************************************************************)
(* A finite set of arguments has finitely many units.                      *)
(***************************************************************************)
LEMMA UnitsFinite ==
  ASSUME NEW f, NEW S, IsFiniteSet(S), \A x \in S : f[x] \in Nat
  PROVE  IsFiniteSet(Units(f, S))
<1> DEFINE Bad == {s \in SUBSET S : ~ IsFiniteSet(Units(f, s))}
<1> SUFFICES ASSUME Bad # {} PROVE FALSE
    OBVIOUS
<1>1. PICK s \in Bad : \A t \in Bad : t \subseteq s => t = s
  <2>1. Bad \in SUBSET (SUBSET S)
        OBVIOUS
  <2> HIDE DEF Bad
  <2> QED BY <2>1, MinimalSubset
<1>2. s # {}
  <2>1. Units(f, {}) = {}
        BY DEF Units
  <2> QED BY <2>1, FS_EmptySet
<1>3. PICK x \in s : TRUE
      BY <1>2
<1>4. s \ {x} \in SUBSET S /\ s \ {x} # s /\ s \ {x} \notin Bad
      BY <1>1
<1>5. IsFiniteSet(Units(f, (s \ {x}) \cup {x}))
      BY <1>4, UnitsAdd
<1>6. (s \ {x}) \cup {x} = s
      OBVIOUS
<1> QED BY <1>5, <1>6

(***************************************************************************)
(* The recursion that defines a sum, spelt out.                            *)
(***************************************************************************)
LEMMA SumUnfolds ==
  ASSUME NEW f, NEW S
  PROVE  SumFunctionOnSet(f, S) =
           (CHOOSE iter :
              iter = [s \in SUBSET S |->
                        IF s = {} THEN 0
                        ELSE f[CHOOSE x \in s : TRUE] + iter[s \ {CHOOSE x \in s : TRUE}]])[S]
BY DEF SumFunctionOnSet, FoldFunctionOnSet, MapThenFoldSet

(***************************************************************************)
(* A sum is the number of its units: the two satisfy one recursion, and a  *)
(* smallest set on which they differed would have a smaller one.           *)
(***************************************************************************)
THEOREM SumIsNumberOfUnits ==
  ASSUME NEW f, NEW S, IsFiniteSet(S), \A x \in S : f[x] \in Nat
  PROVE  SumFunctionOnSet(f, S) = Cardinality(Units(f, S))
<1> DEFINE pick(s) == CHOOSE x \in s : TRUE
           Body(g, s) == IF s = {} THEN 0 ELSE f[pick(s)] + g[s \ {pick(s)}]
           count == [s \in SUBSET S |-> Cardinality(Units(f, s))]
           iter == CHOOSE g : g = [s \in SUBSET S |-> Body(g, s)]
<1>1. \A s \in SUBSET S : s # {} => pick(s) \in s
      OBVIOUS
<1>2. \A s \in SUBSET S : count[s] = Body(count, s)
  <2> TAKE s \in SUBSET S
  <2>1. CASE s = {}
    <3>1. Units(f, {}) = {}
          BY DEF Units
    <3> QED BY <2>1, <3>1, FS_EmptySet
  <2>2. CASE s # {}
    <3> DEFINE x == pick(s)
    <3>1. x \in s
          BY <1>1, <2>2
    <3> HIDE DEF x
    <3>2. s \ {x} \in SUBSET S /\ IsFiniteSet(s \ {x}) /\ f[x] \in Nat
          BY <3>1, FS_Subset
    <3>3. IsFiniteSet(Units(f, s \ {x}))
          BY <3>2, UnitsFinite
    <3>4. Cardinality(Units(f, (s \ {x}) \cup {x})) = Cardinality(Units(f, s \ {x})) + f[x]
          BY <3>2, <3>3, UnitsAdd
    <3>5. (s \ {x}) \cup {x} = s
          BY <3>1
    <3>6. Cardinality(Units(f, s \ {x})) \in Nat
          BY <3>3, FS_CardinalityType
    <3>7. Cardinality(Units(f, s)) = f[x] + Cardinality(Units(f, s \ {x}))
      <4>1. Cardinality(Units(f, s)) = Cardinality(Units(f, s \ {x})) + f[x]
            BY <3>4, <3>5, Zenon
      <4> QED BY <4>1, <3>2, <3>6
    <3>8. count[s] = f[x] + count[s \ {x}]
          BY <3>2, <3>7
    <3> QED BY <3>8, <2>2 DEF x
  <2> QED BY <2>1, <2>2
<1> HIDE DEF Body
<1>3. count = [s \in SUBSET S |-> Body(count, s)]
      BY <1>2
<1>4. iter = [s \in SUBSET S |-> Body(iter, s)]
  <2> HIDE DEF count
  <2> QED BY <1>3
<1>5. \A s \in SUBSET S : iter[s] = Body(iter, s)
  <2> HIDE DEF iter
  <2> QED BY <1>4
<1> HIDE DEF iter, count
<1>6. \A s \in SUBSET S : iter[s] = count[s]
  <2> DEFINE Bad == {s \in SUBSET S : iter[s] # count[s]}
  <2> SUFFICES ASSUME Bad # {} PROVE FALSE
      OBVIOUS
  <2>1. PICK s \in Bad : \A t \in Bad : t \subseteq s => t = s
    <3>1. Bad \in SUBSET (SUBSET S)
          OBVIOUS
    <3> HIDE DEF Bad
    <3> QED BY <3>1, MinimalSubset
  <2>2. CASE s = {}
        BY <1>2, <1>5, <2>1, <2>2 DEF Body
  <2>3. CASE s # {}
    <3>1. pick(s) \in s
          BY <1>1, <2>3
    <3>2. iter[s \ {pick(s)}] = count[s \ {pick(s)}]
          BY <2>1, <3>1
    <3>3. iter[s] = Body(iter, s) /\ count[s] = Body(count, s)
          BY <1>2, <1>5
    <3>4. Body(iter, s) = Body(count, s)
          BY <2>3, <3>2, Zenon DEF Body
    <3> QED BY <2>1, <3>3, <3>4, Zenon
  <2> QED BY <2>2, <2>3
<1>7. SumFunctionOnSet(f, S) = iter[S]
      BY SumUnfolds DEF iter, Body
<1> QED BY <1>6, <1>7 DEF count

-----------------------------------------------------------------------------
(***************************************************************************)
(* A sum over a finite set is a natural number.                            *)
(***************************************************************************)
THEOREM SumType ==
  ASSUME NEW f, NEW S, IsFiniteSet(S), \A x \in S : f[x] \in Nat
  PROVE  SumFunctionOnSet(f, S) \in Nat
<1>1. IsFiniteSet(Units(f, S))
      BY UnitsFinite
<1> QED BY <1>1, SumIsNumberOfUnits, FS_CardinalityType, Zenon

(***************************************************************************)
(* A sum over nothing is 0.                                                *)
(***************************************************************************)
THEOREM SumEmpty ==
  ASSUME NEW f
  PROVE  SumFunctionOnSet(f, {}) = 0
<1>1. Units(f, {}) = {}
      BY DEF Units
<1> QED BY <1>1, SumIsNumberOfUnits, FS_EmptySet, Zenon

(***************************************************************************)
(* A new argument adds its value.                                          *)
(***************************************************************************)
THEOREM SumAdd ==
  ASSUME NEW f, NEW S, IsFiniteSet(S), NEW x, x \notin S, \A y \in S \cup {x} : f[y] \in Nat
  PROVE  SumFunctionOnSet(f, S \cup {x}) = SumFunctionOnSet(f, S) + f[x]
<1>1. IsFiniteSet(S \cup {x})
      BY FS_AddElement
<1>2. SumFunctionOnSet(f, S) = Cardinality(Units(f, S)) /\ IsFiniteSet(Units(f, S))
      BY SumIsNumberOfUnits, UnitsFinite
<1>3. SumFunctionOnSet(f, S \cup {x}) = Cardinality(Units(f, S \cup {x}))
      BY <1>1, SumIsNumberOfUnits
<1>4. Cardinality(Units(f, S \cup {x})) = Cardinality(Units(f, S)) + f[x]
      BY <1>2, UnitsAdd
<1> QED BY <1>2, <1>3, <1>4

(***************************************************************************)
(* Only the values of the arguments matter.                                *)
(***************************************************************************)
THEOREM SumSame ==
  ASSUME NEW f, NEW g, NEW S, IsFiniteSet(S), \A x \in S : f[x] \in Nat /\ g[x] = f[x]
  PROVE  SumFunctionOnSet(g, S) = SumFunctionOnSet(f, S)
<1>1. Units(g, S) = Units(f, S)
      BY DEF Units
<1>2. \A x \in S : f[x] \in Nat /\ g[x] \in Nat
      OBVIOUS
<1>3. SumFunctionOnSet(f, S) = Cardinality(Units(f, S))
      BY <1>2, SumIsNumberOfUnits
<1>4. SumFunctionOnSet(g, S) = Cardinality(Units(g, S))
      BY <1>2, SumIsNumberOfUnits
<1> QED BY <1>1, <1>3, <1>4

(***************************************************************************)
(* A change of the value of one argument changes the sum by as much.       *)
(***************************************************************************)
THEOREM SumChange ==
  ASSUME NEW f, NEW g, NEW S, IsFiniteSet(S), NEW x \in S,
         \A y \in S : f[y] \in Nat /\ g[y] \in Nat, \A y \in S \ {x} : g[y] = f[y]
  PROVE  SumFunctionOnSet(g, S) + f[x] = SumFunctionOnSet(f, S) + g[x]
<1> DEFINE R == S \ {x}
<1>1. IsFiniteSet(R) /\ x \notin R /\ R \cup {x} = S
      BY FS_RemoveElement
<1>2. \A y \in R : g[y] = f[y] /\ f[y] \in Nat
      OBVIOUS
<1> HIDE DEF R
<1>3. SumFunctionOnSet(g, R) = SumFunctionOnSet(f, R) /\ SumFunctionOnSet(f, R) \in Nat
      BY <1>1, <1>2, SumSame, SumType
<1>4. SumFunctionOnSet(f, S) = SumFunctionOnSet(f, R) + f[x]
      BY <1>1, SumAdd
<1>5. SumFunctionOnSet(g, S) = SumFunctionOnSet(g, R) + g[x]
      BY <1>1, SumAdd
<1> QED BY <1>3, <1>4, <1>5

(***************************************************************************)
(* A sum is at most the sum over a set its arguments can be told apart in, *)
(* the values being the same.                                              *)
(***************************************************************************)
THEOREM SumInjection ==
  ASSUME NEW f, NEW S, NEW g, NEW T, IsFiniteSet(T), NEW h \in [S -> T],
         \A x, y \in S : h[x] = h[y] => x = y,
         \A y \in T : g[y] \in Nat, \A x \in S : f[x] = g[h[x]]
  PROVE  IsFiniteSet(S) /\ SumFunctionOnSet(f, S) <= SumFunctionOnSet(g, T)
<1>1. h \in Injection(S, T)
      BY DEF Injection, IsInjective
<1>2. IsFiniteSet(S)
      BY <1>1, FS_Injection
<1>3. SumFunctionOnSet(f, S) = Cardinality(Units(f, S))
      BY <1>2, SumIsNumberOfUnits
<1>4. SumFunctionOnSet(g, T) = Cardinality(Units(g, T)) /\ IsFiniteSet(Units(g, T))
      BY SumIsNumberOfUnits, UnitsFinite
<1> DEFINE k == [u \in Units(f, S) |-> <<h[u[1]], u[2]>>]
<1>5. k \in [Units(f, S) -> Units(g, T)]
      BY DEF Units
<1>6. \A u, v \in Units(f, S) : k[u] = k[v] => u = v
      BY DEF Units
<1>7. k \in Injection(Units(f, S), Units(g, T))
      BY <1>5, <1>6 DEF Injection, IsInjective
<1>8. Cardinality(Units(f, S)) <= Cardinality(Units(g, T))
      BY <1>4, <1>7, FS_Injection
<1> QED BY <1>2, <1>3, <1>4, <1>8

(***************************************************************************)
(* More arguments never make a sum smaller.                                *)
(***************************************************************************)
THEOREM SumSubset ==
  ASSUME NEW f, NEW T, IsFiniteSet(T), NEW S \in SUBSET T, \A y \in T : f[y] \in Nat
  PROVE  SumFunctionOnSet(f, S) <= SumFunctionOnSet(f, T)
<1> DEFINE id == [x \in S |-> x]
<1>1. id \in [S -> T] /\ \A x, y \in S : id[x] = id[y] => x = y
      OBVIOUS
<1>2. \A x \in S : f[x] = f[id[x]]
      OBVIOUS
<1> HIDE DEF id
<1> QED BY <1>1, <1>2, SumInjection

(***************************************************************************)
(* The sum of a function that is zero on the set is zero.                  *)
(***************************************************************************)
THEOREM SumZero ==
  ASSUME NEW f, NEW S, IsFiniteSet(S), \A x \in S : f[x] = 0
  PROVE  SumFunctionOnSet(f, S) = 0
<1>1. Units(f, S) = {}
      BY DEF Units
<1>2. \A x \in S : f[x] \in Nat
      OBVIOUS
<1> QED BY <1>1, <1>2, SumIsNumberOfUnits, FS_EmptySet, Zenon
=============================================================================
