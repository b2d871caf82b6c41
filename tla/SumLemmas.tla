------------------------------ MODULE SumLemmas ------------------------------
(***************************************************************************)
(* What SumFunctionOnSet of the module Functions adds up, for every finite *)
(* set.  The library's induction theorems have an operator for parameter;  *)
(* the lemmas go by a smallest counterexample instead, which exists because *)
(* strict inclusion of finite sets is well-founded.                        *)
(***************************************************************************)
EXTENDS Integers, FiniteSetTheorems, TLAPS

LOCAL First(s) == CHOOSE x \in s : TRUE

\* g adds up f over each subset of S.
AddsUp(g, f, S) ==
    g = [s \in SUBSET S |->
            IF s = {} THEN 0 ELSE f[First(s)] + g[s \ {First(s)}]]

\* A set of subsets of a finite set has a smallest member.
LEMMA Smallest ==
    ASSUME NEW S, IsFiniteSet(S), NEW B, B \subseteq SUBSET S, B # {}
    PROVE  \E T \in B : \A U \in B : U \subseteq T => U = T
<1>1. IsWellFoundedOn(StrictSubsetOrdering(S), FiniteSubsetsOf(S))
  BY FS_StrictSubsetOrderingWellFounded
<1>2. FiniteSubsetsOf(S) = SUBSET S BY FS_FiniteSubsetsOfFinite
<1>3. PICK T \in B : \A U \in B : ~ (<<U, T>> \in StrictSubsetOrdering(S))
  BY <1>1, <1>2, WFMin
<1>4. ASSUME NEW U \in B, U \subseteq T PROVE U = T
  <2>1. U \in SUBSET S /\ T \in SUBSET S OBVIOUS
  <2> QED BY <1>3, <1>4, <2>1 DEF StrictSubsetOrdering
<1> QED BY <1>4

\* Two such functions agree where both are defined.
LEMMA AddsUpAgree ==
    ASSUME NEW f, NEW S, NEW T, IsFiniteSet(S), NEW g, NEW h,
           AddsUp(g, f, S), AddsUp(h, f, T)
    PROVE  \A s : s \subseteq S /\ s \subseteq T => g[s] = h[s]
<1> DEFINE B == {s \in SUBSET S : s \subseteq T /\ g[s] # h[s]}
<1> SUFFICES ASSUME B # {} PROVE FALSE OBVIOUS
<1>1. B \subseteq SUBSET S OBVIOUS
<1>2. PICK s \in B : \A u \in B : u \subseteq s => u = s
  <2> HIDE DEF B
  <2> QED BY <1>1, Smallest
<1> DEFINE x == First(s)
<1>3. /\ s \subseteq S /\ s \subseteq T
      /\ g[s] = IF s = {} THEN 0 ELSE f[x] + g[s \ {x}]
      /\ h[s] = IF s = {} THEN 0 ELSE f[x] + h[s \ {x}]
  BY DEF AddsUp
<1>4. s # {} BY <1>3
<1>5. x \in s BY <1>4 DEF First
<1>6. s \ {x} \notin B BY <1>2, <1>5
<1>7. g[s \ {x}] = h[s \ {x}] BY <1>3, <1>6
<1> QED BY <1>3, <1>7

\* The sum, taken over the parts of a finite set, is such a function.
LEMMA SumExists ==
    ASSUME NEW f, NEW S, IsFiniteSet(S)
    PROVE  \E g : AddsUp(g, f, S)
<1> DEFINE B == {T \in SUBSET S : ~ \E g : AddsUp(g, f, T)}
<1> SUFFICES ASSUME B # {} PROVE FALSE OBVIOUS
<1>1. B \subseteq SUBSET S OBVIOUS
<1>2. PICK T \in B : \A U \in B : U \subseteq T => U = T
  <2> HIDE DEF B
  <2> QED BY <1>1, Smallest
<1> DEFINE F(U) == CHOOSE g : AddsUp(g, f, U)
           rest(s) == s \ {First(s)}
           g == [s \in SUBSET T |->
                    IF s = {} THEN 0 ELSE f[First(s)] + F(rest(s))[rest(s)]]
<1>3. ASSUME NEW U, U \subseteq T, U # T PROVE AddsUp(F(U), f, U)
  <2>1. U \in SUBSET S /\ U \notin B BY <1>2, <1>3
  <2> QED BY <2>1
<1>4. ASSUME NEW s \in SUBSET T, s # {}
      PROVE  First(s) \in s /\ rest(s) \subseteq T /\ rest(s) # T
  BY <1>4 DEF First
<1>5. ASSUME NEW s \in SUBSET T, s # {}
      PROVE  g[rest(s)] = F(rest(s))[rest(s)]
  <2> DEFINE u == rest(s)
  <2>1. u \in SUBSET T /\ u # T BY <1>4, <1>5
  <2>2. AddsUp(F(u), f, u) BY <1>3, <2>1
  <2>3. F(u)[u] = IF u = {} THEN 0 ELSE f[First(u)] + F(u)[rest(u)]
    <3> HIDE DEF F
    <3> QED BY <2>2 DEF AddsUp
  <2>4. CASE u = {} BY <2>1, <2>3, <2>4
  <2>5. CASE u # {}
    <3>1. rest(u) \subseteq u /\ rest(u) \subseteq T /\ rest(u) # T
      BY <1>4, <2>1, <2>5
    <3>2. AddsUp(F(rest(u)), f, rest(u)) BY <1>3, <3>1
    <3>3. IsFiniteSet(u) BY <2>1, FS_Subset
    <3>4. F(u)[rest(u)] = F(rest(u))[rest(u)]
      <4> DEFINE v == rest(u)
      <4>1. v \subseteq u BY <3>1
      <4> HIDE DEF v, u
      <4>2. \A p, q : AddsUp(p, f, u) /\ AddsUp(q, f, v) => p[v] = q[v]
        BY <3>3, <4>1, AddsUpAgree
      <4> QED BY <2>2, <3>2, <4>2 DEF v
    <3>5. g[u] = f[First(u)] + F(rest(u))[rest(u)] BY <2>1, <2>5
    <3> QED BY <2>3, <2>5, <3>4, <3>5
  <2> QED BY <2>4, <2>5
<1>6. AddsUp(g, f, T)
  <2>1. g = [s \in SUBSET T |->
                IF s = {} THEN 0 ELSE f[First(s)] + F(rest(s))[rest(s)]]
    OBVIOUS
  <2> HIDE DEF g, F
  <2>2. g = [s \in SUBSET T |->
                IF s = {} THEN 0 ELSE f[First(s)] + g[rest(s)]]
    BY <1>5, <2>1
  <2> QED BY <2>2 DEF AddsUp
<1> QED BY <1>6

LEMMA SumAddsUp ==
    ASSUME NEW f, NEW S, IsFiniteSet(S)
    PROVE  \E g : AddsUp(g, f, S) /\ SumFunctionOnSet(f, S) = g[S]
<1> DEFINE g == CHOOSE g : AddsUp(g, f, S)
<1>1. AddsUp(g, f, S) BY SumExists
<1>2. SumFunctionOnSet(f, S) = g[S]
  BY DEF SumFunctionOnSet, FoldFunctionOnSet, MapThenFoldSet, AddsUp, First
<1> QED BY <1>1, <1>2

\* The sum over no element, and over an element and the others.
LEMMA SumEmpty == ASSUME NEW f PROVE SumFunctionOnSet(f, {}) = 0
<1>1. IsFiniteSet({}) BY FS_EmptySet
<1> QED BY <1>1, SumAddsUp, ZenonT(40) DEF AddsUp

LEMMA SumFirst ==
    ASSUME NEW f, NEW S, IsFiniteSet(S), S # {}
    PROVE  LET x == First(S)
           IN  /\ x \in S
               /\ SumFunctionOnSet(f, S) =
                      f[x] + SumFunctionOnSet(f, S \ {x})
<1> DEFINE x == First(S)
           T == S \ {x}
<1>1. x \in S BY DEF First
<1>2. IsFiniteSet(T) /\ T \subseteq S BY FS_Subset
<1>3. PICK g : AddsUp(g, f, S) /\ SumFunctionOnSet(f, S) = g[S]
  BY SumAddsUp
<1> HIDE DEF T
<1>4. PICK h : AddsUp(h, f, T) /\ SumFunctionOnSet(f, T) = h[T]
  BY <1>2, SumAddsUp
<1>5. g[T] = h[T] BY <1>2, <1>3, <1>4, AddsUpAgree
<1>6. g[S] = f[x] + g[T] BY <1>3 DEF AddsUp, T
<1> QED BY <1>1, <1>3, <1>4, <1>5, <1>6 DEF T

LEMMA SumInt ==
    ASSUME NEW f, NEW S, IsFiniteSet(S), \A x \in S : f[x] \in Int
    PROVE  SumFunctionOnSet(f, S) \in Int
<1> DEFINE B == {T \in SUBSET S : SumFunctionOnSet(f, T) \notin Int}
<1> SUFFICES ASSUME B # {} PROVE FALSE OBVIOUS
<1>1. B \subseteq SUBSET S OBVIOUS
<1>2. PICK T \in B : \A U \in B : U \subseteq T => U = T
  <2> HIDE DEF B
  <2> QED BY <1>1, Smallest
<1>3. T # {} BY SumEmpty
<1>4. IsFiniteSet(T) BY FS_Subset
<1>5. PICK x \in T : SumFunctionOnSet(f, T) =
                        f[x] + SumFunctionOnSet(f, T \ {x})
  BY <1>3, <1>4, SumFirst
<1>6. T \ {x} \notin B BY <1>2
<1>7. SumFunctionOnSet(f, T \ {x}) \in Int BY <1>6
<1> QED BY <1>5, <1>7

\* Whichever element is taken out.
LEMMA SumRemove ==
    ASSUME NEW f, NEW S, IsFiniteSet(S), \A x \in S : f[x] \in Int,
           NEW y \in S
    PROVE  SumFunctionOnSet(f, S) = f[y] + SumFunctionOnSet(f, S \ {y})
<1> DEFINE Sum(T) == SumFunctionOnSet(f, T)
           B == {T \in SUBSET S : \E z \in T : Sum(T) # f[z] + Sum(T \ {z})}
<1> SUFFICES ASSUME B # {} PROVE FALSE OBVIOUS
<1>1. B \subseteq SUBSET S OBVIOUS
<1>2. PICK T \in B : \A U \in B : U \subseteq T => U = T
  <2> HIDE DEF B
  <2> QED BY <1>1, Smallest
<1>3. PICK z \in T : Sum(T) # f[z] + Sum(T \ {z})
  OBVIOUS
<1>4. T \subseteq S /\ IsFiniteSet(T) BY FS_Subset
<1>5. \A U : U \subseteq T => Sum(U) \in Int
  <2> SUFFICES ASSUME NEW U, U \subseteq T PROVE Sum(U) \in Int OBVIOUS
  <2>1. IsFiniteSet(U) BY <1>4, FS_Subset
  <2> QED BY <1>4, <2>1, SumInt
<1>6. PICK x \in T : Sum(T) = f[x] + Sum(T \ {x})
  BY <1>4, SumFirst
<1>7. x # z BY <1>3, <1>6
<1> DEFINE U == T \ {x}
           V == T \ {z}
           W == T \ {x, z}
<1>8. \A R : R \subseteq T /\ R # T => \A w \in R : Sum(R) = f[w] + Sum(R \ {w})
  BY <1>2, <1>4
<1>9. Sum(U) = f[z] + Sum(W)
  <2>1. U \ {z} = W /\ z \in U /\ U \subseteq T /\ U # T BY <1>7
  <2> QED BY <1>8, <2>1
<1>10. Sum(V) = f[x] + Sum(W)
  <2>1. V \ {x} = W /\ x \in V /\ V \subseteq T /\ V # T BY <1>7
  <2> QED BY <1>8, <2>1
<1>11. Sum(W) \in Int /\ Sum(V) \in Int BY <1>5
<1>12. f[x] \in Int /\ f[z] \in Int BY <1>4
<1> HIDE DEF Sum, U, V, W
<1>13. Sum(T) = f[x] + Sum(U) /\ Sum(T) # f[z] + Sum(V)
  BY <1>3, <1>6 DEF U, V
<1> QED BY <1>9, <1>10, <1>11, <1>12, <1>13

LEMMA SumAdd ==
    ASSUME NEW f, NEW S, IsFiniteSet(S), NEW y, y \notin S,
           \A x \in S \cup {y} : f[x] \in Int
    PROVE  SumFunctionOnSet(f, S \cup {y}) = f[y] + SumFunctionOnSet(f, S)
<1>1. IsFiniteSet(S \cup {y}) BY FS_AddElement
<1>2. (S \cup {y}) \ {y} = S OBVIOUS
<1> QED BY <1>1, <1>2, SumRemove

\* What holds of the terms holds of the sums: the order of two functions, and
\* the terms of a third that are the sums of theirs.
LEMMA SumMonotone ==
    ASSUME NEW f, NEW g, NEW S, IsFiniteSet(S),
           \A x \in S : f[x] \in Int /\ g[x] \in Int /\ f[x] <= g[x]
    PROVE  SumFunctionOnSet(f, S) <= SumFunctionOnSet(g, S)
<1> DEFINE B == {T \in SUBSET S :
                    ~ (SumFunctionOnSet(f, T) <= SumFunctionOnSet(g, T))}
<1> SUFFICES ASSUME B # {} PROVE FALSE OBVIOUS
<1>1. B \subseteq SUBSET S OBVIOUS
<1>2. PICK T \in B : \A U \in B : U \subseteq T => U = T
  <2> HIDE DEF B
  <2> QED BY <1>1, Smallest
<1>3. T # {}
  <2>1. SumFunctionOnSet(f, {}) = 0 /\ SumFunctionOnSet(g, {}) = 0
    BY SumEmpty
  <2>2. ~ (SumFunctionOnSet(f, T) <= SumFunctionOnSet(g, T)) OBVIOUS
  <2> QED BY <2>1, <2>2
<1>4. PICK x : x \in T BY <1>3
<1> DEFINE U == T \ {x}
<1>5. T \subseteq S /\ IsFiniteSet(T) /\ U \subseteq S /\ IsFiniteSet(U)
  BY FS_Subset, FS_RemoveElement
<1>6. /\ SumFunctionOnSet(f, T) = f[x] + SumFunctionOnSet(f, U)
      /\ SumFunctionOnSet(g, T) = g[x] + SumFunctionOnSet(g, U)
  BY <1>4, <1>5, SumRemove
<1>7. SumFunctionOnSet(f, U) \in Int /\ SumFunctionOnSet(g, U) \in Int
  BY <1>5, SumInt
<1>8. U \notin B BY <1>2, <1>4
<1>9. SumFunctionOnSet(f, U) <= SumFunctionOnSet(g, U) BY <1>5, <1>8
<1>10. f[x] \in Int /\ g[x] \in Int /\ f[x] <= g[x] BY <1>4, <1>5
<1>11. ~ (SumFunctionOnSet(f, T) <= SumFunctionOnSet(g, T)) OBVIOUS
<1> HIDE DEF U
<1> QED BY <1>6, <1>7, <1>9, <1>10, <1>11

LEMMA SumOfSums ==
    ASSUME NEW f, NEW g, NEW h, NEW S, IsFiniteSet(S),
           \A x \in S : f[x] \in Int /\ g[x] \in Int /\ h[x] = f[x] + g[x]
    PROVE  SumFunctionOnSet(h, S) =
               SumFunctionOnSet(f, S) + SumFunctionOnSet(g, S)
<1> DEFINE Holds(T) == SumFunctionOnSet(h, T) =
                       SumFunctionOnSet(f, T) + SumFunctionOnSet(g, T)
           B == {T \in SUBSET S : ~ Holds(T)}
<1> SUFFICES ASSUME B # {} PROVE FALSE OBVIOUS
<1>1. B \subseteq SUBSET S OBVIOUS
<1>2. PICK T \in B : \A U \in B : U \subseteq T => U = T
  <2> HIDE DEF B
  <2> QED BY <1>1, Smallest
<1>3. T # {}
  <2>1. /\ SumFunctionOnSet(f, {}) = 0 /\ SumFunctionOnSet(g, {}) = 0
        /\ SumFunctionOnSet(h, {}) = 0
    BY SumEmpty
  <2>2. Holds({}) BY <2>1
  <2> QED BY <2>2
<1>4. PICK x : x \in T BY <1>3
<1> DEFINE U == T \ {x}
<1>5. T \subseteq S /\ IsFiniteSet(T) /\ U \subseteq S /\ IsFiniteSet(U)
  BY FS_Subset, FS_RemoveElement
<1>6. /\ SumFunctionOnSet(f, T) = f[x] + SumFunctionOnSet(f, U)
      /\ SumFunctionOnSet(g, T) = g[x] + SumFunctionOnSet(g, U)
      /\ SumFunctionOnSet(h, T) = h[x] + SumFunctionOnSet(h, U)
  BY <1>4, <1>5, SumRemove
<1>7. SumFunctionOnSet(f, U) \in Int /\ SumFunctionOnSet(g, U) \in Int
  BY <1>5, SumInt
<1>8. U \notin B BY <1>2, <1>4
<1>9. Holds(U) BY <1>5, <1>8
<1>10. f[x] \in Int /\ g[x] \in Int /\ h[x] = f[x] + g[x] BY <1>4, <1>5
<1>11. ~ Holds(T) OBVIOUS
<1> HIDE DEF U
<1> QED BY <1>6, <1>7, <1>9, <1>10, <1>11

\* Functions that are alike on a set have one sum.
LEMMA SumAlike ==
    ASSUME NEW f, NEW g, NEW S, IsFiniteSet(S),
           \A x \in S : f[x] \in Int /\ f[x] = g[x]
    PROVE  SumFunctionOnSet(f, S) = SumFunctionOnSet(g, S)
<1>1. \A x \in S : /\ f[x] \in Int /\ g[x] \in Int
                   /\ f[x] <= g[x] /\ g[x] <= f[x]
  OBVIOUS
<1>2. /\ SumFunctionOnSet(f, S) <= SumFunctionOnSet(g, S)
      /\ SumFunctionOnSet(g, S) <= SumFunctionOnSet(f, S)
  BY <1>1, SumMonotone
<1>3. SumFunctionOnSet(f, S) \in Int /\ SumFunctionOnSet(g, S) \in Int
  BY <1>1, SumInt
<1> QED BY <1>2, <1>3

LEMMA SumNat ==
    ASSUME NEW f, NEW S, IsFiniteSet(S), \A x \in S : f[x] \in Nat
    PROVE  SumFunctionOnSet(f, S) \in Nat
<1> DEFINE z == [x \in S |-> 0]
<1>1. \A x \in S : z[x] = z[x] + z[x] /\ z[x] \in Int /\ z[x] <= f[x]
  OBVIOUS
<1>2. SumFunctionOnSet(z, S) \in Int /\ SumFunctionOnSet(f, S) \in Int
  BY <1>1, SumInt
<1>3. SumFunctionOnSet(z, S) =
          SumFunctionOnSet(z, S) + SumFunctionOnSet(z, S)
  <2> HIDE DEF z
  <2> QED BY <1>1, SumOfSums
<1>4. SumFunctionOnSet(z, S) <= SumFunctionOnSet(f, S)
  <2>1. \A x \in S : f[x] \in Int OBVIOUS
  <2> HIDE DEF z
  <2> QED BY <1>1, <2>1, SumMonotone
<1> HIDE DEF z
<1> QED BY <1>2, <1>3, <1>4

\* Two functions that differ in one element.
LEMMA SumChanged ==
    ASSUME NEW f, NEW g, NEW S, IsFiniteSet(S), NEW y \in S,
           \A x \in S : f[x] \in Int /\ g[x] \in Int,
           \A x \in S \ {y} : f[x] = g[x]
    PROVE  SumFunctionOnSet(g, S) = SumFunctionOnSet(f, S) - f[y] + g[y]
<1> DEFINE T == S \ {y}
<1>1. T \subseteq S /\ IsFiniteSet(T) BY FS_RemoveElement
<1>2. /\ SumFunctionOnSet(f, S) = f[y] + SumFunctionOnSet(f, T)
      /\ SumFunctionOnSet(g, S) = g[y] + SumFunctionOnSet(g, T)
  BY SumRemove
<1>3. SumFunctionOnSet(f, T) = SumFunctionOnSet(g, T)
  BY <1>1, SumAlike
<1>4. SumFunctionOnSet(f, T) \in Int BY <1>1, SumInt
<1> HIDE DEF T
<1> QED BY <1>2, <1>3, <1>4

\* Terms that are 0 may be left out.
LEMMA SumZeros ==
    ASSUME NEW f, NEW S, IsFiniteSet(S), \A x \in S : f[x] \in Int,
           NEW T, T \subseteq S, \A x \in S \ T : f[x] = 0
    PROVE  SumFunctionOnSet(f, S) = SumFunctionOnSet(f, T)
<1> DEFINE Same(U) == SumFunctionOnSet(f, U) = SumFunctionOnSet(f, T)
           B == {U \in SUBSET S : T \subseteq U /\ ~ Same(U)}
<1> SUFFICES ASSUME B # {} PROVE FALSE OBVIOUS
<1>1. B \subseteq SUBSET S OBVIOUS
<1>2. PICK U \in B : \A V \in B : V \subseteq U => V = U
  <2> HIDE DEF B
  <2> QED BY <1>1, Smallest
<1>3. U # T /\ T \subseteq U /\ U \subseteq S OBVIOUS
<1>4. PICK x : x \in U \ T BY <1>3
<1> DEFINE V == U \ {x}
<1>5. V \subseteq S /\ IsFiniteSet(U) /\ IsFiniteSet(V)
  BY <1>3, FS_Subset, FS_RemoveElement
<1>6. SumFunctionOnSet(f, U) = f[x] + SumFunctionOnSet(f, V)
  BY <1>3, <1>4, <1>5, SumRemove
<1>7. f[x] = 0 BY <1>3, <1>4
<1>8. SumFunctionOnSet(f, V) \in Int BY <1>5, SumInt
<1>9. V \notin B BY <1>2, <1>4
<1>10. Same(V) BY <1>3, <1>4, <1>5, <1>9
<1>11. ~ Same(U) OBVIOUS
<1> HIDE DEF V
<1> QED BY <1>6, <1>7, <1>8, <1>10, <1>11

\* A finite set of integers has a greatest member.
LEMMA Greatest ==
    ASSUME NEW S, \A x \in S : x \in Int, IsFiniteSet(S), S # {}
    PROVE  \E m \in S : \A x \in S : x <= m
<1> DEFINE B == {T \in SUBSET S : T # {} /\ ~ \E m \in T : \A x \in T : x <= m}
<1> SUFFICES ASSUME B # {} PROVE FALSE OBVIOUS
<1>1. B \subseteq SUBSET S OBVIOUS
<1>2. PICK T \in B : \A U \in B : U \subseteq T => U = T
  <2> HIDE DEF B
  <2> QED BY <1>1, Smallest
<1>3. PICK y : y \in T OBVIOUS
<1> DEFINE U == T \ {y}
<1>4. U # {} BY <1>3
<1>5. U \subseteq T /\ U \notin B BY <1>2, <1>3
<1>6. PICK m \in U : \A x \in U : x <= m BY <1>4, <1>5
<1>7. \A x \in T : x \in Int OBVIOUS
<1>8. CASE y <= m BY <1>6, <1>7, <1>8
<1>9. CASE m <= y
  <2>1. \A x \in T : x <= y BY <1>3, <1>6, <1>7, <1>9
  <2> QED BY <1>3, <2>1
<1> QED BY <1>3, <1>6, <1>7, <1>8, <1>9
=============================================================================
