----------------------------- MODULE SetProofs ------------------------------
(***************************************************************************)
(* What the proofs of several modules need of finite sets: the greatest    *)
(* and the smallest of its numbers, and sums over them.                    *)
(*                                                                         *)
(* The community modules define a sum by a function on the subsets of the  *)
(* set that calls itself.  That there is such a function has to be shown,  *)
(* and what it returns, each time by a smallest subset that would be an    *)
(* exception.                                                              *)
(***************************************************************************)
EXTENDS Integers, FiniteSetsExt, FiniteSetTheorems, WellFoundedInduction, TLAPS

-----------------------------------------------------------------------------
(* Extrema *)

\* A set of subsets of a finite set has a smallest member.
LEMMA SmallestSubset ==
  ASSUME NEW S, IsFiniteSet(S), NEW T, T \subseteq SUBSET S, T # {}
  PROVE  \E U \in T : \A V \in T : V \subseteq U => V = U
<1>1. T \subseteq FiniteSubsetsOf(S)
  BY FS_Subset DEF FiniteSubsetsOf
<1>2. IsWellFoundedOn(StrictSubsetOrdering(S), FiniteSubsetsOf(S))
  BY FS_StrictSubsetOrderingWellFounded
<1>3. PICK U \in T : \A V \in T : <<V, U>> \notin StrictSubsetOrdering(S)
  BY <1>1, <1>2, WFMin
<1>4. \A V \in T : V \subseteq U /\ V # U => <<V, U>> \in StrictSubsetOrdering(S)
  BY <1>3 DEF StrictSubsetOrdering
<1>5. ASSUME NEW V \in T, V \subseteq U PROVE V = U
  <2>1. V \subseteq U /\ V # U => FALSE
    BY <1>3, <1>4
  <2>2. QED BY <1>5, <2>1
<1>6. QED BY <1>5

\* A finite set of numbers that is not empty has a greatest member: a smallest
\* set without one would have a smaller one without.
LEMMA FiniteMaximum ==
  ASSUME NEW S \in SUBSET Int, IsFiniteSet(S), S # {}
  PROVE  \E m \in S : \A y \in S : m >= y
<1> DEFINE HasTop(U) == \E m \in U : \A y \in U : m >= y
           Bad == {U \in FiniteSubsetsOf(S) : U # {} /\ ~HasTop(U)}
<1>1. SUFFICES ASSUME ~HasTop(S) PROVE FALSE
  OBVIOUS
<1>2. S \in Bad
  BY <1>1 DEF FiniteSubsetsOf
<1>3. IsWellFoundedOn(StrictSubsetOrdering(S), FiniteSubsetsOf(S))
  BY FS_StrictSubsetOrderingWellFounded
<1>4. Bad \subseteq FiniteSubsetsOf(S) /\ Bad # {}
  BY <1>2
<1> HIDE DEF Bad
<1>5. PICK U \in Bad : \A V \in Bad : <<V, U>> \notin StrictSubsetOrdering(S)
  BY <1>3, <1>4, WFMin
<1>6. U \subseteq S /\ IsFiniteSet(U) /\ U # {} /\ ~HasTop(U)
  BY <1>5 DEF Bad, FiniteSubsetsOf
<1>7. PICK x \in U : TRUE
  BY <1>6
<1> DEFINE V == U \ {x}
<1>8. V \subseteq S /\ V \subseteq U /\ V # U /\ IsFiniteSet(V)
  BY <1>6, <1>7, FS_RemoveElement
<1>9. <<V, U>> \in StrictSubsetOrdering(S)
  BY <1>6, <1>8 DEF StrictSubsetOrdering
<1>10. V = {} \/ HasTop(V)
  BY <1>5, <1>8, <1>9 DEF Bad, FiniteSubsetsOf
<1>11. CASE V = {}
  <2>1. \A y \in U : y = x /\ x \in Int
    BY <1>6, <1>7, <1>11
  <2>2. QED BY <1>6, <1>7, <2>1
<1>12. CASE HasTop(V)
  <2>1. PICK m \in V : \A y \in V : m >= y
    BY <1>12
  <2>2. m \in Int /\ x \in Int /\ \A y \in U : y \in Int /\ (y = x \/ y \in V)
    BY <1>6, <1>7, <2>1
  <2>3. CASE m >= x
    BY <1>6, <2>1, <2>2, <2>3
  <2>4. CASE ~(m >= x)
    BY <1>6, <1>7, <2>1, <2>2, <2>4
  <2>5. QED BY <2>3, <2>4
<1>13. QED BY <1>10, <1>11, <1>12

\* Max of such a set is its greatest member.
LEMMA MaxFacts ==
  ASSUME NEW S \in SUBSET Int, IsFiniteSet(S), S # {}
  PROVE  Max(S) \in S /\ \A y \in S : Max(S) >= y
BY FiniteMaximum DEF Max

\* Min of such a set is its smallest member.
LEMMA MinFacts ==
  ASSUME NEW S \in SUBSET Int, IsFiniteSet(S), S # {}
  PROVE  Min(S) \in S /\ \A y \in S : Min(S) <= y
<1> DEFINE T == {-y : y \in S}
<1> DEFINE neg == [y \in S |-> -y]
<1>1. T \in SUBSET Int /\ T # {} /\ IsFiniteSet(T)
  <2>1. T \in SUBSET Int /\ T # {}
    <3>1. \A y \in S : -y \in Int
      OBVIOUS
    <3>2. PICK y \in S : TRUE
      OBVIOUS
    <3>3. T \in SUBSET Int
      BY <3>1
    <3>4. -y \in T
      BY <3>2
    <3>5. QED BY <3>3, <3>4
  <2>2. neg \in Surjection(S, T)
    BY DEF Surjection
  <2> HIDE DEF neg, T
  <2>3. IsFiniteSet(T)
    BY <2>2, FS_Surjection
  <2>4. QED BY <2>1, <2>3
<1> HIDE DEF T
<1>2. PICK m \in T : \A y \in T : m >= y
  BY <1>1, FiniteMaximum
<1>3. PICK x \in S : m = -x
  BY <1>2 DEF T
<1>4. ASSUME NEW y \in S PROVE x <= y
  <2>1. -y \in T
    BY DEF T
  <2>2. -x >= -y
    BY <1>2, <1>3, <2>1
  <2>3. QED BY <2>2
<1>5. QED BY <1>4 DEF Min

\* Numbers up to a bound have a smallest and a greatest one among them.
LEMMA ExtremesUpTo ==
  ASSUME NEW m \in Nat, NEW S, S \subseteq 0..m, S # {}
  PROVE  /\ \E i \in S : \A j \in S : i <= j
         /\ \E i \in S : \A j \in S : i >= j
<1>1. IsFiniteSet(0..m)
  BY FS_Interval
<1>2. IsFiniteSet(S)
  BY <1>1, FS_Subset
<1>3. S \in SUBSET Int
  OBVIOUS
<1>4. QED BY <1>2, <1>3, MinFacts, MaxFacts

-----------------------------------------------------------------------------
(* Sums *)

Chosen(s) == CHOOSE x \in s : TRUE

\* g gives the sum of f over each subset of T, taking away the chosen member.
Sums(f, T, g) ==
    g = [s \in SUBSET T |-> IF s = {} THEN 0 ELSE f[Chosen(s)] + g[s \ {Chosen(s)}]]

\* Two such functions agree on the sets that both are about.
LEMMA SumsAgree ==
  ASSUME NEW f, NEW S, IsFiniteSet(S), NEW T \in SUBSET S, NEW U \in SUBSET S,
         NEW g, NEW h, Sums(f, T, g), Sums(f, U, h)
  PROVE  \A s \in SUBSET (T \cap U) : g[s] = h[s]
<1> DEFINE Bad == {s \in SUBSET (T \cap U) : g[s] # h[s]}
<1>1. SUFFICES ASSUME Bad # {} PROVE FALSE
  OBVIOUS
<1>2. Bad \subseteq SUBSET S
  OBVIOUS
<1>3. PICK s \in Bad : \A V \in Bad : V \subseteq s => V = s
  <2> HIDE DEF Bad
  <2>1. QED BY <1>1, <1>2, SmallestSubset
<1>4. s \in SUBSET T /\ s \in SUBSET U /\ g[s] # h[s]
  BY <1>3
<1>5. /\ g[s] = IF s = {} THEN 0 ELSE f[Chosen(s)] + g[s \ {Chosen(s)}]
      /\ h[s] = IF s = {} THEN 0 ELSE f[Chosen(s)] + h[s \ {Chosen(s)}]
  BY <1>4, Zenon DEF Sums
<1>6. s # {}
  BY <1>4, <1>5
<1>7. Chosen(s) \in s
  BY <1>6 DEF Chosen
<1>8. s \ {Chosen(s)} \notin Bad
  BY <1>3, <1>7
<1>9. s \ {Chosen(s)} \in SUBSET (T \cap U)
  BY <1>4
<1>10. g[s \ {Chosen(s)}] = h[s \ {Chosen(s)}]
  BY <1>8, <1>9
<1>11. QED BY <1>4, <1>5, <1>6, <1>10

\* There is such a function for every finite set.
LEMMA SumsExist ==
  ASSUME NEW f, NEW S, IsFiniteSet(S)
  PROVE  \E g : Sums(f, S, g)
<1> DEFINE Bad == {T \in SUBSET S : ~\E g : Sums(f, T, g)}
           Of(T) == CHOOSE g : Sums(f, T, g)
<1>1. SUFFICES ASSUME Bad # {} PROVE FALSE
  OBVIOUS
<1>2. PICK T \in Bad : \A V \in Bad : V \subseteq T => V = T
  <2>1. Bad \subseteq SUBSET S
    OBVIOUS
  <2> HIDE DEF Bad
  <2>2. QED BY <1>1, <2>1, SmallestSubset
<1>3. T \in SUBSET S /\ ~\E g : Sums(f, T, g)
  BY <1>2
<1>4. ASSUME NEW V \in SUBSET T, V # T PROVE Sums(f, V, Of(V))
  <2>1. V \in SUBSET S /\ V \notin Bad
    BY <1>2, <1>3, <1>4
  <2>2. QED BY <2>1
<1> HIDE DEF Bad
<1> DEFINE At(s) == IF s = {} THEN 0
                    ELSE f[Chosen(s)] + Of(s \ {Chosen(s)})[s \ {Chosen(s)}]
           g == [s \in SUBSET T |-> At(s)]
<1>5. ASSUME NEW s \in SUBSET T, s # {}
      PROVE  g[s \ {Chosen(s)}] = Of(s \ {Chosen(s)})[s \ {Chosen(s)}]
  <2> DEFINE u == s \ {Chosen(s)}
  <2>1. Chosen(s) \in s
    BY <1>5 DEF Chosen
  <2>2. u \in SUBSET T /\ u # T
    BY <2>1
  <2>3. Sums(f, u, Of(u))
    BY <1>4, <2>2
  <2>4. Of(u)[u] = IF u = {} THEN 0 ELSE f[Chosen(u)] + Of(u)[u \ {Chosen(u)}]
    <3> HIDE DEF Of
    <3>1. u \in SUBSET u
      OBVIOUS
    <3>2. QED BY <2>3, <3>1, Zenon DEF Sums
  <2>5. g[u] = At(u)
    BY <2>2, Zenon
  <2>6. CASE u = {}
    BY <2>4, <2>5, <2>6
  <2>7. CASE u # {}
    <3> DEFINE v == u \ {Chosen(u)}
    <3>1. Chosen(u) \in u
      BY <2>7 DEF Chosen
    <3>2. v \in SUBSET T /\ v # T /\ v \subseteq u
      BY <2>2, <3>1
    <3>3. Sums(f, v, Of(v))
      BY <1>4, <3>2
    <3>4. Of(v)[v] = Of(u)[v]
      <4> HIDE DEF Of
      <4>1. v \in SUBSET S /\ u \in SUBSET S /\ v \in SUBSET (v \cap u)
        BY <1>3, <2>2, <3>2
      <4> HIDE DEF u, v
      <4>2. QED BY <2>3, <3>3, <4>1, SumsAgree
    <3>5. At(u) = f[Chosen(u)] + Of(v)[v]
      BY <2>7, Zenon
    <3>6. Of(u)[u] = f[Chosen(u)] + Of(u)[v]
      BY <2>4, <2>7, Zenon
    <3>7. QED BY <2>5, <3>4, <3>5, <3>6, Zenon
  <2>8. QED BY <2>6, <2>7
<1>6. ASSUME NEW s \in SUBSET T
      PROVE  At(s) = IF s = {} THEN 0 ELSE f[Chosen(s)] + g[s \ {Chosen(s)}]
  <2>1. CASE s = {}
    BY <2>1, Zenon
  <2>2. CASE s # {}
    <3>1. g[s \ {Chosen(s)}] = Of(s \ {Chosen(s)})[s \ {Chosen(s)}]
      BY <1>5, <2>2, Zenon
    <3> HIDE DEF g, Of
    <3>2. QED BY <2>2, <3>1, Zenon
  <2>3. QED BY <2>1, <2>2
<1>7. g = [s \in SUBSET T |-> IF s = {} THEN 0 ELSE f[Chosen(s)] + g[s \ {Chosen(s)}]]
  <2> DEFINE h == [s \in SUBSET T |-> IF s = {} THEN 0 ELSE f[Chosen(s)] + g[s \ {Chosen(s)}]]
  <2>1. g = [s \in SUBSET T |-> At(s)]
    BY Zenon
  <2> HIDE DEF g, At
  <2>2. \A s \in SUBSET T : At(s) = h[s]
    BY <1>6, Zenon
  <2>3. h = [s \in SUBSET T |-> h[s]]
    BY Zenon
  <2> HIDE DEF h
  <2>4. g = h
    BY <2>1, <2>2, <2>3
  <2>5. QED BY <2>4 DEF h
<1>8. Sums(f, T, g)
  BY <1>7, Zenon DEF Sums
<1>9. QED BY <1>3, <1>8

\* The sum of f over S, and that over a part of it.
Sum(f, S) == MapThenSumSet(LAMBDA x : f[x], S)
SumOver(f, S, s) == (CHOOSE g : Sums(f, S, g))[s]

\* It is what the fold computes, and goes by the chosen member.
LEMMA SumRecursion ==
  ASSUME NEW S, IsFiniteSet(S), NEW f
  PROVE  /\ Sum(f, S) = SumOver(f, S, S)
         /\ \A s \in SUBSET S :
               SumOver(f, S, s) = IF s = {} THEN 0
                               ELSE f[Chosen(s)] + SumOver(f, S, s \ {Chosen(s)})
<1> DEFINE g == CHOOSE h : Sums(f, S, h)
<1>1. Sums(f, S, g)
  <2>1. \E h : Sums(f, S, h)
    BY SumsExist
  <2>2. QED BY <2>1
<1>2. Sum(f, S) = SumOver(f, S, S)
  BY DEF Sum, MapThenSumSet, MapThenFoldSet, SumOver, Sums, Chosen
<1>3. ASSUME NEW s \in SUBSET S
      PROVE  g[s] = IF s = {} THEN 0 ELSE f[Chosen(s)] + g[s \ {Chosen(s)}]
  <2> HIDE DEF g
  <2>1. QED BY <1>1, Zenon DEF Sums
<1>4. QED BY <1>2, <1>3, Zenon DEF SumOver

\* A sum of numbers is a number, and any member can be taken away first.
LEMMA SumPart ==
  ASSUME NEW S, IsFiniteSet(S), NEW f \in [S -> Nat]
  PROVE  \A s \in SUBSET S :
            /\ SumOver(f, S, s) \in Nat
            /\ \A x \in s : SumOver(f, S, s) = f[x] + SumOver(f, S, s \ {x})
<1> DEFINE Good(s) == /\ SumOver(f, S, s) \in Nat
                      /\ \A x \in s : SumOver(f, S, s) = f[x] + SumOver(f, S, s \ {x})
           Bad == {s \in SUBSET S : ~Good(s)}
<1>1. SUFFICES ASSUME Bad # {} PROVE FALSE
  BY Zenon
<1>2. PICK s \in Bad : \A V \in Bad : V \subseteq s => V = s
  <2>1. Bad \subseteq SUBSET S
    OBVIOUS
  <2> HIDE DEF Bad
  <2>2. QED BY <1>1, <2>1, SmallestSubset
<1>3. s \in SUBSET S /\ ~Good(s)
  BY <1>2
<1>4. ASSUME NEW V \in SUBSET s, V # s PROVE Good(V)
  <2>1. V \in SUBSET S /\ V \notin Bad
    BY <1>2, <1>3, <1>4
  <2> HIDE DEF Good
  <2>2. QED BY <2>1
<1> HIDE DEF Bad
<1>5. s # {}
  <2>1. CASE s = {}
    <3>1. SumOver(f, S, s) = 0
      BY <1>3, <2>1, SumRecursion
    <3>2. Good(s)
      BY <2>1, <3>1
    <3>3. QED BY <1>3, <3>2
  <2>2. QED BY <2>1
<1> DEFINE c == Chosen(s)
           t == s \ {c}
<1>6. c \in s /\ c \in S /\ f[c] \in Nat
  BY <1>3, <1>5 DEF Chosen
<1>7. SumOver(f, S, s) = f[c] + SumOver(f, S, t)
  BY <1>3, <1>5, SumRecursion
<1>8. t \in SUBSET s /\ t # s
  BY <1>6
<1>9. Good(t)
  BY <1>4, <1>8
<1> HIDE DEF c, t
<1>10. SumOver(f, S, s) \in Nat
  BY <1>6, <1>7, <1>9
<1>11. ASSUME NEW x \in s PROVE SumOver(f, S, s) = f[x] + SumOver(f, S, s \ {x})
  <2>1. CASE x = c
    BY <1>7, <2>1 DEF t
  <2>2. CASE x # c
    <3> DEFINE u == s \ {x}
               v == t \ {x}
    <3>1. u \in SUBSET s /\ u # s /\ c \in u /\ x \in t /\ v = u \ {c}
      BY <1>6, <2>2 DEF t
    <3>2. f[x] \in Nat
      BY <1>3
    <3>3. v \in SUBSET s /\ v # s
      BY <1>8, <3>1
    <3>4. Good(u) /\ Good(v)
      <4> HIDE DEF Good, u, v
      <4>1. QED BY <1>4, <3>1, <3>3
    <3>5. SumOver(f, S, t) = f[x] + SumOver(f, S, v)
      BY <1>9, <3>1
    <3>6. SumOver(f, S, u) = f[c] + SumOver(f, S, v)
      <4> HIDE DEF u, v
      <4>1. QED BY <3>1, <3>4
    <3>7. SumOver(f, S, v) \in Nat /\ SumOver(f, S, u) \in Nat /\ SumOver(f, S, t) \in Nat
      BY <1>9, <3>4
    <3> HIDE DEF u, v
    <3>8. SumOver(f, S, s) = f[x] + SumOver(f, S, u)
      BY <1>6, <1>7, <3>2, <3>5, <3>6, <3>7
    <3>9. QED BY <3>8 DEF u
  <2>3. QED BY <2>1, <2>2
<1>12. QED BY <1>3, <1>10, <1>11

\* Sums depend on the terms alone.
LEMMA SumSame ==
  ASSUME NEW S, IsFiniteSet(S), NEW f, NEW g, NEW T \in SUBSET S, \A n \in T : f[n] = g[n]
  PROVE  SumOver(f, S, T) = SumOver(g, S, T)
<1> DEFINE Bad == {s \in SUBSET T : SumOver(f, S, s) # SumOver(g, S, s)}
<1>1. SUFFICES ASSUME Bad # {} PROVE FALSE
  OBVIOUS
<1>2. PICK s \in Bad : \A V \in Bad : V \subseteq s => V = s
  <2>1. Bad \subseteq SUBSET S
    OBVIOUS
  <2> HIDE DEF Bad
  <2>2. QED BY <1>1, <2>1, SmallestSubset
<1>3. s \in SUBSET T /\ s \in SUBSET S /\ SumOver(f, S, s) # SumOver(g, S, s)
  BY <1>2
<1>4. /\ SumOver(f, S, s) = IF s = {} THEN 0 ELSE f[Chosen(s)] + SumOver(f, S, s \ {Chosen(s)})
      /\ SumOver(g, S, s) = IF s = {} THEN 0 ELSE g[Chosen(s)] + SumOver(g, S, s \ {Chosen(s)})
  BY <1>3, SumRecursion
<1>5. s # {}
  BY <1>3, <1>4
<1>6. Chosen(s) \in s
  BY <1>5 DEF Chosen
<1>7. s \ {Chosen(s)} \notin Bad /\ s \ {Chosen(s)} \in SUBSET T
  BY <1>2, <1>3, <1>6
<1>8. SumOver(f, S, s \ {Chosen(s)}) = SumOver(g, S, s \ {Chosen(s)})
  BY <1>7
<1>9. f[Chosen(s)] = g[Chosen(s)]
  BY <1>3, <1>6
<1>10. QED BY <1>3, <1>4, <1>5, <1>8, <1>9

\* When one term changes the sum changes by the difference.
LEMMA SumChange ==
  ASSUME NEW S, IsFiniteSet(S), NEW f \in [S -> Nat], NEW g \in [S -> Nat], NEW x \in S,
         \A n \in S \ {x} : g[n] = f[n]
  PROVE  /\ Sum(f, S) \in Nat /\ Sum(f, S) >= f[x]
         /\ Sum(g, S) = Sum(f, S) - f[x] + g[x]
<1> DEFINE rest == S \ {x}
<1>1. \A n \in rest : g[n] = f[n]
  OBVIOUS
<1>2. rest \in SUBSET S /\ S \in SUBSET S
  OBVIOUS
<1>3. Sum(f, S) = SumOver(f, S, S) /\ Sum(g, S) = SumOver(g, S, S)
  BY SumRecursion
<1>4. /\ SumOver(f, S, S) = f[x] + SumOver(f, S, rest) /\ SumOver(f, S, rest) \in Nat
      /\ SumOver(g, S, S) = g[x] + SumOver(g, S, rest)
  BY <1>1, <1>2, SumPart
<1>5. SumOver(g, S, rest) = SumOver(f, S, rest)
  <2> HIDE DEF rest
  <2>1. QED BY <1>1, <1>2, SumSame
<1>6. f[x] \in Nat /\ g[x] \in Nat
  OBVIOUS
<1> HIDE DEF rest
<1>7. Sum(f, S) \in Nat /\ Sum(f, S) >= f[x] /\ Sum(g, S) = Sum(f, S) - f[x] + g[x]
  BY <1>1, <1>3, <1>4, <1>5, <1>6
<1>8. QED BY <1>7

\* The sum of zeros.
LEMMA SumZero ==
  ASSUME NEW S, IsFiniteSet(S), NEW f, \A n \in S : f[n] = 0
  PROVE  Sum(f, S) = 0
<1> DEFINE Bad == {s \in SUBSET S : SumOver(f, S, s) # 0}
<1>1. /\ Sum(f, S) = SumOver(f, S, S)
      /\ \A s \in SUBSET S :
            SumOver(f, S, s) = IF s = {} THEN 0
                               ELSE f[Chosen(s)] + SumOver(f, S, s \ {Chosen(s)})
  BY SumRecursion
<1>2. SUFFICES ASSUME Bad # {} PROVE FALSE
  BY <1>1
<1>3. PICK s \in Bad : \A V \in Bad : V \subseteq s => V = s
  <2>1. Bad \subseteq SUBSET S
    OBVIOUS
  <2> HIDE DEF Bad
  <2>2. QED BY <1>2, <2>1, SmallestSubset
<1>4. s \in SUBSET S /\ SumOver(f, S, s) # 0
  BY <1>3
<1>5. SumOver(f, S, s) = IF s = {} THEN 0 ELSE f[Chosen(s)] + SumOver(f, S, s \ {Chosen(s)})
  BY <1>1, <1>4
<1>6. s # {}
  BY <1>4, <1>5
<1>7. Chosen(s) \in s
  BY <1>6 DEF Chosen
<1>8. s \ {Chosen(s)} \notin Bad
  BY <1>3, <1>7
<1>9. SumOver(f, S, s \ {Chosen(s)}) = 0
  BY <1>4, <1>8
<1>10. f[Chosen(s)] = 0
  BY <1>4, <1>7
<1>11. QED BY <1>4, <1>5, <1>6, <1>9, <1>10

\* If a sum counts at least the members of a set that fall on each term, it counts
\* at least the set.
LEMMA SumCounts ==
  ASSUME NEW S, IsFiniteSet(S), NEW f \in [S -> Nat], NEW A, IsFiniteSet(A),
         NEW p \in [A -> S], \A x \in S : Cardinality({a \in A : p[a] = x}) <= f[x]
  PROVE  Cardinality(A) <= Sum(f, S) /\ Sum(f, S) \in Nat
<1> DEFINE On(T) == {a \in A : p[a] \in T}
           Good(T) == Cardinality(On(T)) <= SumOver(f, S, T)
           Bad == {T \in SUBSET S : ~Good(T)}
<1>1. \A T : IsFiniteSet(On(T)) /\ Cardinality(On(T)) \in Nat
  <2>1. \A T : On(T) \subseteq A
    OBVIOUS
  <2> HIDE DEF On
  <2>2. QED BY <2>1, FS_Subset, FS_CardinalityType
<1>2. /\ Sum(f, S) = SumOver(f, S, S)
      /\ \A T \in SUBSET S : SumOver(f, S, T) \in Nat
  BY SumRecursion, SumPart
<1>3. Bad = {}
  <2>1. SUFFICES ASSUME Bad # {} PROVE FALSE
    BY Zenon
  <2>2. PICK T \in Bad : \A V \in Bad : V \subseteq T => V = T
    <3>1. Bad \subseteq SUBSET S
      OBVIOUS
    <3> HIDE DEF Bad
    <3>2. QED BY <2>1, <3>1, SmallestSubset
  <2>3. T \in SUBSET S /\ ~Good(T)
    BY <2>2
  <2>4. CASE T = {}
    <3>1. On(T) = {}
      BY <2>4
    <3>2. Cardinality(On(T)) = 0
      BY <3>1, FS_EmptySet
    <3>3. SumOver(f, S, T) \in Nat
      BY <1>2, <2>3
    <3> HIDE DEF On
    <3>4. Good(T)
      BY <3>2, <3>3
    <3>5. QED BY <2>3, <3>4
  <2>5. CASE T # {}
    <3>1. PICK c \in T : TRUE
      BY <2>5
    <3> DEFINE V == T \ {c}
               C == {a \in A : p[a] = c}
    <3>2. V \in SUBSET S /\ V \subseteq T /\ V # T /\ c \in S
      BY <2>3, <3>1
    <3>3. Good(V)
      <4>1. V \notin Bad
        BY <2>2, <3>2
      <4> HIDE DEF Good, V
      <4>2. QED BY <3>2, <4>1
    <3>4. On(T) = On(V) \cup C
      BY <3>1
    <3>5. IsFiniteSet(C) /\ Cardinality(C) \in Nat
      <4>1. C \subseteq A
        OBVIOUS
      <4> HIDE DEF C
      <4>2. QED BY <4>1, FS_Subset, FS_CardinalityType
    <3>6. SumOver(f, S, T) = f[c] + SumOver(f, S, V)
      BY <2>3, <3>1, SumPart
    <3>7. Cardinality(C) <= f[c] /\ f[c] \in Nat
      BY <3>2
    <3>8. SumOver(f, S, V) \in Nat /\ SumOver(f, S, T) \in Nat
      BY <1>2, <2>3, <3>2
    <3> DEFINE both == On(V) \cap C
    <3> HIDE DEF C, V, On
    <3>9. IsFiniteSet(both)
      BY <3>5, FS_Subset
    <3>10. Cardinality(both) \in Nat
      BY <3>9, FS_CardinalityType
    <3>11. Cardinality(On(T)) = Cardinality(On(V)) + Cardinality(C) - Cardinality(both)
      BY <1>1, <3>4, <3>5, FS_Union
    <3>12. Good(T)
      <4> HIDE DEF both
      <4>1. QED BY <1>1, <3>3, <3>5, <3>6, <3>7, <3>8, <3>10, <3>11
    <3>13. QED BY <2>3, <3>12
  <2>6. QED BY <2>4, <2>5
<1>4. Good(S)
  <2>1. S \notin Bad /\ S \in SUBSET S
    BY <1>3
  <2> HIDE DEF Good
  <2>2. QED BY <2>1
<1>5. On(S) = A
  OBVIOUS
<1>6. QED BY <1>2, <1>4, <1>5

\* The sum of terms that are at most c is at most c for each of them.
LEMMA SumBound ==
  ASSUME NEW S, IsFiniteSet(S), NEW f \in [S -> Nat], NEW c \in Nat, \A x \in S : f[x] <= c
  PROVE  Sum(f, S) \in Nat /\ Sum(f, S) <= Cardinality(S) * c
<1> DEFINE Good(T) == SumOver(f, S, T) <= Cardinality(T) * c
           Bad == {T \in SUBSET S : ~Good(T)}
<1>1. /\ Sum(f, S) = SumOver(f, S, S)
      /\ SumOver(f, S, {}) = 0
      /\ \A T \in SUBSET S : SumOver(f, S, T) \in Nat
  <2>1. SumOver(f, S, {}) = 0
    BY SumRecursion
  <2>2. QED BY <2>1, SumRecursion, SumPart
<1>2. \A T \in SUBSET S : IsFiniteSet(T) /\ Cardinality(T) \in Nat
  BY FS_Subset, FS_CardinalityType
<1>3. Bad = {}
  <2>1. SUFFICES ASSUME Bad # {} PROVE FALSE
    BY Zenon
  <2>2. PICK T \in Bad : \A V \in Bad : V \subseteq T => V = T
    <3>1. Bad \subseteq SUBSET S
      OBVIOUS
    <3> HIDE DEF Bad
    <3>2. QED BY <2>1, <3>1, SmallestSubset
  <2>3. T \in SUBSET S /\ ~Good(T)
    BY <2>2
  <2>4. T # {}
    <3>1. Cardinality({}) * c = 0
      BY FS_EmptySet
    <3>2. Good({})
      BY <1>1, <3>1
    <3> HIDE DEF Good
    <3>3. QED BY <2>3, <3>2
  <2>5. PICK x \in T : TRUE
    BY <2>4
  <2> DEFINE V == T \ {x}
  <2>6. V \in SUBSET S /\ V \subseteq T /\ V # T /\ x \in S
    BY <2>3, <2>5
  <2>7. Good(V)
    <3>1. V \notin Bad
      BY <2>2, <2>6
    <3> HIDE DEF Good, V
    <3>2. QED BY <2>6, <3>1
  <2>8. SumOver(f, S, T) = f[x] + SumOver(f, S, V)
    BY <2>3, <2>5, SumPart
  <2>9. Cardinality(V) = Cardinality(T) - 1
    BY <1>2, <2>3, <2>5, FS_RemoveElement
  <2> HIDE DEF V
  <2>10. PICK k \in Nat : k = Cardinality(V) /\ k + 1 = Cardinality(T)
    BY <1>2, <2>3, <2>6, <2>9
  <2>11. PICK a \in Nat, b \in Nat, y \in Nat :
            a = SumOver(f, S, T) /\ b = SumOver(f, S, V) /\ y = f[x] /\ y <= c
    BY <1>1, <2>3, <2>6
  <2>12. a = y + b /\ b <= k * c /\ (k + 1) * c = k * c + c /\ k * c \in Nat
    BY <2>7, <2>8, <2>10, <2>11
  <2>13. a <= (k + 1) * c
    BY <2>11, <2>12
  <2>14. QED BY <2>3, <2>10, <2>11, <2>13
<1>4. Good(S)
  <2>1. S \notin Bad /\ S \in SUBSET S
    BY <1>3
  <2> HIDE DEF Good
  <2>2. QED BY <2>1
<1>5. QED BY <1>1, <1>4
=============================================================================
